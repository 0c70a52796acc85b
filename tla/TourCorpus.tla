----------------------------- MODULE TourCorpus -----------------------------
(***************************************************************************)
(* The .tours/ tree and the tools that write it: the generator that makes  *)
(* one tour for each scenario of a call-chain document (chain_tour.rs),    *)
(* the two that rewrite existing tours (tour_reanchor.rs, tour_upgrade.rs),*)
(* the manifest scan (tour_manifest.rs) and the delta arcs (tour.rs).  No  *)
(* lock keeps them apart.  The manifest is replaced by one rename, a tour  *)
(* is written in place.                                                    *)
(***************************************************************************)
EXTENDS Integers, FiniteSets, FiniteSetsExt

CONSTANTS
  Procs,                   \* the processes
  Ops,                     \* the tools they may run
  Families,                \* directories under .tours
  Stem,                    \* the family named after the document
  Scenes,                  \* the document's scenarios, numbered from 1
  Arcs, Dated,             \* delta arcs, and those whose name begins with a date
  MaxOps, MaxEdits, MaxMoves, MaxCrashes, MaxFails,
                           \* bounds: runs, edits of the document, source
                           \* moves, kills, and deletions that fail
  None

ASSUME TourCorpusAssumption ==
  /\ IsFiniteSet(Scenes) /\ Scenes = 1 .. Cardinality(Scenes)
  /\ Stem \in Families /\ Dated \subseteq Arcs
  /\ Ops \subseteq {"chain", "upgrade", "reanchor", "scan", "register", "materialize", "delta"}
  /\ {MaxOps, MaxEdits, MaxMoves, MaxCrashes, MaxFails} \subseteq Nat
ASSUME TourSentinelAssumption ==
  /\ None \notin Families \cup Arcs /\ None \notin Scenes /\ None \notin {"pending", "done"}
  /\ None \notin {"chain", "upgrade", "reanchor", "scan", "register", "materialize"}
  /\ None \notin [v : Nat, scene : Nat, at : Nat] \cup [gen : {"chain_tour", "manual"}, src : BOOLEAN]

Slots == Families \X Scenes              \* the tours NN.tour that may be there

VARIABLES
  md,           \* [v, live]: version, and the scenarios with a resolvable frame
  where,        \* the version of the source the anchors should point into
  file,         \* slot -> [v, scene, at], or None
  delta,        \* arc -> its tour is in .tours/delta
  manifest,     \* [row, arc]: slot -> [gen, src] or None; arc -> "pending", "done" or None
  pc, job,
  raced,        \* history: an overlap has undone what another process wrote
  budget

vars == <<md, where, file, delta, manifest, pc, job, raced, budget>>

Idle == [op |-> None, fam |-> None, plan |-> {}, tours |-> {}, v |-> 0, loaded |-> None,
         gone |-> {}, arc |-> None]

ByHand == [v |-> 0, scene |-> 0, at |-> 0]

Init ==
  /\ md \in [v : {1}, live : SUBSET Scenes] /\ where = 1
  /\ \E h \in SUBSET {<<Stem, Cardinality(Scenes)>>} :
       file = [s \in Slots |-> IF s \in h THEN ByHand ELSE None]
  /\ delta = [a \in Arcs |-> FALSE]
  /\ manifest = [row |-> [s \in Slots |-> None], arc |-> [a \in Arcs |-> None]]
  /\ pc = [p \in Procs |-> "idle"] /\ job = [p \in Procs |-> Idle] /\ raced = FALSE
  /\ budget = [ops |-> MaxOps, edits |-> MaxEdits, moves |-> MaxMoves,
               crashes |-> MaxCrashes, fails |-> MaxFails]

Spend(k) == budget[k] > 0 /\ budget' = [budget EXCEPT ![k] = @ - 1]
Go(p, to, j) == pc' = [pc EXCEPT ![p] = to] /\ job' = [job EXCEPT ![p] = j]
Quits(p) == Go(p, "idle", Idle)
Present == {s \in Slots : file[s] # None}
First(ss) == CHOOSE s \in ss : \A t \in ss : t[1] = s[1] => s[2] <= t[2]

EditMd(live) ==
  /\ Spend("edits") /\ live # md.live /\ md' = [v |-> md.v + 1, live |-> live]
  /\ UNCHANGED <<where, file, delta, manifest, pc, job, raced>>
MoveSource ==
  /\ Spend("moves") /\ where' = where + 1
  /\ UNCHANGED <<md, file, delta, manifest, pc, job, raced>>
Kill(p) ==
  /\ Spend("crashes") /\ pc[p] # "idle" /\ Quits(p)
  /\ UNCHANGED <<md, where, file, delta, manifest, raced>>

-----------------------------------------------------------------------------
(* The generator.                                                          *)

\* dup_family_decision: another family already has this document as source.
Feeding == {s[1] : s \in {t \in Slots : manifest.row[t] # None /\ manifest.row[t].src}}
FamilyOf(explicit) ==
  IF explicit = None /\ Feeding \ {Stem} # {} THEN Feeding \ {Stem}
  ELSE {IF explicit = None THEN Stem ELSE explicit}

\* Mutant: the number of the document, as before shells were left out.
WrittenByMd(scene) == scene
\* write_tours: the scenarios that are left are numbered anew.
Written(scene) == Cardinality({s \in md.live : s <= scene})

StartChain(p, explicit, primary) ==
  /\ pc[p] = "idle" /\ "chain" \in Ops /\ Spend("ops")
  /\ IF md.live = {} \/ (primary # None /\ primary \notin md.live)
     THEN UNCHANGED <<pc, job>>                         \* refused: nothing is written
     ELSE \E fam \in FamilyOf(explicit) :
            LET plan == {<<fam, Written(s)>> : s \in md.live} IN
            Go(p, "write", [Idle EXCEPT !.op = "chain", !.fam = fam, !.v = md.v, !.plan = plan,
                 !.tours = {[slot |-> <<fam, Written(s)>>,
                             body |-> [v |-> md.v, scene |-> s, at |-> where]] : s \in md.live}])
  /\ UNCHANGED <<md, where, file, delta, manifest, raced>>

-----------------------------------------------------------------------------
(* The tools that rewrite what is there: all tours are read first.         *)
StartRewrite(p, op) ==
  /\ pc[p] = "idle" /\ op \in {"upgrade", "reanchor"} \cap Ops /\ Spend("ops")
  /\ IF Present = {} THEN UNCHANGED <<pc, job>>
     ELSE Go(p, "write", [Idle EXCEPT !.op = op, !.plan = Present,
            !.tours = {[slot |-> s, body |-> [file[s] EXCEPT !.at = where], was |-> file[s]] :
                       s \in {t \in Present : op = "upgrade" \/ file[t].at \notin {0, where}}}])
  /\ UNCHANGED <<md, where, file, delta, manifest, raced>>

\* upgrade adds patterns, never coordinates; reanchor moves the lines.
Body(j, t) == IF j.op = "upgrade" THEN t.was ELSE t.body
\* A tour is written back that another process has replaced or deleted, or
\* a generator that read an older document writes over a newer tour.
Undoes(j, t) == IF j.op # "chain" THEN file[t.slot] # t.was
                ELSE file[t.slot] # None /\ file[t.slot].v > t.body.v

WriteTour(p) ==
  /\ pc[p] = "write" /\ job[p].tours # {}
  /\ LET j == job[p]  s == First({t.slot : t \in j.tours})
         t == CHOOSE u \in j.tours : u.slot = s IN
     /\ file' = [file EXCEPT ![s] = Body(j, t)]
     /\ raced' = (raced \/ Undoes(j, t))
     /\ Go(p, "write", [j EXCEPT !.tours = @ \ {t}])
  /\ UNCHANGED <<md, where, delta, manifest, budget>>

AfterTours(p) ==                         \* reanchor never touches the manifest
  /\ pc[p] = "write" /\ job[p].tours = {}
  /\ IF job[p].op = "reanchor" THEN Quits(p) ELSE Go(p, "load", job[p])
  /\ UNCHANGED <<md, where, file, delta, manifest, raced, budget>>

-----------------------------------------------------------------------------
(* Load, change, dump.                                                     *)
StartManifest(p, op, arc) ==
  /\ pc[p] = "idle" /\ op \in {"scan", "register", "materialize"} \cap Ops /\ Spend("ops")
  /\ (arc = None) <=> op = "scan"
  /\ Go(p, "load", [Idle EXCEPT !.op = op, !.arc = arc])
  /\ UNCHANGED <<md, where, file, delta, manifest, raced>>

Load(p) ==
  /\ pc[p] = "load"
  /\ LET j == [job[p] EXCEPT !.loaded = manifest] IN
     IF j.op = "materialize"
     THEN IF manifest.arc[j.arc] = None THEN Quits(p)    \* no provenance row
          ELSE Go(p, "build", j)
     ELSE Go(p, "dump", IF j.op = "scan" THEN [j EXCEPT !.plan = Present] ELSE j)
  /\ UNCHANGED <<md, where, file, delta, manifest, raced, budget>>

BuildFails(p) ==                         \* no snapshot, a stale one, git
  /\ pc[p] = "build" /\ Spend("fails") /\ Quits(p)
  /\ UNCHANGED <<md, where, file, delta, manifest, raced>>
WriteDelta(p) ==
  /\ pc[p] = "build" /\ delta' = [delta EXCEPT ![job[p].arc] = TRUE] /\ Go(p, "dump", job[p])
  /\ UNCHANGED <<md, where, file, manifest, raced, budget>>

\* The rows of this family, outside of what was written, that are the generator's.
Reconciled(j) == {s \in Slots : /\ s[1] = j.fam /\ s \notin j.plan
                                /\ j.loaded.row[s] # None /\ j.loaded.row[s].gen = "chain_tour"}
Row(j) == IF j.op = "upgrade" THEN [gen |-> "manual", src |-> FALSE]
          ELSE [gen |-> "chain_tour", src |-> j.op = "chain"]
Upserted(j, s) == j.op \in {"chain", "upgrade", "scan"} /\ s \in j.plan /\ (j.op = "scan" => j.loaded.row[s] = None)

Changed(j) ==
  CASE j.op \in {"chain", "upgrade", "scan"} ->
         [j.loaded EXCEPT !.row = [s \in Slots |->
            IF Upserted(j, s) THEN Row(j)
            ELSE IF j.op = "chain" /\ s \in Reconciled(j) THEN None ELSE @[s]]]
    [] j.op = "register" -> [j.loaded EXCEPT !.arc[j.arc] = "pending"]
    [] OTHER -> [j.loaded EXCEPT !.arc[j.arc] = "done"]

\* Mutant: the files go first.
DumpLast(p) ==
  /\ pc[p] = "dump"
  /\ LET j == job[p] IN
     IF j.op = "chain" /\ \E s \in Reconciled(j) : file[s] # None
     THEN /\ file' = [s \in Slots |-> IF s \in Reconciled(j) THEN None ELSE file[s]]
          /\ UNCHANGED <<manifest, raced, pc, job>>
     ELSE /\ manifest' = Changed(j) /\ raced' = (raced \/ manifest # j.loaded)
          /\ Quits(p) /\ UNCHANGED file
  /\ UNCHANGED <<md, where, delta, budget>>

Dump(p) ==
  /\ pc[p] = "dump"
  /\ LET j == job[p] IN
     /\ manifest' = Changed(j)
     /\ raced' = (raced \/ manifest # j.loaded         \* a lost update
                        \/ \E s \in Slots : Upserted(j, s) /\ file[s] = None)  \* gone since
     /\ IF j.op = "chain" THEN Go(p, "delete", [j EXCEPT !.gone = Reconciled(j)])
        ELSE Quits(p)
  /\ UNCHANGED <<md, where, file, delta, budget>>

Delete(p, fails) ==
  /\ pc[p] = "delete" /\ job[p].gone # {}
  /\ LET s == First(job[p].gone) IN
     /\ IF fails THEN Spend("fails") /\ UNCHANGED file
        ELSE file' = [file EXCEPT ![s] = None] /\ UNCHANGED budget
     /\ raced' = (raced \/ manifest.row[s] # None       \* written again since, or
                        \/ (file[s] # None /\ file[s].v > job[p].v))  \* being so
     /\ Go(p, "delete", [job[p] EXCEPT !.gone = @ \ {s}])
  /\ UNCHANGED <<md, where, delta, manifest>>
Deleted(p) ==
  /\ pc[p] = "delete" /\ job[p].gone = {} /\ Quits(p)
  /\ UNCHANGED <<md, where, file, delta, manifest, raced, budget>>

\* delta_tour's cleanup_expired: by the date in the name, whoever wrote it.
Cleanup(p) ==
  /\ pc[p] = "idle" /\ "delta" \in Ops /\ Spend("ops")
  /\ delta' = [a \in Arcs |-> delta[a] /\ a \notin Dated]
  /\ UNCHANGED <<md, where, file, manifest, pc, job, raced>>

Next ==
  \/ \E live \in SUBSET Scenes : EditMd(live)
  \/ MoveSource
  \/ \E p \in Procs :
       \/ \E x \in {None} \cup Families, s \in {None} \cup Scenes : StartChain(p, x, s)
       \/ \E op \in Ops : StartRewrite(p, op)
       \/ \E op \in Ops, a \in {None} \cup Arcs : StartManifest(p, op, a)
       \/ WriteTour(p) \/ AfterTours(p) \/ Load(p) \/ BuildFails(p) \/ WriteDelta(p) \/ Dump(p)
       \/ \E fails \in BOOLEAN : Delete(p, fails)
       \/ Deleted(p) \/ Cleanup(p) \/ Kill(p)

Spec == Init /\ [][Next]_vars

-----------------------------------------------------------------------------
(* What tour_validate fails on never comes from the tools alone: a row has *)
(* its tour, and a materialized arc its delta tour, whichever step a       *)
(* process is killed after and whichever deletion fails.  Four overlaps    *)
(* are excepted: a dump over a manifest that changed since it was loaded,  *)
(* a row for a tour deleted since it was read or written, a tour written   *)
(* over a newer one, and a deletion of a tour that has a row again or is   *)
(* of a newer document (chain_tour.rs run, tour_manifest dump, tour.rs     *)
(* materialize); and arcs named by a date.                                 *)
RowsHaveFiles ==
  raced \/ /\ \A s \in Slots : manifest.row[s] # None => file[s] # None
           /\ \A a \in Arcs \ Dated : manifest.arc[a] = "done" => delta[a]

(* The moment a generator's manifest is in place its family is as the      *)
(* document says, unless it was edited meanwhile: its live scenarios       *)
(* numbered without a gap, and no older tour of the generator keeps a row, *)
(* after any edits, kills and failed deletions before and whatever ran     *)
(* meanwhile, the overlaps above excepted (write_tours, the reconciliation *)
(* of run).                                                                *)
RegenerationReconciles ==
  [][\A p \in Procs : (pc[p] = "dump" /\ pc'[p] = "delete" /\ ~raced'
                        /\ job[p].v = md.v) =>
       LET j == job[p]
           Made(s) == file'[s] # None /\ file'[s].v = j.v
           N == Cardinality(md.live) IN
       /\ \A s \in Slots : s[1] = j.fam =>
            /\ s[2] <= N => Made(s) /\ manifest'.row[s] # None
            /\ manifest'.row[s] # None => Made(s) \/ manifest'.row[s].gen # "chain_tour"
       /\ md.live = {file'[s].scene : s \in {t \in Slots : t[1] = j.fam /\ Made(t)}}]_vars
=============================================================================
