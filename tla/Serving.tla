------------------------------ MODULE Serving ------------------------------
(***************************************************************************)
(* A query from its freshness stamp to its verdict: the staleness          *)
(* evaluation and its binding check, the sqlite cache and the spans        *)
(* sidecar it reads or rebuilds, the check after the load, and the tier it *)
(* announces (freshness.rs, cli.rs, cache.rs, fndefs.rs; the graph face of *)
(* graph_engine.rs).  Around it the source is edited, a build publishes    *)
(* index, meta and graph one after the other, and other queries rebuild    *)
(* the same files through the same temporary names.  How the build gets    *)
(* its certificate is DataPlane's business: here an index is the version   *)
(* of the source it was made of, and so is its hash.  Versions only grow:  *)
(* that the bytes return to an earlier value is what the code disclaims.   *)
(***************************************************************************)
EXTENDS Integers

CONSTANTS
  Called,       \* versions in which the queried function has a caller
  Queriers,     \* query processes, one query each
  Modes,        \* faces they ask: "refs", "callers", "graph"
  MaxEdits,     \* bound: edits of the source
  MaxPubs,      \* bound: publications
  MaxPeers,     \* bound: rebuilds by others
  MaxFaults,    \* bound: failed reads and writes, exceeded budgets
  None,         \* nothing
  Empty         \* what is read from tables without rows

ASSUME ServingAssumption ==
  /\ Called \subseteq Nat /\ {None, Empty} \cap (Nat \cup Queriers) = {}
  /\ Modes \subseteq {"refs", "callers", "graph"}
  /\ {MaxEdits, MaxPubs, MaxPeers, MaxFaults} \subseteq Nat
ASSUME ServingSentinelAssumption ==
  /\ None # Empty /\ None \notin {"refs", "callers", "graph", "exact", "no-coverage"}
  /\ None \notin (Queriers \cup {None} \cup 0..MaxPubs) \X {"cache", "spans"}
  /\ None \notin [ident : Nat, bound : Nat] \cup [of : Nat, time : Nat, keyed : BOOLEAN]

Files  == {"cache", "spans"}       \* index.scip.db and index.scip.fndefs.db
\* By its maker: a query of ours, an earlier one, or another one after a publication.
Inodes == (Queriers \cup {None} \cup 0..MaxPubs) \X Files

VARIABLES
  src,          \* the version of the source
  slot,         \* the index: [of, time, touched], touched: edited since
  meta,         \* the stamp: [ident, bound], or None: a legacy slot
  graph,        \* graph.db: [of, time, keyed], keyed: it names its index
  pub,          \* the build: [pc, of]
  name, tmp,    \* the inode at each file's name, and at its temporary name
  ino,          \* inode -> [of, state, time]: "blank", "tables", "full", "old"
  pc, job,      \* each query's place and locals
  during,       \* history: the versions the source had while the query ran
  quiet,        \* history: nothing moved since the query began
  races,        \* history: the overlaps the code does not exclude
  budget        \* edits, publications and faults left

world == <<src, slot, meta, graph, pub>>
files == <<name, tmp, ino>>
hist  == <<during, quiet, races>>
vars  == <<world, files, pc, job, hist, budget>>

NoJob == [mode |-> None, try |-> 1,
          meta |-> None, lags |-> FALSE, newer |-> FALSE, src |-> None, hash |-> None,
          stamped |-> FALSE,
          file |-> "cache", load |-> None, made |-> None, conn |-> None,
          defs |-> None, spans |-> None, rows |-> None, graph |-> None, keyed |-> FALSE,
          tier |-> None, refused |-> FALSE]

Init ==
  /\ src = 0
  /\ slot = [of |-> 0, time |-> 0, touched |-> FALSE]
  /\ meta \in {None, [ident |-> 0, bound |-> 0]}
  /\ graph \in {None} \cup {[of |-> 0, time |-> 0, keyed |-> k] : k \in BOOLEAN}
  /\ pub = [pc |-> "idle", of |-> None]
  /\ name \in {[d \in Files |-> None], [d \in Files |-> <<None, d>>]}
  /\ tmp = [d \in Files |-> None]
  /\ \E s \in {"full", "old"} :        \* old: of an earlier schema or head
       ino = [i \in Inodes |-> [of |-> 0, state |-> IF i[1] = None THEN s ELSE "blank", time |-> 0]]
  /\ pc = [q \in Queriers |-> "idle"] /\ job = [q \in Queriers |-> NoJob]
  /\ during = [q \in Queriers |-> {}] /\ quiet = [q \in Queriers |-> TRUE] /\ races = {}
  /\ budget = [edits |-> MaxEdits, pubs |-> MaxPubs, peers |-> MaxPeers, faults |-> MaxFaults]

Active == {q \in Queriers : pc[q] \notin {"idle", "done"}}
Disturb(but) == quiet' = [q \in Queriers |-> quiet[q] /\ (q = but \/ pc[q] = "idle")]
Step(q, to, j) == pc' = [pc EXCEPT ![q] = to] /\ job' = [job EXCEPT ![q] = j]
Spend(k) == budget[k] > 0 /\ budget' = [budget EXCEPT ![k] = @ - 1]
Race(k, when) == races' = IF when THEN races \cup {k} ELSE races

(***************************************************************************)
(* The world: edits, and a build of the current source.                    *)
(***************************************************************************)
Edit ==
  /\ Spend("edits")
  /\ src' = src + 1 /\ slot' = [slot EXCEPT !.touched = TRUE]
  /\ during' = [q \in Queriers |-> IF q \in Active THEN during[q] \cup {src + 1} ELSE during[q]]
  /\ Disturb(None)
  /\ UNCHANGED <<meta, graph, pub, files, pc, job, races>>

PublishIndex ==                        \* the rename, right after the last recheck
  /\ pub.pc = "idle" /\ Spend("pubs")
  /\ slot' = [of |-> src, time |-> slot.time + 1, touched |-> FALSE]
  /\ pub' = [pc |-> "cache", of |-> src]
  /\ Disturb(None)
  /\ UNCHANGED <<src, meta, graph, files, pc, job, during, races>>

\* A rebuild of the file is under way.
Filling(d) == {q \in Queriers : pc[q] \in {"clear", "make", "tables", "fill", "rename"}
                                /\ job[q].file = d}

Prune(d, next) ==
  /\ pub.pc = d
  /\ name' = [name EXCEPT ![d] = None]
  /\ pub' = [pub EXCEPT !.pc = next]
  /\ Race("prune", Filling(d) # {}) /\ Disturb(None)
  /\ UNCHANGED <<src, slot, meta, graph, tmp, ino, pc, job, during, budget>>

StampMeta ==
  /\ pub.pc = "stamp" /\ pub' = [pub EXCEPT !.pc = "graph"] /\ Disturb(None)
  /\ \/ meta' = [ident |-> pub.of, bound |-> slot.of] /\ UNCHANGED budget
     \/ Spend("faults") /\ UNCHANGED meta
  /\ UNCHANGED <<src, slot, graph, files, pc, job, during, races>>

BuildGraph ==
  /\ pub.pc = "graph" /\ pub' = [pc |-> "idle", of |-> None] /\ Disturb(None)
  /\ \/ graph' = [of |-> slot.of, time |-> slot.time, keyed |-> TRUE] /\ UNCHANGED budget
     \/ Spend("faults") /\ UNCHANGED graph
  /\ UNCHANGED <<src, slot, meta, files, pc, job, during, races>>

(***************************************************************************)
(* The stamp: evaluate_staleness read by read, or the snapshot lent by the *)
(* heal check, then the binding check; one retry.                          *)
(***************************************************************************)
Begin(q) ==
  /\ pc[q] = "idle"
  /\ \E m \in Modes : Step(q, "stat", [NoJob EXCEPT !.mode = m])
  /\ during' = [during EXCEPT ![q] = {src}]
  /\ UNCHANGED <<world, files, quiet, races, budget>>

StatPlane(q) ==                        \* meta, and the times of index and graph
  /\ pc[q] = "stat"
  /\ Step(q, IF meta = None THEN "bind" ELSE "walk",
          [job[q] EXCEPT !.meta = meta, !.newer = slot.touched,
                         !.lags = graph = None \/ graph.time < slot.time])
  /\ UNCHANGED <<world, files, hist, budget>>

HashSource(q) ==
  /\ pc[q] = "walk" /\ Step(q, "hash", [job[q] EXCEPT !.src = src])
  /\ UNCHANGED <<world, files, hist, budget>>

HashSlot(q) ==
  /\ pc[q] = "hash" /\ Step(q, "bind", [job[q] EXCEPT !.hash = slot.of])
  /\ UNCHANGED <<world, files, hist, budget>>

\* binding_matches: nothing to compare on a legacy slot.
Bound(j) == j.hash = None \/ meta = None \/ meta.bound = j.hash

Bind(q) ==
  /\ pc[q] = "bind"
  /\ LET j == job[q] IN
     IF ~Bound(j) /\ j.try = 1
     THEN Step(q, "stat", [j EXCEPT !.try = 2, !.src = None, !.hash = None])
     ELSE Step(q, "face", [j EXCEPT !.stamped = Bound(j), !.try = 1])
  /\ UNCHANGED <<world, files, hist, budget>>

BudgetExceeded(q) ==
  /\ pc[q] = "bind" /\ Spend("faults")
  /\ Step(q, "face", job[q])
  /\ quiet' = [quiet EXCEPT ![q] = FALSE]
  /\ UNCHANGED <<world, files, during, races>>

(***************************************************************************)
(* The ladder of open_face and of spans_source: no file, read the index;   *)
(* a fresh one, read it; a stale one, rebuild it; and on any failure read  *)
(* the index after all.                                                    *)
(***************************************************************************)
\* Where the ladder of the query's file ends: a connection, or an index.
Connected(q, j) == Step(q, "defs", [j EXCEPT !.conn = name[j.file], !.made = None])
Loaded(q, j) ==
  IF j.file = "cache" THEN Step(q, "defs", [j EXCEPT !.made = None])
  ELSE Step(q, "after", [j EXCEPT !.spans = j.load, !.made = None])
\* resolve_idx: the index the rows come from, where there is one.
Parse(j) == IF j.file = "spans" /\ j.conn = None THEN j ELSE [j EXCEPT !.load = slot.of]
ReadAt(i) == IF ino[i].state = "tables" THEN Empty ELSE ino[i].of
Unreadable(i) == ino[i].state = "blank"           \* no such table

Look(q) ==
  /\ pc[q] = "face" /\ job[q].mode # "graph"
  /\ IF name[job[q].file] = None
     THEN Loaded(q, Parse(job[q]))
     ELSE Step(q, "check", job[q])
  /\ UNCHANGED <<world, files, hist, budget>>

\* stale_reason and stale_sidecar_reason.
Stale(d) ==
  name[d] # None => ino[name[d]].time < slot.time \/ ino[name[d]].state # "full"

Check(q) ==
  /\ pc[q] = "check"
  /\ Step(q, IF Stale(job[q].file) THEN "load" ELSE "open", job[q])
  /\ UNCHANGED <<world, files, hist, budget>>

\* Another query, or scip_refs db, rebuilds a file, none of ours in the middle of it.
PeerRebuild(d) ==
  LET i == <<slot.time, d>> IN
  /\ Stale(d) /\ Filling(d) = {} /\ ino[i].state = "blank"
  /\ name' = [name EXCEPT ![d] = i] /\ tmp' = [tmp EXCEPT ![d] = None]
  /\ ino' = [ino EXCEPT ![i] = [of |-> slot.of, state |-> "full", time |-> slot.time]]
  /\ Disturb(None) /\ Spend("peers")
  /\ UNCHANGED <<world, pc, job, during, races>>

Open(q) ==
  /\ pc[q] = "open"
  /\ LET j == job[q]  i == name[j.file] IN
     CASE i # None /\ j.file = "cache" -> Connected(q, j)
       [] i # None /\ j.file = "spans" /\ ~Unreadable(i) ->
            Step(q, "after", [j EXCEPT !.spans = ReadAt(i)])
       [] i = None /\ j.file = "cache" -> Loaded(q, Parse(j))
       [] OTHER -> Step(q, "load", j)
  /\ UNCHANGED <<world, files, hist, budget>>

Load(q) ==                             \* an index in hand may be of an earlier slot
  /\ pc[q] = "load"
  /\ LET j == Parse(job[q])
         others == Filling(j.file) # {}
         late == j.load # slot.of
     IN /\ Step(q, "clear", j)
        /\ races' = races \cup {r \in {"fills"} : others} \cup {r \in {"prune"} : late}
  /\ UNCHANGED <<world, files, during, quiet, budget>>

ClearTemp(q) ==
  /\ pc[q] = "clear" /\ Step(q, "make", job[q])
  /\ tmp' = [tmp EXCEPT ![job[q].file] = None] /\ Disturb(q)
  /\ UNCHANGED <<world, name, ino, during, races, budget>>

OpenTemp(q) ==                         \* creates the file, or opens another's
  /\ pc[q] = "make"
  /\ LET d == job[q].file
         i == IF tmp[d] = None THEN <<q, d>> ELSE tmp[d]
     IN /\ Step(q, "tables", [job[q] EXCEPT !.made = i])
        /\ tmp' = [tmp EXCEPT ![d] = i]
  /\ Disturb(q)
  /\ UNCHANGED <<world, name, ino, during, races, budget>>

\* sqlite opens no journal for a file that is no longer at its name.
Moved(q) == tmp[job[q].file] # job[q].made

CreateTables(q) ==                     \* fails on tables that exist
  /\ pc[q] = "tables"
  /\ LET i == job[q].made IN
     IF ino[i].state = "blank" /\ ~Moved(q)
     THEN Step(q, "fill", job[q]) /\ ino' = [ino EXCEPT ![i].state = "tables"]
     ELSE Loaded(q, job[q]) /\ UNCHANGED ino
  /\ Disturb(q)
  /\ UNCHANGED <<world, name, tmp, during, races, budget>>

Commit(q) ==                           \* the journal was open before it moved, or not
  /\ pc[q] = "fill"
  /\ \/ /\ Step(q, "rename", job[q])
        /\ ino' = [ino EXCEPT ![job[q].made] =
                     [of |-> job[q].load, state |-> "full", time |-> slot.time]]
     \/ Moved(q) /\ Loaded(q, job[q]) /\ UNCHANGED ino
  /\ Disturb(q)
  /\ UNCHANGED <<world, name, tmp, during, races, budget>>

Rename(q) ==                           \* whatever is at the temporary name
  /\ pc[q] = "rename"
  /\ LET d == job[q].file IN
     IF tmp[d] = None THEN Loaded(q, job[q]) /\ UNCHANGED <<name, tmp>>
     ELSE /\ Step(q, "reopen", job[q])
          /\ name' = [name EXCEPT ![d] = tmp[d]] /\ tmp' = [tmp EXCEPT ![d] = None]
  /\ Disturb(q)
  /\ UNCHANGED <<world, ino, during, races, budget>>

Reopen(q) ==                           \* not judged again
  /\ pc[q] = "reopen"
  /\ LET j == job[q]  i == name[j.file] IN
     CASE i # None /\ j.file = "cache" -> Connected(q, j)
       [] i # None /\ j.file = "spans" /\ ~Unreadable(i) ->
            Step(q, "after", [j EXCEPT !.spans = ReadAt(i)])
       [] OTHER -> Loaded(q, j)
  /\ UNCHANGED <<world, files, hist, budget>>

(***************************************************************************)
(* The reads of the query, the check after the load, the verdict.          *)
(***************************************************************************)
\* After the definitions: the rows of a refs query, the spans of a callers one.
NextRead(j) ==
  IF j.defs = Empty THEN "after" ELSE IF j.mode = "refs" THEN "rows" ELSE "face"

Defs(q) ==                             \* a failed query parses the index instead
  /\ pc[q] = "defs"
  /\ LET j == job[q]
         Got(k) == Step(q, NextRead(k), [k EXCEPT !.file = "spans"])
         Again == Got([j EXCEPT !.conn = None, !.load = slot.of, !.defs = slot.of])
     IN \/ j.conn = None /\ Got([j EXCEPT !.defs = j.load]) /\ UNCHANGED budget
        \/ /\ j.conn # None /\ ~Unreadable(j.conn)
           /\ Got([j EXCEPT !.defs = ReadAt(j.conn)]) /\ UNCHANGED budget
        \/ /\ j.conn # None /\ Again
           /\ IF Unreadable(j.conn) THEN UNCHANGED budget ELSE Spend("faults")
  /\ UNCHANGED <<world, files, hist>>

Rows(q) ==                             \* refs reads the definitions again as well
  /\ pc[q] = "rows"
  /\ LET j == job[q]
         Got(k) == Step(q, IF k.mode = "refs" THEN "after" ELSE "verdict", k)
     IN \/ /\ Got([j EXCEPT !.rows = IF j.conn = None THEN j.load ELSE ReadAt(j.conn)])
           /\ UNCHANGED <<races, budget>>
        \/ /\ j.conn # None /\ Spend("faults")
           /\ IF j.mode = "refs"
              THEN Got([j EXCEPT !.defs = slot.of, !.rows = slot.of]) /\ UNCHANGED races
              ELSE Got([j EXCEPT !.rows = slot.of]) /\ Race("reload", slot.of # j.defs)
  /\ UNCHANGED <<world, files, during, quiet>>

\* The index is there and its own meta is not, yet or for good.
InWindow == pub.pc \notin {"idle", "graph"} \/ (meta # None /\ meta.bound # slot.of)

\* Mutant: the meta is not read again once the bytes are loaded.
AfterLoadTrusts(q) ==
  /\ pc[q] = "after"
  /\ LET j == job[q] IN
     Step(q, IF j.mode = "callers" /\ j.defs # Empty THEN "rows" ELSE "verdict", j)
  /\ Race("window", InWindow)
  /\ UNCHANGED <<world, files, during, quiet, budget>>

AfterLoad(q) ==                        \* stamp_after_load
  /\ pc[q] = "after"
  /\ LET j == job[q] IN
     Step(q, IF j.mode = "callers" /\ j.defs # Empty THEN "rows" ELSE "verdict",
          [j EXCEPT !.stamped = @ /\ Bound(j)])
  /\ Race("window", InWindow)
  /\ UNCHANGED <<world, files, during, quiet, budget>>

OpenGraph(q) ==                        \* rows and provenance over one connection
  /\ pc[q] = "face" /\ job[q].mode = "graph"
  /\ IF graph = None THEN Step(q, "done", job[q])
     ELSE Step(q, "verdict", [job[q] EXCEPT !.graph = graph.of, !.keyed = graph.keyed])
  /\ UNCHANGED <<world, files, hist, budget>>

Drift(j) == j.src # j.meta.ident \/ j.hash # j.meta.bound

\* Mutant: a lagging graph makes the index's faces stale, as it once did.
SourceStaleByGraph(j) == j.lags \/ (IF j.meta = None THEN j.newer ELSE Drift(j))

\* needs_source_rebuild; with the graph's lag it is needs_rebuild.
SourceStale(j) == IF j.meta = None THEN j.newer ELSE Drift(j)
RebuildNeeded(j) == SourceStale(j) \/ j.lags

\* delta_face: a delta against the manifest of the very bytes served.
DeltaAnswered(j) == j.meta # None /\ j.hash = j.meta.bound

EdgesEmpty(j) == j.spans = Empty \/ j.rows = Empty \/ j.rows \notin Called

ScipVerdict(j) ==
  LET none == j.mode = "callers" /\ j.defs # Empty /\ EdgesEmpty(j) IN
  CASE ~j.stamped -> [tier |-> "indeterminate", refused |-> FALSE]
    [] j.stamped /\ SourceStale(j) /\ none ->
         [tier |-> IF DeltaAnswered(j) THEN "possibly-stale" ELSE "indeterminate", refused |-> TRUE]
    [] OTHER ->
         [tier |-> CASE ~DeltaAnswered(j) -> "indeterminate"
                     [] DeltaAnswered(j) /\ j.defs = Empty -> "no-coverage"
                     [] DeltaAnswered(j) /\ j.defs # Empty /\ SourceStale(j) -> "possibly-stale"
                     [] OTHER -> "exact",
          refused |-> FALSE]

\* A gated operation with an empty result, on a stale plane, is refused.
GraphVerdict(j) ==
  LET stale == RebuildNeeded(j)
      refused == stale /\ j.graph \notin Called
      known == DeltaAnswered(j) /\ (j.keyed \/ refused)
      unbound == ~j.stamped \/ (j.keyed /\ j.hash \notin {None, j.graph})
  IN [tier |-> CASE unbound \/ ~known -> "indeterminate"
                 [] ~unbound /\ known /\ stale -> "possibly-stale"
                 [] ~unbound /\ known /\ ~stale -> "exact",
      refused |-> ~unbound /\ refused]

Verdict(q) ==
  /\ pc[q] = "verdict"
  /\ LET j == job[q]
         v == IF j.mode = "graph" THEN GraphVerdict(j) ELSE ScipVerdict(j)
     IN Step(q, "done",
             [NoJob EXCEPT !.mode = j.mode, !.tier = v.tier, !.refused = v.refused,
                           !.defs = j.defs, !.spans = j.spans, !.rows = j.rows, !.graph = j.graph])
  /\ UNCHANGED <<world, files, hist, budget>>

Query(q) ==
  \/ Begin(q) \/ StatPlane(q) \/ HashSource(q) \/ HashSlot(q) \/ Bind(q) \/ BudgetExceeded(q)
  \/ Look(q) \/ Check(q) \/ Open(q) \/ Load(q)
  \/ ClearTemp(q) \/ OpenTemp(q) \/ CreateTables(q) \/ Commit(q) \/ Rename(q) \/ Reopen(q)
  \/ Defs(q) \/ Rows(q) \/ AfterLoad(q) \/ OpenGraph(q) \/ Verdict(q)

Build == PublishIndex \/ Prune("cache", "spans") \/ Prune("spans", "stamp") \/ StampMeta \/ BuildGraph

World == Edit \/ Build \/ \E d \in Files : PeerRebuild(d)

\* Bound: the world stops with the last query.
Next ==
  \/ (\E q \in Queriers : pc[q] # "done") /\ World
  \/ \E q \in Queriers : Query(q)

Spec == Init /\ [][Next]_vars

-----------------------------------------------------------------------------
(* The answer is that of one version the source had while the query ran. *)
True(q) ==
  LET j == job[q] IN
  \E v \in during[q] :
    CASE j.mode = "graph"   -> j.graph = v
      [] j.mode = "refs"    -> j.defs = v /\ j.rows = v
      [] j.mode = "callers" -> j.defs = v /\ j.spans = v /\ j.rows = v

Certain(q) == pc[q] = "done" /\ job[q].tier \in {"exact", "no-coverage"}

(* What a query calls exact, or without definitions (no-coverage), is so:  *)
(* rows and spans are of one version of the source, current while it ran,  *)
(* although edits, a publication and rebuilds by others fall between its   *)
(* steps (serving_stamp, stamp_after_load).                                *)
ExactIsTrue == \A q \in Queriers : Certain(q) => True(q)

(* The same, but for the overlaps that the code does not exclude: two      *)
(* rebuilds of one file, a rebuild around a prune, a last check between an *)
(* index and its meta, and an index parsed again after it.                 *)
ExactUnlessRaced == races = {} => ExactIsTrue

(* "Atomicity itself is guaranteed by tmp+rename" (build_db): a query over *)
(* a plane that was certified for it answers nothing, no-coverage either,  *)
(* from a file that a rebuild has only begun.                              *)
RebuildIsAtomic ==
  \A q \in Queriers : Certain(q) => Empty \notin {job[q].defs, job[q].spans, job[q].rows}

(* A query that nothing disturbed, over an index certified for the present *)
(* source, is exact and says so: a graph left behind by a failed build     *)
(* never weakens the faces that do not read it (needs_source_rebuild).     *)
SettledIsExact ==
  \A q \in Queriers :
    (/\ pc[q] = "done" /\ quiet[q]
     /\ meta # None /\ meta.ident = src /\ meta.bound = slot.of
     /\ job[q].mode = "graph" =>
          graph # None /\ graph.of = src /\ graph.keyed /\ graph.time >= slot.time)
    => job[q].tier = "exact" /\ (races = {} => True(q))
=============================================================================
