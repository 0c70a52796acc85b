---------------------------- MODULE Serving_proof ----------------------------
(***************************************************************************)
(* Proofs about Serving, for any queries, publications, edits and rebuilds *)
(* by others: what a query calls exact is true of one version the source   *)
(* had while it ran, and an undisturbed query over a settled plane says    *)
(* exact.                                                                  *)
(***************************************************************************)
EXTENDS Serving, TLAPS

Places == {"idle", "stat", "walk", "hash", "bind", "face", "check", "open", "load", "clear", "make",
           "tables", "fill", "rename", "reopen", "defs", "rows", "after", "verdict", "done"}
FillPC == {"clear", "make", "tables", "fill", "rename"}
Metas  == [ident : Nat, bound : Nat]
Graphs == [of : Nat, time : Nat, keyed : BOOLEAN]
Reads  == Nat \cup {None, Empty}
Tiers  == {"exact", "no-coverage", "possibly-stale", "indeterminate"}
Jobs == [mode : Modes \cup {None}, try : {1, 2},
         meta : Metas \cup {None}, lags : BOOLEAN, newer : BOOLEAN,
         src : Nat \cup {None}, hash : Nat \cup {None}, stamped : BOOLEAN,
         file : Files, load : Nat \cup {None}, made : Inodes \cup {None}, conn : Inodes \cup {None},
         defs : Reads, spans : Reads, rows : Reads, graph : Nat \cup {None}, keyed : BOOLEAN,
         tier : Tiers \cup {None}, refused : BOOLEAN]

\* Every variable holds what the code can put in it.
ServingTypes ==
  /\ src \in Nat /\ slot \in [of : Nat, time : Nat, touched : BOOLEAN]
  /\ meta \in Metas \cup {None} /\ graph \in Graphs \cup {None}
  /\ pub \in [pc : {"idle", "cache", "spans", "stamp", "graph"}, of : Nat \cup {None}]
  /\ pub.pc # "idle" => pub.of # None
  /\ name \in [Files -> Inodes \cup {None}] /\ tmp \in [Files -> Inodes \cup {None}]
  /\ \A d \in Files : (name[d] # None => name[d][2] = d) /\ (tmp[d] # None => tmp[d][2] = d)
  /\ ino \in [Inodes -> [of : Nat, state : {"blank", "tables", "full", "old"}, time : Nat]]
  /\ pc \in [Queriers -> Places] /\ job \in [Queriers -> Jobs]
  /\ during \in [Queriers -> SUBSET Nat] /\ quiet \in [Queriers -> BOOLEAN]
  /\ races \in SUBSET {"prune", "fills", "window", "reload"}
  /\ budget \in [edits : Nat, pubs : Nat, peers : Nat, faults : Nat]
  /\ slot.time + budget.pubs = MaxPubs

LEMMA NoneFacts ==
  /\ None \notin Nat /\ Empty \notin Nat /\ None # Empty /\ None \notin Queriers
  /\ None \notin Inodes /\ None \notin Metas /\ None \notin Graphs /\ None \notin Modes
<1>1. None \notin Nat /\ Empty \notin Nat /\ None # Empty /\ None \notin Queriers /\ None \notin Modes
  BY ServingAssumption, ServingSentinelAssumption
<1>2. None \notin Metas /\ None \notin Graphs
  BY ServingSentinelAssumption DEF Metas, Graphs
<1>3. None \notin Inodes
  BY ServingSentinelAssumption, Zenon DEF Inodes, Files
<1> QED
  BY <1>1, <1>2, <1>3

LEMMA InodeFacts ==
  /\ \A q \in Queriers, d \in Files : <<q, d>> \in Inodes /\ <<q, d>>[2] = d
  /\ \A t \in 0..MaxPubs, d \in Files : <<t, d>> \in Inodes /\ <<t, d>>[2] = d
  /\ \A d \in Files : <<None, d>> \in Inodes /\ <<None, d>>[2] = d
BY DEF Inodes

\* A step of q, the others staying where they are.
LEMMA StepFacts ==
  ASSUME ServingTypes, NEW q \in Queriers, NEW to, NEW j, Step(q, to, j)
  PROVE  /\ pc'[q] = to /\ job'[q] = j
         /\ \A r \in Queriers \ {q} : pc'[r] = pc[r] /\ job'[r] = job[r]
         /\ to \in Places => pc' \in [Queriers -> Places]
         /\ j \in Jobs => job' \in [Queriers -> Jobs]
BY DEF ServingTypes, Step

LEMMA SpendFacts ==
  ASSUME ServingTypes, NEW k \in {"edits", "pubs", "peers", "faults"}, Spend(k)
  PROVE  /\ budget' \in [edits : Nat, pubs : Nat, peers : Nat, faults : Nat]
         /\ budget'.pubs = IF k = "pubs" THEN budget.pubs - 1 ELSE budget.pubs
         /\ budget[k] > 0
<1>1. CASE k = "edits"
  BY <1>1 DEF ServingTypes, Spend
<1>2. CASE k = "pubs"
  BY <1>2 DEF ServingTypes, Spend
<1>3. CASE k = "peers"
  BY <1>3 DEF ServingTypes, Spend
<1>4. CASE k = "faults"
  BY <1>4 DEF ServingTypes, Spend
<1> QED
  BY <1>1, <1>2, <1>3, <1>4

\* Two locals of a query that differ in what it has in hand.
SameJudgement(j, k) ==
  /\ k.mode = j.mode /\ k.try = j.try /\ k.meta = j.meta /\ k.lags = j.lags /\ k.newer = j.newer
  /\ k.src = j.src /\ k.hash = j.hash /\ k.stamped = j.stamped /\ k.tier = j.tier

LEMMA ParseFacts ==
  ASSUME ServingTypes, NEW j \in Jobs
  PROVE  /\ Parse(j) \in Jobs /\ SameJudgement(j, Parse(j))
         /\ Parse(j).file = j.file /\ Parse(j).conn = j.conn
         /\ Parse(j).defs = j.defs /\ Parse(j).spans = j.spans /\ Parse(j).rows = j.rows
         /\ Parse(j).load = IF j.file = "spans" /\ j.conn = None THEN j.load ELSE slot.of
<1>1. slot.of \in Nat
  BY DEF ServingTypes
<1>2. [j EXCEPT !.load = slot.of] \in Jobs
  BY <1>1 DEF Jobs
<1>3. CASE j.file = "spans" /\ j.conn = None
  BY <1>3 DEF Parse, SameJudgement
<1>4. CASE ~(j.file = "spans" /\ j.conn = None)
  BY <1>2, <1>4 DEF Parse, SameJudgement, Jobs
<1> QED
  BY <1>3, <1>4

LEMMA NoJobFacts == NoJob \in Jobs /\ \A m \in Modes : [NoJob EXCEPT !.mode = m] \in Jobs
<1>1. NoJob \in Jobs
  BY DEF NoJob, Jobs, Files, Reads
<1>2. ASSUME NEW m \in Modes PROVE [NoJob EXCEPT !.mode = m] \in Jobs
  BY <1>1 DEF Jobs
<1> QED
  BY <1>1, <1>2

---------------------------------------------------------------------------
(* The steps of a query, by what they do to its locals.                    *)

\* What the next steps of q read of its locals is there.
Ladder == {"face", "check", "open", "load", "reopen"} \cup FillPC
Equipped(q) ==
  LET j == job[q] IN
  /\ pc[q] \notin {"idle", "done"} => j.mode \in Modes
  /\ pc[q] \notin {"idle", "done"} /\ j.mode = "graph" =>
        j.load = None /\ j.conn = None /\ j.file = "cache"
  /\ pc[q] \in Ladder /\ j.file = "spans" => j.mode = "callers"
  /\ pc[q] \in FillPC \cup {"reopen"} => j.load # None
  /\ pc[q] \in {"tables", "fill", "rename"} => j.made # None /\ j.made[2] = j.file
  /\ pc[q] \in {"stat", "walk", "hash", "bind"} =>
        j.load = None /\ j.conn = None /\ j.file = "cache"
  /\ pc[q] \in {"defs", "rows", "after"} \/ (pc[q] \in Ladder /\ j.file = "spans") =>
        j.conn # None \/ j.load # None
  /\ pc[q] \in (Ladder \ {"face"}) \cup {"defs", "rows", "after"} => j.mode # "graph"
  /\ pc[q] \in {"rows", "after"} => j.file = "spans"
  /\ pc[q] = "verdict" /\ j.mode # "graph" => j.file = "spans"
EquippedInv == \A q \in Queriers : Equipped(q)

SameReads(j, k) ==
  /\ k.file = j.file /\ k.load = j.load /\ k.conn = j.conn /\ k.made = j.made
  /\ k.defs = j.defs /\ k.spans = j.spans /\ k.rows = j.rows
Own(q) ==
  /\ \A r \in Queriers \ {q} : pc'[r] = pc[r] /\ job'[r] = job[r]
  /\ pc' \in [Queriers -> Places] /\ job' \in [Queriers -> Jobs]

Begins(q) ==
  LET k == job'[q] IN
  /\ pc[q] = "idle" /\ pc'[q] = "stat"
  /\ k.mode \in Modes /\ k.meta = None /\ k.src = None /\ k.hash = None /\ k.stamped = FALSE /\ k.tier = None
  /\ k.file = "cache" /\ k.load = None /\ k.conn = None
  /\ k.defs = None /\ k.spans = None /\ k.rows = None
  /\ during' = [during EXCEPT ![q] = {src}]
  /\ UNCHANGED <<world, files, quiet, races>>

\* One of the reads of the evaluation, or its binding check.
Evaluates(q) ==
  LET j == job[q]  k == job'[q] IN
  /\ k.mode = j.mode /\ k.tier = j.tier /\ SameReads(j, k)
  /\ UNCHANGED <<world, files, during, races>>
  /\ \/ /\ pc[q] = "stat" /\ pc'[q] = IF meta = None THEN "bind" ELSE "walk"
        /\ k.meta = meta /\ (k.lags <=> graph = None \/ graph.time < slot.time)
        /\ k.src = j.src /\ k.hash = j.hash /\ k.stamped = j.stamped /\ UNCHANGED quiet
     \/ /\ pc[q] = "walk" /\ pc'[q] = "hash" /\ k.src = src
        /\ k.meta = j.meta /\ k.lags = j.lags /\ k.hash = j.hash /\ k.stamped = j.stamped /\ UNCHANGED quiet
     \/ /\ pc[q] = "hash" /\ pc'[q] = "bind" /\ k.hash = slot.of
        /\ k.meta = j.meta /\ k.lags = j.lags /\ k.src = j.src /\ k.stamped = j.stamped /\ UNCHANGED quiet
     \/ /\ pc[q] = "bind" /\ pc'[q] = "stat" /\ ~Bound(j) /\ k.src = None /\ k.hash = None
        /\ k.meta = j.meta /\ k.lags = j.lags /\ k.stamped = j.stamped /\ UNCHANGED quiet
     \/ /\ pc[q] = "bind" /\ pc'[q] = "face" /\ k.meta = j.meta /\ k.lags = j.lags
        /\ k.src = j.src /\ k.hash = j.hash
        /\ \/ (k.stamped <=> Bound(j)) /\ UNCHANGED quiet
           \/ k.stamped = j.stamped /\ quiet' = [quiet EXCEPT ![q] = FALSE]

\* A step of the ladder that takes nothing.
Climbs(q) ==
  /\ job'[q] = job[q] /\ UNCHANGED <<world, files, hist>>
  /\ \/ pc[q] = "face" /\ pc'[q] = "check" /\ job[q].mode # "graph"
     \/ pc[q] = "check" /\ pc'[q] = "load"
     \/ pc[q] = "check" /\ pc'[q] = "open" /\ ~Stale(job[q].file)
     \/ pc[q] = "open" /\ pc'[q] = "load" /\ job[q].file = "spans"
           /\ (name["spans"] # None => Unreadable(name["spans"]))

\* It ends at a connection, ...
Connects(q) ==
  LET j == job[q]  k == job'[q] IN
  /\ pc[q] \in {"open", "reopen"} /\ pc'[q] = "defs" /\ j.file = "cache" /\ name["cache"] # None
  /\ SameJudgement(j, k) /\ k.conn = name["cache"] /\ k.file = j.file /\ k.load = j.load
  /\ k.defs = j.defs /\ k.spans = j.spans /\ k.rows = j.rows
  /\ UNCHANGED <<world, files, hist>>

\* ... at the spans of a file, ...
Spans(q) ==
  LET j == job[q]  k == job'[q]  i == name["spans"] IN
  /\ pc[q] \in {"open", "reopen"} /\ pc'[q] = "after" /\ j.file = "spans"
  /\ i # None /\ ~Unreadable(i)
  /\ SameJudgement(j, k) /\ k.spans = ReadAt(i) /\ k.file = j.file /\ k.load = j.load /\ k.conn = j.conn
  /\ k.defs = j.defs /\ k.rows = j.rows
  /\ UNCHANGED <<world, files, hist>>

\* ... or at an index, the one in hand or the one that is there.
Falls(q) ==
  LET j == job[q]  k == job'[q] IN
  /\ \/ pc[q] \in {"face", "open"} /\ k.load = (IF j.file = "spans" /\ j.conn = None THEN j.load ELSE slot.of)
        /\ j.mode # "graph" /\ UNCHANGED quiet
     \/ pc[q] \in {"tables", "fill", "rename"} /\ k.load = j.load /\ Disturb(q)
        /\ (pc[q] = "tables" => ino[j.made].state # "blank" \/ Moved(q))
        /\ (pc[q] = "fill" => Moved(q)) /\ (pc[q] = "rename" => tmp[j.file] = None)
     \/ pc[q] = "reopen" /\ k.load = j.load /\ UNCHANGED quiet
        /\ (name[j.file] # None => Unreadable(name[j.file]))
  /\ pc'[q] = (IF j.file = "cache" THEN "defs" ELSE "after")
  /\ k.spans = (IF j.file = "cache" THEN j.spans ELSE k.load)
  /\ SameJudgement(j, k) /\ k.file = j.file /\ k.conn = j.conn /\ k.defs = j.defs /\ k.rows = j.rows
  /\ UNCHANGED <<world, files, during, races>>

\* A rebuild of a file.
Rebuilds(q) ==
  LET j == job[q]  k == job'[q]  d == j.file  i == k.made IN
  /\ SameJudgement(j, k) /\ k.file = j.file /\ k.conn = j.conn
  /\ k.defs = j.defs /\ k.spans = j.spans /\ k.rows = j.rows
  /\ UNCHANGED <<world, during>>
  /\ \/ /\ pc[q] = "load" /\ pc'[q] = "clear"
        /\ k.load = (IF j.file = "spans" /\ j.conn = None THEN j.load ELSE slot.of)
        /\ races' = {} => races = {} /\ Filling(d) = {} /\ k.load = slot.of
        /\ UNCHANGED <<files, quiet>>
     \/ /\ pc[q] = "clear" /\ pc'[q] = "make" /\ k.load = j.load
        /\ tmp' = [tmp EXCEPT ![d] = None] /\ Disturb(q) /\ UNCHANGED <<name, ino, races>>
     \/ /\ pc[q] = "make" /\ pc'[q] = "tables" /\ k.load = j.load
        /\ i = (IF tmp[d] = None THEN <<q, d>> ELSE tmp[d])
        /\ tmp' = [tmp EXCEPT ![d] = i] /\ Disturb(q) /\ UNCHANGED <<name, ino, races>>
     \/ /\ pc[q] = "tables" /\ pc'[q] = "fill" /\ k.load = j.load /\ i = j.made
        /\ ino[i].state = "blank" /\ ~Moved(q)
        /\ ino' = [ino EXCEPT ![i].state = "tables"] /\ Disturb(q) /\ UNCHANGED <<name, tmp, races>>
     \/ /\ pc[q] = "fill" /\ pc'[q] = "rename" /\ k.load = j.load /\ i = j.made
        /\ ino' = [ino EXCEPT ![i] = [of |-> j.load, state |-> "full", time |-> slot.time]]
        /\ Disturb(q) /\ UNCHANGED <<name, tmp, races>>
     \/ /\ pc[q] = "rename" /\ pc'[q] = "reopen" /\ k.load = j.load /\ i = j.made /\ tmp[d] # None
        /\ name' = [name EXCEPT ![d] = tmp[d]] /\ tmp' = [tmp EXCEPT ![d] = None]
        /\ Disturb(q) /\ UNCHANGED <<ino, races>>

\* The definitions, and the rows.
Reads1(q, v) ==
  LET j == job[q]  k == job'[q] IN
  \/ j.conn = None /\ v = j.load /\ k.load = j.load /\ k.conn = j.conn
  \/ j.conn # None /\ ~Unreadable(j.conn) /\ v = ReadAt(j.conn) /\ k.load = j.load /\ k.conn = j.conn
Defines(q) ==
  LET j == job[q]  k == job'[q] IN
  /\ pc[q] = "defs" /\ pc'[q] = NextRead(k) /\ SameJudgement(j, k) /\ k.file = "spans"
  /\ k.spans = j.spans /\ k.rows = j.rows
  /\ Reads1(q, k.defs) \/ (k.conn = None /\ k.load = slot.of /\ k.defs = slot.of)
  /\ UNCHANGED <<world, files, hist>>
Collects(q) ==
  LET j == job[q]  k == job'[q] IN
  /\ pc[q] = "rows" /\ pc'[q] = (IF j.mode = "refs" THEN "after" ELSE "verdict")
  /\ SameJudgement(j, k) /\ k.file = j.file /\ k.spans = j.spans /\ k.load = j.load /\ k.conn = j.conn
  /\ \/ k.rows = (IF j.conn = None THEN j.load ELSE ReadAt(j.conn)) /\ k.defs = j.defs /\ UNCHANGED races
     \/ j.mode = "refs" /\ k.defs = slot.of /\ k.rows = slot.of /\ UNCHANGED races
     \/ j.mode # "refs" /\ k.defs = j.defs /\ k.rows = slot.of
        /\ (races' = {} => races = {} /\ slot.of = j.defs)
  /\ UNCHANGED <<world, files, during, quiet>>

Rechecks(q) ==
  LET j == job[q]  k == job'[q] IN
  /\ pc[q] = "after"
  /\ pc'[q] = (IF j.mode = "callers" /\ j.defs # Empty THEN "rows" ELSE "verdict")
  /\ k.mode = j.mode /\ k.meta = j.meta /\ k.lags = j.lags /\ k.src = j.src /\ k.hash = j.hash
  /\ (k.stamped <=> j.stamped /\ Bound(j)) /\ k.tier = j.tier /\ SameReads(j, k)
  /\ (races' = {} => races = {} /\ ~InWindow)
  /\ UNCHANGED <<world, files, during, quiet>>
TakesGraph(q) ==
  LET j == job[q]  k == job'[q] IN
  /\ pc[q] = "face" /\ j.mode = "graph" /\ SameJudgement(j, k) /\ SameReads(j, k)
  /\ \/ graph = None /\ pc'[q] = "done" /\ k = j
     \/ graph # None /\ pc'[q] = "verdict" /\ k.graph = graph.of /\ k.keyed = graph.keyed
  /\ UNCHANGED <<world, files, hist>>
Ends(q) ==
  LET j == job[q]  k == job'[q] IN
  /\ pc[q] = "verdict" /\ pc'[q] = "done"
  /\ LET v == IF j.mode = "graph" THEN GraphVerdict(j) ELSE ScipVerdict(j) IN k.tier = v.tier
  /\ k.mode = j.mode /\ k.defs = j.defs /\ k.spans = j.spans /\ k.rows = j.rows /\ k.graph = j.graph
  /\ k.src = None /\ k.hash = None /\ k.meta = None /\ k.stamped = FALSE
  /\ k.load = None /\ k.conn = None
  /\ UNCHANGED <<world, files, hist>>

LEMMA OwnFacts ==
  ASSUME ServingTypes, NEW q \in Queriers, NEW to \in Places, NEW j \in Jobs, Step(q, to, j)
  PROVE  Own(q) /\ pc'[q] = to /\ job'[q] = j
BY StepFacts DEF Own

LEMMA BeginKind ==
  ASSUME ServingTypes, NEW q \in Queriers, Begin(q) PROVE Own(q) /\ Begins(q)
<1>1. PICK m \in Modes : Step(q, "stat", [NoJob EXCEPT !.mode = m])
  BY DEF Begin
<1>2. [NoJob EXCEPT !.mode = m] \in Jobs
  BY NoJobFacts
<1>3. Own(q) /\ pc'[q] = "stat" /\ job'[q] = [NoJob EXCEPT !.mode = m]
  BY <1>1, <1>2, OwnFacts DEF Places
<1> QED
  BY <1>3 DEF Begin, Begins, NoJob

LEMMA EvaluateKind ==
  ASSUME ServingTypes, NEW q \in Queriers,
         StatPlane(q) \/ HashSource(q) \/ HashSlot(q) \/ Bind(q) \/ BudgetExceeded(q)
  PROVE  Own(q) /\ Evaluates(q)
<1> DEFINE j == job[q]
<1>0. j \in Jobs /\ src \in Nat /\ slot.of \in Nat /\ meta \in Metas \cup {None} /\ slot.touched \in BOOLEAN
  BY DEF ServingTypes
<1>1. CASE StatPlane(q)
  <2> DEFINE lag == graph = None \/ graph.time < slot.time
             k == [j EXCEPT !.meta = meta, !.newer = slot.touched, !.lags = lag]
             to == IF meta = None THEN "bind" ELSE "walk"
  <2>0. lag \in BOOLEAN
    OBVIOUS
  <2>1. k \in Jobs
    <3> HIDE DEF lag
    <3> QED
      BY <1>0, <2>0 DEF Jobs
  <2>2. k.meta = meta /\ k.lags = lag /\ k.mode = j.mode
        /\ k.src = j.src /\ k.hash = j.hash /\ k.stamped = j.stamped /\ k.tier = j.tier /\ SameReads(j, k)
    BY <1>0 DEF Jobs, SameReads
  <2>3. pc[q] = "stat" /\ Step(q, to, k) /\ UNCHANGED <<world, files, hist, budget>>
    BY <1>1 DEF StatPlane
  <2>4. Own(q) /\ pc'[q] = to /\ job'[q] = k
    BY <2>1, <2>3, OwnFacts DEF Places
  <2> HIDE DEF k
  <2> QED
    BY <2>2, <2>3, <2>4 DEF Evaluates, hist
<1>2. CASE HashSource(q)
  <2> DEFINE k == [j EXCEPT !.src = src]
  <2>1. k \in Jobs
    BY <1>0 DEF Jobs
  <2>2. k.src = src /\ k.meta = j.meta /\ k.lags = j.lags /\ k.mode = j.mode
        /\ k.hash = j.hash /\ k.stamped = j.stamped /\ k.tier = j.tier /\ SameReads(j, k)
    BY <1>0 DEF Jobs, SameReads
  <2>3. pc[q] = "walk" /\ Step(q, "hash", k) /\ UNCHANGED <<world, files, hist, budget>>
    BY <1>2 DEF HashSource
  <2>4. Own(q) /\ pc'[q] = "hash" /\ job'[q] = k
    BY <2>1, <2>3, OwnFacts DEF Places
  <2> HIDE DEF k
  <2> QED
    BY <2>2, <2>3, <2>4 DEF Evaluates, hist
<1>3. CASE HashSlot(q)
  <2> DEFINE k == [j EXCEPT !.hash = slot.of]
  <2>1. k \in Jobs
    BY <1>0 DEF Jobs
  <2>2. k.hash = slot.of /\ k.meta = j.meta /\ k.lags = j.lags /\ k.mode = j.mode
        /\ k.src = j.src /\ k.stamped = j.stamped /\ k.tier = j.tier /\ SameReads(j, k)
    BY <1>0 DEF Jobs, SameReads
  <2>3. pc[q] = "hash" /\ Step(q, "bind", k) /\ UNCHANGED <<world, files, hist, budget>>
    BY <1>3 DEF HashSlot
  <2>4. Own(q) /\ pc'[q] = "bind" /\ job'[q] = k
    BY <2>1, <2>3, OwnFacts DEF Places
  <2> HIDE DEF k
  <2> QED
    BY <2>2, <2>3, <2>4 DEF Evaluates, hist
<1>4. CASE Bind(q)
  <2>1. CASE ~Bound(j) /\ j.try = 1
    <3> DEFINE k == [j EXCEPT !.try = 2, !.src = None, !.hash = None]
    <3>1. k \in Jobs
      BY <1>0 DEF Jobs
    <3>2. k.src = None /\ k.hash = None /\ k.meta = j.meta /\ k.lags = j.lags /\ k.mode = j.mode
          /\ k.stamped = j.stamped /\ k.tier = j.tier /\ SameReads(j, k)
      BY <1>0 DEF Jobs, SameReads
    <3>3. pc[q] = "bind" /\ Step(q, "stat", k) /\ UNCHANGED <<world, files, hist, budget>>
      BY <1>4, <2>1 DEF Bind
    <3>4. Own(q) /\ pc'[q] = "stat" /\ job'[q] = k
      BY <3>1, <3>3, OwnFacts DEF Places
    <3> HIDE DEF k
    <3> QED
      BY <2>1, <3>2, <3>3, <3>4 DEF Evaluates, hist
  <2>2. CASE ~(~Bound(j) /\ j.try = 1)
    <3> DEFINE k == [j EXCEPT !.stamped = Bound(j), !.try = 1]
    <3>0. Bound(j) \in BOOLEAN
      BY DEF Bound
    <3>1. k \in Jobs
      BY <1>0, <3>0 DEF Jobs
    <3>2. (k.stamped <=> Bound(j)) /\ k.src = j.src /\ k.hash = j.hash /\ k.meta = j.meta /\ k.lags = j.lags
          /\ k.mode = j.mode /\ k.tier = j.tier /\ SameReads(j, k)
      BY <1>0 DEF Jobs, SameReads
    <3>3. pc[q] = "bind" /\ Step(q, "face", k) /\ UNCHANGED <<world, files, hist, budget>>
      BY <1>4, <2>2 DEF Bind
    <3>4. Own(q) /\ pc'[q] = "face" /\ job'[q] = k
      BY <3>1, <3>3, OwnFacts DEF Places
    <3> HIDE DEF k
    <3> QED
      BY <2>2, <3>2, <3>3, <3>4 DEF Evaluates, hist
  <2> QED
    BY <2>1, <2>2
<1>5. CASE BudgetExceeded(q)
  <2>1. pc[q] = "bind" /\ Step(q, "face", j) /\ quiet' = [quiet EXCEPT ![q] = FALSE]
        /\ UNCHANGED <<world, files, during, races>>
    BY <1>5 DEF BudgetExceeded
  <2>2. Own(q) /\ pc'[q] = "face" /\ job'[q] = j
    BY <1>0, <2>1, OwnFacts DEF Places
  <2> QED
    BY <2>1, <2>2 DEF Evaluates, SameReads
<1> QED
  BY <1>1, <1>2, <1>3, <1>4, <1>5

LEMMA LoadedFacts ==
  ASSUME ServingTypes, NEW q \in Queriers, NEW j \in Jobs, Loaded(q, j)
  PROVE  LET k == job'[q] IN
         /\ Own(q) /\ pc'[q] = (IF j.file = "cache" THEN "defs" ELSE "after")
         /\ k.spans = (IF j.file = "cache" THEN j.spans ELSE j.load) /\ k.load = j.load
         /\ SameJudgement(j, k) /\ k.file = j.file /\ k.conn = j.conn
         /\ k.defs = j.defs /\ k.rows = j.rows
<1>1. CASE j.file = "cache"
  <2> DEFINE k == [j EXCEPT !.made = None]
  <2>1. k \in Jobs
    BY DEF Jobs
  <2>2. Step(q, "defs", k)
    BY <1>1 DEF Loaded
  <2>3. Own(q) /\ pc'[q] = "defs" /\ job'[q] = k
    BY <2>1, <2>2, OwnFacts DEF Places
  <2>4. /\ k.spans = j.spans /\ k.load = j.load /\ SameJudgement(j, k) /\ k.file = j.file
        /\ k.conn = j.conn /\ k.defs = j.defs /\ k.rows = j.rows
    BY DEF Jobs, SameJudgement
  <2> HIDE DEF k
  <2> QED
    BY <1>1, <2>3, <2>4
<1>2. CASE j.file # "cache"
  <2> DEFINE k == [j EXCEPT !.spans = j.load, !.made = None]
  <2>1. k \in Jobs
    BY DEF Jobs, Reads
  <2>2. Step(q, "after", k)
    BY <1>2 DEF Loaded
  <2>3. Own(q) /\ pc'[q] = "after" /\ job'[q] = k
    BY <2>1, <2>2, OwnFacts DEF Places
  <2>4. /\ k.spans = j.load /\ k.load = j.load /\ SameJudgement(j, k) /\ k.file = j.file
        /\ k.conn = j.conn /\ k.defs = j.defs /\ k.rows = j.rows
    BY DEF Jobs, SameJudgement
  <2> HIDE DEF k
  <2> QED
    BY <1>2, <2>3, <2>4
<1> QED
  BY <1>1, <1>2

LEMMA ConnectedFacts ==
  ASSUME ServingTypes, NEW q \in Queriers, job[q].file = "cache", name["cache"] # None,
         Connected(q, job[q]), pc[q] \in {"open", "reopen"}, UNCHANGED <<world, files, hist>>
  PROVE  Own(q) /\ Connects(q)
<1> DEFINE j == job[q]
           k == [j EXCEPT !.conn = name["cache"], !.made = None]
<1>1. j \in Jobs /\ name["cache"] \in Inodes
  BY DEF ServingTypes, Files
<1>2. k \in Jobs
  BY <1>1 DEF Jobs
<1>3. Step(q, "defs", k)
  BY DEF Connected
<1>4. Own(q) /\ pc'[q] = "defs" /\ job'[q] = k
  BY <1>2, <1>3, OwnFacts DEF Places
<1>5. /\ SameJudgement(j, k) /\ k.conn = name["cache"] /\ k.file = j.file /\ k.load = j.load
      /\ k.defs = j.defs /\ k.spans = j.spans /\ k.rows = j.rows
  BY <1>1 DEF Jobs, SameJudgement
<1> HIDE DEF k
<1> QED
  BY <1>4, <1>5 DEF Connects

LEMMA SpansFacts ==
  ASSUME ServingTypes, NEW q \in Queriers, job[q].file = "spans", name["spans"] # None,
         ~Unreadable(name["spans"]), Step(q, "after", [job[q] EXCEPT !.spans = ReadAt(name["spans"])]),
         pc[q] \in {"open", "reopen"}, UNCHANGED <<world, files, hist>>
  PROVE  Own(q) /\ Spans(q)
<1> DEFINE j == job[q]
           k == [j EXCEPT !.spans = ReadAt(name["spans"])]
<1>1. j \in Jobs /\ name["spans"] \in Inodes
  BY DEF ServingTypes, Files
<1>2. ReadAt(name["spans"]) \in Reads
  BY <1>1 DEF ServingTypes, ReadAt, Reads
<1>3. k \in Jobs
  BY <1>1, <1>2 DEF Jobs
<1>4. Own(q) /\ pc'[q] = "after" /\ job'[q] = k
  BY <1>3, OwnFacts DEF Places
<1>5. /\ SameJudgement(j, k) /\ k.spans = ReadAt(name["spans"]) /\ k.file = j.file /\ k.load = j.load
      /\ k.conn = j.conn /\ k.defs = j.defs /\ k.rows = j.rows
  BY <1>1 DEF Jobs, SameJudgement
<1> HIDE DEF k
<1> QED
  BY <1>4, <1>5 DEF Spans

LEMMA FallsFacts ==
  ASSUME ServingTypes, NEW q \in Queriers, Loaded(q, Parse(job[q])), pc[q] \in {"face", "open"},
         job[q].mode # "graph", UNCHANGED <<world, files, hist>>
  PROVE  Own(q) /\ Falls(q)
<1> DEFINE j == job[q]
           k == job'[q]
<1>1. j \in Jobs
  BY DEF ServingTypes
<1>2. /\ Parse(j) \in Jobs /\ SameJudgement(j, Parse(j))
      /\ Parse(j).file = j.file /\ Parse(j).conn = j.conn
      /\ Parse(j).defs = j.defs /\ Parse(j).spans = j.spans /\ Parse(j).rows = j.rows
      /\ Parse(j).load = IF j.file = "spans" /\ j.conn = None THEN j.load ELSE slot.of
  BY <1>1, ParseFacts
<1>3. /\ Own(q) /\ pc'[q] = (IF j.file = "cache" THEN "defs" ELSE "after")
      /\ k.spans = (IF j.file = "cache" THEN j.spans ELSE Parse(j).load) /\ k.load = Parse(j).load
      /\ SameJudgement(Parse(j), k) /\ k.file = j.file /\ k.conn = j.conn
      /\ k.defs = j.defs /\ k.rows = j.rows
  BY <1>2, LoadedFacts
<1>4. SameJudgement(j, k)
  BY <1>2, <1>3 DEF SameJudgement
<1> QED
  BY <1>2, <1>3, <1>4 DEF Falls, hist

LEMMA ClimbKind ==
  ASSUME ServingTypes, EquippedInv, NEW q \in Queriers, Look(q) \/ Check(q) \/ Open(q)
  PROVE  Own(q) /\ (Climbs(q) \/ Connects(q) \/ Spans(q) \/ Falls(q))
<1> DEFINE j == job[q]
<1>0. j \in Jobs /\ j.file \in Files
  BY DEF ServingTypes, Jobs
<1>1. ASSUME NEW to \in {"check", "load", "open"}, Step(q, to, j) PROVE Own(q) /\ pc'[q] = to /\ job'[q] = j
  BY <1>0, <1>1, OwnFacts DEF Places
<1>2. CASE Look(q)
  <2>1. CASE name[j.file] = None
    BY <1>2, <2>1, FallsFacts DEF Look
  <2>2. CASE name[j.file] # None
    BY <1>1, <1>2, <2>2 DEF Look, Climbs
  <2> QED
    BY <2>1, <2>2
<1>3. CASE Check(q)
  <2>1. CASE Stale(j.file)
    BY <1>1, <1>3, <2>1 DEF Check, Climbs
  <2>2. CASE ~Stale(j.file)
    BY <1>1, <1>3, <2>2 DEF Check, Climbs
  <2> QED
    BY <2>1, <2>2
<1>4. CASE Open(q)
  <2>0. pc[q] = "open" /\ UNCHANGED <<world, files, hist, budget>> /\ j.mode # "graph"
    BY <1>4 DEF Open, EquippedInv, Equipped, Ladder, FillPC
  <2>1. CASE j.file = "cache" /\ name[j.file] # None
    <3>1. Connected(q, j)
      BY <1>4, <2>1 DEF Open
    <3> QED
      BY <2>0, <2>1, <3>1, ConnectedFacts
  <2>2. CASE j.file = "cache" /\ name[j.file] = None
    <3>1. Loaded(q, Parse(j))
      BY <1>4, <2>2 DEF Open
    <3> QED
      BY <2>0, <2>2, <3>1, FallsFacts
  <2>3. CASE j.file = "spans" /\ name[j.file] # None /\ ~Unreadable(name[j.file])
    <3>1. Step(q, "after", [j EXCEPT !.spans = ReadAt(name["spans"])])
      BY <1>4, <2>3 DEF Open
    <3> QED
      BY <2>0, <2>3, <3>1, SpansFacts
  <2>4. CASE j.file = "spans" /\ ~(name[j.file] # None /\ ~Unreadable(name[j.file]))
    <3>1. Step(q, "load", j)
      BY <1>4, <2>4 DEF Open
    <3> QED
      BY <1>1, <2>0, <2>4, <3>1 DEF Climbs
  <2> QED
    BY <1>0, <2>1, <2>2, <2>3, <2>4 DEF Files
<1> QED
  BY <1>2, <1>3, <1>4

LEMMA ReopenKind ==
  ASSUME ServingTypes, NEW q \in Queriers, Reopen(q)
  PROVE  Own(q) /\ (Connects(q) \/ Spans(q) \/ Falls(q))
<1> DEFINE j == job[q]
<1>0. /\ j \in Jobs /\ j.file \in Files
      /\ pc[q] = "reopen" /\ UNCHANGED <<world, files, hist, budget>>
  BY DEF ServingTypes, Jobs, Reopen
<1>1. CASE j.file = "cache" /\ name[j.file] # None
  <2>1. Connected(q, j)
    BY <1>1 DEF Reopen
  <2> QED
    BY <1>0, <1>1, <2>1, ConnectedFacts
<1>2. CASE j.file = "spans" /\ name[j.file] # None /\ ~Unreadable(name[j.file])
  <2>1. Step(q, "after", [j EXCEPT !.spans = ReadAt(name["spans"])])
    BY <1>2 DEF Reopen
  <2> QED
    BY <1>0, <1>2, <2>1, SpansFacts
<1>3. CASE name[j.file] # None => j.file = "spans" /\ Unreadable(name[j.file])
  <2>1. Loaded(q, j)
    BY <1>0, <1>3 DEF Reopen, Files
  <2>2. LET k == job'[q] IN
        /\ Own(q) /\ pc'[q] = (IF j.file = "cache" THEN "defs" ELSE "after")
        /\ k.spans = (IF j.file = "cache" THEN j.spans ELSE j.load) /\ k.load = j.load
        /\ SameJudgement(j, k) /\ k.file = j.file /\ k.conn = j.conn
        /\ k.defs = j.defs /\ k.rows = j.rows
    BY <1>0, <2>1, LoadedFacts
  <2> QED
    BY <1>0, <1>3, <2>2 DEF Falls, hist
<1> QED
  BY <1>0, <1>1, <1>2, <1>3 DEF Files

\* A rebuild that fails goes on with the index it has.
LEMMA FailsFacts ==
  ASSUME ServingTypes, NEW q \in Queriers, Loaded(q, job[q]), pc[q] \in {"tables", "fill", "rename"},
         pc[q] = "tables" => ino[job[q].made].state # "blank" \/ Moved(q),
         pc[q] = "fill" => Moved(q), pc[q] = "rename" => tmp[job[q].file] = None,
         Disturb(q), UNCHANGED <<world, files, during, races>>
  PROVE  Own(q) /\ Falls(q)
<1> DEFINE j == job[q]
<1>0. j \in Jobs
  BY DEF ServingTypes
<1>1. LET k == job'[q] IN
      /\ Own(q) /\ pc'[q] = (IF j.file = "cache" THEN "defs" ELSE "after")
      /\ k.spans = (IF j.file = "cache" THEN j.spans ELSE j.load) /\ k.load = j.load
      /\ SameJudgement(j, k) /\ k.file = j.file /\ k.conn = j.conn
      /\ k.defs = j.defs /\ k.rows = j.rows
  BY <1>0, LoadedFacts
<1> QED
  BY <1>1 DEF Falls

LEMMA RebuildKind ==
  ASSUME ServingTypes, NEW q \in Queriers,
         Load(q) \/ ClearTemp(q) \/ OpenTemp(q) \/ CreateTables(q) \/ Commit(q) \/ Rename(q)
  PROVE  Own(q) /\ (Rebuilds(q) \/ Falls(q))
<1> DEFINE j == job[q]  d == j.file
<1>0. j \in Jobs /\ d \in Files
  BY DEF ServingTypes, Jobs
<1>1. ASSUME NEW to \in {"make", "fill", "rename", "reopen"}, Step(q, to, j)
      PROVE  /\ Own(q) /\ pc'[q] = to /\ job'[q] = j /\ SameJudgement(j, j)
  BY <1>0, <1>1, OwnFacts DEF Places, SameJudgement
<1>2. CASE Load(q)
  <2>1. pc[q] = "load" /\ Step(q, "clear", Parse(j))
    BY <1>2 DEF Load
  <2>2. Own(q) /\ pc'[q] = "clear" /\ job'[q] = Parse(j)
    BY <1>0, <2>1, ParseFacts, OwnFacts DEF Places
  <2>3. races' = {} => races = {} /\ Filling(d) = {} /\ Parse(j).load = slot.of
    <3>1. Parse(j).file = d
      BY <1>0, ParseFacts
    <3>2. races' = races \cup {r \in {"fills"} : Filling(d) # {}} \cup {r \in {"prune"} : Parse(j).load # slot.of}
      BY <1>2, <3>1 DEF Load
    <3> QED
      BY <3>2
  <2>4. UNCHANGED <<world, files, during, quiet>>
    BY <1>2 DEF Load
  <2> QED
    BY <1>0, <2>1, <2>2, <2>3, <2>4, ParseFacts DEF Rebuilds
<1>3. CASE ClearTemp(q)
  BY <1>1, <1>3 DEF ClearTemp, Rebuilds
<1>4. CASE OpenTemp(q)
  <2> DEFINE i == IF tmp[d] = None THEN <<q, d>> ELSE tmp[d]
             k == [j EXCEPT !.made = i]
  <2>1. i \in Inodes
    BY <1>0, InodeFacts DEF ServingTypes
  <2>2. k \in Jobs
    BY <1>0, <2>1 DEF Jobs
  <2>3. /\ SameJudgement(j, k) /\ k.file = j.file /\ k.conn = j.conn /\ k.load = j.load
        /\ k.defs = j.defs /\ k.spans = j.spans /\ k.rows = j.rows /\ k.made = i
    BY <1>0 DEF Jobs, SameJudgement
  <2>4. /\ pc[q] = "make" /\ Step(q, "tables", k) /\ tmp' = [tmp EXCEPT ![d] = i]
        /\ Disturb(q) /\ UNCHANGED <<world, name, ino, during, races, budget>>
    BY <1>4 DEF OpenTemp
  <2>5. Own(q) /\ pc'[q] = "tables" /\ job'[q] = k
    BY <2>2, <2>4, OwnFacts DEF Places
  <2> HIDE DEF k, i
  <2>6. job'[q].made = (IF tmp[d] = None THEN <<q, d>> ELSE tmp[d])
    BY <2>3, <2>5 DEF i
  <2> QED
    BY <2>3, <2>4, <2>5, <2>6 DEF Rebuilds
<1>5. CASE CreateTables(q)
  <2>1. CASE ino[j.made].state = "blank" /\ ~Moved(q)
    BY <1>1, <1>5, <2>1 DEF CreateTables, Rebuilds
  <2>2. CASE ~(ino[j.made].state = "blank" /\ ~Moved(q))
    BY <1>5, <2>2, FailsFacts DEF CreateTables, files
  <2> QED
    BY <2>1, <2>2
<1>6. CASE Commit(q)
  <2>1. CASE Step(q, "rename", j) /\ ino' = [ino EXCEPT ![j.made] = [of |-> j.load, state |-> "full", time |-> slot.time]]
    BY <1>1, <1>6, <2>1 DEF Commit, Rebuilds
  <2>2. CASE Moved(q) /\ Loaded(q, j) /\ UNCHANGED ino
    BY <1>6, <2>2, FailsFacts DEF Commit, files
  <2> QED
    BY <1>6, <2>1, <2>2 DEF Commit
<1>7. CASE Rename(q)
  <2>1. CASE tmp[d] # None
    BY <1>1, <1>7, <2>1 DEF Rename, Rebuilds
  <2>2. CASE tmp[d] = None
    BY <1>7, <2>2, FailsFacts DEF Rename, files
  <2> QED
    BY <2>1, <2>2
<1> QED
  BY <1>2, <1>3, <1>4, <1>5, <1>6, <1>7

LEMMA ReadFacts ==
  ASSUME ServingTypes, NEW j \in Jobs
  PROVE  /\ j.conn # None => ReadAt(j.conn) \in Reads
         /\ j.load \in Reads /\ slot.of \in Reads
BY DEF ServingTypes, Jobs, ReadAt, Reads

LEMMA DefineKind ==
  ASSUME ServingTypes, NEW q \in Queriers, Defs(q)
  PROVE  Own(q) /\ Defines(q)
<1> DEFINE j == job[q]
<1>0. /\ j \in Jobs /\ pc[q] = "defs" /\ UNCHANGED <<world, files, hist>>
  BY DEF ServingTypes, Defs
<1>1. ASSUME NEW l \in Jobs, l.mode = j.mode, Step(q, NextRead(l), [l EXCEPT !.file = "spans"])
      PROVE  LET k == job'[q] IN
             /\ Own(q) /\ pc'[q] = NextRead(k) /\ SameJudgement(l, k) /\ k.file = "spans"
             /\ k.load = l.load /\ k.conn = l.conn /\ k.defs = l.defs /\ k.spans = l.spans /\ k.rows = l.rows
  <2> DEFINE k == [l EXCEPT !.file = "spans"]
  <2>1. k \in Jobs
    BY DEF Jobs, Files
  <2>2. /\ SameJudgement(l, k) /\ k.file = "spans"
        /\ k.load = l.load /\ k.conn = l.conn /\ k.defs = l.defs /\ k.spans = l.spans /\ k.rows = l.rows
    BY DEF Jobs, SameJudgement
  <2>3. NextRead(l) \in Places
    BY DEF NextRead, Places
  <2>4. Own(q) /\ pc'[q] = NextRead(l) /\ job'[q] = k
    BY <1>1, <2>1, <2>3, OwnFacts
  <2> HIDE DEF k
  <2>5. NextRead(k) = NextRead(l)
    BY <2>2 DEF NextRead, SameJudgement
  <2> QED
    BY <2>2, <2>4, <2>5
<1>2. ASSUME NEW v \in Reads, Step(q, NextRead([j EXCEPT !.defs = v]), [[j EXCEPT !.defs = v] EXCEPT !.file = "spans"]),
             \/ j.conn = None /\ v = j.load
             \/ j.conn # None /\ ~Unreadable(j.conn) /\ v = ReadAt(j.conn)
      PROVE  Own(q) /\ Defines(q)
  <2> DEFINE l == [j EXCEPT !.defs = v]
  <2>1. l \in Jobs
    BY <1>0 DEF Jobs
  <2>2. /\ SameJudgement(j, l) /\ l.load = j.load /\ l.conn = j.conn /\ l.defs = v
        /\ l.spans = j.spans /\ l.rows = j.rows
    BY <1>0 DEF Jobs, SameJudgement
  <2>3. Step(q, NextRead(l), [l EXCEPT !.file = "spans"])
    BY <1>2
  <2> HIDE DEF l
  <2>4. l.mode = j.mode
    BY <2>2 DEF SameJudgement
  <2>5. LET k == job'[q] IN
        /\ Own(q) /\ pc'[q] = NextRead(k) /\ SameJudgement(l, k) /\ k.file = "spans"
        /\ k.load = l.load /\ k.conn = l.conn /\ k.defs = l.defs /\ k.spans = l.spans /\ k.rows = l.rows
    BY <1>1, <2>1, <2>3, <2>4
  <2>6. SameJudgement(j, job'[q])
    BY <2>2, <2>5 DEF SameJudgement
  <2> QED
    BY <1>0, <1>2, <2>2, <2>5, <2>6 DEF Defines, Reads1
<1>3. CASE j.conn = None /\ Step(q, NextRead([j EXCEPT !.defs = j.load]), [[j EXCEPT !.defs = j.load] EXCEPT !.file = "spans"])
  BY <1>0, <1>2, <1>3, ReadFacts
<1>4. CASE j.conn # None /\ ~Unreadable(j.conn) /\ Step(q, NextRead([j EXCEPT !.defs = ReadAt(j.conn)]), [[j EXCEPT !.defs = ReadAt(j.conn)] EXCEPT !.file = "spans"])
  BY <1>0, <1>2, <1>4, ReadFacts
<1>5. CASE /\ j.conn # None
           /\ Step(q, NextRead([j EXCEPT !.conn = None, !.load = slot.of, !.defs = slot.of]),
                   [[j EXCEPT !.conn = None, !.load = slot.of, !.defs = slot.of] EXCEPT !.file = "spans"])
  <2> DEFINE l == [j EXCEPT !.conn = None, !.load = slot.of, !.defs = slot.of]
  <2>1. slot.of \in Nat
    BY DEF ServingTypes
  <2>2. l \in Jobs
    BY <1>0, <2>1 DEF Jobs, Reads
  <2>3. /\ SameJudgement(j, l) /\ l.load = slot.of /\ l.conn = None /\ l.defs = slot.of
        /\ l.spans = j.spans /\ l.rows = j.rows
    BY <1>0 DEF Jobs, SameJudgement
  <2>4. Step(q, NextRead(l), [l EXCEPT !.file = "spans"])
    BY <1>5
  <2> HIDE DEF l
  <2>5. l.mode = j.mode
    BY <2>3 DEF SameJudgement
  <2>6. LET k == job'[q] IN
        /\ Own(q) /\ pc'[q] = NextRead(k) /\ SameJudgement(l, k) /\ k.file = "spans"
        /\ k.load = l.load /\ k.conn = l.conn /\ k.defs = l.defs /\ k.spans = l.spans /\ k.rows = l.rows
    BY <1>1, <2>2, <2>4, <2>5
  <2>7. SameJudgement(j, job'[q])
    BY <2>3, <2>6 DEF SameJudgement
  <2> QED
    BY <1>0, <2>3, <2>6, <2>7 DEF Defines
<1> QED
  BY <1>3, <1>4, <1>5 DEF Defs

LEMMA CollectKind ==
  ASSUME ServingTypes, NEW q \in Queriers, Rows(q)
  PROVE  Own(q) /\ Collects(q)
<1> DEFINE j == job[q]
           Next1 == IF j.mode = "refs" THEN "after" ELSE "verdict"
<1>0. /\ j \in Jobs /\ pc[q] = "rows" /\ UNCHANGED <<world, files, during, quiet>>
      /\ slot.of \in Reads
  BY ReadFacts DEF ServingTypes, Rows
<1>1. ASSUME NEW l \in Jobs, NEW v \in Reads, l.mode = j.mode,
             Step(q, IF [l EXCEPT !.rows = v].mode = "refs" THEN "after" ELSE "verdict", [l EXCEPT !.rows = v])
      PROVE  LET k == job'[q] IN
             /\ Own(q) /\ pc'[q] = Next1 /\ SameJudgement(l, k) /\ k.rows = v
             /\ k.file = l.file /\ k.load = l.load /\ k.conn = l.conn /\ k.defs = l.defs /\ k.spans = l.spans
  <2> DEFINE k == [l EXCEPT !.rows = v]
  <2>1. k \in Jobs
    BY DEF Jobs
  <2>2. /\ SameJudgement(l, k) /\ k.rows = v
        /\ k.file = l.file /\ k.load = l.load /\ k.conn = l.conn /\ k.defs = l.defs /\ k.spans = l.spans
    BY DEF Jobs, SameJudgement
  <2>3. Step(q, Next1, k)
    BY <1>1, <2>2 DEF SameJudgement
  <2>4. Own(q) /\ pc'[q] = Next1 /\ job'[q] = k
    BY <2>1, <2>3, OwnFacts DEF Places
  <2> HIDE DEF k
  <2> QED
    BY <2>2, <2>4
<1>2. ASSUME NEW v, v = (IF j.conn = None THEN j.load ELSE ReadAt(j.conn)),
             Step(q, IF [j EXCEPT !.rows = v].mode = "refs" THEN "after" ELSE "verdict", [j EXCEPT !.rows = v]),
             UNCHANGED races
      PROVE  Own(q) /\ Collects(q)
  <2>1. v \in Reads
    BY <1>0, <1>2, ReadFacts
  <2> QED
    BY <1>0, <1>1, <1>2, <2>1 DEF Collects
<1>3. CASE /\ j.mode = "refs" /\ UNCHANGED races
           /\ Step(q, IF [j EXCEPT !.defs = slot.of, !.rows = slot.of].mode = "refs" THEN "after" ELSE "verdict",
                   [j EXCEPT !.defs = slot.of, !.rows = slot.of])
  <2> DEFINE k == [j EXCEPT !.defs = slot.of, !.rows = slot.of]
  <2>1. k \in Jobs
    BY <1>0 DEF Jobs
  <2>2. /\ SameJudgement(j, k) /\ k.rows = slot.of /\ k.defs = slot.of
        /\ k.file = j.file /\ k.load = j.load /\ k.conn = j.conn /\ k.spans = j.spans
    BY <1>0 DEF Jobs, SameJudgement
  <2>3. Step(q, "after", k)
    BY <1>3, <2>2 DEF SameJudgement
  <2>4. Own(q) /\ pc'[q] = "after" /\ job'[q] = k
    BY <2>1, <2>3, OwnFacts DEF Places
  <2> HIDE DEF k
  <2> QED
    BY <1>0, <1>3, <2>2, <2>4 DEF Collects
<1>4. CASE /\ j.mode # "refs" /\ Race("reload", slot.of # j.defs)
           /\ Step(q, IF [j EXCEPT !.rows = slot.of].mode = "refs" THEN "after" ELSE "verdict",
                   [j EXCEPT !.rows = slot.of])
  <2>1. races' = {} => races = {} /\ slot.of = j.defs
    BY <1>4 DEF Race
  <2> QED
    BY <1>0, <1>1, <1>4, <2>1 DEF Collects
<1> QED
  BY <1>2, <1>3, <1>4 DEF Rows

LEMMA RecheckKind ==
  ASSUME ServingTypes, NEW q \in Queriers, AfterLoad(q)
  PROVE  Own(q) /\ Rechecks(q)
<1> DEFINE j == job[q]
           to == IF j.mode = "callers" /\ j.defs # Empty THEN "rows" ELSE "verdict"
           k == [j EXCEPT !.stamped = j.stamped /\ Bound(j)]
<1>0. j \in Jobs
  BY DEF ServingTypes
<1>1. (j.stamped /\ Bound(j)) \in BOOLEAN
  BY DEF Bound
<1>2. k \in Jobs
  <2> DEFINE b == j.stamped /\ Bound(j)
  <2>1. b \in BOOLEAN
    BY <1>1
  <2> HIDE DEF b
  <2>2. [j EXCEPT !.stamped = b] \in Jobs
    BY <1>0, <2>1 DEF Jobs
  <2> QED
    BY <2>2 DEF b
<1>3. /\ k.mode = j.mode /\ k.meta = j.meta /\ k.lags = j.lags /\ k.src = j.src /\ k.hash = j.hash
      /\ (k.stamped <=> j.stamped /\ Bound(j)) /\ k.tier = j.tier /\ SameReads(j, k)
  BY <1>0 DEF Jobs, SameReads
<1>4. /\ pc[q] = "after" /\ Step(q, to, k) /\ Race("window", InWindow)
      /\ UNCHANGED <<world, files, during, quiet>>
  BY DEF AfterLoad
<1>5. Own(q) /\ pc'[q] = to /\ job'[q] = k
  BY <1>2, <1>4, OwnFacts DEF Places
<1>6. races' = {} => races = {} /\ ~InWindow
  BY <1>4 DEF Race
<1> HIDE DEF k
<1> QED
  BY <1>3, <1>4, <1>5, <1>6 DEF Rechecks

LEMMA GraphKind ==
  ASSUME ServingTypes, NEW q \in Queriers, OpenGraph(q)
  PROVE  Own(q) /\ TakesGraph(q)
<1> DEFINE j == job[q]
<1>0. /\ j \in Jobs /\ pc[q] = "face" /\ j.mode = "graph" /\ UNCHANGED <<world, files, hist>>
  BY DEF ServingTypes, OpenGraph
<1>1. CASE graph = None
  <2>1. Own(q) /\ pc'[q] = "done" /\ job'[q] = j
    BY <1>0, <1>1, OwnFacts DEF OpenGraph, Places
  <2> QED
    BY <1>0, <1>1, <2>1 DEF TakesGraph, SameJudgement, SameReads
<1>2. CASE graph # None
  <2> DEFINE k == [j EXCEPT !.graph = graph.of, !.keyed = graph.keyed]
  <2>1. graph.of \in Nat /\ graph.keyed \in BOOLEAN
    BY <1>2 DEF ServingTypes, Graphs
  <2>2. k \in Jobs
    BY <1>0, <2>1 DEF Jobs
  <2>3. SameJudgement(j, k) /\ SameReads(j, k) /\ k.graph = graph.of /\ k.keyed = graph.keyed
    BY <1>0 DEF Jobs, SameJudgement, SameReads
  <2>4. Own(q) /\ pc'[q] = "verdict" /\ job'[q] = k
    BY <1>2, <2>2, OwnFacts DEF OpenGraph, Places
  <2> HIDE DEF k
  <2> QED
    BY <1>0, <1>2, <2>3, <2>4 DEF TakesGraph
<1> QED
  BY <1>1, <1>2

LEMMA EndKind ==
  ASSUME ServingTypes, NEW q \in Queriers, Verdict(q)
  PROVE  Own(q) /\ Ends(q)
<1> DEFINE j == job[q]
           v == IF j.mode = "graph" THEN GraphVerdict(j) ELSE ScipVerdict(j)
           k == [NoJob EXCEPT !.mode = j.mode, !.tier = v.tier, !.refused = v.refused,
                              !.defs = j.defs, !.spans = j.spans, !.rows = j.rows, !.graph = j.graph]
<1>0. /\ j \in Jobs /\ pc[q] = "verdict" /\ Step(q, "done", k) /\ UNCHANGED <<world, files, hist>>
  BY DEF ServingTypes, Verdict
<1>1. GraphVerdict(j).tier \in Tiers /\ GraphVerdict(j).refused \in BOOLEAN
  <2>1. GraphVerdict(j).tier \in Tiers
    BY DEF GraphVerdict, Tiers
  <2>2. GraphVerdict(j).refused \in BOOLEAN
    BY DEF GraphVerdict
  <2> QED
    BY <2>1, <2>2
<1>2. ScipVerdict(j).tier \in Tiers /\ ScipVerdict(j).refused \in BOOLEAN
  <2>1. ScipVerdict(j).tier \in Tiers
    BY DEF ScipVerdict, Tiers
  <2>2. ScipVerdict(j).refused \in BOOLEAN
    BY DEF ScipVerdict
  <2> QED
    BY <2>1, <2>2
<1>3. v.tier \in Tiers /\ v.refused \in BOOLEAN
  BY <1>1, <1>2
<1> HIDE DEF v
<1>4. k \in Jobs
  <2>1. /\ j.mode \in Modes \cup {None} /\ j.defs \in Reads /\ j.spans \in Reads /\ j.rows \in Reads
        /\ j.graph \in Nat \cup {None}
    BY <1>0 DEF Jobs
  <2> DEFINE l == [NoJob EXCEPT !.mode = j.mode, !.tier = v.tier, !.refused = v.refused]
  <2>2. l \in Jobs
    BY <1>3, <2>1, NoJobFacts DEF Jobs
  <2>3. k = [l EXCEPT !.defs = j.defs, !.spans = j.spans, !.rows = j.rows, !.graph = j.graph]
    BY DEF NoJob
  <2> HIDE DEF l, k
  <2>4. [l EXCEPT !.defs = j.defs, !.spans = j.spans, !.rows = j.rows, !.graph = j.graph] \in Jobs
    BY <2>1, <2>2 DEF Jobs
  <2> QED
    BY <2>3, <2>4
<1>5. /\ k.tier = v.tier /\ k.mode = j.mode /\ k.defs = j.defs /\ k.spans = j.spans /\ k.rows = j.rows
      /\ k.graph = j.graph /\ k.src = None /\ k.hash = None /\ k.meta = None /\ k.stamped = FALSE
      /\ k.load = None /\ k.conn = None
  BY DEF NoJob
<1>6. Own(q) /\ pc'[q] = "done" /\ job'[q] = k
  BY <1>0, <1>4, OwnFacts DEF Places
<1> HIDE DEF k
<1> QED
  BY <1>0, <1>5, <1>6 DEF Ends, v

Kind(q) ==
  \/ Begins(q) \/ Evaluates(q) \/ Climbs(q) \/ Connects(q) \/ Spans(q) \/ Falls(q) \/ Rebuilds(q)
  \/ Defines(q) \/ Collects(q) \/ Rechecks(q) \/ TakesGraph(q) \/ Ends(q)

LEMMA QueryKinds ==
  ASSUME ServingTypes, EquippedInv, NEW q \in Queriers, Query(q)
  PROVE  Own(q) /\ Kind(q)
BY BeginKind, EvaluateKind, ClimbKind, ReopenKind, RebuildKind, DefineKind, CollectKind,
   RecheckKind, GraphKind, EndKind DEF Query, Kind

---------------------------------------------------------------------------
(* Types, and what a query has in hand.                                    *)

Budgets == [edits : Nat, pubs : Nat, peers : Nat, faults : Nat]
Races   == {"prune", "fills", "window", "reload"}

\* What a query spends and what it gives away.
LEMMA QueryShares ==
  ASSUME ServingTypes, NEW q \in Queriers, Query(q)
  PROVE  /\ races' \in SUBSET Races /\ races \subseteq races'
         /\ budget' \in Budgets /\ budget'.pubs = budget.pubs
<1>0. /\ races \in SUBSET Races /\ budget \in Budgets
  BY DEF ServingTypes, Races, Budgets
<1>1. CASE Begin(q) \/ StatPlane(q) \/ HashSource(q) \/ HashSlot(q) \/ Bind(q) \/ Look(q) \/ Check(q) \/ Open(q)
           \/ ClearTemp(q) \/ OpenTemp(q) \/ CreateTables(q) \/ Commit(q) \/ Rename(q) \/ Reopen(q)
           \/ OpenGraph(q) \/ Verdict(q)
  BY <1>0, <1>1 DEF Begin, StatPlane, HashSource, HashSlot, Bind, Look, Check, Open, ClearTemp, OpenTemp,
                    CreateTables, Commit, Rename, Reopen, OpenGraph, Verdict, hist
<1>2. CASE BudgetExceeded(q)
  BY <1>0, <1>2, SpendFacts DEF BudgetExceeded, Budgets
<1>3. CASE Load(q)
  BY <1>0, <1>3 DEF Load, Races
<1>4. CASE AfterLoad(q)
  BY <1>0, <1>4 DEF AfterLoad, Race, Races
<1>5. CASE Defs(q)
  <2>1. UNCHANGED races /\ (UNCHANGED budget \/ Spend("faults"))
    BY <1>5 DEF Defs, hist
  <2> QED
    BY <1>0, <2>1, SpendFacts DEF Budgets
<1>6. CASE Rows(q)
  <2>1. (UNCHANGED races \/ Race("reload", slot.of # job[q].defs)) /\ (UNCHANGED budget \/ Spend("faults"))
    BY <1>6 DEF Rows
  <2> QED
    BY <1>0, <2>1, SpendFacts DEF Budgets, Race, Races
<1> QED
  BY <1>1, <1>2, <1>3, <1>4, <1>5, <1>6 DEF Query

\* The files after a query's step.
LEMMA QueryFiles ==
  ASSUME ServingTypes, EquippedInv, NEW q \in Queriers, Kind(q)
  PROVE  /\ name' \in [Files -> Inodes \cup {None}] /\ tmp' \in [Files -> Inodes \cup {None}]
         /\ \A d \in Files : (name'[d] # None => name'[d][2] = d) /\ (tmp'[d] # None => tmp'[d][2] = d)
         /\ ino' \in [Inodes -> [of : Nat, state : {"blank", "tables", "full", "old"}, time : Nat]]
<1>0. /\ name \in [Files -> Inodes \cup {None}] /\ tmp \in [Files -> Inodes \cup {None}]
      /\ \A d \in Files : (name[d] # None => name[d][2] = d) /\ (tmp[d] # None => tmp[d][2] = d)
      /\ ino \in [Inodes -> [of : Nat, state : {"blank", "tables", "full", "old"}, time : Nat]]
  BY DEF ServingTypes
<1>1. CASE UNCHANGED files
  BY <1>0, <1>1 DEF files
<1>2. CASE Rebuilds(q)
  <2> DEFINE j == job[q]  k == job'[q]  d == j.file
  <2>0. j \in Jobs /\ d \in Files
    BY DEF ServingTypes, Jobs
  <2>1. CASE pc[q] = "load" \/ pc[q] = "clear"
    BY <1>0, <1>2, <2>0, <2>1 DEF Rebuilds, files
  <2>2. CASE pc[q] = "make"
    <3>1. k.made \in Inodes /\ k.made[2] = d
      BY <1>0, <1>2, <2>0, <2>2, InodeFacts DEF Rebuilds
    <3>2. tmp' = [tmp EXCEPT ![d] = k.made] /\ UNCHANGED <<name, ino>>
      BY <1>2, <2>2 DEF Rebuilds
    <3> QED
      BY <1>0, <2>0, <3>1, <3>2
  <2>3. CASE pc[q] = "tables"
    BY <1>0, <1>2, <2>3 DEF Rebuilds
  <2>4. CASE pc[q] = "fill"
    <3>1. j.load \in Nat /\ slot.time \in Nat
      BY <2>0, <2>4 DEF EquippedInv, Equipped, FillPC, ServingTypes, Jobs
    <3>2. ino' = [ino EXCEPT ![k.made] = [of |-> j.load, state |-> "full", time |-> slot.time]] /\ UNCHANGED <<name, tmp>>
      BY <1>2, <2>4 DEF Rebuilds
    <3> QED
      BY <1>0, <3>1, <3>2
  <2>5. CASE pc[q] = "rename"
    BY <1>0, <1>2, <2>0, <2>5 DEF Rebuilds
  <2> QED
    BY <1>2, <2>1, <2>2, <2>3, <2>4, <2>5 DEF Rebuilds
<1> QED
  BY <1>1, <1>2 DEF Kind, Begins, Evaluates, Climbs, Connects, Spans, Falls, Defines, Collects, Rechecks, TakesGraph, Ends

LEMMA QueryTypes ==
  ASSUME ServingTypes, EquippedInv, NEW q \in Queriers, Query(q)
  PROVE  ServingTypes'
<1>1. Own(q) /\ Kind(q)
  BY QueryKinds
<1>2. UNCHANGED world
  BY <1>1 DEF Kind, Begins, Evaluates, Climbs, Connects, Spans, Falls, Rebuilds, Defines, Collects, Rechecks, TakesGraph, Ends
<1>3. during' \in [Queriers -> SUBSET Nat]
  BY <1>1 DEF Kind, Begins, Evaluates, Climbs, Connects, Spans, Falls, Rebuilds, Defines, Collects, Rechecks,
              TakesGraph, Ends, hist, ServingTypes
<1>4. quiet' \in [Queriers -> BOOLEAN]
  <2>1. UNCHANGED quiet \/ Disturb(q) \/ quiet' = [quiet EXCEPT ![q] = FALSE]
    BY <1>1 DEF Kind, Begins, Evaluates, Climbs, Connects, Spans, Falls, Rebuilds, Defines, Collects, Rechecks,
                TakesGraph, Ends, hist
  <2>2. ASSUME Disturb(q) PROVE quiet' \in [Queriers -> BOOLEAN]
    BY <2>2 DEF Disturb, ServingTypes
  <2> QED
    BY <2>1, <2>2 DEF ServingTypes
<1> QED
  BY <1>1, <1>2, <1>3, <1>4, QueryShares, QueryFiles DEF ServingTypes, Own, world, Races, Budgets

LEMMA WorldKeeps ==
  ASSUME World
  PROVE  UNCHANGED <<pc, job>> /\ (races' = {} => races = {})
BY DEF World, Build, Edit, PublishIndex, Prune, StampMeta, BuildGraph, PeerRebuild, Race

LEMMA DisturbFacts ==
  ASSUME ServingTypes, NEW but, Disturb(but)
  PROVE  /\ quiet' \in [Queriers -> BOOLEAN]
         /\ \A r \in Queriers : quiet'[r] <=> quiet[r] /\ (r = but \/ pc[r] = "idle")
BY DEF ServingTypes, Disturb

LEMMA WorldTypes ==
  ASSUME ServingTypes, World
  PROVE  ServingTypes'
<1>0. UNCHANGED <<pc, job>>
  BY WorldKeeps
<1>1. CASE Edit
  <2>1. during' \in [Queriers -> SUBSET Nat]
    BY <1>1 DEF Edit, ServingTypes
  <2>2. Disturb(None)
    BY <1>1 DEF Edit
  <2>3. slot' \in [of : Nat, time : Nat, touched : BOOLEAN] /\ slot'.time = slot.time
    <3>1. slot' = [slot EXCEPT !.touched = TRUE] /\ slot \in [of : Nat, time : Nat, touched : BOOLEAN]
      BY <1>1 DEF Edit, ServingTypes
    <3> QED
      BY <3>1
  <2>4. src' \in Nat
    BY <1>1 DEF Edit, ServingTypes
  <2> QED
    BY <1>0, <1>1, <2>1, <2>2, <2>3, <2>4, DisturbFacts, SpendFacts DEF Edit, ServingTypes, files
<1>2. CASE PublishIndex
  <2>1. Disturb(None)
    BY <1>2 DEF PublishIndex
  <2>2. /\ slot' \in [of : Nat, time : Nat, touched : BOOLEAN] /\ slot'.time = slot.time + 1
        /\ pub' \in [pc : {"idle", "cache", "spans", "stamp", "graph"}, of : Nat \cup {None}]
        /\ pub'.of # None
    BY <1>2, NoneFacts DEF PublishIndex, ServingTypes
  <2>3. /\ budget' \in [edits : Nat, pubs : Nat, peers : Nat, faults : Nat] /\ budget'.pubs = budget.pubs - 1
    BY <1>2, SpendFacts DEF PublishIndex
  <2>4. slot'.time + budget'.pubs = MaxPubs
    BY <2>2, <2>3 DEF ServingTypes
  <2> QED
    BY <1>0, <1>2, <2>1, <2>2, <2>3, <2>4, DisturbFacts DEF PublishIndex, ServingTypes, files
<1>3. ASSUME NEW d \in Files, NEW next \in {"spans", "stamp"}, Prune(d, next) PROVE ServingTypes'
  <2>1. Disturb(None)
    BY <1>3 DEF Prune
  <2>2. /\ name' \in [Files -> Inodes \cup {None}] /\ \A e \in Files : name'[e] # None => name'[e][2] = e
        /\ pub' \in [pc : {"idle", "cache", "spans", "stamp", "graph"}, of : Nat \cup {None}]
        /\ pub'.of # None
    BY <1>3 DEF Prune, ServingTypes, Files
  <2>3. races' \in SUBSET {"prune", "fills", "window", "reload"}
    BY <1>3 DEF Prune, Race, ServingTypes
  <2> QED
    BY <1>0, <1>3, <2>1, <2>2, <2>3, DisturbFacts DEF Prune, ServingTypes
<1>4. CASE StampMeta
  <2>1. Disturb(None) /\ (UNCHANGED budget \/ Spend("faults"))
    BY <1>4 DEF StampMeta
  <2>2. meta' \in Metas \cup {None}
    <3>1. CASE meta' = [ident |-> pub.of, bound |-> slot.of]
      <4>1. pub.of \in Nat /\ slot.of \in Nat
        BY <1>4 DEF StampMeta, ServingTypes
      <4> QED
        BY <3>1, <4>1 DEF Metas
    <3> QED
      BY <3>1, <1>4 DEF StampMeta, ServingTypes
  <2>3. pub' \in [pc : {"idle", "cache", "spans", "stamp", "graph"}, of : Nat \cup {None}]
    BY <1>4 DEF StampMeta, ServingTypes
  <2> QED
    BY <1>0, <1>4, <2>1, <2>2, <2>3, DisturbFacts, SpendFacts DEF StampMeta, ServingTypes, files
<1>5. CASE BuildGraph
  <2>1. Disturb(None) /\ (UNCHANGED budget \/ Spend("faults"))
    BY <1>5 DEF BuildGraph
  <2>2. graph' \in Graphs \cup {None}
    <3>1. slot.of \in Nat /\ slot.time \in Nat /\ graph \in Graphs \cup {None}
      BY DEF ServingTypes
    <3>2. graph' = [of |-> slot.of, time |-> slot.time, keyed |-> TRUE] \/ graph' = graph
      BY <1>5 DEF BuildGraph
    <3>3. [of |-> slot.of, time |-> slot.time, keyed |-> TRUE] \in Graphs
      BY <3>1 DEF Graphs
    <3> QED
      BY <3>1, <3>2, <3>3
  <2>3. pub' \in [pc : {"idle", "cache", "spans", "stamp", "graph"}, of : Nat \cup {None}]
    BY <1>5 DEF BuildGraph, ServingTypes
  <2> QED
    BY <1>0, <1>5, <2>1, <2>2, <2>3, DisturbFacts, SpendFacts DEF BuildGraph, ServingTypes, files
<1>6. ASSUME NEW d \in Files, PeerRebuild(d) PROVE ServingTypes'
  <2> DEFINE i == <<slot.time, d>>
  <2>1. Disturb(None) /\ Spend("peers") /\ UNCHANGED <<world, pc, job, during, races>>
    BY <1>6 DEF PeerRebuild
  <2>2. slot.time \in 0..MaxPubs /\ slot.of \in Nat /\ slot.time \in Nat
    BY ServingAssumption DEF ServingTypes
  <2>3. i \in Inodes /\ i[2] = d
    BY <2>2, InodeFacts
  <2>4. /\ name' = [name EXCEPT ![d] = i] /\ tmp' = [tmp EXCEPT ![d] = None]
        /\ ino' = [ino EXCEPT ![i] = [of |-> slot.of, state |-> "full", time |-> slot.time]]
    BY <1>6 DEF PeerRebuild
  <2> HIDE DEF i
  <2>5. /\ name' \in [Files -> Inodes \cup {None}] /\ tmp' \in [Files -> Inodes \cup {None}]
        /\ \A e \in Files : (name'[e] # None => name'[e][2] = e) /\ (tmp'[e] # None => tmp'[e][2] = e)
    BY <2>3, <2>4 DEF ServingTypes
  <2>6. ino' \in [Inodes -> [of : Nat, state : {"blank", "tables", "full", "old"}, time : Nat]]
    BY <2>2, <2>4 DEF ServingTypes
  <2> QED
    BY <2>1, <2>5, <2>6, DisturbFacts, SpendFacts DEF ServingTypes, world
<1> QED
  BY <1>1, <1>2, <1>3, <1>4, <1>5, <1>6 DEF World, Build, Files

LEMMA EquippedStep ==
  ASSUME ServingTypes, EquippedInv, NEW q \in Queriers, Own(q), Kind(q)
  PROVE  EquippedInv'
<1> DEFINE j == job[q]  k == job'[q]
<1>0. /\ j \in Jobs /\ k \in Jobs /\ Equipped(q) /\ pc[q] \in Places /\ pc'[q] \in Places
      /\ slot.of # None /\ j.file \in {"cache", "spans"}
  BY NoneFacts DEF EquippedInv, ServingTypes, Own, Jobs, Files
<1>1. Equipped(q)'
  <2> USE DEF Equipped, Ladder, FillPC
  <2>1. CASE Begins(q)
    BY <2>1 DEF Begins
  <2>2. CASE Evaluates(q)
    BY <1>0, <2>2 DEF Evaluates, SameReads
  <2>3. CASE Climbs(q)
    BY <1>0, <2>3 DEF Climbs
  <2>4. CASE Connects(q)
    BY <1>0, <2>4 DEF Connects, SameJudgement
  <2>5. CASE Spans(q)
    BY <1>0, <2>5 DEF Spans, SameJudgement
  <2>6. CASE Falls(q)
    BY <1>0, <2>6 DEF Falls, SameJudgement
  <2>7. CASE Rebuilds(q)
    <3>1. pc[q] = "make" => k.made # None /\ k.made[2] = j.file
      <4>1. tmp[j.file] # None => tmp[j.file][2] = j.file
        BY <1>0 DEF ServingTypes, Files
      <4>2. <<q, j.file>> # None /\ <<q, j.file>>[2] = j.file
        BY <1>0, InodeFacts, NoneFacts DEF Files
      <4> QED
        BY <2>7, <4>1, <4>2 DEF Rebuilds
    <3> QED
      BY <1>0, <2>7, <3>1 DEF Rebuilds, SameJudgement
  <2>8. CASE Defines(q)
    <3>1. pc'[q] \in {"after", "rows", "face"}
      BY <2>8 DEF Defines, NextRead
    <3>2. pc'[q] = "face" => k.mode = "callers"
      <4>1. j.mode \in {"refs", "callers", "graph"} /\ j.mode # "graph" /\ k.mode = j.mode
        BY <1>0, <2>8, ServingAssumption DEF Defines, SameJudgement
      <4> QED
        BY <2>8, <4>1 DEF Defines, NextRead
    <3>3. k.mode # "graph"
      BY <1>0, <2>8 DEF Defines, SameJudgement
    <3> QED
      BY <1>0, <2>8, <3>1, <3>2, <3>3 DEF Defines, Reads1, SameJudgement
  <2>9. CASE Collects(q)
    BY <1>0, <2>9 DEF Collects, SameJudgement
  <2>10. CASE Rechecks(q)
    BY <1>0, <2>10 DEF Rechecks, SameReads
  <2>11. CASE TakesGraph(q)
    BY <1>0, <2>11 DEF TakesGraph, SameJudgement, SameReads
  <2>12. CASE Ends(q)
    BY <1>0, <2>12 DEF Ends
  <2> QED
    BY <2>1, <2>2, <2>3, <2>4, <2>5, <2>6, <2>7, <2>8, <2>9, <2>10, <2>11, <2>12 DEF Kind
<1>2. ASSUME NEW r \in Queriers, r # q PROVE Equipped(r)'
  <2>1. pc'[r] = pc[r] /\ job'[r] = job[r] /\ Equipped(r)
    BY <1>2 DEF Own, EquippedInv
  <2> QED
    BY <2>1 DEF Equipped
<1> QED
  BY <1>1, <1>2 DEF EquippedInv

---------------------------------------------------------------------------
(* Versions, and what a query knows of them.                               *)

\* A stamp is of one version, and versions grow.
PlaneInv ==
  /\ slot.of <= src
  /\ meta # None => meta.ident = meta.bound /\ meta.bound <= slot.of
  /\ pub.pc # "idle" => pub.of = slot.of

Certified == meta # None /\ meta.bound = slot.of

\* What a query has judged.
Judged(q) ==
  LET j == job[q] IN
  /\ pc[q] \notin {"idle", "done"} => src \in during[q]
  /\ j.src # None => j.src \in during[q]
  /\ j.hash # None => j.hash <= slot.of
  /\ j.meta # None => j.meta.ident = j.meta.bound
  /\ j.meta # None /\ pc[q] \notin {"idle", "stat", "walk", "done"} => j.src # None
  /\ j.meta # None /\ pc[q] \notin {"idle", "stat", "walk", "hash", "done"} => j.hash # None
  /\ j.meta # None => meta # None
  /\ pc[q] \in {"stat", "walk", "hash", "bind"} => ~j.stamped
  /\ j.stamped /\ j.meta # None /\ j.hash = slot.of => Certified
JudgedInv == \A q \in Queriers : Judged(q)

LEMMA TypesInit == Init => ServingTypes /\ EquippedInv /\ PlaneInv /\ JudgedInv
<1> SUFFICES ASSUME Init PROVE ServingTypes /\ EquippedInv /\ PlaneInv /\ JudgedInv
  OBVIOUS
<1> USE DEF Init
<1>1. src \in Nat /\ slot \in [of : Nat, time : Nat, touched : BOOLEAN] /\ meta \in Metas \cup {None}
  BY DEF Metas
<1>2. graph \in Graphs \cup {None}
  BY DEF Graphs
<1>3. pub \in [pc : {"idle", "cache", "spans", "stamp", "graph"}, of : Nat \cup {None}] /\ pub.pc = "idle"
  OBVIOUS
<1>4. /\ name \in [Files -> Inodes \cup {None}] /\ tmp \in [Files -> Inodes \cup {None}]
      /\ \A d \in Files : (name[d] # None => name[d][2] = d) /\ (tmp[d] # None => tmp[d][2] = d)
  BY InodeFacts
<1>5. ino \in [Inodes -> [of : Nat, state : {"blank", "tables", "full", "old"}, time : Nat]]
  OBVIOUS
<1>6. /\ pc \in [Queriers -> Places] /\ job \in [Queriers -> Jobs]
      /\ during \in [Queriers -> SUBSET Nat] /\ quiet \in [Queriers -> BOOLEAN]
  BY NoJobFacts DEF Places
<1>7. /\ races \in SUBSET {"prune", "fills", "window", "reload"}
      /\ budget \in [edits : Nat, pubs : Nat, peers : Nat, faults : Nat]
      /\ slot.time + budget.pubs = MaxPubs
  BY ServingAssumption
<1>8. ServingTypes
  BY <1>1, <1>2, <1>3, <1>4, <1>5, <1>6, <1>7 DEF ServingTypes
<1>9. EquippedInv
  BY DEF EquippedInv, Equipped, Ladder, FillPC
<1>10. PlaneInv
  BY DEF PlaneInv
<1>11. JudgedInv
  BY DEF JudgedInv, Judged, NoJob
<1> QED
  BY <1>8, <1>9, <1>10, <1>11

LEMMA PlaneNext ==
  ASSUME ServingTypes, PlaneInv, World
  PROVE  /\ PlaneInv' /\ slot.of <= slot'.of /\ (meta # None => meta' # None)
         /\ \A r \in Queriers : during[r] \subseteq during'[r]
         /\ \A r \in Active : src \in during[r] => src' \in during'[r]
<1>0. /\ src \in Nat /\ slot.of \in Nat /\ (meta # None => meta.bound \in Nat /\ meta.ident \in Nat)
      /\ during \in [Queriers -> SUBSET Nat]
  BY DEF ServingTypes, Metas
<1> USE DEF PlaneInv
<1>1. CASE Edit
  <2>1. src' = src + 1 /\ slot'.of = slot.of /\ UNCHANGED <<meta, pub>>
    BY <1>1 DEF Edit, ServingTypes
  <2>2. during' = [q \in Queriers |-> IF q \in Active THEN during[q] \cup {src + 1} ELSE during[q]]
    BY <1>1 DEF Edit
  <2> QED
    BY <1>0, <2>1, <2>2 DEF Active
<1>2. CASE PublishIndex
  BY <1>0, <1>2 DEF PublishIndex, Active
<1>3. ASSUME NEW d, NEW next, Prune(d, next), next \in {"spans", "stamp"}, d \in Files PROVE PlaneInv' /\ UNCHANGED <<src, slot, meta, during>>
  BY <1>0, <1>3 DEF Prune, Files, ServingTypes
<1>4. CASE StampMeta
  <2>1. pub'.pc = "graph" /\ pub'.of = pub.of /\ UNCHANGED <<src, slot, during>> /\ pub.of = slot.of
    BY <1>4 DEF StampMeta, ServingTypes
  <2>2. meta' = [ident |-> pub.of, bound |-> slot.of] \/ meta' = meta
    BY <1>4 DEF StampMeta
  <2>3. CASE meta' = [ident |-> pub.of, bound |-> slot.of]
    <3>1. [ident |-> pub.of, bound |-> slot.of] \in Metas
      BY <1>0, <2>1 DEF Metas
    <3> QED
      BY <1>0, <2>1, <2>3, <3>1, NoneFacts DEF Active
  <2> QED
    BY <1>0, <2>1, <2>2, <2>3 DEF Active
<1>5. CASE BuildGraph
  BY <1>0, <1>5 DEF BuildGraph, Active
<1>6. ASSUME NEW d, PeerRebuild(d) PROVE UNCHANGED <<world, during>>
  BY <1>6 DEF PeerRebuild
<1> QED
  BY <1>0, <1>1, <1>2, <1>3, <1>4, <1>5, <1>6 DEF World, Build, world, Active, Files

\* A stamp once found bound goes on certifying the index as long as that is the
\* one that was hashed.
LEMMA CertifiedStays ==
  ASSUME ServingTypes, PlaneInv, World, NEW h \in Nat, h <= slot.of, h = slot'.of,
         h = slot.of => Certified
  PROVE  Certified'
<1>0. /\ src \in Nat /\ slot.of \in Nat /\ slot.of <= src
  BY DEF ServingTypes, PlaneInv
<1>1. slot.of <= slot'.of
  BY PlaneNext
<1>2. slot.of = h /\ Certified
  BY <1>0, <1>1
<1>3. CASE StampMeta
  <2>1. slot'.of = slot.of
    BY <1>3 DEF StampMeta
  <2>2. meta' = [ident |-> pub.of, bound |-> slot.of] \/ meta' = meta
    BY <1>3 DEF StampMeta
  <2>3. meta' # None
    BY <1>2, PlaneNext DEF Certified
  <2> QED
    BY <1>2, <2>1, <2>2, <2>3 DEF Certified
<1>4. CASE ~StampMeta
  <2>1. meta' = meta
    BY <1>4 DEF World, Build, Edit, PublishIndex, Prune, BuildGraph, PeerRebuild, world
  <2> QED
    BY <1>2, <2>1 DEF Certified
<1> QED
  BY <1>3, <1>4

LEMMA JudgedWorld ==
  ASSUME ServingTypes, PlaneInv, JudgedInv, World
  PROVE  JudgedInv'
<1> SUFFICES ASSUME NEW q \in Queriers PROVE Judged(q)'
  BY DEF JudgedInv
<1> DEFINE j == job[q]
<1>1. j \in Jobs /\ Judged(q) /\ UNCHANGED <<pc, job>> /\ slot.of \in Nat /\ slot'.of \in Nat
  BY WorldKeeps, WorldTypes DEF JudgedInv, ServingTypes
<1>2. /\ slot.of <= slot'.of /\ (meta # None => meta' # None) /\ during[q] \subseteq during'[q]
      /\ q \in Active /\ src \in during[q] => src' \in during'[q]
  BY PlaneNext
<1>3. pc[q] \notin {"idle", "done"} => q \in Active
  BY DEF Active
<1>4. j.stamped /\ j.meta # None /\ j.hash = slot'.of => Certified'
  <2> SUFFICES ASSUME j.stamped, j.meta # None, j.hash = slot'.of PROVE Certified'
    OBVIOUS
  <2>1. j.hash \in Nat /\ j.hash <= slot.of /\ (j.hash = slot.of => Certified)
    BY <1>1, NoneFacts DEF Judged
  <2> QED
    BY <2>1, CertifiedStays
<1>5. j.hash # None => j.hash \in Nat /\ j.hash <= slot.of
  BY <1>1 DEF Judged, Jobs
<1> QED
  BY <1>1, <1>2, <1>3, <1>4, <1>5 DEF Judged

LEMMA JudgedStep ==
  ASSUME ServingTypes, EquippedInv, PlaneInv, JudgedInv, NEW q \in Queriers, Own(q), Kind(q)
  PROVE  JudgedInv'
<1> DEFINE j == job[q]  k == job'[q]
<1>0. /\ j \in Jobs /\ k \in Jobs /\ Judged(q) /\ pc[q] \in Places
      /\ src \in Nat /\ slot.of \in Nat /\ slot.of # None /\ src # None
      /\ (meta # None => meta.ident = meta.bound)
  BY NoneFacts DEF JudgedInv, PlaneInv, ServingTypes, Own
<1>1. UNCHANGED world /\ (pc[q] # "idle" => UNCHANGED during)
  BY DEF Kind, Begins, Evaluates, Climbs, Connects, Spans, Falls, Rebuilds, Defines, Collects, Rechecks,
         TakesGraph, Ends, hist
<1>2. UNCHANGED <<src, slot, meta>> /\ (Certified' <=> Certified)
  BY <1>1 DEF world, Certified
<1>3. Judged(q)'
  <2> USE DEF Judged
  <2>1. CASE Begins(q)
    BY <1>0, <1>2, <2>1 DEF Begins, ServingTypes
  <2>2. CASE Evaluates(q)
    <3>1. UNCHANGED during
      BY <2>2 DEF Evaluates
    <3>2. CASE pc[q] = "stat"
      BY <1>0, <1>2, <2>2, <3>1, <3>2 DEF Evaluates
    <3>3. CASE pc[q] = "walk" \/ pc[q] = "hash"
      BY <1>0, <1>2, <2>2, <3>1, <3>3 DEF Evaluates
    <3>4. CASE pc[q] = "bind"
      <4>1. k.hash = slot.of /\ k.meta # None /\ Bound(j) /\ k.hash = j.hash /\ k.meta = j.meta => Certified
        BY <1>0, <3>4 DEF Bound, Certified
      <4> QED
        BY <1>0, <1>2, <2>2, <3>1, <3>4, <4>1 DEF Evaluates
    <3> QED
      BY <2>2, <3>2, <3>3, <3>4 DEF Evaluates
  <2>3. CASE Climbs(q) \/ Connects(q) \/ Spans(q) \/ Falls(q)
    BY <1>0, <1>1, <1>2, <2>3 DEF Climbs, Connects, Spans, Falls, SameJudgement
  <2>4. CASE Rebuilds(q)
    BY <1>0, <1>1, <1>2, <2>4 DEF Rebuilds, SameJudgement
  <2>5. CASE Defines(q)
    <3>1. pc'[q] \in {"after", "rows", "face"}
      BY <2>5 DEF Defines, NextRead
    <3> QED
      BY <1>0, <1>1, <1>2, <2>5, <3>1 DEF Defines, SameJudgement
  <2>6. CASE Collects(q) \/ Rechecks(q)
    BY <1>0, <1>1, <1>2, <2>6 DEF Collects, Rechecks, SameJudgement
  <2>7. CASE TakesGraph(q) \/ Ends(q)
    BY <1>0, <1>1, <1>2, <2>7 DEF TakesGraph, Ends, SameJudgement
  <2> QED
    BY <2>1, <2>2, <2>3, <2>4, <2>5, <2>6, <2>7 DEF Kind
<1>4. ASSUME NEW r \in Queriers, r # q PROVE Judged(r)'
  <2>1. pc'[r] = pc[r] /\ job'[r] = job[r] /\ Judged(r)
    BY <1>4 DEF Own, JudgedInv
  <2>2. during'[r] = during[r]
    BY <1>4 DEF Kind, Begins, Evaluates, Climbs, Connects, Spans, Falls, Rebuilds, Defines, Collects, Rechecks,
         TakesGraph, Ends, hist, ServingTypes
  <2> QED
    BY <1>2, <2>1, <2>2 DEF Judged
<1> QED
  BY <1>3, <1>4 DEF JudgedInv

---------------------------------------------------------------------------
(* The two files, as long as the code's own races have not happened.       *)

\* A file not pruned yet by the publication under way.
Unpruned(d) == pub.pc = "cache" \/ (d = "spans" /\ pub.pc = "spans")
Sound(d, v) == v = slot.of \/ (Unpruned(d) /\ ~Certified)
Written(i)  == ino[i].state \in {"full", "old"}

\* One filler to a file, and its inode is at the temporary name, as far as it got.
FillOK(q) ==
  LET j == job[q]  d == j.file IN
  /\ pc[q] \in FillPC => /\ Sound(d, j.load)
                         /\ \A r \in Queriers : pc[r] \in FillPC /\ job[r].file = d => r = q
  /\ pc[q] = "make" => tmp[d] = None
  /\ pc[q] \in {"tables", "fill", "rename"} => tmp[d] = j.made
  /\ pc[q] = "fill" => ino[j.made].state = "tables"
  /\ pc[q] = "rename" => ino[j.made].state = "full" /\ ino[j.made].of = j.load
  /\ j.conn # None => Written(j.conn)
NamesOK == \A d \in Files : name[d] # None => Written(name[d]) /\ Sound(d, ino[name[d]].of)
FilesInv == races = {} => NamesOK /\ \A q \in Queriers : FillOK(q)

LEMMA SoundWorld ==
  ASSUME ServingTypes, PlaneInv, World, NEW d \in Files, NEW v, Sound(d, v),
         ~(pub.pc = d /\ pub'.pc # d)
  PROVE  Sound(d, v)'
<1>0. /\ src \in Nat /\ slot.of \in Nat /\ slot.of <= src /\ (meta # None => meta.bound \in Nat /\ meta.bound <= slot.of)
      /\ d \in {"cache", "spans"}
  BY DEF ServingTypes, PlaneInv, Metas, Files
<1> USE DEF Sound, Unpruned, Certified
<1>1. CASE Edit
  <2>1. slot'.of = slot.of /\ UNCHANGED <<meta, pub>>
    BY <1>1 DEF Edit, ServingTypes
  <2> QED
    BY <2>1
<1>2. CASE PublishIndex
  BY <1>0, <1>2 DEF PublishIndex
<1>3. ASSUME NEW e, NEW next, Prune(e, next), <<e, next>> \in {<<"cache", "spans">>, <<"spans", "stamp">>}
      PROVE  Sound(d, v)'
  <2>1. UNCHANGED <<slot, meta>> /\ pub.pc = e /\ pub'.pc = next
    BY <1>3 DEF Prune, ServingTypes
  <2> QED
    BY <1>0, <1>3, <2>1
<1>4. CASE StampMeta \/ BuildGraph
  BY <1>0, <1>4 DEF StampMeta, BuildGraph
<1>5. ASSUME NEW e, PeerRebuild(e) PROVE Sound(d, v)'
  BY <1>5 DEF PeerRebuild, world
<1> QED
  BY <1>1, <1>2, <1>3, <1>4, <1>5 DEF World, Build

LEMMA FilesInit == Init => FilesInv
<1> SUFFICES ASSUME Init PROVE FilesInv
  OBVIOUS
<1>1. ASSUME NEW d \in Files, name[d] # None PROVE Written(name[d]) /\ Sound(d, ino[name[d]].of)
  <2>1. name[d] = <<None, d>> /\ <<None, d>> \in Inodes
    BY <1>1, InodeFacts DEF Init
  <2> QED
    BY <2>1 DEF Init, Written, Sound
<1>2. ASSUME NEW q \in Queriers PROVE FillOK(q)
  BY DEF Init, FillOK, FillPC, NoJob
<1> QED
  BY <1>1, <1>2 DEF FilesInv, NamesOK

LEMMA FilesWorld ==
  ASSUME ServingTypes, EquippedInv, PlaneInv, FilesInv, World
  PROVE  FilesInv'
<1> SUFFICES ASSUME races' = {} PROVE NamesOK' /\ \A q \in Queriers : FillOK(q)'
  BY DEF FilesInv
<1>0. UNCHANGED <<pc, job>> /\ races = {} /\ NamesOK /\ \A q \in Queriers : FillOK(q) /\ Equipped(q) /\ job[q] \in Jobs
  BY WorldKeeps DEF FilesInv, EquippedInv, ServingTypes
<1>1. ASSUME NEW d \in Files, PeerRebuild(d) PROVE NamesOK' /\ \A q \in Queriers : FillOK(q)'
  <2> DEFINE i == <<slot.time, d>>
  <2>1. i \in Inodes /\ i[2] = d /\ slot.of \in Nat
    BY ServingAssumption, InodeFacts DEF ServingTypes
  <2>2. /\ name' = [name EXCEPT ![d] = i] /\ tmp' = [tmp EXCEPT ![d] = None]
        /\ ino' = [ino EXCEPT ![i] = [of |-> slot.of, state |-> "full", time |-> slot.time]]
        /\ Filling(d) = {} /\ ino[i].state = "blank" /\ UNCHANGED world
    BY <1>1 DEF PeerRebuild
  <2> HIDE DEF i
  <2>3. ino'[i].state = "full" /\ ino'[i].of = slot.of /\ \A x \in Inodes : x # i => ino'[x] = ino[x]
    BY <2>1, <2>2 DEF ServingTypes
  <2>4. \A e \in Files : \A v : Sound(e, v)' <=> Sound(e, v)
    BY <2>2 DEF Sound, Unpruned, Certified, world
  <2>5. NamesOK'
    <3> SUFFICES ASSUME NEW e \in Files, name'[e] # None
                 PROVE  Written(name[e])' /\ Sound(e, ino[name[e]].of)'
      BY DEF NamesOK
    <3>1. CASE e = d
      BY <2>2, <2>3, <3>1 DEF ServingTypes, Written, Sound, world
    <3>2. CASE e # d
      <4>1. name'[e] = name[e] /\ name[e] \in Inodes /\ name[e] # i
        BY <1>0, <2>2, <3>2 DEF NamesOK, Written, ServingTypes
      <4> QED
        BY <1>0, <2>3, <2>4, <4>1 DEF NamesOK, Written
    <3> QED
      BY <3>1, <3>2
  <2>6. ASSUME NEW q \in Queriers PROVE FillOK(q)'
    <3>1. pc[q] \in FillPC => job[q].file # d /\ tmp'[job[q].file] = tmp[job[q].file]
      BY <2>2 DEF Filling, FillPC, ServingTypes
    <3>2. pc[q] \in {"tables", "fill", "rename"} => job[q].made \in Inodes /\ job[q].made # i
      BY <1>0, <2>1, <3>1 DEF Equipped, Jobs, FillPC
    <3>3. job[q].conn # None => job[q].conn \in Inodes /\ job[q].conn # i
      BY <1>0, <2>2 DEF FillOK, Jobs, Written
    <3>4. job[q].file \in Files
      BY <1>0 DEF Jobs
    <3> HIDE DEF Filling
    <3> QED
      BY <1>0, <2>3, <2>4, <3>1, <3>2, <3>3, <3>4 DEF FillOK, Written, FillPC
  <2> QED
    BY <2>5, <2>6
<1>2. ASSUME NEW d \in Files, NEW next, Prune(d, next), <<d, next>> \in {<<"cache", "spans">>, <<"spans", "stamp">>}
      PROVE  NamesOK' /\ \A q \in Queriers : FillOK(q)'
  <2>1. /\ pub.pc = d /\ name' = [name EXCEPT ![d] = None] /\ UNCHANGED <<tmp, ino>> /\ Filling(d) = {}
    BY <1>2 DEF Prune, Race
  <2>2. ASSUME NEW e \in Files, NEW v, Sound(e, v), e # d PROVE Sound(e, v)'
    BY <2>1, <2>2, SoundWorld
  <2>3. NamesOK'
    BY <1>0, <2>1, <2>2 DEF NamesOK, Written, ServingTypes
  <2>4. ASSUME NEW q \in Queriers PROVE FillOK(q)'
    <3>1. pc[q] \in FillPC => job[q].file # d
      BY <2>1 DEF Filling, FillPC
    <3>2. job[q].file \in Files
      BY <1>0 DEF Jobs
    <3> QED
      BY <1>0, <2>1, <2>2, <3>1, <3>2 DEF FillOK, Written
  <2> QED
    BY <2>3, <2>4
<1>3. CASE Edit \/ PublishIndex \/ StampMeta \/ BuildGraph
  <2>1. UNCHANGED files /\ \A d \in Files : ~(pub.pc = d /\ pub'.pc # d)
    BY <1>3 DEF Edit, PublishIndex, StampMeta, BuildGraph, Files
  <2>2. ASSUME NEW e \in Files, NEW v, Sound(e, v) PROVE Sound(e, v)'
    BY <2>1, <2>2, SoundWorld
  <2>3. NamesOK'
    BY <1>0, <2>1, <2>2 DEF NamesOK, Written, files
  <2>4. ASSUME NEW q \in Queriers PROVE FillOK(q)'
    <3>1. job[q].file \in Files
      BY <1>0 DEF Jobs
    <3> QED
      BY <1>0, <2>1, <2>2, <3>1 DEF FillOK, Written, files
  <2> QED
    BY <2>3, <2>4
<1> QED
  BY <1>1, <1>2, <1>3 DEF World, Build, Files

LEMMA FilesStep ==
  ASSUME ServingTypes, EquippedInv, FilesInv, NEW q \in Queriers, Own(q), Kind(q), races' = {} => races = {}
  PROVE  FilesInv'
<1> SUFFICES ASSUME races' = {} PROVE NamesOK' /\ \A r \in Queriers : FillOK(r)'
  BY DEF FilesInv
<1> DEFINE j == job[q]  k == job'[q]  d == j.file  i == k.made
<1>0. /\ races = {} /\ NamesOK /\ j \in Jobs /\ k \in Jobs /\ d \in Files
      /\ \A r \in Queriers : FillOK(r) /\ Equipped(r) /\ job[r] \in Jobs
  BY DEF FilesInv, EquippedInv, ServingTypes, Own, Jobs
<1>1. \A e, v : Sound(e, v)' <=> Sound(e, v)
  BY DEF Kind, Begins, Evaluates, Climbs, Connects, Spans, Falls, Rebuilds, Defines, Collects, Rechecks,
         TakesGraph, Ends, world, Sound, Unpruned, Certified
<1>2. \A r \in Queriers : r # q => pc'[r] = pc[r] /\ job'[r] = job[r]
  BY DEF Own
<1>3. CASE ~Rebuilds(q)
  <2>1. UNCHANGED files /\ pc'[q] \notin FillPC /\ (k.conn = None \/ k.conn = j.conn \/ k.conn = name["cache"])
    <3>1. \A x : NextRead(x) \in {"after", "rows", "face"}
      BY DEF NextRead
    <3> QED
      BY <1>3, <3>1 DEF Kind, Begins, Evaluates, Climbs, Connects, Spans, Falls, Defines, Reads1, Collects, Rechecks,
             TakesGraph, Ends, SameReads, FillPC
  <2>2. NamesOK'
    BY <1>0, <1>1, <2>1 DEF NamesOK, Written, files
  <2>3. FillOK(q)'
    BY <1>0, <2>1 DEF FillOK, FillPC, Written, NamesOK, files, Files
  <2>4. ASSUME NEW r \in Queriers, r # q PROVE FillOK(r)'
    BY <1>0, <1>1, <1>2, <2>1, <2>4 DEF FillOK, Written, files
  <2> QED
    BY <2>2, <2>3, <2>4
<1>4. CASE Rebuilds(q)
  <2>1. k.file = d /\ k.conn = j.conn /\ pc[q] # "idle"
    BY <1>4 DEF Rebuilds
  <2>2. CASE pc[q] = "load"
    <3>1. /\ pc'[q] = "clear" /\ UNCHANGED files /\ Filling(d) = {} /\ k.load = slot.of
      BY <1>4, <2>2 DEF Rebuilds
    <3>2. \A r \in Queriers : ~(pc[r] \in FillPC /\ job[r].file = d)
      BY <3>1 DEF Filling, FillPC
    <3>3. NamesOK'
      BY <1>0, <1>1, <3>1 DEF NamesOK, Written, files
    <3>4. FillOK(q)'
      <4>1. Sound(d, k.load)
        BY <3>1 DEF Sound
      <4> QED
        BY <1>0, <1>1, <1>2, <2>1, <3>1, <3>2, <4>1 DEF FillOK, Written, files
    <3>5. ASSUME NEW r \in Queriers, r # q PROVE FillOK(r)'
      BY <1>0, <1>1, <1>2, <2>1, <3>1, <3>2, <3>5 DEF FillOK, Written, files
    <3> QED
      BY <3>3, <3>4, <3>5
  <2>3. CASE pc[q] \in FillPC
    <3>0. /\ Sound(d, j.load) /\ k.load = j.load
          /\ \A r \in Queriers : pc[r] \in FillPC /\ job[r].file = d => r = q
      BY <1>0, <1>4, <2>3 DEF FillOK, Rebuilds, FillPC
    <3>1. \A r \in Queriers : r # q /\ pc[r] \in FillPC => job[r].file \in Files /\ job[r].file # d
      BY <1>0, <3>0 DEF Jobs
    \* What is left to show once the filling of the file goes on.
    <3>2. ASSUME \A e \in Files : e # d => tmp'[e] = tmp[e],
                 \A x \in Inodes : ino'[x] # ino[x] => x[2] = d /\ ~Written(x),
                 UNCHANGED name
          PROVE  NamesOK' /\ \A r \in Queriers : r # q => FillOK(r)'
      <4>1. \A x \in Inodes : Written(x) => ino'[x] = ino[x]
        BY <3>2
      <4>2. NamesOK'
        BY <1>0, <1>1, <3>2, <4>1 DEF NamesOK, Written, ServingTypes
      <4>3. ASSUME NEW r \in Queriers, r # q PROVE FillOK(r)'
        <5>1. /\ pc'[r] = pc[r] /\ job'[r] = job[r]
              /\ pc[r] \in FillPC => tmp'[job[r].file] = tmp[job[r].file]
          BY <1>2, <3>1, <3>2, <4>3
        <5>2. pc[r] \in {"tables", "fill", "rename"} => ino'[job[r].made] = ino[job[r].made]
          BY <1>0, <3>1, <3>2, <4>3 DEF Equipped, Jobs, FillPC
        <5>3. job[r].conn # None => job[r].conn \in Inodes /\ Written(job[r].conn) /\ ino'[job[r].conn] = ino[job[r].conn]
          BY <1>0, <4>1 DEF FillOK, Jobs
        <5>4. pc[r] \in FillPC => \A s \in Queriers : pc'[s] \in FillPC /\ job'[s].file = job[r].file => s = r
          <6> SUFFICES ASSUME pc[r] \in FillPC, NEW s \in Queriers, pc'[s] \in FillPC, job'[s].file = job[r].file
                       PROVE  s = r
            OBVIOUS
          <6>1. s # q
            BY <2>1, <3>1, <4>3
          <6> QED
            BY <1>0, <1>2, <6>1 DEF FillOK
        <5> QED
          BY <1>0, <1>1, <5>1, <5>2, <5>3, <5>4 DEF FillOK, Written, FillPC
      <4> QED
        BY <4>2, <4>3
    <3>3. \A s \in Queriers : pc'[s] \in FillPC /\ job'[s].file = k.file => s = q
      BY <1>2, <2>1, <3>0
    <3>4. d \in Files /\ tmp \in [Files -> Inodes \cup {None}] /\ Sound(j.file, j.load)'
      BY <1>0, <1>1, <2>1, <3>0 DEF ServingTypes
    <3>5. CASE pc[q] = "clear"
      <4>1. pc'[q] = "make" /\ tmp' = [tmp EXCEPT ![d] = None] /\ UNCHANGED <<name, ino>>
        BY <1>4, <3>5 DEF Rebuilds
      <4>2. FillOK(q)'
        BY <1>0, <2>1, <3>3, <3>4, <4>1 DEF FillOK, Written
      <4> QED
        BY <3>2, <3>4, <4>1, <4>2
    <3>6. CASE pc[q] = "make"
      <4>1. pc'[q] = "tables" /\ tmp' = [tmp EXCEPT ![d] = i] /\ UNCHANGED <<name, ino>>
        BY <1>4, <3>6 DEF Rebuilds
      <4>2. FillOK(q)'
        BY <1>0, <2>1, <3>3, <3>4, <4>1 DEF FillOK, Written
      <4> QED
        BY <3>2, <3>4, <4>1, <4>2
    <3>7. CASE pc[q] = "tables"
      <4>1. /\ pc'[q] = "fill" /\ i = j.made /\ ino[i].state = "blank" /\ UNCHANGED <<name, tmp>>
            /\ ino' = [ino EXCEPT ![i].state = "tables"]
        BY <1>4, <3>7 DEF Rebuilds
      <4>2. i \in Inodes /\ i[2] = d /\ tmp[d] = i
        BY <1>0, <3>7, <4>1 DEF Equipped, FillOK, Jobs
      <4>3. ino'[i].state = "tables" /\ \A x \in Inodes : x # i => ino'[x] = ino[x]
        BY <4>1, <4>2 DEF ServingTypes
      <4>4. FillOK(q)'
        <5>1. k.conn # None => k.conn \in Inodes /\ Written(k.conn) /\ k.conn # i
          BY <1>0, <2>1, <4>1 DEF FillOK, Written, Jobs
        <5> QED
          BY <2>1, <3>3, <3>4, <4>1, <4>2, <4>3, <5>1 DEF FillOK, Written
      <4> QED
        BY <3>2, <4>1, <4>2, <4>3, <4>4 DEF Written
    <3>8. CASE pc[q] = "fill"
      <4>1. /\ pc'[q] = "rename" /\ i = j.made /\ UNCHANGED <<name, tmp>>
            /\ ino' = [ino EXCEPT ![i] = [of |-> j.load, state |-> "full", time |-> slot.time]]
        BY <1>4, <3>8 DEF Rebuilds
      <4>2. i \in Inodes /\ i[2] = d /\ tmp[d] = i /\ ino[i].state = "tables"
        BY <1>0, <3>8, <4>1 DEF Equipped, FillOK, Jobs
      <4>3. ino'[i].state = "full" /\ ino'[i].of = k.load /\ \A x \in Inodes : x # i => ino'[x] = ino[x]
        BY <3>0, <4>1, <4>2 DEF ServingTypes
      <4>4. FillOK(q)'
        <5>1. k.conn # None => k.conn \in Inodes /\ Written(k.conn) /\ k.conn # i
          BY <1>0, <2>1, <4>2 DEF FillOK, Written, Jobs
        <5> QED
          BY <2>1, <3>3, <3>4, <4>1, <4>2, <4>3, <5>1 DEF FillOK, Written
      <4> QED
        BY <3>2, <4>1, <4>2, <4>3, <4>4 DEF Written
    <3>9. CASE pc[q] = "rename"
      <4>1. /\ pc'[q] = "reopen" /\ UNCHANGED ino
            /\ name' = [name EXCEPT ![d] = tmp[d]] /\ tmp' = [tmp EXCEPT ![d] = None]
        BY <1>4, <3>9 DEF Rebuilds
      <4>2. /\ tmp[d] \in Inodes /\ tmp[d] = j.made /\ ino[tmp[d]].state = "full" /\ ino[tmp[d]].of = j.load
        BY <1>0, <3>9 DEF Equipped, FillOK, Jobs
      <4>3. NamesOK'
        <5> SUFFICES ASSUME NEW e \in Files, name'[e] # None PROVE Written(name[e])' /\ Sound(e, ino[name[e]].of)'
          BY DEF NamesOK
        <5>1. CASE e = d
          BY <1>1, <3>0, <4>1, <4>2, <5>1 DEF Written, ServingTypes
        <5>2. CASE e # d
          BY <1>0, <1>1, <4>1, <5>2 DEF NamesOK, Written, ServingTypes
        <5> QED
          BY <5>1, <5>2
      <4>4. ASSUME NEW r \in Queriers, r # q PROVE FillOK(r)'
        <5>1. /\ pc'[r] = pc[r] /\ job'[r] = job[r]
              /\ pc[r] \in FillPC => tmp'[job[r].file] = tmp[job[r].file]
          BY <1>2, <3>1, <3>4, <4>1, <4>4
        <5>2. pc'[q] \notin FillPC
          BY <4>1 DEF FillPC
        <5> QED
          BY <1>0, <1>1, <1>2, <4>1, <5>1, <5>2 DEF FillOK, Written, FillPC
      <4>5. FillOK(q)'
        BY <1>0, <2>1, <4>1 DEF FillOK, Written, FillPC
      <4> QED
        BY <4>3, <4>4, <4>5
    <3> QED
      BY <2>3, <3>5, <3>6, <3>7, <3>8, <3>9 DEF FillPC
  <2> QED
    BY <1>4, <2>2, <2>3 DEF Rebuilds, FillPC
<1> QED
  BY <1>3, <1>4

---------------------------------------------------------------------------
(* What a query that may still answer exactly has read is what it hashed.  *)

\* Its stamp was bound, and the index is the one it hashed, or was when it looked last.
Past(q) == pc[q] = "verdict" \/ (pc[q] = "rows" /\ job[q].mode = "callers")
Kept(q) ==
  LET j == job[q] IN
  j.stamped /\ j.meta # None /\ j.hash # None /\ (Past(q) \/ j.hash = slot.of)
Right(q) ==
  LET j == job[q] IN
  /\ j.load # None => j.load = j.hash
  /\ j.conn # None => ino[j.conn].of = j.hash
  /\ j.file = "spans" => j.defs = j.hash
  /\ j.mode = "refs" /\ pc[q] \in {"after", "verdict"} => j.rows = j.hash
  /\ j.mode = "callers" /\ pc[q] \in {"after", "rows", "verdict"} => j.spans = j.hash
  /\ j.mode = "callers" /\ pc[q] = "verdict" => j.rows = j.hash
RightInv ==
  races = {} => \A q \in Queriers : pc[q] \notin {"idle", "done"} /\ Kept(q) => Right(q)

LEMMA RightInit == Init => RightInv
BY DEF Init, RightInv

\* What is written stays as it is, unless a race made two fillers meet.
LEMMA WrittenStays ==
  ASSUME ServingTypes, EquippedInv, FilesInv, races = {}, NEW i \in Inodes, Written(i),
         World \/ \E q \in Queriers : Kind(q)
  PROVE  ino'[i] = ino[i]
<1>1. CASE World
  BY <1>1 DEF World, Build, Edit, PublishIndex, Prune, StampMeta, BuildGraph, PeerRebuild, files, Written, ServingTypes
<1>2. ASSUME NEW q \in Queriers, Kind(q) PROVE ino'[i] = ino[i]
  <2>1. CASE Rebuilds(q)
    <3>1. pc[q] = "fill" => ino[job[q].made].state = "tables"
      BY DEF FilesInv, FillOK
    <3> QED
      BY <2>1, <3>1 DEF Rebuilds, files, Written, ServingTypes
  <2> QED
    BY <1>2, <2>1 DEF Kind, Begins, Evaluates, Climbs, Connects, Spans, Falls, Defines, Collects, Rechecks, TakesGraph,
           Ends, files
<1> QED
  BY <1>1, <1>2

LEMMA RightWorld ==
  ASSUME ServingTypes, EquippedInv, PlaneInv, JudgedInv, FilesInv, RightInv, World
  PROVE  RightInv'
<1> SUFFICES ASSUME races' = {}, NEW q \in Queriers, pc'[q] \notin {"idle", "done"}, Kept(q)' PROVE Right(q)'
  BY DEF RightInv
<1>1. UNCHANGED <<pc, job>> /\ races = {} /\ job[q] \in Jobs
  BY WorldKeeps DEF ServingTypes
<1>2. Kept(q)
  <2>1. job[q].hash # None => job[q].hash \in Nat /\ job[q].hash <= slot.of
    BY <1>1 DEF JudgedInv, Judged, Jobs
  <2>2. slot.of \in Nat /\ slot'.of \in Nat /\ slot.of <= slot'.of
    BY PlaneNext, WorldTypes DEF ServingTypes
  <2> QED
    BY <1>1, <2>1, <2>2 DEF Kept, Past
<1>3. Right(q)
  BY <1>1, <1>2 DEF RightInv
<1>4. job[q].conn # None => ino'[job[q].conn] = ino[job[q].conn]
  BY <1>1, WrittenStays DEF FilesInv, FillOK, Jobs
<1> QED
  BY <1>1, <1>3, <1>4 DEF Right

LEMMA RightStep ==
  ASSUME ServingTypes, EquippedInv, PlaneInv, JudgedInv, FilesInv, RightInv,
         NEW q \in Queriers, Own(q), Kind(q), races' = {} => races = {}
  PROVE  RightInv'
<1> SUFFICES ASSUME races' = {}, NEW r \in Queriers, pc'[r] \notin {"idle", "done"}, Kept(r)' PROVE Right(r)'
  BY DEF RightInv
<1> DEFINE j == job[q]  k == job'[q]
<1>0. /\ races = {} /\ slot' = slot
      /\ \A x \in Queriers : job[x] \in Jobs /\ Equipped(x) /\ Judged(x) /\ FillOK(x)
  BY DEF FilesInv, EquippedInv, JudgedInv, ServingTypes, Kind, Begins, Evaluates, Climbs, Connects, Spans, Falls, Rebuilds,
         Defines, Collects, Rechecks, TakesGraph, Ends, world
<1>1. \A x \in Queriers : job[x].conn # None =>
         job[x].conn \in Inodes /\ Written(job[x].conn) /\ ino'[job[x].conn] = ino[job[x].conn]
  BY <1>0, WrittenStays DEF FillOK, Jobs
<1>2. CASE r # q
  <2>1. pc'[r] = pc[r] /\ job'[r] = job[r]
    BY <1>2 DEF Own
  <2>2. Kept(r)
    BY <1>0, <2>1 DEF Kept, Past
  <2>3. Right(r)
    BY <1>0, <2>1, <2>2 DEF RightInv
  <2> QED
    BY <1>1, <2>1, <2>3 DEF Right
<1>3. CASE r = q
  <2>0. /\ j \in Jobs /\ k \in Jobs /\ Equipped(q) /\ Judged(q) /\ pc'[q] \notin {"idle", "done"}
        /\ j.file \in {"cache", "spans"} /\ slot.of \in Nat /\ slot.of # None /\ Empty \notin Nat
        /\ (j.conn # None => ReadAt(j.conn) = ino[j.conn].of)
    BY <1>0, <1>1, <1>3, NoneFacts DEF ServingTypes, Own, Jobs, Files, ReadAt, Written
  <2>1. k.stamped /\ k.meta # None /\ k.hash # None /\ (Past(q)' \/ k.hash = slot.of)
    BY <1>0, <1>3 DEF Kept
  \* It was so before the step, when it was in the middle of its work.
  <2>2. ASSUME SameJudgement(j, k), pc[q] \notin {"idle", "done"}, Past(q)' => Past(q) PROVE Kept(q) /\ Right(q)
    <3>1. Kept(q)
      BY <2>1, <2>2 DEF Kept, SameJudgement
    <3> QED
      BY <1>0, <2>2, <3>1 DEF RightInv
  <2>3. \A d \in Files : SameJudgement(j, k) /\ k.hash = slot.of /\ name[d] # None => Written(name[d]) /\ ino[name[d]].of = k.hash
    <3> SUFFICES ASSUME NEW d \in Files, SameJudgement(j, k), k.hash = slot.of, name[d] # None
                 PROVE  Written(name[d]) /\ ino[name[d]].of = k.hash
      OBVIOUS
    <3>1. Certified
      BY <2>0, <2>1 DEF Judged, SameJudgement
    <3> QED
      BY <1>0, <3>1 DEF FilesInv, NamesOK, Sound
  <2> USE DEF Right
  <2>4. CASE Begins(q)
    BY <2>1, <2>4 DEF Begins
  <2>5. CASE Evaluates(q)
    <3>1. k.load = None /\ k.conn = None /\ k.file = "cache" /\ pc'[q] \in {"stat", "walk", "hash", "bind", "face"}
      BY <2>0, <2>5 DEF Equipped, Evaluates, SameReads
    <3> QED
      BY <1>3, <3>1
  <2>6. CASE Climbs(q)
    <3>1. Right(q)
      BY <2>2, <2>6 DEF Climbs, Past, SameJudgement
    <3> QED
      BY <1>1, <1>3, <2>6, <3>1 DEF Climbs
  <2>7. CASE Connects(q)
    <3>1. Right(q) /\ k.hash = slot.of /\ ino[name["cache"]].of = k.hash
      BY <2>1, <2>2, <2>3, <2>7 DEF Connects, Past, Files
    <3> QED
      BY <1>0, <1>3, <2>7, <3>1 DEF Connects, SameJudgement, files
  <2>8. CASE Spans(q)
    <3>1. Right(q) /\ k.hash = slot.of /\ Written(name["spans"]) /\ ino[name["spans"]].of = k.hash
      BY <2>1, <2>2, <2>3, <2>8 DEF Spans, Past, Files
    <3>2. ReadAt(name["spans"]) = k.hash /\ k.mode = "callers"
      BY <2>0, <2>8, <3>1 DEF ReadAt, Written, Equipped, Ladder, Spans, SameJudgement
    <3> QED
      BY <1>1, <1>3, <2>8, <3>1, <3>2 DEF Spans, SameJudgement
  <2>9. CASE Falls(q)
    <3>1. Right(q) /\ k.hash = slot.of
      BY <2>1, <2>2, <2>9 DEF Falls, Past
    <3>2. k.load = k.hash
      BY <2>0, <2>1, <2>9, <3>1 DEF Falls, Equipped, Ladder, FillPC, SameJudgement
    <3>3. k.file = "spans" => k.mode = "callers"
      BY <2>0, <2>9 DEF Falls, Equipped, Ladder, FillPC, SameJudgement
    <3> QED
      BY <1>1, <1>3, <2>0, <2>9, <3>1, <3>2, <3>3 DEF Falls, SameJudgement
  <2>10. CASE Rebuilds(q)
    <3>1. Right(q) /\ k.hash = slot.of
      BY <2>1, <2>2, <2>10 DEF Rebuilds, Past
    <3>2. (k.load # None => k.load = k.hash) /\ pc'[q] \notin {"after", "rows", "verdict"}
      BY <2>0, <2>10, <3>1 DEF Rebuilds, SameJudgement
    <3> QED
      BY <1>1, <1>3, <2>10, <3>1, <3>2 DEF Rebuilds, SameJudgement
  <2>11. CASE Defines(q)
    <3>1. pc'[q] = NextRead(k) /\ ~Past(q)'
      BY <2>11 DEF Defines, NextRead, Past
    <3>2. Right(q) /\ k.hash = slot.of
      BY <2>1, <2>2, <2>11, <3>1 DEF Defines
    <3>3. /\ k.defs = k.hash /\ (k.load # None => k.load = k.hash) /\ (k.conn # None => k.conn = j.conn)
      BY <2>0, <2>11, <3>2 DEF Defines, Reads1, Equipped, SameJudgement
    <3>4. pc'[q] \in {"rows", "face"} /\ (pc'[q] = "rows" => k.mode = "refs")
      BY <2>0, <3>1, <3>2, <3>3 DEF NextRead
    <3> QED
      BY <1>1, <1>3, <3>2, <3>3, <3>4, <2>11 DEF Defines, SameJudgement
  <2>12. CASE Collects(q)
    <3>1. Past(q)' => Past(q)
      <4>1. pc[q] = "rows" /\ j.mode \in {"refs", "callers", "graph"} /\ j.mode # "graph" /\ k.mode = j.mode
        BY <2>0, <2>12, ServingAssumption DEF Collects, Equipped, SameJudgement
      <4> QED
        BY <2>12, <4>1 DEF Collects, Past
    <3>2. Right(q) /\ j.file = "spans" /\ j.defs = k.hash /\ (j.mode = "refs" => k.hash = slot.of)
      BY <2>0, <2>1, <2>2, <2>12, <3>1 DEF Collects, Equipped, Past, SameJudgement
    <3>3. k.rows = k.hash /\ k.defs = k.hash
      BY <2>0, <2>12, <3>2 DEF Collects, Equipped, SameJudgement
    <3> QED
      BY <1>1, <1>3, <2>12, <3>2, <3>3 DEF Collects, SameJudgement
  <2>13. CASE Rechecks(q)
    <3>1. k.hash = slot.of
      <4>1. j.meta # None /\ j.stamped /\ Bound(j) /\ ~InWindow /\ k.hash = j.hash /\ j.hash # None
        BY <2>1, <2>13 DEF Rechecks
      <4>2. meta # None
        BY <2>0, <4>1 DEF Judged
      <4> QED
        BY <4>1, <4>2 DEF Bound, InWindow
    <3>2. Kept(q)
      BY <2>1, <2>13, <3>1 DEF Kept, Rechecks
    <3>3. Right(q) /\ j.file = "spans" /\ j.defs = j.hash /\ j.hash # Empty
      BY <1>0, <2>0, <2>13, <3>1, <3>2 DEF RightInv, Rechecks, Equipped
    <3>4. k.mode = j.mode /\ k.hash = j.hash /\ SameReads(j, k) /\ pc'[q] \in {"rows", "verdict"}
          /\ (k.mode = "callers" => pc'[q] = "rows")
      BY <2>13, <3>3 DEF Rechecks
    <3> QED
      BY <1>1, <1>3, <2>13, <3>3, <3>4 DEF Rechecks, SameReads
  <2>14. CASE TakesGraph(q)
    <3>1. k.load = None /\ k.conn = None /\ k.file = "cache" /\ k.mode = "graph"
      BY <2>0, <2>14 DEF TakesGraph, Equipped, SameReads, SameJudgement
    <3> QED
      BY <1>3, <3>1
  <2>15. CASE Ends(q)
    BY <2>0, <2>15 DEF Ends
  <2> QED
    BY <2>4, <2>5, <2>6, <2>7, <2>8, <2>9, <2>10, <2>11, <2>12, <2>13, <2>14, <2>15 DEF Kind
<1> QED
  BY <1>2, <1>3

---------------------------------------------------------------------------
(* What the verdicts say.                                                  *)

LEMMA ScipTiers ==
  ASSUME NEW j
  PROVE  /\ ScipVerdict(j).tier = "no-coverage" => j.stamped /\ DeltaAnswered(j) /\ j.defs = Empty
         /\ ScipVerdict(j).tier = "exact" => j.stamped /\ DeltaAnswered(j) /\ ~SourceStale(j)
         /\ j.stamped /\ DeltaAnswered(j) /\ ~SourceStale(j) /\ j.defs # Empty => ScipVerdict(j).tier = "exact"
<1> DEFINE none == j.mode = "callers" /\ j.defs # Empty /\ EdgesEmpty(j)
           stale == SourceStale(j)
           delta == DeltaAnswered(j)
<1>1. CASE ~j.stamped
  BY <1>1 DEF ScipVerdict
<1>2. CASE j.stamped /\ stale /\ none
  <2>1. ScipVerdict(j).tier = IF delta THEN "possibly-stale" ELSE "indeterminate"
    BY <1>2 DEF ScipVerdict
  <2> QED
    BY <1>2, <2>1
<1>3. CASE j.stamped /\ ~(stale /\ none)
  <2>1. ScipVerdict(j).tier = CASE ~delta -> "indeterminate"
                                [] delta /\ j.defs = Empty -> "no-coverage"
                                [] delta /\ j.defs # Empty /\ stale -> "possibly-stale"
                                [] OTHER -> "exact"
    BY <1>3 DEF ScipVerdict
  <2> HIDE DEF none, stale, delta
  <2>2. CASE ~delta
    BY <2>1, <2>2 DEF stale, delta
  <2>3. CASE delta /\ j.defs = Empty
    BY <1>3, <2>1, <2>3 DEF stale, delta
  <2>4. CASE delta /\ j.defs # Empty /\ stale
    BY <1>3, <2>1, <2>4 DEF stale, delta
  <2>5. CASE delta /\ j.defs # Empty /\ ~stale
    BY <1>3, <2>1, <2>5 DEF stale, delta
  <2> QED
    BY <2>2, <2>3, <2>4, <2>5
<1> QED
  BY <1>1, <1>2, <1>3

LEMMA GraphTiers ==
  ASSUME NEW j
  PROVE  /\ GraphVerdict(j).tier # "no-coverage"
         /\ GraphVerdict(j).tier = "exact" =>
              /\ j.stamped /\ DeltaAnswered(j) /\ ~SourceStale(j) /\ j.keyed /\ j.hash \in {None, j.graph}
         /\ j.stamped /\ DeltaAnswered(j) /\ ~RebuildNeeded(j) /\ j.keyed /\ j.hash = j.graph =>
              GraphVerdict(j).tier = "exact"
<1> DEFINE stale == RebuildNeeded(j)
           refused == stale /\ j.graph \notin Called
           known == DeltaAnswered(j) /\ (j.keyed \/ refused)
           unbound == ~j.stamped \/ (j.keyed /\ j.hash \notin {None, j.graph})
<1>1. GraphVerdict(j).tier = CASE unbound \/ ~known -> "indeterminate"
                               [] ~unbound /\ known /\ stale -> "possibly-stale"
                               [] ~unbound /\ known /\ ~stale -> "exact"
  BY DEF GraphVerdict
<1>2. CASE unbound \/ ~known
  <2>1. GraphVerdict(j).tier = "indeterminate"
    <3> HIDE DEF stale, known, unbound
    <3> QED
      BY <1>1, <1>2
  <2> QED
    BY <1>2, <2>1
<1>3. CASE ~unbound /\ known /\ stale
  <2>1. GraphVerdict(j).tier = "possibly-stale"
    <3> HIDE DEF stale, known, unbound
    <3> QED
      BY <1>1, <1>3
  <2> QED
    BY <1>3, <2>1
<1>4. CASE ~unbound /\ known /\ ~stale
  <2>1. GraphVerdict(j).tier = "exact"
    <3> HIDE DEF stale, known, unbound
    <3> QED
      BY <1>1, <1>4
  <2> QED
    BY <1>4, <2>1 DEF RebuildNeeded
<1> QED
  BY <1>2, <1>3, <1>4

\* No tier is announced before the verdict.
TierInv == \A q \in Queriers : pc[q] # "done" => job[q].tier = None

AnswersInv == TierInv /\ ExactUnlessRaced

LEMMA AnswersInit == Init => AnswersInv
BY DEF Init, AnswersInv, TierInv, NoJob, ExactUnlessRaced, ExactIsTrue, Certain

LEMMA AnswersWorld ==
  ASSUME ServingTypes, PlaneInv, AnswersInv, World
  PROVE  AnswersInv'
<1>1. UNCHANGED <<pc, job>> /\ (races' = {} => races = {}) /\ \A q \in Queriers : during[q] \subseteq during'[q]
  BY WorldKeeps, PlaneNext
<1>2. TierInv'
  BY <1>1 DEF AnswersInv, TierInv
<1>3. ASSUME races' = {}, NEW q \in Queriers, Certain(q)' PROVE True(q)'
  <2>1. Certain(q) /\ races = {}
    BY <1>1, <1>3 DEF Certain
  <2>2. True(q)
    BY <2>1 DEF AnswersInv, ExactUnlessRaced, ExactIsTrue
  <2> QED
    BY <1>1, <2>2 DEF True
<1> QED
  BY <1>2, <1>3 DEF AnswersInv, ExactUnlessRaced, ExactIsTrue

LEMMA AnswersStep ==
  ASSUME ServingTypes, EquippedInv, PlaneInv, JudgedInv, RightInv, AnswersInv,
         NEW q \in Queriers, Own(q), Kind(q), races' = {} => races = {}
  PROVE  AnswersInv'
<1> DEFINE j == job[q]  k == job'[q]
<1>0. /\ j \in Jobs /\ Equipped(q) /\ Judged(q) /\ pc[q] \in Places /\ pc'[q] \in Places
  BY DEF EquippedInv, JudgedInv, ServingTypes, Own
<1>1. pc[q] # "done" /\ (pc[q] # "idle" => UNCHANGED during)
  BY DEF Kind, Begins, Evaluates, Climbs, Connects, Spans, Falls, Rebuilds, Defines, Collects, Rechecks,
         TakesGraph, Ends, hist
<1>2. pc'[q] # "done" \/ TakesGraph(q) => k.tier = None
  <2>1. j.tier = None
    BY <1>1 DEF AnswersInv, TierInv
  <2> QED
    BY <2>1 DEF Kind, Begins, Evaluates, Climbs, Connects, Spans, Falls, Rebuilds, Defines, Collects, Rechecks,
         TakesGraph, Ends, SameJudgement
<1>3. TierInv'
  BY <1>2 DEF AnswersInv, TierInv, Own
<1>4. ASSUME races' = {}, NEW r \in Queriers, Certain(r)' PROVE True(r)'
  <2>1. CASE r # q
    <3>1. pc'[r] = pc[r] /\ job'[r] = job[r] /\ during'[r] = during[r]
      BY <2>1 DEF Own, Kind, Begins, Evaluates, Climbs, Connects, Spans, Falls, Rebuilds, Defines, Collects, Rechecks,
           TakesGraph, Ends, hist, ServingTypes
    <3>2. True(r)
      BY <1>4, <3>1 DEF Certain, AnswersInv, ExactUnlessRaced, ExactIsTrue
    <3> QED
      BY <3>1, <3>2 DEF True
  <2>2. CASE r = q
    <3>1. Ends(q)
      <4>1. pc'[q] = "done" /\ k.tier # None
        BY <1>4, <2>2, ServingSentinelAssumption DEF Certain
      <4>2. \A x : NextRead(x) # "done"
        BY DEF NextRead
      <4> QED
        BY <1>2, <4>1, <4>2 DEF Kind, Begins, Evaluates, Climbs, Connects, Spans, Falls, Rebuilds, Defines, Collects, Rechecks
    <3>2. /\ pc[q] = "verdict" /\ UNCHANGED during /\ k.tier \in {"exact", "no-coverage"}
          /\ k.mode = j.mode /\ k.defs = j.defs /\ k.spans = j.spans /\ k.rows = j.rows /\ k.graph = j.graph
      BY <1>1, <1>4, <2>2, <3>1 DEF Ends, Certain
    <3>3. j.mode \in {"refs", "callers", "graph"}
      BY <1>0, <3>2, ServingAssumption DEF Equipped
    \* What was stamped, bound and without drift is of the source as it was walked.
    <3>4. ASSUME DeltaAnswered(j), ~SourceStale(j) PROVE j.hash \in during[q] /\ j.hash \in Nat
      <4>1. j.meta # None /\ j.hash = j.meta.bound /\ j.src = j.meta.ident
        BY <3>4 DEF DeltaAnswered, SourceStale, Drift
      <4>2. j.src # None /\ j.src \in during[q] /\ j.meta.ident = j.meta.bound
        BY <1>0, <3>2, <4>1 DEF Judged
      <4> QED
        BY <1>0, <4>1, <4>2 DEF ServingTypes
    <3>5. CASE j.mode = "graph"
      <4>1. k.tier = GraphVerdict(j).tier
        BY <3>1, <3>5 DEF Ends
      <4>2. DeltaAnswered(j) /\ ~SourceStale(j) /\ j.hash \in {None, j.graph}
        BY <3>2, <4>1, GraphTiers
      <4>3. j.graph = j.hash /\ j.hash \in during[q]
        BY <3>4, <4>2, NoneFacts
      <4> QED
        BY <2>2, <3>2, <3>5, <4>3 DEF True
    <3>6. CASE j.mode # "graph"
      <4>1. k.tier = ScipVerdict(j).tier
        BY <3>1, <3>6 DEF Ends
      <4>2. j.stamped /\ DeltaAnswered(j)
        BY <3>2, <4>1, ScipTiers
      <4>3. j.hash # None /\ j.hash \in Nat
        BY <1>0, <3>2, <4>2 DEF DeltaAnswered, Judged, Jobs, Metas
      <4>4. Right(q)
        BY <1>4, <3>2, <4>2, <4>3 DEF RightInv, Kept, Past, DeltaAnswered
      <4>5. j.defs = j.hash /\ j.rows = j.hash /\ (j.mode = "callers" => j.spans = j.hash)
        BY <1>0, <3>2, <3>3, <3>6, <4>4 DEF Equipped, Right
      <4>6. ~SourceStale(j)
        BY <3>2, <4>1, <4>3, <4>5, ScipTiers, NoneFacts
      <4>7. j.hash \in during[q]
        BY <3>4, <4>2, <4>6
      <4> QED
        BY <2>2, <3>2, <3>3, <3>6, <4>5, <4>7 DEF True
    <3> QED
      BY <3>5, <3>6
  <2> QED
    BY <2>1, <2>2
<1> QED
  BY <1>3, <1>4 DEF AnswersInv, ExactUnlessRaced, ExactIsTrue

---------------------------------------------------------------------------
(* A query that nothing disturbs, over a plane that is settled.            *)

SettledPlane == meta # None /\ meta.ident = src /\ meta.bound = slot.of
GraphCurrent == graph # None /\ graph.of = src /\ graph.keyed /\ graph.time >= slot.time
Undisturbed(q) ==
  LET j == job[q]  d == j.file IN
  /\ pc[q] \notin {"idle", "stat", "done"} =>
       j.meta = meta /\ (j.lags <=> graph = None \/ graph.time < slot.time)
  /\ pc[q] \notin {"idle", "stat", "walk", "done"} => j.src = src
  /\ pc[q] \notin {"idle", "stat", "walk", "hash", "done"} => j.hash = slot.of
  /\ pc[q] \notin {"idle", "stat", "walk", "hash", "bind", "done"} => j.stamped
  /\ pc[q] \in {"open", "reopen"} => name[d] # None /\ ino[name[d]].state = "full"
  /\ pc[q] = "make" => tmp[d] = None
  /\ pc[q] \in {"tables", "fill", "rename"} => tmp[d] = j.made
  /\ pc[q] = "rename" => ino[j.made].state = "full"
  /\ pc[q] \notin {"idle", "done"} => j.defs # Empty /\ (j.conn # None => ino[j.conn].state = "full")
  /\ pc[q] = "verdict" /\ j.mode = "graph" => j.graph = graph.of /\ j.keyed = graph.keyed /\ graph # None
  /\ pc[q] = "done" /\ (j.mode = "graph" => GraphCurrent) => j.tier = "exact"
QuietInv == SettledPlane => \A q \in Queriers : quiet[q] => Undisturbed(q)

LEMMA QuietInit == Init => QuietInv
BY DEF Init, QuietInv, Undisturbed

LEMMA QuietWorld ==
  ASSUME ServingTypes, World
  PROVE  QuietInv'
<1>1. Disturb(None) /\ UNCHANGED pc
  BY DEF World, Build, Edit, PublishIndex, Prune, StampMeta, BuildGraph, PeerRebuild
<1>2. \A q \in Queriers : quiet'[q] => pc'[q] = "idle"
  BY <1>1, DisturbFacts, NoneFacts
<1> QED
  BY <1>2 DEF QuietInv, Undisturbed

LEMMA QuietStep ==
  ASSUME ServingTypes, EquippedInv, PlaneInv, QuietInv, NEW q \in Queriers, Own(q), Kind(q)
  PROVE  QuietInv'
<1> SUFFICES ASSUME SettledPlane', NEW r \in Queriers, quiet'[r] PROVE Undisturbed(r)'
  BY DEF QuietInv
<1> DEFINE j == job[q]  k == job'[q]  d == j.file
<1>1. UNCHANGED world /\ (UNCHANGED <<files, quiet>> \/ Disturb(q) \/ (UNCHANGED files /\ quiet' = [quiet EXCEPT ![q] = FALSE]))
  BY DEF Kind, Begins, Evaluates, Climbs, Connects, Spans, Falls, Rebuilds, Defines, Collects, Rechecks,
         TakesGraph, Ends, hist
<1>2. SettledPlane /\ quiet[r] /\ (r # q /\ ~UNCHANGED files => pc[r] = "idle")
  BY <1>1, DisturbFacts DEF SettledPlane, world, ServingTypes
<1>3. Undisturbed(r)
  BY <1>2 DEF QuietInv
<1>4. CASE r # q
  <2>1. pc'[r] = pc[r] /\ job'[r] = job[r]
    BY <1>4 DEF Own
  <2>2. CASE UNCHANGED files
    BY <1>1, <1>3, <2>1, <2>2 DEF Undisturbed, world, files, GraphCurrent
  <2>3. CASE ~UNCHANGED files
    BY <1>2, <1>4, <2>1, <2>3 DEF Undisturbed
  <2> QED
    BY <2>2, <2>3
<1>5. CASE r = q
  <2>0. /\ j \in Jobs /\ k \in Jobs /\ Equipped(q) /\ Undisturbed(q) /\ pc[q] \in Places
        /\ d \in Files /\ d \in {"cache", "spans"} /\ slot.of \in Nat /\ None # Empty /\ Empty \notin Nat
        /\ UNCHANGED <<src, slot, meta, graph>> /\ SettledPlane
        /\ \A e \in Files : name[e] # None => name[e] \in Inodes
        /\ \A i \in Inodes : ino[i].of \in Nat
    BY <1>1, <1>2, <1>3, <1>5, NoneFacts DEF ServingTypes, EquippedInv, Own, Jobs, Files, world
  <2> USE DEF Undisturbed
  <2>1. CASE Begins(q)
    BY <1>5, <2>0, <2>1 DEF Begins
  <2>2. CASE Evaluates(q)
    <3>1. pc[q] = "bind" => Bound(j)
      BY <2>0 DEF Bound, SettledPlane
    <3>2. pc[q] = "bind" /\ quiet'[q] => pc'[q] = "face" /\ k.stamped
      BY <2>0, <2>2, <3>1 DEF Evaluates, ServingTypes
    <3>3. j.conn = None /\ k.conn = None /\ k.defs = j.defs /\ meta # None /\ pc'[q] \in {"stat", "walk", "hash", "bind", "face"}
      BY <2>0, <2>2 DEF Evaluates, Equipped, SameReads, SettledPlane
    <3>4. CASE pc[q] = "stat"
      BY <1>5, <2>0, <2>2, <3>3, <3>4 DEF Evaluates
    <3>5. CASE pc[q] = "walk" \/ pc[q] = "hash"
      BY <1>5, <2>0, <2>2, <3>3, <3>5 DEF Evaluates
    <3>6. CASE pc[q] = "bind"
      BY <1>5, <2>0, <2>2, <3>2, <3>3, <3>6 DEF Evaluates
    <3> QED
      BY <2>2, <3>4, <3>5, <3>6 DEF Evaluates
  <2>3. CASE Climbs(q)
    BY <1>5, <2>0, <2>3 DEF Climbs, Stale, files
  <2>4. CASE Connects(q)
    BY <1>5, <2>0, <2>4 DEF Connects, SameJudgement, files
  <2>5. CASE Spans(q)
    BY <1>5, <2>0, <2>5 DEF Spans, SameJudgement, files
  <2>6. CASE Falls(q)
    <3>1. pc'[q] \in {"defs", "after"} /\ pc[q] \in {"face", "open", "reopen"} \cup FillPC /\ UNCHANGED files
      BY <2>6 DEF Falls, FillPC
    <3> QED
      BY <1>5, <2>0, <2>6, <3>1 DEF Falls, SameJudgement, files, FillPC
  <2>7. CASE Rebuilds(q)
    <3>1. /\ pc[q] \in {"load"} \cup FillPC /\ pc'[q] \in {"reopen"} \cup FillPC /\ SameJudgement(j, k)
          /\ k.file = d /\ k.conn = j.conn /\ k.defs = j.defs
      BY <2>7 DEF Rebuilds, FillPC
    <3>2. ASSUME pc'[q] = "make" => tmp'[d] = None,
                 pc'[q] \in {"tables", "fill", "rename"} => tmp'[d] = k.made,
                 pc'[q] = "rename" => ino'[k.made].state = "full",
                 pc'[q] = "reopen" => name'[d] # None /\ ino'[name'[d]].state = "full",
                 \A i \in Inodes : ino[i].state = "full" => ino'[i].state = "full"
          PROVE  Undisturbed(q)'
      <4>1. k.conn # None => k.conn \in Inodes /\ ino'[k.conn].state = "full"
        BY <2>0, <3>1, <3>2 DEF Jobs, FillPC
      <4> QED
        BY <2>0, <3>1, <3>2, <4>1 DEF SameJudgement, FillPC
    <3>3. CASE pc[q] = "load"
      <4>1. pc'[q] = "clear" /\ UNCHANGED files
        BY <2>7, <3>3 DEF Rebuilds
      <4> QED
        BY <1>5, <3>2, <4>1 DEF files
    <3>4. CASE pc[q] = "clear"
      <4>1. pc'[q] = "make" /\ tmp' = [tmp EXCEPT ![d] = None] /\ UNCHANGED <<name, ino>>
        BY <2>7, <3>4 DEF Rebuilds
      <4> QED
        BY <1>5, <2>0, <3>2, <4>1 DEF ServingTypes
    <3>5. CASE pc[q] = "make"
      <4>1. pc'[q] = "tables" /\ tmp' = [tmp EXCEPT ![d] = k.made] /\ UNCHANGED <<name, ino>>
        BY <2>7, <3>5 DEF Rebuilds
      <4> QED
        BY <1>5, <2>0, <3>2, <4>1 DEF ServingTypes
    <3>6. CASE pc[q] = "tables"
      <4>1. /\ pc'[q] = "fill" /\ k.made = j.made /\ UNCHANGED <<name, tmp>> /\ ino[j.made].state = "blank"
            /\ ino' = [ino EXCEPT ![j.made].state = "tables"]
        BY <2>7, <3>6 DEF Rebuilds
      <4>2. \A i \in Inodes : ino[i].state = "full" => ino'[i] = ino[i]
        BY <4>1 DEF ServingTypes
      <4> QED
        BY <1>5, <2>0, <3>2, <3>6, <4>1, <4>2
    <3>7. CASE pc[q] = "fill"
      <4>1. /\ pc'[q] = "rename" /\ k.made = j.made /\ UNCHANGED <<name, tmp>>
            /\ ino' = [ino EXCEPT ![j.made] = [of |-> j.load, state |-> "full", time |-> slot.time]]
        BY <2>7, <3>7 DEF Rebuilds
      <4>2. j.made \in Inodes
        BY <2>0, <3>7 DEF Equipped, Jobs
      <4>3. ino'[j.made].state = "full" /\ \A i \in Inodes : ino[i].state = "full" => ino'[i].state = "full"
        BY <4>1, <4>2 DEF ServingTypes
      <4> QED
        BY <1>5, <2>0, <3>2, <3>7, <4>1, <4>3
    <3>8. CASE pc[q] = "rename"
      <4>1. /\ pc'[q] = "reopen" /\ UNCHANGED ino /\ tmp[d] # None /\ name' = [name EXCEPT ![d] = tmp[d]]
        BY <2>7, <3>8 DEF Rebuilds
      <4>2. name'[d] = tmp[d] /\ tmp[d] = j.made
        BY <2>0, <3>8, <4>1 DEF ServingTypes
      <4> QED
        BY <1>5, <2>0, <3>2, <3>8, <4>1, <4>2
    <3> QED
      BY <3>1, <3>3, <3>4, <3>5, <3>6, <3>7, <3>8 DEF FillPC
  <2>8. CASE Defines(q)
    <3>1. pc'[q] \in {"after", "rows", "face"} /\ pc[q] = "defs"
      BY <2>8 DEF Defines, NextRead
    <3>2. j.conn # None => j.conn \in Inodes /\ ReadAt(j.conn) = ino[j.conn].of
      BY <2>0, <3>1 DEF ReadAt, Jobs
    <3>3. k.defs # Empty
      BY <2>0, <2>8, <3>2 DEF Defines, Reads1, Jobs
    <3> QED
      BY <1>5, <2>0, <2>8, <3>1, <3>3 DEF Defines, Reads1, SameJudgement, files
  <2>9. CASE Collects(q)
    <3>1. k.mode # "graph"
      BY <2>0, <2>9 DEF Collects, Equipped, SameJudgement
    <3> QED
      BY <1>5, <2>0, <2>9, <3>1 DEF Collects, SameJudgement, files
  <2>10. CASE Rechecks(q)
    <3>1. pc[q] = "after" /\ pc'[q] \in {"rows", "verdict"} /\ Bound(j) /\ k.mode # "graph"
      BY <2>0, <2>10 DEF Rechecks, Bound, SettledPlane, Equipped
    <3> QED
      BY <1>5, <2>0, <2>10, <3>1 DEF Rechecks, SameReads, files
  <2>11. CASE TakesGraph(q)
    BY <1>5, <2>0, <2>11 DEF TakesGraph, SameJudgement, SameReads, files, GraphCurrent
  <2>12. CASE Ends(q)
    <3> SUFFICES ASSUME k.mode = "graph" => GraphCurrent PROVE k.tier = "exact"
      BY <1>5, <2>0, <2>12 DEF Ends, GraphCurrent
    <3>1. /\ pc[q] = "verdict" /\ j.meta = meta /\ j.src = src /\ j.hash = slot.of /\ j.stamped /\ j.defs # Empty
          /\ (j.lags <=> graph = None \/ graph.time < slot.time) /\ k.mode = j.mode
      BY <2>0, <2>12 DEF Ends
    <3>2. DeltaAnswered(j) /\ ~SourceStale(j)
      BY <2>0, <3>1 DEF DeltaAnswered, SourceStale, Drift, SettledPlane
    <3>3. CASE j.mode = "graph"
      <4>1. GraphCurrent /\ ~RebuildNeeded(j)
        <5>1. graph.time \in Nat /\ slot.time \in Nat /\ graph.time >= slot.time /\ graph # None
          BY <3>1, <3>3 DEF GraphCurrent, Graphs, ServingTypes
        <5> QED
          BY <3>1, <3>2, <3>3, <5>1 DEF RebuildNeeded
      <4>2. j.keyed /\ j.graph = j.hash
        <5>1. src = slot.of
          BY <2>0 DEF SettledPlane, PlaneInv
        <5> QED
          BY <2>0, <3>1, <3>3, <4>1, <5>1 DEF GraphCurrent
      <4> QED
        BY <2>12, <3>1, <3>2, <3>3, <4>1, <4>2, GraphTiers DEF Ends
    <3>4. CASE j.mode # "graph"
      BY <2>12, <3>1, <3>2, <3>4, ScipTiers DEF Ends
    <3> QED
      BY <3>3, <3>4
  <2> QED
    BY <1>5, <2>1, <2>2, <2>3, <2>4, <2>5, <2>6, <2>7, <2>8, <2>9, <2>10, <2>11, <2>12 DEF Kind
<1> QED
  BY <1>4, <1>5

---------------------------------------------------------------------------
(* The inductive invariant, and what it gives.                             *)

ServingInv ==
  /\ ServingTypes /\ EquippedInv /\ PlaneInv /\ JudgedInv
  /\ FilesInv /\ RightInv /\ AnswersInv /\ QuietInv

LEMMA ServingInit == Init => ServingInv
BY TypesInit, FilesInit, RightInit, AnswersInit, QuietInit DEF ServingInv

LEMMA ServingWorld == ServingInv /\ World => ServingInv'
<1> SUFFICES ASSUME ServingInv, World PROVE ServingInv'
  OBVIOUS
<1> USE DEF ServingInv
<1>1. ServingTypes' /\ PlaneInv' /\ JudgedInv' /\ FilesInv'
  BY WorldTypes, PlaneNext, JudgedWorld, FilesWorld
<1>2. RightInv' /\ AnswersInv' /\ QuietInv'
  BY RightWorld, AnswersWorld, QuietWorld
<1>3. EquippedInv'
  BY WorldKeeps DEF EquippedInv, Equipped
<1> QED
  BY <1>1, <1>2, <1>3

LEMMA ServingQuery == ServingInv /\ (\E q \in Queriers : Query(q)) => ServingInv'
<1> SUFFICES ASSUME ServingInv, NEW q \in Queriers, Query(q) PROVE ServingInv'
  OBVIOUS
<1> USE DEF ServingInv
<1>1. Own(q) /\ Kind(q) /\ (races' = {} => races = {})
  BY QueryKinds, QueryShares
<1>2. ServingTypes'
  BY QueryTypes
<1>3. EquippedInv' /\ JudgedInv' /\ FilesInv'
  BY <1>1, EquippedStep, JudgedStep, FilesStep
<1>4. RightInv' /\ AnswersInv' /\ QuietInv'
  BY <1>1, RightStep, AnswersStep, QuietStep
<1>5. PlaneInv'
  <2>1. UNCHANGED world
    BY <1>1 DEF Kind, Begins, Evaluates, Climbs, Connects, Spans, Falls, Rebuilds, Defines, Collects, Rechecks,
           TakesGraph, Ends
  <2> QED
    BY <2>1 DEF PlaneInv, world
<1> QED
  BY <1>2, <1>3, <1>4, <1>5

LEMMA ServingStutters == ServingInv /\ UNCHANGED vars => ServingInv'
<1> SUFFICES ASSUME ServingInv, UNCHANGED vars PROVE ServingInv'
  OBVIOUS
<1> USE DEF ServingInv, vars, world, files, hist
<1>1. ServingTypes' /\ EquippedInv' /\ PlaneInv' /\ JudgedInv'
  BY DEF ServingTypes, EquippedInv, Equipped, PlaneInv, JudgedInv, Judged, Certified
<1>2. FilesInv' /\ RightInv'
  BY DEF FilesInv, NamesOK, FillOK, Sound, Unpruned, Certified, Written, RightInv, Kept, Past, Right
<1>3. AnswersInv' /\ QuietInv'
  BY DEF AnswersInv, TierInv, ExactUnlessRaced, ExactIsTrue, Certain, True, QuietInv, SettledPlane, Undisturbed, GraphCurrent
<1> QED
  BY <1>1, <1>2, <1>3

LEMMA ServingHolds == Spec => []ServingInv
<1>1. ServingInv /\ [Next]_vars => ServingInv'
  BY ServingWorld, ServingQuery, ServingStutters DEF Next
<1> QED
  BY <1>1, ServingInit, PTL DEF Spec

(* What a query calls exact, or not in the graph, is the answer of one     *)
(* version the source had while it ran, for any number of queries, edits,  *)
(* publications, rebuilds by others and failed reads, as long as the four  *)
(* overlaps that the code does not exclude have not happened               *)
(* (serving_stamp, stamp_after_load, delta_face).                          *)
THEOREM ExactStands == Spec => []ExactUnlessRaced
<1>1. ServingInv => ExactUnlessRaced
  BY DEF ServingInv, AnswersInv
<1> QED
  BY <1>1, ServingHolds, PTL

(* An undisturbed query over an index certified for the present source     *)
(* says exact, whatever a failed build has left of the graph               *)
(* (needs_source_rebuild).                                                 *)
THEOREM SettledStands == Spec => []SettledIsExact
<1>1. ASSUME ServingInv PROVE SettledIsExact
  <2> SUFFICES ASSUME NEW q \in Queriers, pc[q] = "done", quiet[q], SettledPlane,
                      job[q].mode = "graph" => GraphCurrent
               PROVE  job[q].tier = "exact" /\ (races = {} => True(q))
    BY DEF SettledIsExact, SettledPlane, GraphCurrent
  <2>1. job[q].tier = "exact"
    BY <1>1 DEF ServingInv, QuietInv, Undisturbed
  <2>2. races = {} => True(q)
    BY <1>1, <2>1 DEF ServingInv, AnswersInv, ExactUnlessRaced, ExactIsTrue, Certain
  <2> QED
    BY <2>1, <2>2
<1> QED
  BY <1>1, ServingHolds, PTL

=============================================================================
