--------------------------- MODULE TourCorpus_proof ---------------------------
(***************************************************************************)
(* Proofs about TourCorpus, for any processes, tools, families, scenarios  *)
(* and bounds: rows have their tours, and a regeneration leaves its family *)
(* as the document says.                                                   *)
(***************************************************************************)
EXTENDS TourCorpus, FiniteSetTheorems, WellFoundedInduction, TLAPS

Tools == {"chain", "upgrade", "reanchor", "scan", "register", "materialize"}
Bodies == [v : Nat, scene : Nat, at : Nat]
Rows == [gen : {"chain_tour", "manual"}, src : BOOLEAN]
Manifests == [row : [Slots -> Rows \cup {None}], arc : [Arcs -> {"pending", "done", None}]]
Tours == [slot : Slots, body : Bodies] \cup [slot : Slots, body : Bodies, was : Bodies]
Jobs == [op : Tools \cup {None}, fam : Families \cup {None}, plan : SUBSET Slots, tours : SUBSET Tours,
         v : Nat, loaded : Manifests \cup {None}, gone : SUBSET Slots, arc : Arcs \cup {None}]
Places == {"idle", "write", "load", "build", "dump", "delete"}

---------------------------------------------------------------------------
(* Numbers: a set of them has a least one, and the scenarios that are left *)
(* are numbered from 1 without a gap.                                      *)

Below == {pair \in Nat \X Nat : pair[1] < pair[2]}

LEMMA Least ==
  ASSUME NEW T \in SUBSET Nat, T # {}
  PROVE  \E x \in T : \A y \in T : x <= y
<1>1. IsWellFoundedOn(Below, Nat)
  BY NatLessThanWellFounded DEF Below, OpToRel
<1>2. PICK x \in T : \A y \in T : ~(<<y, x>> \in Below)
  BY <1>1, WFMin
<1>3. ASSUME NEW y \in T PROVE x <= y
  <2>1. x \in Nat /\ y \in Nat
    OBVIOUS
  <2>2. <<y, x>> \in Nat \X Nat /\ <<y, x>>[1] = y /\ <<y, x>>[2] = x
    BY <2>1
  <2>3. ~(y < x)
    BY <1>2, <2>2 DEF Below
  <2> QED
    BY <2>1, <2>3
<1> QED
  BY <1>3

LEMMA ScenesFacts ==
  /\ IsFiniteSet(Scenes) /\ Cardinality(Scenes) \in Nat
  /\ Scenes = 1 .. Cardinality(Scenes) /\ Scenes \subseteq Nat
<1>1. IsFiniteSet(Scenes) /\ Scenes = 1 .. Cardinality(Scenes)
  BY TourCorpusAssumption
<1>2. Cardinality(Scenes) \in Nat
  BY <1>1, FS_CardinalityType
<1> QED
  BY <1>1, <1>2

\* The first of some tours is one of them.
LEMMA FirstIn ==
  ASSUME NEW ss \in SUBSET Slots, ss # {}
  PROVE  First(ss) \in ss
<1>1. PICK s \in ss : TRUE
  OBVIOUS
<1> DEFINE T == {n \in Scenes : <<s[1], n>> \in ss}
<1>2. s = <<s[1], s[2]>> /\ s[2] \in Scenes
  BY DEF Slots
<1>3. T \in SUBSET Nat /\ T # {}
  BY <1>2, ScenesFacts
<1>4. PICK n \in T : \A m \in T : n <= m
  BY <1>3, Least
<1>5. ASSUME NEW t \in ss, t[1] = s[1] PROVE n <= t[2]
  <2>1. t = <<s[1], t[2]>> /\ t[2] \in Scenes
    BY <1>5 DEF Slots
  <2> QED
    BY <1>4, <2>1
<1>6. <<s[1], n>> \in ss /\ <<s[1], n>>[1] = s[1] /\ <<s[1], n>>[2] = n
  BY <1>4
<1>7. \E u \in ss : \A t \in ss : t[1] = u[1] => u[2] <= t[2]
  BY <1>5, <1>6
<1> QED
  BY <1>7 DEF First

\* The rank of a scenario among those of a document.
Rank(L, s) == Cardinality({u \in L : u <= s})

LEMMA RankFacts ==
  ASSUME NEW L \in SUBSET Scenes
  PROVE  /\ Cardinality(L) \in Nat /\ 1 .. Cardinality(L) \subseteq Scenes
         /\ \A s \in L : Rank(L, s) \in 1 .. Cardinality(L)
         /\ \A s, t \in L : Rank(L, s) = Rank(L, t) => s = t
         /\ \A n \in 1 .. Cardinality(L) : \E s \in L : Rank(L, s) = n
<1> DEFINE U(s) == {u \in L : u <= s}
           N == Cardinality(L)
<1>1. IsFiniteSet(L) /\ N \in Nat /\ N <= Cardinality(Scenes)
  BY ScenesFacts, FS_Subset, FS_CardinalityType
<1>2. ASSUME NEW s \in L
      PROVE  IsFiniteSet(U(s)) /\ Cardinality(U(s)) \in 1 .. N
  <2>1. U(s) \in SUBSET L /\ s \in U(s)
    BY ScenesFacts
  <2>2. IsFiniteSet(U(s)) /\ Cardinality(U(s)) <= N
    BY <1>1, <2>1, FS_Subset
  <2>3. Cardinality(U(s)) \in Nat /\ Cardinality(U(s)) # 0
    BY <2>1, <2>2, FS_CardinalityType, FS_EmptySet
  <2> QED
    BY <1>1, <2>2, <2>3
<1>3. ASSUME NEW s \in L, NEW t \in L, s < t PROVE Cardinality(U(s)) # Cardinality(U(t))
  <2>1. s \in Nat /\ t \in Nat /\ \A u \in L : u \in Nat
    BY ScenesFacts
  <2>2. U(s) \in SUBSET U(t) /\ t \in U(t) /\ t \notin U(s)
    <3>1. \A u \in L : u <= s => u <= t
      BY <1>3, <2>1
    <3>2. t <= t /\ ~(t <= s)
      BY <1>3, <2>1
    <3> QED
      BY <3>1, <3>2
  <2>3. IsFiniteSet(U(t))
    BY <1>2
  <2> HIDE DEF U
  <2> QED
    BY <2>2, <2>3, FS_Subset
<1>4. \A s, t \in L : Cardinality(U(s)) = Cardinality(U(t)) => s = t
  <2>1. \A u \in L : u \in Nat
    BY ScenesFacts
  <2> HIDE DEF U
  <2> QED
    BY <1>3, <2>1
<1>5. \A n \in 1 .. N : \E s \in L : Cardinality(U(s)) = n
  <2> DEFINE f == [s \in L |-> Cardinality(U(s))]
  <2>1. f \in Injection(L, 1 .. N)
    <3>1. f \in [L -> 1 .. N]
      BY <1>2
    <3>2. \A s, t \in L : f[s] = f[t] => s = t
      BY <1>4
    <3> QED
      BY <3>1, <3>2 DEF Injection, IsInjective
  <2>2. IsFiniteSet(1 .. N) /\ Cardinality(1 .. N) = N
    BY <1>1, FS_Interval
  <2>3. f \in Surjection(L, 1 .. N)
    <3> HIDE DEF f, N
    <3> QED
      BY <2>1, <2>2, FS_Injection DEF N
  <2> QED
    BY <2>3 DEF Surjection
<1>6. 1 .. N \subseteq Scenes
  BY <1>1, ScenesFacts
<1>7. \A s : Rank(L, s) = Cardinality(U(s))
  BY DEF Rank
<1> HIDE DEF U
<1> QED
  BY <1>1, <1>2, <1>4, <1>5, <1>6, <1>7
---------------------------------------------------------------------------
(* Types, and what goes with the place a process is in.                    *)

\* Every variable holds what the code can put in it.
CorpusTypes ==
  /\ md \in [v : Nat, live : SUBSET Scenes] /\ where \in Nat
  /\ file \in [Slots -> Bodies \cup {None}] /\ delta \in [Arcs -> BOOLEAN]
  /\ manifest \in Manifests
  /\ pc \in [Procs -> Places] /\ job \in [Procs -> Jobs]

\* What process p carries is what its tool needs at its place.
Equipped(p) ==
  /\ pc[p] = "write" => job[p].op \in {"chain", "upgrade", "reanchor"}
  /\ pc[p] \in {"load", "dump"} => job[p].op \in Tools \ {"reanchor"}
  /\ pc[p] = "build" => job[p].op = "materialize"
  /\ pc[p] = "delete" => job[p].op = "chain"
  /\ pc[p] \in {"build", "dump"} => job[p].loaded \in Manifests
  /\ job[p].op \in {"register", "materialize"} => job[p].arc \in Arcs
  /\ \A t \in job[p].tours : job[p].op # "chain" => t.was \in Bodies /\ t.body.v = t.was.v
ToolInv == \A p \in Procs : Equipped(p)

LEMMA NoneFacts ==
  /\ None \notin Bodies /\ None \notin Rows /\ None \notin Families /\ None \notin Scenes
  /\ None \notin Arcs /\ None \notin {"pending", "done"} \cup Tools
BY TourSentinelAssumption DEF Bodies, Rows, Tools

LEMMA GoFacts ==
  ASSUME CorpusTypes, NEW p \in Procs, NEW to, NEW j, Go(p, to, j)
  PROVE  /\ pc'[p] = to /\ job'[p] = j
         /\ \A q \in Procs : q # p => pc'[q] = pc[q] /\ job'[q] = job[q]
BY DEF CorpusTypes, Go

\* A process goes on with a job of the right shape.
LEMMA GoTyped ==
  ASSUME CorpusTypes, ToolInv, NEW p \in Procs, NEW to \in Places, NEW j \in Jobs, Go(p, to, j),
         to = "write" => j.op \in {"chain", "upgrade", "reanchor"},
         to \in {"load", "dump"} => j.op \in Tools \ {"reanchor"},
         to = "build" => j.op = "materialize", to = "delete" => j.op = "chain",
         to \in {"build", "dump"} => j.loaded \in Manifests,
         j.op \in {"register", "materialize"} => j.arc \in Arcs,
         \A t \in j.tours : j.op # "chain" => t.was \in Bodies /\ t.body.v = t.was.v
  PROVE  pc' \in [Procs -> Places] /\ job' \in [Procs -> Jobs] /\ ToolInv'
<1>1. pc' \in [Procs -> Places] /\ job' \in [Procs -> Jobs]
  BY DEF CorpusTypes, Go
<1>2. ASSUME NEW q \in Procs PROVE Equipped(q)'
  <2>1. CASE q = p
    BY <2>1, GoFacts DEF Equipped
  <2>2. CASE q # p
    <3>1. pc'[q] = pc[q] /\ job'[q] = job[q] /\ Equipped(q)
      BY <2>2, GoFacts DEF ToolInv
    <3> QED
      BY <3>1 DEF Equipped
  <2> QED
    BY <2>1, <2>2
<1> QED
  BY <1>1, <1>2 DEF ToolInv

LEMMA IdleJob ==
  /\ Idle \in Jobs /\ Idle.op = None /\ Idle.tours = {} /\ Idle.v = 0 /\ Idle.plan = {} /\ Idle.gone = {}
  /\ Idle.fam = None /\ Idle.loaded = None /\ Idle.arc = None
BY DEF Idle, Jobs

LEMMA QuitsTyped ==
  ASSUME CorpusTypes, ToolInv, NEW p \in Procs, Quits(p)
  PROVE  pc' \in [Procs -> Places] /\ job' \in [Procs -> Jobs] /\ ToolInv'
BY GoTyped, IdleJob, NoneFacts DEF Quits, Places, Tools

\* The fields of a job, and a job with one of them changed.
LEMMA JobFields ==
  ASSUME NEW j \in Jobs
  PROVE  /\ j.op \in Tools \cup {None} /\ j.fam \in Families \cup {None} /\ j.plan \in SUBSET Slots
         /\ j.tours \in SUBSET Tours /\ j.v \in Nat /\ j.loaded \in Manifests \cup {None}
         /\ j.gone \in SUBSET Slots /\ j.arc \in Arcs \cup {None}
         /\ \A x \in SUBSET Tours : [j EXCEPT !.tours = x] \in Jobs
         /\ \A x \in Manifests : [j EXCEPT !.loaded = x] \in Jobs
         /\ \A x \in SUBSET Slots : [j EXCEPT !.plan = x] \in Jobs /\ [j EXCEPT !.gone = x] \in Jobs
BY DEF Jobs
LEMMA TypesInit == Init => CorpusTypes /\ ToolInv
<1> SUFFICES ASSUME Init PROVE CorpusTypes /\ ToolInv
  OBVIOUS
<1>1. md \in [v : Nat, live : SUBSET Scenes] /\ where \in Nat
  BY DEF Init
<1>2. file \in [Slots -> Bodies \cup {None}]
  <2>1. ByHand \in Bodies
    BY DEF ByHand, Bodies
  <2>2. PICK h \in SUBSET {<<Stem, Cardinality(Scenes)>>} :
          file = [s \in Slots |-> IF s \in h THEN ByHand ELSE None]
    BY DEF Init
  <2> QED
    BY <2>1, <2>2
<1>3. delta \in [Arcs -> BOOLEAN] /\ manifest \in Manifests
  BY DEF Init, Manifests
<1>4. pc \in [Procs -> Places] /\ job \in [Procs -> Jobs]
  BY IdleJob DEF Init, Places
<1>5. ToolInv
  BY IdleJob, NoneFacts DEF Init, ToolInv, Equipped, Tools
<1> QED
  BY <1>1, <1>2, <1>3, <1>4, <1>5 DEF CorpusTypes

\* What a generator or a rewriter is about to write.
LEMMA ChainJob ==
  ASSUME CorpusTypes, NEW explicit \in {None} \cup Families, NEW fam \in FamilyOf(explicit)
  PROVE  /\ fam \in Families
         /\ \A s \in md.live : <<fam, Written(s)>> \in Slots /\ [v |-> md.v, scene |-> s, at |-> where] \in Bodies
         /\ {<<fam, Written(s)>> : s \in md.live} \in SUBSET Slots
         /\ {[slot |-> <<fam, Written(s)>>, body |-> [v |-> md.v, scene |-> s, at |-> where]] : s \in md.live}
              \in SUBSET Tours
<1>1. fam \in Families
  <2>1. Feeding \subseteq Families
    BY DEF Feeding, Slots
  <2> QED
    BY <2>1, TourCorpusAssumption DEF FamilyOf
<1>2. md.live \in SUBSET Scenes /\ md.v \in Nat /\ where \in Nat
  BY DEF CorpusTypes
<1>3. ASSUME NEW s \in md.live
      PROVE  <<fam, Written(s)>> \in Slots /\ [v |-> md.v, scene |-> s, at |-> where] \in Bodies
  <2>1. Written(s) \in Scenes
    <3>1. Written(s) = Rank(md.live, s)
      BY DEF Written, Rank
    <3> QED
      BY <1>2, <3>1, RankFacts
  <2> QED
    BY <1>1, <1>2, <2>1, ScenesFacts DEF Slots, Bodies
<1>4. ASSUME NEW s \in md.live
      PROVE  [slot |-> <<fam, Written(s)>>, body |-> [v |-> md.v, scene |-> s, at |-> where]] \in Tours
  <2> DEFINE b == [v |-> md.v, scene |-> s, at |-> where]
             x == <<fam, Written(s)>>
  <2>1. x \in Slots /\ b \in Bodies
    BY <1>3
  <2> HIDE DEF b, x
  <2>2. [slot |-> x, body |-> b] \in Tours
    BY <2>1 DEF Tours
  <2> QED
    BY <2>2 DEF b, x
<1> QED
  BY <1>1, <1>3, <1>4

LEMMA RewriteJob ==
  ASSUME CorpusTypes, NEW ss \in SUBSET Present
  PROVE  /\ \A s \in ss : /\ s \in Slots /\ file[s] \in Bodies /\ [file[s] EXCEPT !.at = where] \in Bodies
                          /\ [file[s] EXCEPT !.at = where].v = file[s].v
                          /\ [file[s] EXCEPT !.at = where].scene = file[s].scene
         /\ {[slot |-> s, body |-> [file[s] EXCEPT !.at = where], was |-> file[s]] : s \in ss} \in SUBSET Tours
<1>1. ASSUME NEW s \in ss
      PROVE  /\ s \in Slots /\ file[s] \in Bodies /\ [file[s] EXCEPT !.at = where] \in Bodies
             /\ [file[s] EXCEPT !.at = where].v = file[s].v
             /\ [file[s] EXCEPT !.at = where].scene = file[s].scene
  <2>1. s \in Slots /\ file[s] \in Bodies /\ where \in Nat
    BY DEF Present, CorpusTypes
  <2> QED
    BY <2>1 DEF Bodies
<1> QED
  BY <1>1 DEF Tours

\* The manifest a tool writes back.
LEMMA ChangedTyped ==
  ASSUME CorpusTypes, NEW j \in Jobs, j.loaded \in Manifests, j.op \in Tools \ {"reanchor"},
         j.op \in {"register", "materialize"} => j.arc \in Arcs
  PROVE  /\ Changed(j) \in Manifests
         /\ \A s \in Slots : Changed(j).row[s] =
              IF j.op \in {"register", "materialize"} THEN j.loaded.row[s]
              ELSE IF Upserted(j, s) THEN Row(j)
              ELSE IF j.op = "chain" /\ s \in Reconciled(j) THEN None ELSE j.loaded.row[s]
         /\ \A a \in Arcs : Changed(j).arc[a] =
              IF j.op = "register" /\ a = j.arc THEN "pending"
              ELSE IF j.op = "materialize" /\ a = j.arc THEN "done" ELSE j.loaded.arc[a]
         /\ Row(j) \in Rows
<1> DEFINE m == j.loaded
<1>1. m \in Manifests
  OBVIOUS
<1> HIDE DEF m
<1>2. m.row \in [Slots -> Rows \cup {None}] /\ m.arc \in [Arcs -> {"pending", "done", None}]
  BY <1>1 DEF Manifests
<1>3. Row(j) \in Rows
  BY DEF Row, Rows
<1>4. CASE j.op \in {"chain", "upgrade", "scan"}
  <2> DEFINE r == [s \in Slots |-> IF Upserted(j, s) THEN Row(j)
                                   ELSE IF j.op = "chain" /\ s \in Reconciled(j) THEN None ELSE m.row[s]]
  <2>1. Changed(j) = [m EXCEPT !.row = r]
    BY <1>4 DEF Changed, m
  <2>2. r \in [Slots -> Rows \cup {None}]
    BY <1>2, <1>3
  <2> HIDE DEF r
  <2>3. [m EXCEPT !.row = r] \in Manifests /\ [m EXCEPT !.row = r].row = r /\ [m EXCEPT !.row = r].arc = m.arc
    BY <1>1, <2>2 DEF Manifests
  <2> QED
    BY <1>3, <1>4, <2>1, <2>3 DEF r, m
<1>5. ASSUME j.op \in {"register", "materialize"}, NEW to \in {"pending", "done"}
      PROVE  /\ [m EXCEPT !.arc[j.arc] = to] \in Manifests
             /\ [m EXCEPT !.arc[j.arc] = to].row = m.row
             /\ \A a \in Arcs : [m EXCEPT !.arc[j.arc] = to].arc[a] = IF a = j.arc THEN to ELSE m.arc[a]
  <2>1. j.arc \in Arcs
    BY <1>5 DEF Tools
  <2>2. [m EXCEPT !.arc[j.arc] = to] = [m EXCEPT !.arc = [m.arc EXCEPT ![j.arc] = to]]
    BY <1>1 DEF Manifests
  <2> DEFINE x == [m.arc EXCEPT ![j.arc] = to]
  <2>3. x \in [Arcs -> {"pending", "done", None}] /\ \A a \in Arcs : x[a] = IF a = j.arc THEN to ELSE m.arc[a]
    BY <1>2, <2>1
  <2> HIDE DEF x
  <2>4. [m EXCEPT !.arc = x] \in Manifests /\ [m EXCEPT !.arc = x].row = m.row /\ [m EXCEPT !.arc = x].arc = x
    BY <1>1, <2>3 DEF Manifests
  <2> QED
    BY <2>2, <2>3, <2>4 DEF x
<1>6. CASE j.op = "register"
  <2>1. Changed(j) = [m EXCEPT !.arc[j.arc] = "pending"]
    BY <1>6 DEF Changed, m
  <2>2. m = j.loaded
    BY DEF m
  <2> QED
    BY <1>3, <1>5, <1>6, <2>1, <2>2
<1>7. CASE j.op = "materialize"
  <2>1. Changed(j) = [m EXCEPT !.arc[j.arc] = "done"]
    BY <1>7 DEF Changed, m
  <2>2. m = j.loaded
    BY DEF m
  <2> QED
    BY <1>3, <1>5, <1>7, <2>1, <2>2
<1> QED
  BY <1>4, <1>6, <1>7 DEF Tools
\* A tour is written: one of those the process carries, at its place.
LEMMA WriteFacts ==
  ASSUME CorpusTypes, ToolInv, NEW p \in Procs, WriteTour(p)
  PROVE  \E t \in job[p].tours :
            /\ t.slot \in Slots /\ t.body \in Bodies /\ Body(job[p], t) \in Bodies
            /\ file' = [file EXCEPT ![t.slot] = Body(job[p], t)]
            /\ raced' = (raced \/ Undoes(job[p], t))
            /\ Go(p, "write", [job[p] EXCEPT !.tours = job[p].tours \ {t}])
<1> DEFINE j == job[p]
           s == First({t.slot : t \in j.tours})
           t == CHOOSE u \in j.tours : u.slot = s
<1>1. pc[p] = "write" /\ j.tours # {} /\ j \in Jobs /\ Equipped(p)
  BY DEF WriteTour, CorpusTypes, ToolInv
<1>2. \A u \in j.tours : u.slot \in Slots /\ u.body \in Bodies
  BY <1>1, JobFields DEF Tours
<1>3. t \in j.tours /\ t.slot = s /\ s \in Slots
  <2>1. {u.slot : u \in j.tours} \in SUBSET Slots /\ {u.slot : u \in j.tours} # {}
    BY <1>1, <1>2
  <2>2. s \in {u.slot : u \in j.tours}
    BY <2>1, FirstIn
  <2> QED
    BY <2>1, <2>2
<1>4. /\ file' = [file EXCEPT ![s] = Body(j, t)] /\ raced' = (raced \/ Undoes(j, t))
      /\ Go(p, "write", [j EXCEPT !.tours = j.tours \ {t}])
  BY DEF WriteTour
<1>5. j.op \in {"chain", "upgrade", "reanchor"}
  BY <1>1 DEF Equipped
<1>6. t.body \in Bodies /\ (j.op # "chain" => t.was \in Bodies)
  BY <1>1, <1>2, <1>3 DEF Equipped
<1> HIDE DEF s, t
<1>7. Body(j, t) \in Bodies
  BY <1>5, <1>6 DEF Body
<1> QED
  BY <1>3, <1>4, <1>6, <1>7

LEMMA TypesNext == CorpusTypes /\ ToolInv /\ [Next]_vars => CorpusTypes' /\ ToolInv'
<1> SUFFICES ASSUME CorpusTypes, ToolInv, [Next]_vars PROVE CorpusTypes' /\ ToolInv'
  OBVIOUS
<1> USE NoneFacts DEF Tools
\* The processes' part of the types.
<1> DEFINE ProcsTyped == pc' \in [Procs -> Places] /\ job' \in [Procs -> Jobs] /\ ToolInv'
           WorldTyped == /\ md' \in [v : Nat, live : SUBSET Scenes] /\ where' \in Nat
                         /\ file' \in [Slots -> Bodies \cup {None}] /\ delta' \in [Arcs -> BOOLEAN]
                         /\ manifest' \in Manifests
<1>0. ASSUME ProcsTyped, WorldTyped PROVE CorpusTypes' /\ ToolInv'
  BY <1>0 DEF CorpusTypes
<1>1. ASSUME UNCHANGED <<pc, job>> PROVE ProcsTyped
  BY <1>1 DEF CorpusTypes, ToolInv, Equipped
<1>2. ASSUME UNCHANGED <<md, where, file, delta, manifest>> PROVE WorldTyped
  BY <1>2 DEF CorpusTypes
<1>3. CASE UNCHANGED vars
  BY <1>0, <1>1, <1>2, <1>3 DEF vars
<1>4. ASSUME NEW live \in SUBSET Scenes, EditMd(live) PROVE CorpusTypes' /\ ToolInv'
  BY <1>0, <1>1, <1>4 DEF EditMd, CorpusTypes
<1>5. CASE MoveSource
  BY <1>0, <1>1, <1>5 DEF MoveSource, CorpusTypes
<1>6. ASSUME NEW p \in Procs, NEW explicit \in {None} \cup Families, NEW primary, StartChain(p, explicit, primary)
      PROVE  CorpusTypes' /\ ToolInv'
  <2>1. CASE UNCHANGED <<pc, job>>
    BY <1>0, <1>1, <1>2, <1>6, <2>1 DEF StartChain
  <2>2. CASE pc' # pc \/ job' # job
    <3>1. PICK fam \in FamilyOf(explicit) :
            Go(p, "write", [Idle EXCEPT !.op = "chain", !.fam = fam, !.v = md.v,
                 !.plan = {<<fam, Written(s)>> : s \in md.live},
                 !.tours = {[slot |-> <<fam, Written(s)>>,
                             body |-> [v |-> md.v, scene |-> s, at |-> where]] : s \in md.live}])
      BY <1>6, <2>2 DEF StartChain
    <3> DEFINE plan == {<<fam, Written(s)>> : s \in md.live}
               tours == {[slot |-> <<fam, Written(s)>>,
                          body |-> [v |-> md.v, scene |-> s, at |-> where]] : s \in md.live}
               j == [Idle EXCEPT !.op = "chain", !.fam = fam, !.v = md.v, !.plan = plan, !.tours = tours]
    <3>2. fam \in Families /\ plan \in SUBSET Slots /\ tours \in SUBSET Tours
      BY ChainJob
    <3> HIDE DEF plan, tours
    <3>3. j \in Jobs /\ j.op = "chain" /\ j.tours = tours
      BY <1>6, <3>2, IdleJob DEF Jobs, Tools, StartChain, CorpusTypes
    <3> HIDE DEF j
    <3>4. Go(p, "write", j)
      BY <3>1 DEF j, plan, tours
    <3>5. ProcsTyped
      BY <3>3, <3>4, GoTyped DEF Places
    <3> QED
      BY <1>0, <1>2, <1>6, <3>5 DEF StartChain
  <2> QED
    BY <2>1, <2>2
<1>7. ASSUME NEW p \in Procs, NEW op, StartRewrite(p, op) PROVE CorpusTypes' /\ ToolInv'
  <2>1. CASE UNCHANGED <<pc, job>>
    BY <1>0, <1>1, <1>2, <1>7, <2>1 DEF StartRewrite
  <2>2. CASE pc' # pc \/ job' # job
    <3> DEFINE ss == {t \in Present : op = "upgrade" \/ file[t].at \notin {0, where}}
               tours == {[slot |-> s, body |-> [file[s] EXCEPT !.at = where], was |-> file[s]] : s \in ss}
               j == [Idle EXCEPT !.op = op, !.plan = Present, !.tours = tours]
    <3>1. Go(p, "write", j)
      BY <1>7, <2>2 DEF StartRewrite
    <3>2. op \in Tools /\ op \in {"upgrade", "reanchor"} /\ Present \in SUBSET Slots
      BY <1>7 DEF StartRewrite, Tools, Present
    <3>3. tours \in SUBSET Tours /\ \A t \in tours : t.was \in Bodies /\ t.body.v = t.was.v
      <4>1. ss \in SUBSET Present
        OBVIOUS
      <4> HIDE DEF ss
      <4>2. \A s \in ss : file[s] \in Bodies /\ [file[s] EXCEPT !.at = where].v = file[s].v
        BY <4>1, RewriteJob
      <4>3. tours \in SUBSET Tours
        BY <4>1, RewriteJob
      <4>4. ASSUME NEW t \in tours PROVE t.was \in Bodies /\ t.body.v = t.was.v
        <5>1. PICK s \in ss : t = [slot |-> s, body |-> [file[s] EXCEPT !.at = where], was |-> file[s]]
          OBVIOUS
        <5> QED
          BY <4>2, <5>1
      <4> QED
        BY <4>3, <4>4
    <3> HIDE DEF tours
    <3>4. j \in Jobs /\ j.op = op /\ j.tours = tours
      BY <3>2, <3>3, IdleJob DEF Jobs
    <3> HIDE DEF j
    <3>5. ProcsTyped
      BY <3>1, <3>2, <3>3, <3>4, GoTyped DEF Places
    <3> QED
      BY <1>0, <1>2, <1>7, <3>5 DEF StartRewrite
  <2> QED
    BY <2>1, <2>2
<1>8. ASSUME NEW p \in Procs, NEW op, NEW arc \in {None} \cup Arcs, StartManifest(p, op, arc)
      PROVE  CorpusTypes' /\ ToolInv'
  <2> DEFINE j == [Idle EXCEPT !.op = op, !.arc = arc]
  <2>1. op \in Tools \ {"reanchor"} /\ (op # "scan" => arc \in Arcs) /\ Go(p, "load", j)
    BY <1>8 DEF StartManifest, Tools
  <2>2. j \in Jobs /\ j.op = op /\ j.tours = {} /\ j.arc = arc
    BY <2>1, IdleJob DEF Jobs
  <2> HIDE DEF j
  <2>3. ProcsTyped
    BY <2>1, <2>2, GoTyped DEF Places
  <2> QED
    BY <1>0, <1>2, <1>8, <2>3 DEF StartManifest
\* What is known of a process about to step.
<1>9. ASSUME NEW p \in Procs
      PROVE  /\ job[p] \in Jobs /\ Equipped(p) /\ \A t \in job[p].tours : t.slot \in Slots /\ t.body \in Bodies
  BY JobFields DEF CorpusTypes, ToolInv, Tours
<1>10. ASSUME NEW p \in Procs, WriteTour(p) PROVE CorpusTypes' /\ ToolInv'
  <2>1. PICK t \in job[p].tours :
          /\ t.slot \in Slots /\ Body(job[p], t) \in Bodies
          /\ file' = [file EXCEPT ![t.slot] = Body(job[p], t)]
          /\ Go(p, "write", [job[p] EXCEPT !.tours = job[p].tours \ {t}])
    BY <1>10, WriteFacts
  <2> DEFINE k == [job[p] EXCEPT !.tours = job[p].tours \ {t}]
  <2>2. k \in Jobs /\ k.op = job[p].op /\ k.tours = job[p].tours \ {t} /\ k.arc = job[p].arc
    <3>1. job[p] \in Jobs /\ job[p].tours \ {t} \in SUBSET Tours
      BY <1>9, JobFields
    <3> QED
      BY <3>1, JobFields DEF Jobs
  <2> HIDE DEF k
  <2>3. job[p].op \in {"chain", "upgrade", "reanchor"} /\ Equipped(p)
    BY <1>9, <1>10 DEF WriteTour, Equipped
  <2>4. k.op \in {"register", "materialize"} => k.arc \in Arcs
    BY <2>2, <2>3 DEF Equipped
  <2>5. \A u \in k.tours : k.op # "chain" => u.was \in Bodies /\ u.body.v = u.was.v
    BY <2>2, <2>3 DEF Equipped
  <2>6. Go(p, "write", k)
    BY <2>1 DEF k
  <2>7. ProcsTyped
    BY <2>2, <2>3, <2>4, <2>5, <2>6, GoTyped DEF Places
  <2>8. file' \in [Slots -> Bodies \cup {None}]
    BY <2>1 DEF CorpusTypes
  <2> QED
    BY <1>0, <1>10, <2>7, <2>8 DEF WriteTour, CorpusTypes
\* A job goes to another place as it is.
<1>11. ASSUME NEW p \in Procs, NEW to \in {"load", "dump"}, Go(p, to, job[p]), job[p].op \in Tools \ {"reanchor"},
              to = "dump" => job[p].loaded \in Manifests
       PROVE  ProcsTyped
  <2>1. job[p] \in Jobs /\ Equipped(p)
    BY <1>9
  <2> QED
    BY <1>11, <2>1, GoTyped DEF Places, Equipped
<1>12. ASSUME NEW p \in Procs, AfterTours(p) PROVE CorpusTypes' /\ ToolInv'
  <2>1. job[p].op \in {"chain", "upgrade", "reanchor"} /\ job[p] \in Jobs
    BY <1>9, <1>12 DEF AfterTours, Equipped
  <2>2. job[p].op \in Tools
    BY <2>1, JobFields DEF Tools
  <2>3. ProcsTyped
    BY <1>11, <1>12, <2>2, QuitsTyped DEF AfterTours
  <2> QED
    BY <1>0, <1>2, <1>12, <2>3 DEF AfterTours
<1>13. ASSUME NEW p \in Procs, Load(p) PROVE CorpusTypes' /\ ToolInv'
  <2> DEFINE j == [job[p] EXCEPT !.loaded = manifest]
             k == IF j.op = "scan" THEN [j EXCEPT !.plan = Present] ELSE j
  <2>1. job[p] \in Jobs /\ Equipped(p) /\ manifest \in Manifests /\ job[p].op \in Tools \ {"reanchor"}
    BY <1>9, <1>13 DEF Load, Equipped, CorpusTypes
  <2>2. /\ j \in Jobs /\ j.op = job[p].op /\ j.tours = job[p].tours /\ j.arc = job[p].arc
        /\ j.loaded = manifest
    BY <2>1, JobFields DEF Jobs
  <2>3. \/ Quits(p)
        \/ j.op = "materialize" /\ Go(p, "build", j)
        \/ j.op # "materialize" /\ Go(p, "dump", k)
    BY <1>13 DEF Load
  <2> HIDE DEF j
  <2>4. Present \in SUBSET Slots
    BY DEF Present
  <2>5. k \in Jobs /\ k.op = j.op /\ k.tours = j.tours /\ k.arc = j.arc /\ k.loaded = j.loaded
    BY <2>2, <2>4, JobFields DEF Jobs
  <2> HIDE DEF k
  <2>6. \A t \in j.tours : j.op # "chain" => t.was \in Bodies /\ t.body.v = t.was.v
    BY <2>1, <2>2 DEF Equipped
  <2>7. j.op \in {"register", "materialize"} => j.arc \in Arcs
    BY <2>1, <2>2 DEF Equipped
  <2>8. CASE j.op = "materialize" /\ Go(p, "build", j)
    <3>1. ProcsTyped
      BY <2>1, <2>2, <2>6, <2>7, <2>8, GoTyped DEF Places
    <3> QED
      BY <1>0, <1>2, <1>13, <3>1 DEF Load
  <2>9. CASE j.op # "materialize" /\ Go(p, "dump", k)
    <3>1. k.op \in Tools \ {"reanchor"} /\ k.loaded \in Manifests
      BY <2>1, <2>2, <2>5
    <3>2. k.op \in {"register", "materialize"} => k.arc \in Arcs
      BY <2>5, <2>7
    <3>3. \A t \in k.tours : k.op # "chain" => t.was \in Bodies /\ t.body.v = t.was.v
      BY <2>5, <2>6
    <3>4. ProcsTyped
      BY <2>5, <2>9, <3>1, <3>2, <3>3, GoTyped DEF Places
    <3> QED
      BY <1>0, <1>2, <1>13, <3>4 DEF Load
  <2>10. CASE Quits(p)
    BY <1>0, <1>2, <1>13, <2>10, QuitsTyped DEF Load
  <2> QED
    BY <2>3, <2>8, <2>9, <2>10
<1>14. ASSUME NEW p \in Procs, BuildFails(p) \/ Deleted(p) \/ Kill(p) PROVE CorpusTypes' /\ ToolInv'
  BY <1>0, <1>2, <1>14, QuitsTyped DEF BuildFails, Deleted, Kill
<1>15. ASSUME NEW p \in Procs, WriteDelta(p) PROVE CorpusTypes' /\ ToolInv'
  <2>1. job[p].op = "materialize" /\ job[p].loaded \in Manifests
    BY <1>9, <1>15 DEF WriteDelta, Equipped
  <2>2. ProcsTyped
    BY <1>11, <1>15, <2>1 DEF WriteDelta
  <2> QED
    BY <1>0, <1>15, <2>2 DEF WriteDelta, CorpusTypes
<1>16. ASSUME NEW p \in Procs, Dump(p) PROVE CorpusTypes' /\ ToolInv'
  <2> DEFINE j == job[p]
             k == [j EXCEPT !.gone = Reconciled(j)]
  <2>1. /\ j \in Jobs /\ Equipped(p) /\ j.loaded \in Manifests /\ j.op \in Tools \ {"reanchor"}
        /\ j.op \in {"register", "materialize"} => j.arc \in Arcs
    BY <1>9, <1>16 DEF Dump, Equipped
  <2>2. manifest' = Changed(j) /\ Changed(j) \in Manifests
    BY <1>16, <2>1, ChangedTyped DEF Dump
  <2>3. (j.op = "chain" /\ Go(p, "delete", k)) \/ Quits(p)
    BY <1>16 DEF Dump
  <2>4. ASSUME j.op = "chain", Go(p, "delete", k) PROVE ProcsTyped
    <3>1. Reconciled(j) \in SUBSET Slots
      BY DEF Reconciled
    <3>2. k \in Jobs /\ k.op = j.op /\ k.arc = j.arc
      BY <2>1, <3>1, JobFields DEF Jobs
    <3> HIDE DEF k
    <3> QED
      BY <2>4, <3>2, GoTyped DEF Places
  <2>5. ProcsTyped
    BY <2>3, <2>4, QuitsTyped
  <2> QED
    BY <1>0, <1>16, <2>2, <2>5 DEF Dump, CorpusTypes
<1>17. ASSUME NEW p \in Procs, NEW fails \in BOOLEAN, Delete(p, fails) PROVE CorpusTypes' /\ ToolInv'
  <2> DEFINE s == First(job[p].gone)
             k == [job[p] EXCEPT !.gone = @ \ {s}]
  <2>1. job[p] \in Jobs /\ Equipped(p) /\ job[p].op = "chain"
    BY <1>9, <1>17 DEF Delete, Equipped
  <2>2. file' \in [Slots -> Bodies \cup {None}]
    BY <1>17 DEF Delete, CorpusTypes
  <2>3. Go(p, "delete", k)
    BY <1>17 DEF Delete
  <2> HIDE DEF s
  <2>4. k \in Jobs /\ k.op = "chain"
    <3>1. job[p].gone \ {s} \in SUBSET Slots
      BY <2>1, JobFields
    <3> QED
      BY <2>1, <3>1, JobFields DEF Jobs
  <2> HIDE DEF k
  <2>5. ProcsTyped
    BY <2>3, <2>4, GoTyped DEF Places
  <2> QED
    BY <1>0, <1>17, <2>2, <2>5 DEF Delete, CorpusTypes
<1>18. ASSUME NEW p \in Procs, Cleanup(p) PROVE CorpusTypes' /\ ToolInv'
  BY <1>0, <1>1, <1>18 DEF Cleanup, CorpusTypes
<1> HIDE DEF ProcsTyped, WorldTyped
<1> QED
  BY <1>3, <1>4, <1>5, <1>6, <1>7, <1>8, <1>10, <1>12, <1>13, <1>14, <1>15, <1>16, <1>17, <1>18 DEF Next
---------------------------------------------------------------------------
(* Rows and their tours.                                                   *)

RowInv ==
  ~raced => /\ \A s \in Slots : manifest.row[s] # None => file[s] # None
            /\ \A a \in Arcs \ Dated : manifest.arc[a] = "done" => delta[a]
DeltaInv ==
  \A p \in Procs : pc[p] = "dump" /\ job[p].op = "materialize" => job[p].arc \in Dated \/ delta[job[p].arc]

LEMMA RowInit == Init => RowInv /\ DeltaInv
<1> SUFFICES ASSUME Init PROVE RowInv /\ DeltaInv
  OBVIOUS
<1>1. (\A s \in Slots : manifest.row[s] = None) /\ (\A a \in Arcs : manifest.arc[a] = None)
  BY DEF Init
<1>2. \A p \in Procs : pc[p] = "idle"
  BY DEF Init
<1> QED
  BY <1>1, <1>2, NoneFacts DEF RowInv, DeltaInv

LEMMA RowNext == CorpusTypes /\ ToolInv /\ RowInv /\ DeltaInv /\ [Next]_vars => RowInv' /\ DeltaInv'
<1> SUFFICES ASSUME CorpusTypes, ToolInv, RowInv, DeltaInv, [Next]_vars PROVE RowInv' /\ DeltaInv'
  OBVIOUS
<1> USE NoneFacts
\* Nothing a row or an arc speaks of.
<1>1. ASSUME UNCHANGED <<file, manifest, delta, raced>> PROVE RowInv'
  BY <1>1 DEF RowInv
\* A process goes on, and not to write a materialized arc's row.
<1>2. ASSUME NEW p \in Procs, NEW to, NEW j, Go(p, to, j), delta' = delta,
             to # "dump" \/ j.op # "materialize"
      PROVE  DeltaInv'
  BY <1>2, GoFacts DEF DeltaInv
<1>3. ASSUME UNCHANGED <<pc, job, delta>> PROVE DeltaInv'
  BY <1>3 DEF DeltaInv
<1>4. CASE UNCHANGED vars
  BY <1>1, <1>3, <1>4 DEF vars
<1>5. CASE MoveSource \/ \E live \in SUBSET Scenes : EditMd(live)
  BY <1>1, <1>3, <1>5 DEF MoveSource, EditMd
<1>6. ASSUME NEW p \in Procs, NEW x, NEW s, StartChain(p, x, s) PROVE RowInv' /\ DeltaInv'
  BY <1>1, <1>2, <1>3, <1>6 DEF StartChain
<1>7. ASSUME NEW p \in Procs, NEW op, StartRewrite(p, op) PROVE RowInv' /\ DeltaInv'
  BY <1>1, <1>2, <1>3, <1>7 DEF StartRewrite
<1>8. ASSUME NEW p \in Procs, NEW op, NEW arc, StartManifest(p, op, arc) PROVE RowInv' /\ DeltaInv'
  BY <1>1, <1>2, <1>8 DEF StartManifest
<1>9. ASSUME NEW p \in Procs, WriteTour(p) PROVE RowInv' /\ DeltaInv'
  <2>1. PICK t \in job[p].tours :
          /\ t.slot \in Slots /\ Body(job[p], t) \in Bodies
          /\ file' = [file EXCEPT ![t.slot] = Body(job[p], t)]
          /\ raced' = (raced \/ Undoes(job[p], t))
          /\ Go(p, "write", [job[p] EXCEPT !.tours = job[p].tours \ {t}])
    BY <1>9, WriteFacts
  <2>2. UNCHANGED <<manifest, delta>>
    BY <1>9 DEF WriteTour
  <2>3. \A s \in Slots : file[s] # None => file'[s] # None
    BY <2>1 DEF CorpusTypes
  <2>4. RowInv'
    BY <2>1, <2>2, <2>3 DEF RowInv
  <2> QED
    BY <1>2, <2>1, <2>2, <2>4
<1>10. ASSUME NEW p \in Procs, AfterTours(p) PROVE RowInv' /\ DeltaInv'
  BY <1>1, <1>2, <1>10 DEF AfterTours, Quits
<1>11. ASSUME NEW p \in Procs, Load(p) PROVE RowInv' /\ DeltaInv'
  <2> DEFINE j == [job[p] EXCEPT !.loaded = manifest]
             k == IF j.op = "scan" THEN [j EXCEPT !.plan = Present] ELSE j
  <2>1. Quits(p) \/ Go(p, "build", j) \/ (j.op # "materialize" /\ Go(p, "dump", k))
    BY <1>11 DEF Load
  <2>2. k.op = j.op
    <3>1. j \in Jobs
      BY JobFields DEF CorpusTypes
    <3> HIDE DEF j
    <3> QED
      BY <3>1 DEF Jobs
  <2> HIDE DEF j, k
  <2>3. DeltaInv'
    BY <1>2, <1>11, <2>1, <2>2 DEF Load, Quits
  <2> QED
    BY <1>1, <1>11, <2>3 DEF Load
<1>12. ASSUME NEW p \in Procs, BuildFails(p) \/ Deleted(p) \/ Kill(p) PROVE RowInv' /\ DeltaInv'
  BY <1>1, <1>2, <1>12 DEF BuildFails, Deleted, Kill, Quits
<1>13. ASSUME NEW p \in Procs, WriteDelta(p) PROVE RowInv' /\ DeltaInv'
  <2>1. job[p].op = "materialize" /\ job[p].arc \in Arcs
    BY <1>13 DEF WriteDelta, ToolInv, Equipped
  <2>2. delta'[job[p].arc] /\ \A a \in Arcs : delta[a] => delta'[a]
    BY <1>13, <2>1 DEF WriteDelta, CorpusTypes
  <2>3. RowInv'
    BY <1>13, <2>2 DEF WriteDelta, RowInv
  <2>4. pc'[p] = "dump" /\ job'[p] = job[p] /\ \A q \in Procs : q # p => pc'[q] = pc[q] /\ job'[q] = job[q]
    BY <1>13, GoFacts DEF WriteDelta
  <2>5. \A q \in Procs : pc[q] = "dump" /\ job[q].op = "materialize" => job[q].arc \in Arcs
    BY DEF ToolInv, Equipped
  <2> QED
    BY <2>2, <2>3, <2>4, <2>5 DEF DeltaInv
<1>14. ASSUME NEW p \in Procs, Dump(p) PROVE RowInv' /\ DeltaInv'
  <2> DEFINE j == job[p]
  <2>1. /\ j \in Jobs /\ j.loaded \in Manifests /\ j.op \in Tools \ {"reanchor"} /\ pc[p] = "dump"
        /\ j.op \in {"register", "materialize"} => j.arc \in Arcs
    BY <1>14 DEF Dump, CorpusTypes, ToolInv, Equipped
  <2>2. /\ manifest' = Changed(j) /\ file' = file /\ delta' = delta
        /\ raced' = (raced \/ manifest # j.loaded \/ \E s \in Slots : Upserted(j, s) /\ file[s] = None)
    BY <1>14 DEF Dump
  <2>3. ASSUME ~raced', NEW s \in Slots, manifest'.row[s] # None PROVE file'[s] # None
    <3>1. CASE Upserted(j, s)
      BY <2>2, <2>3, <3>1
    <3>2. CASE ~Upserted(j, s)
      <4>1. manifest'.row[s] = manifest.row[s]
        BY <2>1, <2>2, <2>3, <3>2, ChangedTyped
      <4> QED
        BY <2>2, <2>3, <4>1 DEF RowInv
    <3> QED
      BY <3>1, <3>2
  <2>4. ASSUME ~raced', NEW a \in Arcs \ Dated, manifest'.arc[a] = "done" PROVE delta'[a]
    <3>1. CASE j.op = "materialize" /\ a = j.arc
      BY <2>1, <2>2, <3>1 DEF DeltaInv
    <3>2. CASE ~(j.op = "materialize" /\ a = j.arc)
      <4>1. manifest'.arc[a] = manifest.arc[a]
        BY <2>1, <2>2, <2>4, <3>2, ChangedTyped
      <4> QED
        BY <2>2, <2>4, <4>1 DEF RowInv
    <3> QED
      BY <3>1, <3>2
  <2>5. RowInv'
    BY <2>3, <2>4 DEF RowInv
  <2>6. Go(p, "delete", [j EXCEPT !.gone = Reconciled(j)]) \/ Quits(p)
    BY <1>14 DEF Dump
  <2>7. DeltaInv'
    BY <1>2, <2>2, <2>6 DEF Quits
  <2> QED
    BY <2>5, <2>7
<1>15. ASSUME NEW p \in Procs, NEW fails \in BOOLEAN, Delete(p, fails) PROVE RowInv' /\ DeltaInv'
  <2> DEFINE s == First(job[p].gone)
  <2>1. /\ file' = file \/ file' = [file EXCEPT ![s] = None]
        /\ manifest' = manifest /\ delta' = delta /\ Go(p, "delete", [job[p] EXCEPT !.gone = @ \ {s}])
        /\ ~raced' => ~raced /\ manifest.row[s] = None
    BY <1>15 DEF Delete
  <2> HIDE DEF s
  <2>2. \A u \in Slots : u # s => file'[u] = file[u]
    BY <2>1 DEF CorpusTypes
  <2>3. RowInv'
    BY <2>1, <2>2 DEF RowInv
  <2> QED
    BY <1>2, <2>1, <2>3
<1>16. ASSUME NEW p \in Procs, Cleanup(p) PROVE RowInv' /\ DeltaInv'
  <2>1. \A a \in Arcs \ Dated : delta[a] => delta'[a]
    BY <1>16 DEF Cleanup
  <2>2. \A q \in Procs : pc[q] = "dump" /\ job[q].op = "materialize" => job[q].arc \in Arcs
    BY DEF ToolInv, Equipped
  <2> QED
    BY <1>16, <2>1, <2>2 DEF Cleanup, RowInv, DeltaInv
<1> QED
  BY <1>4, <1>5, <1>6, <1>7, <1>8, <1>9, <1>10, <1>11, <1>12, <1>13, <1>14, <1>15, <1>16 DEF Next
---------------------------------------------------------------------------
(* What the tours show.  A tour of the present document stands at the      *)
(* number of its scenario, wherever it is: in its file or with a process   *)
(* that is about to write it.                                              *)

Numbered(d, s, b) ==
  b.v <= d.v /\ (b.v = d.v => b.scene \in d.live /\ Rank(d.live, b.scene) = s[2])
Carried(d, j) ==
  \A t \in j.tours : Numbered(d, t.slot, t.body) /\ (j.op # "chain" => Numbered(d, t.slot, t.was))
BodyInv ==
  /\ md.v > 0
  /\ \A s \in Slots : file[s] # None => Numbered(md, s, file[s])
  /\ \A p \in Procs : Carried(md, job[p])

LEMMA BodyInit == Init => BodyInv
<1> SUFFICES ASSUME Init PROVE BodyInv
  OBVIOUS
<1>1. md.v = 1 /\ \A p \in Procs : job[p] = Idle
  BY DEF Init
<1>2. \A s \in Slots : file[s] # None => file[s] = ByHand
  BY DEF Init
<1>3. ByHand.v = 0
  BY DEF ByHand
<1> QED
  BY <1>1, <1>2, <1>3, IdleJob DEF BodyInv, Carried, Numbered

\* A newer document makes all that there is old.
LEMMA NumberedLater ==
  ASSUME NEW d, NEW e, NEW s, NEW b, d.v \in Nat, e.v = d.v + 1, b.v \in Nat, Numbered(d, s, b)
  PROVE  Numbered(e, s, b)
BY DEF Numbered

LEMMA BodyNext == CorpusTypes /\ ToolInv /\ BodyInv /\ [Next]_vars => BodyInv'
<1> SUFFICES ASSUME CorpusTypes, ToolInv, BodyInv, [Next]_vars PROVE BodyInv'
  OBVIOUS
<1> USE NoneFacts
<1>0. \A p \in Procs : job[p] \in Jobs
  BY DEF CorpusTypes
\* A process goes on with what it carries, or part of it, or nothing.
<1>1. ASSUME NEW p \in Procs, NEW to, NEW j, Go(p, to, j), md' = md, Carried(md, j)
      PROVE  md'.v > 0 /\ \A q \in Procs : Carried(md', job'[q])
  BY <1>1, GoFacts DEF BodyInv
<1>2. ASSUME NEW p \in Procs, NEW j, j.op = job[p].op, j.tours \subseteq job[p].tours
      PROVE  Carried(md, j)
  BY <1>2 DEF BodyInv, Carried
<1>3. Carried(md, Idle)
  BY IdleJob DEF Carried
<1>4. ASSUME NEW p \in Procs, NEW to, NEW j, Go(p, to, j), md' = md, Carried(md, j), file' = file
      PROVE  BodyInv'
  BY <1>1, <1>4 DEF BodyInv
<1>5. ASSUME UNCHANGED <<md, file, job>> PROVE BodyInv'
  BY <1>5 DEF BodyInv
<1>6. CASE UNCHANGED vars \/ MoveSource
  BY <1>5, <1>6 DEF vars, MoveSource
<1>7. ASSUME NEW live \in SUBSET Scenes, EditMd(live) PROVE BodyInv'
  <2>1. md'.v = md.v + 1 /\ md.v \in Nat /\ UNCHANGED <<file, job>>
    BY <1>7 DEF EditMd, CorpusTypes
  <2>2. ASSUME NEW s \in Slots, file'[s] # None PROVE Numbered(md', s, file'[s])
    <3>1. file[s] # None /\ file[s] \in Bodies /\ file'[s] = file[s]
      BY <2>1, <2>2 DEF CorpusTypes
    <3>2. file[s].v \in Nat /\ Numbered(md, s, file[s])
      BY <3>1 DEF Bodies, BodyInv
    <3> QED
      BY <2>1, <3>1, <3>2, NumberedLater
  <2>3. ASSUME NEW p \in Procs PROVE Carried(md', job'[p])
    <3>1. ASSUME NEW t \in job[p].tours
          PROVE  /\ Numbered(md', t.slot, t.body)
                 /\ job[p].op # "chain" => Numbered(md', t.slot, t.was)
      <4>1. /\ t.body \in Bodies /\ Numbered(md, t.slot, t.body)
            /\ job[p].op # "chain" => t.was \in Bodies /\ Numbered(md, t.slot, t.was)
        BY <1>0, JobFields DEF Tours, BodyInv, Carried, ToolInv, Equipped
      <4>2. t.body.v \in Nat /\ (job[p].op # "chain" => t.was.v \in Nat)
        BY <4>1 DEF Bodies
      <4> QED
        BY <2>1, <4>1, <4>2, NumberedLater
    <3> QED
      BY <2>1, <3>1 DEF Carried
  <2> QED
    BY <2>1, <2>2, <2>3 DEF BodyInv
<1>8. ASSUME NEW p \in Procs, NEW explicit \in {None} \cup Families, NEW primary, StartChain(p, explicit, primary)
      PROVE  BodyInv'
  <2>1. CASE UNCHANGED <<pc, job>>
    BY <1>5, <1>8, <2>1 DEF StartChain
  <2>2. CASE pc' # pc \/ job' # job
    <3>1. PICK fam \in FamilyOf(explicit) :
            Go(p, "write", [Idle EXCEPT !.op = "chain", !.fam = fam, !.v = md.v,
                 !.plan = {<<fam, Written(s)>> : s \in md.live},
                 !.tours = {[slot |-> <<fam, Written(s)>>,
                             body |-> [v |-> md.v, scene |-> s, at |-> where]] : s \in md.live}])
      BY <1>8, <2>2 DEF StartChain
    <3> DEFINE plan == {<<fam, Written(s)>> : s \in md.live}
               tours == {[slot |-> <<fam, Written(s)>>,
                          body |-> [v |-> md.v, scene |-> s, at |-> where]] : s \in md.live}
               j == [Idle EXCEPT !.op = "chain", !.fam = fam, !.v = md.v, !.plan = plan, !.tours = tours]
    <3>2. ASSUME NEW t \in tours PROVE Numbered(md, t.slot, t.body)
      <4>1. PICK s \in md.live : t = [slot |-> <<fam, Written(s)>>,
                                      body |-> [v |-> md.v, scene |-> s, at |-> where]]
        OBVIOUS
      <4>2. t.body.v = md.v /\ t.body.scene = s /\ t.slot[2] = Rank(md.live, s) /\ md.v \in Nat
        BY <4>1 DEF Written, Rank, CorpusTypes
      <4> QED
        BY <4>2 DEF Numbered
    <3> HIDE DEF plan, tours
    <3>3. j.op = "chain" /\ j.tours = tours
      BY IdleJob DEF Jobs
    <3> HIDE DEF j
    <3>4. Go(p, "write", j)
      BY <3>1 DEF j, plan, tours
    <3>5. Carried(md, j)
      BY <3>2, <3>3 DEF Carried
    <3> QED
      BY <1>4, <1>8, <3>4, <3>5 DEF StartChain
  <2> QED
    BY <2>1, <2>2
<1>9. ASSUME NEW p \in Procs, NEW op, StartRewrite(p, op) PROVE BodyInv'
  <2>1. CASE UNCHANGED <<pc, job>>
    BY <1>5, <1>9, <2>1 DEF StartRewrite
  <2>2. CASE pc' # pc \/ job' # job
    <3> DEFINE ss == {t \in Present : op = "upgrade" \/ file[t].at \notin {0, where}}
               tours == {[slot |-> s, body |-> [file[s] EXCEPT !.at = where], was |-> file[s]] : s \in ss}
               j == [Idle EXCEPT !.op = op, !.plan = Present, !.tours = tours]
    <3>1. Go(p, "write", j)
      BY <1>9, <2>2 DEF StartRewrite
    <3>2. ASSUME NEW t \in tours PROVE Numbered(md, t.slot, t.body) /\ Numbered(md, t.slot, t.was)
      <4>1. PICK s \in ss : t = [slot |-> s, body |-> [file[s] EXCEPT !.at = where], was |-> file[s]]
        OBVIOUS
      <4>2. ss \in SUBSET Present /\ s \in Slots /\ file[s] # None
        BY DEF Present
      <4> HIDE DEF ss
      <4>3. /\ [file[s] EXCEPT !.at = where].v = file[s].v
            /\ [file[s] EXCEPT !.at = where].scene = file[s].scene
        BY <4>2, RewriteJob
      <4>4. /\ t.slot = s /\ t.was = file[s] /\ t.body.v = file[s].v /\ t.body.scene = file[s].scene
            /\ Numbered(md, s, file[s])
        BY <4>1, <4>2, <4>3 DEF BodyInv
      <4> QED
        BY <4>4 DEF Numbered
    <3> HIDE DEF tours
    <3>3. j.tours = tours
      BY IdleJob DEF Jobs
    <3> HIDE DEF j
    <3>4. Carried(md, j)
      BY <3>2, <3>3 DEF Carried
    <3> QED
      BY <1>4, <1>9, <3>1, <3>4 DEF StartRewrite
  <2> QED
    BY <2>1, <2>2
<1>10. ASSUME NEW p \in Procs, NEW op, NEW arc, StartManifest(p, op, arc) PROVE BodyInv'
  <2> DEFINE j == [Idle EXCEPT !.op = op, !.arc = arc]
  <2>1. j.tours = {}
    BY IdleJob DEF Jobs
  <2>2. Go(p, "load", j)
    BY <1>10 DEF StartManifest
  <2> HIDE DEF j
  <2>3. Carried(md, j)
    BY <2>1 DEF Carried
  <2> QED
    BY <1>4, <1>10, <2>2, <2>3 DEF StartManifest
<1>11. ASSUME NEW p \in Procs, WriteTour(p) PROVE BodyInv'
  <2>1. PICK t \in job[p].tours :
          /\ t.slot \in Slots /\ Body(job[p], t) \in Bodies
          /\ file' = [file EXCEPT ![t.slot] = Body(job[p], t)]
          /\ Go(p, "write", [job[p] EXCEPT !.tours = job[p].tours \ {t}])
    BY <1>11, WriteFacts
  <2> DEFINE k == [job[p] EXCEPT !.tours = job[p].tours \ {t}]
  <2>2. k.op = job[p].op /\ k.tours = job[p].tours \ {t}
    BY <1>0 DEF Jobs
  <2> HIDE DEF k
  <2>3. Carried(md, k) /\ Go(p, "write", k) /\ md' = md
    BY <1>2, <1>11, <2>1, <2>2 DEF k, WriteTour
  <2>4. Numbered(md, t.slot, Body(job[p], t))
    BY DEF BodyInv, Carried, Body
  <2>5. \A s \in Slots : file'[s] # None => Numbered(md, s, file'[s])
    BY <2>1, <2>4 DEF CorpusTypes, BodyInv
  <2> QED
    BY <1>1, <2>3, <2>5 DEF BodyInv
<1>12. ASSUME NEW p \in Procs, AfterTours(p) PROVE BodyInv'
  BY <1>2, <1>3, <1>4, <1>12 DEF AfterTours, Quits
<1>13. ASSUME NEW p \in Procs, Load(p) PROVE BodyInv'
  <2> DEFINE j == [job[p] EXCEPT !.loaded = manifest]
             k == IF j.op = "scan" THEN [j EXCEPT !.plan = Present] ELSE j
  <2>1. Quits(p) \/ Go(p, "build", j) \/ Go(p, "dump", k)
    BY <1>13 DEF Load
  <2>2. j \in Jobs /\ j.op = job[p].op /\ j.tours = job[p].tours
    <3>1. job[p] \in Jobs /\ manifest \in Manifests
      BY <1>0 DEF CorpusTypes
    <3>2. j \in Jobs
      BY <3>1, JobFields
    <3> QED
      BY <3>1, <3>2 DEF Jobs
  <2> HIDE DEF j
  <2>3. k.op = j.op /\ k.tours = j.tours
    BY <2>2 DEF Jobs
  <2> HIDE DEF k
  <2>4. Carried(md, j) /\ Carried(md, k)
    BY <1>2, <2>2, <2>3
  <2> QED
    BY <1>3, <1>4, <1>13, <2>1, <2>4 DEF Load, Quits
<1>14. ASSUME NEW p \in Procs, BuildFails(p) \/ Deleted(p) \/ Kill(p) PROVE BodyInv'
  BY <1>3, <1>4, <1>14 DEF BuildFails, Deleted, Kill, Quits
<1>15. ASSUME NEW p \in Procs, WriteDelta(p) PROVE BodyInv'
  BY <1>2, <1>4, <1>15 DEF WriteDelta
<1>16. ASSUME NEW p \in Procs, Dump(p) PROVE BodyInv'
  <2> DEFINE k == [job[p] EXCEPT !.gone = Reconciled(job[p])]
  <2>1. k.op = job[p].op /\ k.tours = job[p].tours
    BY <1>0 DEF Jobs
  <2>2. Go(p, "delete", k) \/ Quits(p)
    BY <1>16 DEF Dump
  <2> HIDE DEF k
  <2> QED
    BY <1>2, <1>3, <1>4, <1>16, <2>1, <2>2 DEF Dump, Quits
<1>17. ASSUME NEW p \in Procs, NEW fails \in BOOLEAN, Delete(p, fails) PROVE BodyInv'
  <2> DEFINE s == First(job[p].gone)
             k == [job[p] EXCEPT !.gone = @ \ {s}]
  <2>1. /\ file' = file \/ file' = [file EXCEPT ![s] = None]
        /\ Go(p, "delete", k) /\ md' = md
    BY <1>17 DEF Delete
  <2> HIDE DEF s
  <2>2. k.op = job[p].op /\ k.tours = job[p].tours
    BY <1>0 DEF Jobs
  <2> HIDE DEF k
  <2>3. Carried(md, k)
    BY <1>2, <2>2
  <2>4. \A u \in Slots : file'[u] # None => Numbered(md, u, file'[u])
    BY <2>1 DEF CorpusTypes, BodyInv
  <2> QED
    BY <1>1, <2>1, <2>3, <2>4 DEF BodyInv
<1>18. ASSUME NEW p \in Procs, Cleanup(p) PROVE BodyInv'
  BY <1>5, <1>18 DEF Cleanup
<1> QED
  BY <1>6, <1>7, <1>8, <1>9, <1>10, <1>11, <1>12, <1>13, <1>14, <1>15, <1>16, <1>17, <1>18 DEF Next
---------------------------------------------------------------------------
(* What a generator is about.  Of the present document it plans exactly    *)
(* the numbers of the live scenarios, and it deletes nothing it planned.   *)

Planned(d, fam) == {<<fam, Rank(d.live, s)>> : s \in d.live}
Generating == {"write", "load", "dump", "delete"}
Sound(d, at, j) ==
  /\ j.v <= d.v
  /\ at \in Generating /\ j.op = "chain" =>
       /\ j.v = d.v => j.fam \in Families /\ j.plan = Planned(d, j.fam)
       /\ \A t \in j.tours : t.body.v = j.v
       /\ at # "write" => j.tours = {}
  /\ at = "delete" => \A s \in j.gone : s \notin j.plan /\ s[1] = j.fam
GenInv == \A p \in Procs : Sound(md, pc[p], job[p])

LEMMA GenInit == Init => GenInv
<1> SUFFICES ASSUME Init PROVE GenInv
  OBVIOUS
<1>1. md.v = 1 /\ \A p \in Procs : job[p] = Idle /\ pc[p] = "idle"
  BY DEF Init
<1> QED
  BY <1>1, IdleJob DEF GenInv, Sound, Generating

LEMMA GenNext == CorpusTypes /\ ToolInv /\ BodyInv /\ GenInv /\ [Next]_vars => GenInv'
<1> SUFFICES ASSUME CorpusTypes, ToolInv, BodyInv, GenInv, [Next]_vars PROVE GenInv'
  OBVIOUS
<1> USE NoneFacts
<1>0. \A p \in Procs : job[p] \in Jobs
  BY DEF CorpusTypes
<1>1. ASSUME NEW p \in Procs, NEW to, NEW j, Go(p, to, j), md' = md, Sound(md, to, j)
      PROVE  GenInv'
  BY <1>1, GoFacts DEF GenInv
<1>2. Sound(md, "idle", Idle)
  <2>1. md.v \in Nat
    BY DEF CorpusTypes
  <2> QED
    BY <2>1, IdleJob DEF Sound, Generating
<1>3. ASSUME UNCHANGED <<md, pc, job>> PROVE GenInv'
  BY <1>3 DEF GenInv
<1>4. CASE UNCHANGED vars \/ MoveSource
  BY <1>3, <1>4 DEF vars, MoveSource
<1>5. ASSUME NEW live \in SUBSET Scenes, EditMd(live) PROVE GenInv'
  <2>1. md'.v = md.v + 1 /\ md.v \in Nat /\ UNCHANGED <<pc, job>>
    BY <1>5 DEF EditMd, CorpusTypes
  <2>2. \A p \in Procs : job[p].v \in Nat
    BY <1>0, JobFields
  <2> QED
    BY <2>1, <2>2 DEF GenInv, Sound
<1>6. ASSUME NEW p \in Procs, NEW explicit \in {None} \cup Families, NEW primary, StartChain(p, explicit, primary)
      PROVE  GenInv'
  <2>1. CASE UNCHANGED <<pc, job>>
    BY <1>3, <1>6, <2>1 DEF StartChain
  <2>2. CASE pc' # pc \/ job' # job
    <3>1. PICK fam \in FamilyOf(explicit) :
            Go(p, "write", [Idle EXCEPT !.op = "chain", !.fam = fam, !.v = md.v,
                 !.plan = {<<fam, Written(s)>> : s \in md.live},
                 !.tours = {[slot |-> <<fam, Written(s)>>,
                             body |-> [v |-> md.v, scene |-> s, at |-> where]] : s \in md.live}])
      BY <1>6, <2>2 DEF StartChain
    <3> DEFINE plan == {<<fam, Written(s)>> : s \in md.live}
               tours == {[slot |-> <<fam, Written(s)>>,
                          body |-> [v |-> md.v, scene |-> s, at |-> where]] : s \in md.live}
               j == [Idle EXCEPT !.op = "chain", !.fam = fam, !.v = md.v, !.plan = plan, !.tours = tours]
    <3>2. fam \in Families
      BY ChainJob
    <3>3. plan = Planned(md, fam)
      BY DEF Planned, Written, Rank
    <3>4. \A t \in tours : t.body.v = md.v
      OBVIOUS
    <3> HIDE DEF plan, tours
    <3>5. j.op = "chain" /\ j.fam = fam /\ j.plan = plan /\ j.tours = tours /\ j.v = md.v
      BY IdleJob DEF Jobs
    <3> HIDE DEF j
    <3>6. Go(p, "write", j) /\ md' = md
      BY <1>6, <3>1 DEF j, plan, tours, StartChain
    <3>7. md.v \in Nat
      BY DEF CorpusTypes
    <3>8. Sound(md, "write", j)
      BY <3>2, <3>3, <3>4, <3>5, <3>7 DEF Sound
    <3> QED
      BY <1>1, <3>6, <3>8
  <2> QED
    BY <2>1, <2>2
<1>7. ASSUME NEW p \in Procs, NEW to \in Places \ {"delete"}, NEW j, j.op # "chain", j.v = 0, Go(p, to, j), md' = md
      PROVE  GenInv'
  <2>1. md.v \in Nat
    BY DEF CorpusTypes
  <2>2. Sound(md, to, j)
    BY <1>7, <2>1 DEF Sound
  <2> QED
    BY <1>1, <1>7, <2>2
<1>8. ASSUME NEW p \in Procs, NEW op, StartRewrite(p, op) PROVE GenInv'
  <2>1. CASE UNCHANGED <<pc, job>>
    BY <1>3, <1>8, <2>1 DEF StartRewrite
  <2>2. CASE pc' # pc \/ job' # job
    <3> DEFINE tours == {[slot |-> s, body |-> [file[s] EXCEPT !.at = where], was |-> file[s]] :
                           s \in {t \in Present : op = "upgrade" \/ file[t].at \notin {0, where}}}
               j == [Idle EXCEPT !.op = op, !.plan = Present, !.tours = tours]
    <3>1. Go(p, "write", j) /\ op # "chain" /\ md' = md
      BY <1>8, <2>2 DEF StartRewrite
    <3> HIDE DEF tours
    <3>2. j.op = op /\ j.v = 0
      BY IdleJob DEF Jobs
    <3> HIDE DEF j
    <3> QED
      BY <1>7, <3>1, <3>2 DEF Places
  <2> QED
    BY <2>1, <2>2
<1>9. ASSUME NEW p \in Procs, NEW op, NEW arc, StartManifest(p, op, arc) PROVE GenInv'
  <2> DEFINE j == [Idle EXCEPT !.op = op, !.arc = arc]
  <2>1. j.op = op /\ j.v = 0 /\ op # "chain"
    BY <1>9, IdleJob DEF Jobs, StartManifest
  <2>2. Go(p, "load", j) /\ md' = md
    BY <1>9 DEF StartManifest
  <2> HIDE DEF j
  <2> QED
    BY <1>7, <2>1, <2>2 DEF Places
\* A process goes on about the same document.
<1>10. ASSUME NEW p \in Procs, NEW to \in {"write", "load", "build", "dump"}, NEW j, Go(p, to, j), md' = md,
              j.op = job[p].op, j.v = job[p].v, j.fam = job[p].fam, j.op = "chain" => j.plan = job[p].plan,
              j.tours \subseteq job[p].tours, pc[p] \in Generating \/ to \notin Generating \/ j.op # "chain",
              j.op = "chain" /\ to # "write" => pc[p] # "write" \/ j.tours = {}
       PROVE  GenInv'
  <2>1. Sound(md, to, j)
    BY <1>10 DEF GenInv, Sound, Generating
  <2> QED
    BY <1>1, <1>10, <2>1
<1>11. ASSUME NEW p \in Procs, Quits(p), md' = md PROVE GenInv'
  BY <1>1, <1>2, <1>11 DEF Quits
<1>12. ASSUME NEW p \in Procs, WriteTour(p) PROVE GenInv'
  <2>1. PICK t : Go(p, "write", [job[p] EXCEPT !.tours = job[p].tours \ {t}])
    BY <1>12, WriteFacts
  <2> DEFINE k == [job[p] EXCEPT !.tours = job[p].tours \ {t}]
  <2>2. /\ k.op = job[p].op /\ k.v = job[p].v /\ k.fam = job[p].fam /\ k.plan = job[p].plan
        /\ k.tours \subseteq job[p].tours
    BY <1>0 DEF Jobs
  <2> HIDE DEF k
  <2>3. Go(p, "write", k) /\ md' = md /\ pc[p] = "write"
    BY <1>12, <2>1 DEF k, WriteTour
  <2> QED
    BY <1>10, <2>2, <2>3 DEF Generating
<1>13. ASSUME NEW p \in Procs, AfterTours(p) PROVE GenInv'
  BY <1>10, <1>11, <1>13 DEF AfterTours, Generating
<1>14. ASSUME NEW p \in Procs, Load(p) PROVE GenInv'
  <2> DEFINE j == [job[p] EXCEPT !.loaded = manifest]
             k == IF j.op = "scan" THEN [j EXCEPT !.plan = Present] ELSE j
  <2>1. Quits(p) \/ (j.op = "materialize" /\ Go(p, "build", j)) \/ Go(p, "dump", k)
    BY <1>14 DEF Load
  <2>2. /\ j.op = job[p].op /\ j.v = job[p].v /\ j.fam = job[p].fam /\ j.plan = job[p].plan
        /\ j.tours = job[p].tours /\ j \in Jobs
    <3>1. job[p] \in Jobs /\ manifest \in Manifests
      BY <1>0 DEF CorpusTypes
    <3>2. j \in Jobs
      BY <3>1, JobFields
    <3> QED
      BY <3>1, <3>2 DEF Jobs
  <2> HIDE DEF j
  <2>3. /\ k.op = j.op /\ k.v = j.v /\ k.fam = j.fam /\ k.tours = j.tours
        /\ k.op = "chain" => k.plan = j.plan
    BY <2>2 DEF Jobs
  <2> HIDE DEF k
  <2>4. pc[p] = "load" /\ md' = md
    BY <1>14 DEF Load
  <2>5. CASE j.op = "materialize" /\ Go(p, "build", j)
    BY <1>10, <2>2, <2>4, <2>5 DEF Generating
  <2>6. CASE Go(p, "dump", k)
    BY <1>10, <2>2, <2>3, <2>4, <2>6 DEF Generating
  <2> QED
    BY <1>11, <2>1, <2>4, <2>5, <2>6
<1>15. ASSUME NEW p \in Procs, BuildFails(p) \/ Deleted(p) \/ Kill(p) PROVE GenInv'
  BY <1>11, <1>15 DEF BuildFails, Deleted, Kill
<1>16. ASSUME NEW p \in Procs, WriteDelta(p) PROVE GenInv'
  <2>1. job[p].op = "materialize" /\ pc[p] = "build" /\ Go(p, "dump", job[p]) /\ md' = md
    BY <1>16 DEF WriteDelta, ToolInv, Equipped
  <2> QED
    BY <1>10, <2>1
<1>17. ASSUME NEW p \in Procs, Dump(p) PROVE GenInv'
  <2> DEFINE j == job[p]
             k == [j EXCEPT !.gone = Reconciled(j)]
  <2>1. md' = md /\ pc[p] = "dump" /\ ((j.op = "chain" /\ Go(p, "delete", k)) \/ Quits(p))
    BY <1>17 DEF Dump
  <2>2. /\ k.op = j.op /\ k.v = j.v /\ k.fam = j.fam /\ k.plan = j.plan /\ k.tours = j.tours
        /\ k.gone = Reconciled(j)
    BY <1>0 DEF Jobs
  <2> HIDE DEF k
  <2>3. \A s \in k.gone : s \notin k.plan /\ s[1] = k.fam
    BY <2>2 DEF Reconciled
  <2>4. ASSUME j.op = "chain", Go(p, "delete", k) PROVE GenInv'
    <3>1. Sound(md, "delete", k)
      BY <2>1, <2>2, <2>3, <2>4 DEF GenInv, Sound, Generating
    <3> QED
      BY <1>1, <2>1, <2>4, <3>1
  <2> QED
    BY <1>11, <2>1, <2>4
<1>18. ASSUME NEW p \in Procs, NEW fails \in BOOLEAN, Delete(p, fails) PROVE GenInv'
  <2> DEFINE j == job[p]
             s == First(j.gone)
             k == [j EXCEPT !.gone = j.gone \ {s}]
  <2>1. Go(p, "delete", k) /\ md' = md /\ pc[p] = "delete"
    BY <1>18 DEF Delete
  <2> HIDE DEF s
  <2>2. /\ k.op = j.op /\ k.v = j.v /\ k.fam = j.fam /\ k.plan = j.plan /\ k.tours = j.tours
        /\ k.gone \subseteq j.gone
    BY <1>0 DEF Jobs
  <2> HIDE DEF k
  <2>3. Sound(md, "delete", k)
    BY <2>1, <2>2 DEF GenInv, Sound
  <2> QED
    BY <1>1, <2>1, <2>3
<1>19. ASSUME NEW p \in Procs, Cleanup(p) PROVE GenInv'
  BY <1>3, <1>19 DEF Cleanup
<1> QED
  BY <1>4, <1>5, <1>6, <1>8, <1>9, <1>12, <1>13, <1>14, <1>15, <1>16, <1>17, <1>18, <1>19 DEF Next
---------------------------------------------------------------------------
(* What a generator has made.  As long as the document it read is the      *)
(* present one, every number it planned is still to be written or has a    *)
(* tour of this document, which no overlap but an excepted one takes away. *)

Current(d, f, s) == f[s] # None /\ f[s].v = d.v
MadeBy(d, f, at, j) ==
  at \in {"write", "load", "dump"} /\ j.op = "chain" /\ j.v = d.v =>
    \A s \in j.plan : (\E t \in j.tours : t.slot = s) \/ Current(d, f, s)
MadeInv == ~raced => \A p \in Procs : MadeBy(md, file, pc[p], job[p])

LEMMA MadeInit == Init => MadeInv
BY DEF Init, MadeInv, MadeBy

\* A tour of the present document stays one when a tour is written.
LEMMA WriteKeeps ==
  ASSUME CorpusTypes, ToolInv, BodyInv, GenInv, NEW p \in Procs, NEW t \in job[p].tours, pc[p] = "write",
         t.slot \in Slots, Body(job[p], t) \in Bodies, ~Undoes(job[p], t), t.body \in Bodies,
         Current(md, file, t.slot)
  PROVE  Body(job[p], t).v = md.v
<1> USE NoneFacts
<1>1. Equipped(p) /\ Carried(md, job[p]) /\ md.v \in Nat
  BY DEF ToolInv, BodyInv, CorpusTypes
<1>2. CASE job[p].op = "chain"
  <2>1. t.body.v <= md.v /\ t.body.v \in Nat /\ Body(job[p], t) = t.body
    BY <1>1, <1>2 DEF Carried, Numbered, Bodies, Body
  <2>2. ~(file[t.slot].v > t.body.v) /\ file[t.slot].v = md.v
    BY <1>2 DEF Undoes, Current
  <2> QED
    BY <1>1, <2>1, <2>2
<1>3. CASE job[p].op # "chain"
  <2>1. t.was = file[t.slot] /\ t.body.v = t.was.v
    BY <1>1, <1>3 DEF Undoes, Equipped
  <2> QED
    BY <2>1 DEF Body, Current
<1> QED
  BY <1>2, <1>3

LEMMA MadeNext ==
  CorpusTypes /\ ToolInv /\ BodyInv /\ GenInv /\ MadeInv /\ [Next]_vars => MadeInv'
<1> SUFFICES ASSUME CorpusTypes, ToolInv, BodyInv, GenInv, MadeInv, [Next]_vars PROVE MadeInv'
  OBVIOUS
<1> USE NoneFacts
<1>0. \A p \in Procs : job[p] \in Jobs
  BY DEF CorpusTypes
\* A process steps, and the tours of the present document stay.
<1>1. ASSUME NEW p \in Procs, NEW to, NEW j, Go(p, to, j), md' = md, ~raced' => ~raced,
             ~raced' => \A s \in Slots : Current(md, file, s) => Current(md, file', s),
             ~raced' => MadeBy(md, file', to, j)
      PROVE  MadeInv'
  <2> SUFFICES ASSUME ~raced', NEW q \in Procs PROVE MadeBy(md', file', pc'[q], job'[q])
    BY DEF MadeInv
  <2>1. CASE q = p
    BY <1>1, <2>1, GoFacts
  <2>2. CASE q # p
    <3>1. pc'[q] = pc[q] /\ job'[q] = job[q] /\ MadeBy(md, file, pc[q], job[q])
      BY <1>1, <2>2, GoFacts DEF MadeInv
    <3>2. job[q].plan \in SUBSET Slots
      BY <1>0, JobFields
    <3> QED
      BY <1>1, <3>1, <3>2 DEF MadeBy
  <2> QED
    BY <2>1, <2>2
<1>2. ASSUME NEW p \in Procs, NEW to, NEW j, Go(p, to, j), UNCHANGED <<md, file, raced>>, MadeBy(md, file, to, j)
      PROVE  MadeInv'
  BY <1>1, <1>2
<1>3. ASSUME UNCHANGED <<md, file, pc, job, raced>> PROVE MadeInv'
  BY <1>3 DEF MadeInv
<1>4. ASSUME NEW p \in Procs, Quits(p), UNCHANGED <<md, file, raced>> PROVE MadeInv'
  <2>1. MadeBy(md, file, "idle", Idle)
    BY DEF MadeBy
  <2> QED
    BY <1>2, <1>4, <2>1 DEF Quits
<1>5. CASE UNCHANGED vars \/ MoveSource
  BY <1>3, <1>5 DEF vars, MoveSource
<1>6. ASSUME NEW live \in SUBSET Scenes, EditMd(live) PROVE MadeInv'
  <2>1. md'.v = md.v + 1 /\ md.v \in Nat /\ UNCHANGED <<pc, job>>
    BY <1>6 DEF EditMd, CorpusTypes
  <2>2. ASSUME NEW p \in Procs PROVE job'[p].v # md'.v
    <3>1. job[p].v \in Nat /\ job[p].v <= md.v
      BY <1>0, JobFields DEF GenInv, Sound
    <3> QED
      BY <2>1, <3>1
  <2> QED
    BY <2>2 DEF MadeInv, MadeBy
<1>7. ASSUME NEW p \in Procs, NEW explicit \in {None} \cup Families, NEW primary, StartChain(p, explicit, primary)
      PROVE  MadeInv'
  <2>1. CASE UNCHANGED <<pc, job>>
    BY <1>3, <1>7, <2>1 DEF StartChain
  <2>2. CASE pc' # pc \/ job' # job
    <3>1. PICK fam \in FamilyOf(explicit) :
            Go(p, "write", [Idle EXCEPT !.op = "chain", !.fam = fam, !.v = md.v,
                 !.plan = {<<fam, Written(s)>> : s \in md.live},
                 !.tours = {[slot |-> <<fam, Written(s)>>,
                             body |-> [v |-> md.v, scene |-> s, at |-> where]] : s \in md.live}])
      BY <1>7, <2>2 DEF StartChain
    <3> DEFINE plan == {<<fam, Written(s)>> : s \in md.live}
               tours == {[slot |-> <<fam, Written(s)>>,
                          body |-> [v |-> md.v, scene |-> s, at |-> where]] : s \in md.live}
               j == [Idle EXCEPT !.op = "chain", !.fam = fam, !.v = md.v, !.plan = plan, !.tours = tours]
    <3>2. ASSUME NEW x \in plan PROVE \E t \in tours : t.slot = x
      <4>1. PICK s \in md.live : x = <<fam, Written(s)>>
        OBVIOUS
      <4>2. [slot |-> <<fam, Written(s)>>, body |-> [v |-> md.v, scene |-> s, at |-> where]] \in tours
        OBVIOUS
      <4> QED
        BY <4>1, <4>2
    <3> HIDE DEF plan, tours
    <3>3. j.plan = plan /\ j.tours = tours
      BY IdleJob DEF Jobs
    <3> HIDE DEF j
    <3>4. Go(p, "write", j)
      BY <3>1 DEF j, plan, tours
    <3>5. MadeBy(md, file, "write", j)
      BY <3>2, <3>3 DEF MadeBy
    <3> QED
      BY <1>2, <1>7, <3>4, <3>5 DEF StartChain
  <2> QED
    BY <2>1, <2>2
\* The other tools promise nothing.
<1>8. ASSUME NEW p \in Procs, NEW to, NEW j, j.op # "chain", Go(p, to, j), UNCHANGED <<md, file, raced>>
      PROVE  MadeInv'
  <2>1. MadeBy(md, file, to, j)
    BY <1>8 DEF MadeBy
  <2> QED
    BY <1>2, <1>8, <2>1
<1>9. ASSUME NEW p \in Procs, NEW op, StartRewrite(p, op) PROVE MadeInv'
  <2>1. CASE UNCHANGED <<pc, job>>
    BY <1>3, <1>9, <2>1 DEF StartRewrite
  <2>2. CASE pc' # pc \/ job' # job
    <3> DEFINE tours == {[slot |-> s, body |-> [file[s] EXCEPT !.at = where], was |-> file[s]] :
                           s \in {t \in Present : op = "upgrade" \/ file[t].at \notin {0, where}}}
               j == [Idle EXCEPT !.op = op, !.plan = Present, !.tours = tours]
    <3>1. Go(p, "write", j) /\ op # "chain" /\ UNCHANGED <<md, file, raced>>
      BY <1>9, <2>2 DEF StartRewrite
    <3> HIDE DEF tours
    <3>2. j.op = op
      BY IdleJob DEF Jobs
    <3> HIDE DEF j
    <3> QED
      BY <1>8, <3>1, <3>2
  <2> QED
    BY <2>1, <2>2
<1>10. ASSUME NEW p \in Procs, NEW op, NEW arc, StartManifest(p, op, arc) PROVE MadeInv'
  <2> DEFINE j == [Idle EXCEPT !.op = op, !.arc = arc]
  <2>1. j.op = op /\ op # "chain"
    BY <1>10, IdleJob DEF Jobs, StartManifest
  <2>2. Go(p, "load", j) /\ UNCHANGED <<md, file, raced>>
    BY <1>10 DEF StartManifest
  <2> HIDE DEF j
  <2> QED
    BY <1>8, <2>1, <2>2
<1>11. ASSUME NEW p \in Procs, WriteTour(p) PROVE MadeInv'
  <2>1. PICK t \in job[p].tours :
          /\ t.slot \in Slots /\ t.body \in Bodies /\ Body(job[p], t) \in Bodies
          /\ file' = [file EXCEPT ![t.slot] = Body(job[p], t)]
          /\ raced' = (raced \/ Undoes(job[p], t))
          /\ Go(p, "write", [job[p] EXCEPT !.tours = job[p].tours \ {t}])
    BY <1>11, WriteFacts
  <2> DEFINE b == Body(job[p], t)
             k == [job[p] EXCEPT !.tours = job[p].tours \ {t}]
  <2>2. k.op = job[p].op /\ k.v = job[p].v /\ k.plan = job[p].plan /\ k.tours = job[p].tours \ {t}
    BY <1>0 DEF Jobs
  <2>3. ~raced' => ~raced /\ ~Undoes(job[p], t)
    BY <2>1
  <2>4. pc[p] = "write" /\ md' = md
    BY <1>11 DEF WriteTour
  <2>5. ~raced' /\ Current(md, file, t.slot) => b.v = md.v
    BY <2>1, <2>3, <2>4, WriteKeeps
  <2>6. job[p].op = "chain" => b = t.body /\ t.body.v = job[p].v
    BY <2>4 DEF Body, GenInv, Sound, Generating
  <2>7. Go(p, "write", k)
    BY <2>1
  <2> HIDE DEF b, k
  <2>8. b \in Bodies /\ b # None /\ \A s \in Slots : file'[s] = IF s = t.slot THEN b ELSE file[s]
    BY <2>1 DEF b, CorpusTypes
  <2>9. ~raced' => \A s \in Slots : Current(md, file, s) => Current(md, file', s)
    BY <2>5, <2>8 DEF Current
  <2>10. ASSUME ~raced' PROVE MadeBy(md, file', "write", k)
    <3> SUFFICES ASSUME k.op = "chain", k.v = md.v, NEW s \in k.plan
                 PROVE  (\E u \in k.tours : u.slot = s) \/ Current(md, file', s)
      BY DEF MadeBy
    <3>1. s \in Slots
      BY <1>0, <2>2, JobFields
    <3>2. (\E u \in job[p].tours : u.slot = s) \/ Current(md, file, s)
      BY <2>2, <2>3, <2>4, <2>10 DEF MadeInv, MadeBy
    <3>3. CASE s = t.slot
      BY <2>2, <2>6, <2>8, <3>1, <3>3 DEF Current
    <3>4. CASE s # t.slot
      BY <2>2, <2>9, <2>10, <3>1, <3>2, <3>4
    <3> QED
      BY <3>3, <3>4
  <2> QED
    BY <1>1, <2>3, <2>4, <2>7, <2>9, <2>10
\* A process goes on with the same tours to write.
<1>12. ASSUME NEW p \in Procs, NEW to, NEW j, Go(p, to, j), UNCHANGED <<md, file, raced>>, j.op = job[p].op,
              j.v = job[p].v, j.tours = job[p].tours, j.op = "chain" => j.plan = job[p].plan,
              pc[p] \in {"write", "load", "dump"} \/ j.op # "chain"
       PROVE  MadeInv'
  <2>1. ~raced' => MadeBy(md, file, to, j)
    BY <1>12 DEF MadeInv, MadeBy
  <2> QED
    BY <1>1, <1>12, <2>1
<1>13. ASSUME NEW p \in Procs, AfterTours(p) PROVE MadeInv'
  BY <1>4, <1>12, <1>13 DEF AfterTours
<1>14. ASSUME NEW p \in Procs, Load(p) PROVE MadeInv'
  <2> DEFINE j == [job[p] EXCEPT !.loaded = manifest]
             k == IF j.op = "scan" THEN [j EXCEPT !.plan = Present] ELSE j
  <2>1. Quits(p) \/ (j.op = "materialize" /\ Go(p, "build", j)) \/ Go(p, "dump", k)
    BY <1>14 DEF Load
  <2>2. /\ j.op = job[p].op /\ j.v = job[p].v /\ j.plan = job[p].plan /\ j.tours = job[p].tours /\ j \in Jobs
    <3>1. job[p] \in Jobs /\ manifest \in Manifests
      BY <1>0 DEF CorpusTypes
    <3>2. j \in Jobs
      BY <3>1, JobFields
    <3> QED
      BY <3>1, <3>2 DEF Jobs
  <2> HIDE DEF j
  <2>3. k.op = j.op /\ k.v = j.v /\ k.tours = j.tours /\ (k.op = "chain" => k.plan = j.plan)
    BY <2>2 DEF Jobs
  <2> HIDE DEF k
  <2>4. pc[p] = "load" /\ UNCHANGED <<md, file, raced>>
    BY <1>14 DEF Load
  <2> QED
    BY <1>4, <1>8, <1>12, <2>1, <2>2, <2>3, <2>4
<1>15. ASSUME NEW p \in Procs, BuildFails(p) \/ Deleted(p) \/ Kill(p) PROVE MadeInv'
  BY <1>4, <1>15 DEF BuildFails, Deleted, Kill
<1>16. ASSUME NEW p \in Procs, WriteDelta(p) PROVE MadeInv'
  <2>1. job[p].op = "materialize" /\ Go(p, "dump", job[p]) /\ UNCHANGED <<md, file, raced>>
    BY <1>16 DEF WriteDelta, ToolInv, Equipped
  <2> QED
    BY <1>8, <2>1
<1>17. ASSUME NEW p \in Procs, NEW to \in {"idle", "delete"}, NEW j, Go(p, to, j), md' = md, ~raced' => ~raced,
              ~raced' => \A s \in Slots : Current(md, file, s) => Current(md, file', s)
       PROVE  MadeInv'
  <2>1. MadeBy(md, file', to, j)
    BY DEF MadeBy
  <2> QED
    BY <1>1, <1>17, <2>1
<1>18. ASSUME NEW p \in Procs, Dump(p) PROVE MadeInv'
  <2>1. /\ Go(p, "delete", [job[p] EXCEPT !.gone = Reconciled(job[p])]) \/ Go(p, "idle", Idle)
        /\ file' = file /\ md' = md /\ (~raced' => ~raced)
    BY <1>18 DEF Dump, Quits
  <2> QED
    BY <1>17, <2>1
<1>19. ASSUME NEW p \in Procs, NEW fails \in BOOLEAN, Delete(p, fails) PROVE MadeInv'
  <2> DEFINE j == job[p]
             s == First(j.gone)
  <2>1. /\ file' = file \/ file' = [file EXCEPT ![s] = None]
        /\ Go(p, "delete", [j EXCEPT !.gone = @ \ {s}]) /\ md' = md
        /\ ~raced' => ~raced /\ ~(file[s] # None /\ file[s].v > j.v)
        /\ pc[p] = "delete" /\ j.gone # {}
    BY <1>19 DEF Delete
  <2>2. s \in j.gone /\ s \in Slots /\ j \in Jobs
    BY <1>0, <2>1, FirstIn, JobFields
  <2>3. j.op = "chain" /\ j.v <= md.v /\ j.v \in Nat /\ md.v \in Nat /\ s \notin j.plan /\ s[1] = j.fam
    BY <2>1, <2>2, JobFields DEF ToolInv, Equipped, GenInv, Sound, CorpusTypes
  <2> HIDE DEF s
  \* What it takes away is not of the present document.
  <2>4. ASSUME ~raced' PROVE ~Current(md, file, s)
    <3> SUFFICES ASSUME Current(md, file, s) PROVE FALSE
      OBVIOUS
    <3>1. file[s].v = md.v /\ j.v = md.v
      BY <2>1, <2>3, <2>4 DEF Current
    <3>2. j.plan = Planned(md, j.fam)
      BY <2>1, <2>3, <3>1 DEF GenInv, Sound, Generating
    <3>3. file[s].scene \in md.live /\ Rank(md.live, file[s].scene) = s[2]
      BY <2>2, <3>1 DEF BodyInv, Numbered, Current
    <3>4. s = <<j.fam, Rank(md.live, file[s].scene)>>
      BY <2>2, <2>3, <3>3 DEF Slots
    <3> QED
      BY <2>3, <3>2, <3>3, <3>4 DEF Planned
  <2>5. \A u \in Slots : u # s => file'[u] = file[u]
    BY <2>1 DEF CorpusTypes
  <2>6. ~raced' => \A u \in Slots : Current(md, file, u) => Current(md, file', u)
    BY <2>4, <2>5 DEF Current
  <2> QED
    BY <1>17, <2>1, <2>6
<1>20. ASSUME NEW p \in Procs, Cleanup(p) PROVE MadeInv'
  BY <1>3, <1>20 DEF Cleanup
<1> QED
  BY <1>5, <1>6, <1>7, <1>9, <1>10, <1>11, <1>13, <1>14, <1>15, <1>16, <1>18, <1>19, <1>20 DEF Next
---------------------------------------------------------------------------
(* The theorems.                                                           *)

\* What the executions of the tools keep true together.
Ind == CorpusTypes /\ ToolInv /\ RowInv /\ DeltaInv /\ BodyInv /\ GenInv /\ MadeInv

(* All the parts of the inductive invariant hold at every time, whatever   *)
(* tools run and wherever a process is killed.                             *)
THEOREM Invariant == Spec => []Ind
<1>1. Init => Ind
  BY TypesInit, RowInit, BodyInit, GenInit, MadeInit DEF Ind
<1>2. Ind /\ [Next]_vars => Ind'
  BY TypesNext, RowNext, BodyNext, GenNext, MadeNext DEF Ind
<1> QED
  BY <1>1, <1>2, PTL DEF Spec

(* A row of the manifest has its tour and a materialized arc its delta     *)
(* tour, after any kill and any failed deletion, unless one of the         *)
(* excepted overlaps has happened (chain_tour.rs run, tour_manifest dump,  *)
(* tour.rs materialize).                                                   *)
THEOREM RowsStand == Spec => []RowsHaveFiles
<1>1. Ind => RowsHaveFiles
  BY DEF Ind, RowInv, RowsHaveFiles
<1> QED
  BY <1>1, Invariant, PTL

\* A process comes from its dump to its deletions by dumping.
LEMMA OnlyDump ==
  ASSUME CorpusTypes, [Next]_vars, NEW p \in Procs, pc[p] = "dump", pc'[p] = "delete"
  PROVE  Dump(p)
<1>1. ASSUME NEW q \in Procs, NEW to, NEW j, Go(q, to, j), to # "delete" \/ pc[q] # "dump" PROVE FALSE
  BY <1>1, GoFacts
<1>2. ASSUME NEW q \in Procs, Quits(q) PROVE FALSE
  BY <1>1, <1>2 DEF Quits
<1>3. ~ UNCHANGED pc
  OBVIOUS
<1>4. ~ UNCHANGED vars /\ ~ MoveSource /\ \A live \in SUBSET Scenes : ~ EditMd(live)
  BY <1>3 DEF vars, MoveSource, EditMd
<1>5. \A q \in Procs : ~ Cleanup(q)
  BY <1>3 DEF Cleanup
<1>6. \A q \in Procs : ~ BuildFails(q) /\ ~ Deleted(q) /\ ~ Kill(q)
  BY <1>2 DEF BuildFails, Deleted, Kill
<1>7. ASSUME NEW q \in Procs, NEW x, NEW s, StartChain(q, x, s) PROVE FALSE
  <2>1. PICK j : Go(q, "write", j)
    BY <1>3, <1>7 DEF StartChain
  <2> QED
    BY <1>1, <2>1
<1>8. ASSUME NEW q \in Procs, NEW op, StartRewrite(q, op) PROVE FALSE
  <2>1. PICK j : Go(q, "write", j)
    BY <1>3, <1>8 DEF StartRewrite
  <2> QED
    BY <1>1, <2>1
<1>9. ASSUME NEW q \in Procs, NEW op, NEW a, StartManifest(q, op, a) PROVE FALSE
  BY <1>1, <1>9 DEF StartManifest
<1>10. ASSUME NEW q \in Procs, WriteTour(q) PROVE FALSE
  <2>1. PICK j : Go(q, "write", j)
    BY <1>10 DEF WriteTour
  <2> QED
    BY <1>1, <2>1
<1>11. ASSUME NEW q \in Procs, AfterTours(q) PROVE FALSE
  BY <1>1, <1>2, <1>11 DEF AfterTours
<1>12. ASSUME NEW q \in Procs, Load(q) PROVE FALSE
  <2>1. Quits(q) \/ (\E j : Go(q, "build", j)) \/ (\E j : Go(q, "dump", j))
    BY <1>12 DEF Load
  <2> QED
    BY <1>1, <1>2, <2>1
<1>13. ASSUME NEW q \in Procs, WriteDelta(q) PROVE FALSE
  BY <1>1, <1>13 DEF WriteDelta
<1>14. ASSUME NEW q \in Procs, NEW fails \in BOOLEAN, Delete(q, fails) PROVE FALSE
  <2>1. PICK j : Go(q, "delete", j) /\ pc[q] = "delete"
    BY <1>14 DEF Delete
  <2> QED
    BY <1>1, <2>1
<1>15. ASSUME NEW q \in Procs, Dump(q), q # p PROVE FALSE
  <2>1. Quits(q) \/ \E j : Go(q, "delete", j)
    BY <1>15 DEF Dump
  <2>2. pc'[p] = pc[p]
    BY <1>15, <2>1, GoFacts DEF Quits
  <2> QED
    BY <2>2
<1> QED
  BY <1>4, <1>5, <1>6, <1>7, <1>8, <1>9, <1>10, <1>11, <1>12, <1>13, <1>14, <1>15 DEF Next

LEMMA Reconciles ==
  ASSUME Ind, [Next]_vars, NEW p \in Procs, pc[p] = "dump", pc'[p] = "delete", ~raced', job[p].v = md.v
  PROVE  LET j == job[p]
             Made(s) == file'[s] # None /\ file'[s].v = j.v
             N == Cardinality(md.live) IN
         /\ \A s \in Slots : s[1] = j.fam =>
              /\ s[2] <= N => Made(s) /\ manifest'.row[s] # None
              /\ manifest'.row[s] # None => Made(s) \/ manifest'.row[s].gen # "chain_tour"
         /\ md.live = {file'[s].scene : s \in {t \in Slots : t[1] = j.fam /\ Made(t)}}
<1> USE NoneFacts
<1> DEFINE j == job[p]
           N == Cardinality(md.live)
<1>1. Dump(p) /\ j \in Jobs /\ Equipped(p) /\ md.live \in SUBSET Scenes
  BY OnlyDump DEF Ind, CorpusTypes, ToolInv
<1>2. j.op = "chain" /\ j.loaded \in Manifests
  <2>1. j.op = "chain" \/ Quits(p)
    BY <1>1 DEF Dump
  <2>2. Quits(p) => pc'[p] = "idle"
    BY GoFacts DEF Ind, Quits
  <2> QED
    BY <1>1, <2>1, <2>2 DEF Equipped
<1>3. /\ file' = file /\ manifest' = Changed(j) /\ ~raced
      /\ \A s \in Slots : Upserted(j, s) => file[s] # None
  BY <1>1 DEF Dump
<1>4. j.plan = Planned(md, j.fam) /\ j.tours = {} /\ j.fam \in Families
  BY <1>2 DEF Ind, GenInv, Sound, Generating
\* Every planned number has its tour.
<1>5. \A s \in j.plan : Current(md, file, s)
  BY <1>2, <1>3, <1>4 DEF Ind, MadeInv, MadeBy
<1>6. \A s \in Slots : manifest'.row[s] = IF Upserted(j, s) THEN Row(j)
                                          ELSE IF s \in Reconciled(j) THEN None ELSE j.loaded.row[s]
  BY <1>1, <1>2, <1>3, ChangedTyped DEF Ind, Tools
<1>7. \A s \in Slots : Upserted(j, s) <=> s \in j.plan
  BY <1>2 DEF Upserted
<1>8. Row(j) # None
  BY <1>1, <1>2, ChangedTyped DEF Ind, Tools
<1>9. ASSUME NEW s \in Slots, file[s] # None, file[s].v = md.v
      PROVE  file[s].scene \in md.live /\ Rank(md.live, file[s].scene) = s[2]
  BY <1>9 DEF Ind, BodyInv, Numbered
<1> HIDE DEF j
<1>10. ASSUME NEW s \in Slots, s[1] = j.fam, s[2] <= N PROVE s \in j.plan
  <2>1. s[2] \in Scenes /\ s = <<s[1], s[2]>>
    BY DEF Slots
  <2>2. s[2] \in 1 .. N
    BY <1>1, <1>10, <2>1, ScenesFacts, RankFacts
  <2>3. PICK c \in md.live : Rank(md.live, c) = s[2]
    BY <1>1, <2>2, RankFacts
  <2> QED
    BY <1>4, <1>10, <2>1, <2>3 DEF Planned
<1>11. ASSUME NEW s \in Slots, s[1] = j.fam, manifest'.row[s] # None, s \notin j.plan
       PROVE  manifest'.row[s].gen # "chain_tour"
  <2>1. manifest'.row[s] = j.loaded.row[s] /\ s \notin Reconciled(j)
    BY <1>6, <1>7, <1>11
  <2> QED
    BY <1>11, <2>1 DEF Reconciled
<1>12. ASSUME NEW c \in md.live
       PROVE  \E s \in Slots : s[1] = j.fam /\ file[s] # None /\ file[s].v = md.v /\ file[s].scene = c
  <2> DEFINE s == <<j.fam, Rank(md.live, c)>>
  <2>1. s \in j.plan
    BY <1>4 DEF Planned
  <2>2. s \in Slots /\ s[1] = j.fam /\ s[2] = Rank(md.live, c)
    BY <1>1, <2>1, JobFields DEF j
  <2> HIDE DEF s
  <2>3. file[s] # None /\ file[s].v = md.v
    BY <1>5, <2>1 DEF Current
  <2>4. file[s].scene = c
    BY <1>1, <1>9, <2>2, <2>3, RankFacts
  <2> QED
    BY <2>2, <2>3, <2>4
<1>13. j.v = md.v
  BY DEF j
<1> DEFINE Mine == {t \in Slots : t[1] = j.fam /\ file[t] # None /\ file[t].v = md.v}
<1>14. md.live = {file[s].scene : s \in Mine}
  <2>1. \A s \in Mine : file[s].scene \in md.live
    BY <1>9
  <2>2. \A c \in md.live : \E s \in Mine : file[s].scene = c
    BY <1>12
  <2> HIDE DEF Mine
  <2> QED
    BY <2>1, <2>2
<1>15. ASSUME NEW s \in Slots, s[1] = j.fam
       PROVE  /\ s[2] <= N => file[s] # None /\ file[s].v = md.v /\ manifest'.row[s] # None
              /\ manifest'.row[s] # None =>
                   (file[s] # None /\ file[s].v = md.v) \/ manifest'.row[s].gen # "chain_tour"
  <2>1. s \in j.plan => file[s] # None /\ file[s].v = md.v /\ manifest'.row[s] # None
    BY <1>5, <1>6, <1>7, <1>8 DEF Current
  <2> QED
    BY <1>10, <1>11, <1>15, <2>1
<1> QED
  BY <1>3, <1>13, <1>14, <1>15 DEF j

(* The moment the manifest of a generator is in place, its family is as    *)
(* the document says, unless the document was edited meanwhile or an       *)
(* excepted overlap happened: every live scenario has its tour at its      *)
(* number, and no other tour of the generator keeps a row (write_tours,    *)
(* run).                                                                   *)
THEOREM FamilyAsWritten == Spec => RegenerationReconciles
<1>1. Ind /\ [Next]_vars =>
        [\A p \in Procs : (pc[p] = "dump" /\ pc'[p] = "delete" /\ ~raced'
                        /\ job[p].v = md.v) =>
       LET j == job[p]
           Made(s) == file'[s] # None /\ file'[s].v = j.v
           N == Cardinality(md.live) IN
       /\ \A s \in Slots : s[1] = j.fam =>
            /\ s[2] <= N => Made(s) /\ manifest'.row[s] # None
            /\ manifest'.row[s] # None => Made(s) \/ manifest'.row[s].gen # "chain_tour"
       /\ md.live = {file'[s].scene : s \in {t \in Slots : t[1] = j.fam /\ Made(t)}}]_vars
  BY Reconciles
<1> QED
  BY <1>1, Invariant, PTL DEF Spec, RegenerationReconciles
=============================================================================
