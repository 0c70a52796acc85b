-------------------------- MODULE QueryHeal_proof --------------------------
(***************************************************************************)
(* Proofs about QueryHeal, for any processes and bounds: the heal lock and *)
(* who may heal; the types; the churn marker and what a waiter is told;    *)
(* the head in the stamp; the snapshot a heal lends.                       *)
(***************************************************************************)
EXTENDS QueryHeal, TLAPS

Locks == [by : Healers, old : BOOLEAN, orphan : BOOLEAN]

Histories == [stolen : BOOLEAN, overrun : BOOLEAN, unconverged : BOOLEAN]

LockTypes ==
    /\ pc \in [Procs -> PC] /\ history \in Histories
    /\ lockFile \in Locks \cup {None}

\* The lock of a healer is its own, until one is stolen.
Owned == ~history.stolen => \A h \in Healers : Healing(h) => lockFile # None /\ lockFile.by = h

\* The inductive invariant of the heal lock.
HealLockInv == LockTypes /\ LockNotLeaked /\ Owned

\* The lock and what is known of it stay.
LockStays ==
    /\ lockFile' = lockFile
    /\ history' \in Histories /\ history'.stolen = history.stolen

\* A process that neither enters nor leaves the healing steps.
KeepsRole(p) ==
    \E to \in PC : /\ pc' = [pc EXCEPT ![p] = to]
                   /\ p \in Healers => (pc[p] \in HealPC <=> to \in HealPC)

LEMMA RolesFacts ==
    /\ Healers \subseteq Procs /\ Builders \subseteq Procs
    /\ Queries \subseteq Healers /\ Refreshers \subseteq Healers
    /\ Builders \cap Healers = {}
    /\ HealPC \subseteq PC
    /\ None \notin Locks
BY HealRolesAssumption DEF Healers, Procs, PC, Locks

LEMMA InitLock == Init => HealLockInv
<1> SUFFICES ASSUME Init PROVE HealLockInv
  OBVIOUS
<1>1. LockTypes
  BY DEF Init, LockTypes, PC, HealPC, Histories
<1>2. \A h \in Healers : ~Healing(h)
  BY RolesFacts DEF Init, Healing, HealPC
<1> QED
  BY <1>1, <1>2 DEF Init, HealLockInv, LockNotLeaked, Owned

\* A step that leaves the lock alone and keeps everyone's role keeps the
\* invariant.
LEMMA KeepingStep ==
    ASSUME HealLockInv, LockStays, NEW p \in Procs, KeepsRole(p)
    PROVE  HealLockInv'
<1>1. PICK to \in PC : /\ pc' = [pc EXCEPT ![p] = to]
                       /\ p \in Healers => (pc[p] \in HealPC <=> to \in HealPC)
  BY DEF KeepsRole
<1>2. LockTypes'
  BY <1>1, RolesFacts DEF HealLockInv, LockTypes, LockStays
<1>3. \A h \in Healers : Healing(h)' <=> Healing(h)
  BY <1>1, RolesFacts DEF Healing, HealLockInv, LockTypes
<1>4. LockNotLeaked'
  BY <1>3, RolesFacts DEF LockNotLeaked, LockStays, HealLockInv, LockTypes, Locks
<1>5. Owned'
  BY <1>3, RolesFacts DEF Owned, LockStays, HealLockInv
<1> QED
  BY <1>2, <1>4, <1>5 DEF HealLockInv

\* Nobody moves.
LEMMA WorldStep ==
    ASSUME HealLockInv, pc' = pc, LockStays
    PROVE  HealLockInv'
<1>1. \A h \in Healers : Healing(h)' <=> Healing(h)
  BY DEF Healing
<1> QED
  BY <1>1, RolesFacts DEF HealLockInv, LockTypes, LockNotLeaked, Owned, LockStays, Locks

\* The check, the wait and the refresh around them are outside the lock.
LEMMA OutsideSteps ==
    ASSUME HealLockInv, NEW p \in Healers,
           \/ Check(p) \/ Churn(p) \/ CreateFails(p) \/ LockExists(p) \/ LockAge(p)
           \/ WaitStep(p) \/ RefreshStep(p)
    PROVE  KeepsRole(p) /\ LockStays
<1> USE DEF KeepsRole, LockStays, Goto, Deliver, PC, HealPC, HealLockInv, LockTypes, Histories
<1>1. CASE Check(p)        BY <1>1 DEF Check
<1>2. CASE Churn(p)        BY <1>2 DEF Churn
<1>3. CASE CreateFails(p)  BY <1>3 DEF CreateFails
<1>4. CASE LockExists(p)   BY <1>4 DEF LockExists
<1>5. CASE LockAge(p)      BY <1>5 DEF LockAge, WaitForPeer
<1>6. CASE WaitStep(p)
  BY <1>6 DEF WaitStep, PeerGone, WaitTimeout, PeerEvaluate, PeerChurn
<1>7. CASE RefreshStep(p)
  BY <1>7 DEF RefreshStep, RefreshSnapshot, SyncHead, SyncFails, EndSync
<1> QED
  BY <1>1, <1>2, <1>3, <1>4, <1>5, <1>6, <1>7

\* A build keeps a healer under its lock, and an explicit one out of it.
LEMMA BuildSteps ==
    ASSUME HealLockInv, NEW p \in Procs, BuildStep(p)
    PROVE  KeepsRole(p) /\ LockStays
<1> USE RolesFacts DEF KeepsRole, LockStays, Goto, Returns, PC, HealPC, HealLockInv, LockTypes, Histories
<1>1. CASE BeginBuild(p)    BY <1>1 DEF BeginBuild
<1>2. CASE Publish(p)       BY <1>2 DEF Publish
<1>3. CASE PublishEmpty(p)  BY <1>3 DEF PublishEmpty
<1>4. CASE BuildFails(p)    BY <1>4 DEF BuildFails
<1>5. CASE BuildGraph(p)    BY <1>5 DEF BuildGraph
<1>6. CASE GraphFails(p)    BY <1>6 DEF GraphFails
<1>7. CASE Unmark(p)        BY <1>7 DEF Unmark
<1> QED
  BY <1>1, <1>2, <1>3, <1>4, <1>5, <1>6, <1>7 DEF BuildStep

\* The verdict is reached under the lock.
LEMMA VerdictSteps ==
    ASSUME HealLockInv, NEW p \in Healers,
           \/ ArmFailed(p) \/ AfterRebuildErr(p) \/ Built(p) \/ Recheck(p)
           \/ DocSetDelta(p) \/ Arm(p) \/ Disarm(p)
    PROVE  KeepsRole(p) /\ LockStays
<1> USE DEF KeepsRole, LockStays, Goto, Decide, PC, HealPC, HealLockInv, LockTypes, Histories
<1>1. CASE ArmFailed(p)        BY <1>1 DEF ArmFailed
<1>2. CASE AfterRebuildErr(p)  BY <1>2 DEF AfterRebuildErr
<1>3. CASE Built(p)            BY <1>3 DEF Built
<1>4. CASE Recheck(p)          BY <1>4 DEF Recheck
<1>5. CASE DocSetDelta(p)      BY <1>5 DEF DocSetDelta
<1>6. CASE Arm(p)              BY <1>6 DEF Arm
<1>7. CASE Disarm(p)           BY <1>7 DEF Disarm
<1> QED
  BY <1>1, <1>2, <1>3, <1>4, <1>5, <1>6, <1>7

\* create_new succeeds only where there is no lock, so nobody owns one.
LEMMA CreateLockStep ==
    ASSUME HealLockInv, NEW p \in Healers, CreateLock(p)
    PROVE  HealLockInv'
<1> USE RolesFacts
<1>1. pc' = [pc EXCEPT ![p] = "build"] /\ lockFile = None
      /\ lockFile' = [by |-> p, old |-> FALSE, orphan |-> FALSE] /\ history' = history
  BY DEF CreateLock, Goto
<1>2. LockTypes'
  BY <1>1 DEF HealLockInv, LockTypes, Locks, PC, HealPC
<1>3. Healing(p)'
  BY <1>1 DEF Healing, HealPC, HealLockInv, LockTypes
<1>4. LockNotLeaked'
  BY <1>1, <1>3 DEF LockNotLeaked
<1>5. Owned'
  <2> SUFFICES ASSUME ~history'.stolen, NEW h \in Healers, Healing(h)'
               PROVE  lockFile' # None /\ lockFile'.by = h
    BY DEF Owned
  <2>1. h = p
    <3> SUFFICES ASSUME h # p PROVE FALSE  OBVIOUS
    <3>1. Healing(h)
      BY <1>1 DEF Healing, HealLockInv, LockTypes
    <3> QED
      BY <1>1, <3>1 DEF HealLockInv, Owned
  <2>2. lockFile' \in Locks
    BY <1>1 DEF Locks
  <2> QED
    BY <1>1, <2>1, <2>2
<1> QED
  BY <1>2, <1>4, <1>5 DEF HealLockInv

\* A steal takes whatever lock is there, and is remembered.
LEMMA StealStep ==
    ASSUME HealLockInv, NEW p \in Healers, Steal(p)
    PROVE  HealLockInv'
<1> USE RolesFacts
<1>1. CASE lockFile = None
  <2>1. KeepsRole(p) /\ LockStays
    BY <1>1 DEF Steal, WaitForPeer, Goto, KeepsRole, LockStays, PC, HealPC,
       HealLockInv, LockTypes
  <2> QED
    BY <2>1, KeepingStep
<1>2. CASE lockFile # None
  <2>1. lockFile' = None /\ history' = [history EXCEPT !.stolen = TRUE] /\ pc' = [pc EXCEPT ![p] = "acquire"]
    BY <1>2 DEF Steal, Goto
  <2> QED
    BY <2>1 DEF HealLockInv, LockTypes, LockNotLeaked, Owned, PC, Histories
<1> QED
  BY <1>1, <1>2

\* Dropping removes the path: the dropper's own lock, or a thief's.
LEMMA DropStep ==
    ASSUME HealLockInv, NEW p \in Healers, Drop(p)
    PROVE  HealLockInv'
<1> USE RolesFacts
<1>1. /\ lockFile' = None /\ history' = history /\ pc[p] = "release"
      /\ pc' = [pc EXCEPT ![p] = "idle"] \/ pc' = [pc EXCEPT ![p] = "sync"]
  BY DEF Drop, Deliver, Goto
<1>2. LockTypes' /\ LockNotLeaked'
  BY <1>1 DEF HealLockInv, LockTypes, LockNotLeaked, PC
<1>3. Owned'
  <2> SUFFICES ASSUME ~history'.stolen, NEW h \in Healers, Healing(h)'  PROVE FALSE
    BY DEF Owned
  <2>1. Healing(p)
    BY <1>1 DEF Healing, HealPC
  <2>2. h # p /\ Healing(h)
    BY <1>1 DEF Healing, HealPC, HealLockInv, LockTypes
  <2> QED
    BY <1>1, <2>1, <2>2 DEF HealLockInv, Owned
<1> QED
  BY <1>2, <1>3 DEF HealLockInv

\* A dead healer's lock stays behind as an orphan.
LEMMA CrashStep ==
    ASSUME HealLockInv, NEW p \in Procs, Crash(p)
    PROVE  HealLockInv'
<1> USE RolesFacts
<1>1. /\ pc' = [pc EXCEPT ![p] = "idle"]
      /\ history' = [history EXCEPT !.unconverged = @ /\ armed]
      /\ lockFile' = IF lockFile # None /\ lockFile.by = p
                     THEN [lockFile EXCEPT !.orphan = TRUE] ELSE lockFile
  BY DEF Crash, Goto
<1>2. LockTypes'
  BY <1>1 DEF HealLockInv, LockTypes, Locks, PC, Histories
<1>3. \A h \in Healers : Healing(h)' <=> Healing(h) /\ h # p
  BY <1>1 DEF Healing, HealPC, HealLockInv, LockTypes
<1>4. lockFile' # None => lockFile # None /\ lockFile'.by = lockFile.by
                          /\ (lockFile'.orphan <=> lockFile.orphan \/ lockFile.by = p)
  BY <1>1 DEF HealLockInv, LockTypes, Locks
<1>5. lockFile # None => lockFile' # None
  BY <1>1, <1>2 DEF HealLockInv, LockTypes, Locks
<1>6. LockNotLeaked'
  BY <1>2, <1>3, <1>4 DEF HealLockInv, LockNotLeaked, LockTypes, Locks
<1>7. Owned'
  BY <1>1, <1>3, <1>4, <1>5 DEF HealLockInv, Owned, LockTypes, Histories
<1> QED
  BY <1>2, <1>6, <1>7 DEF HealLockInv

\* Age only marks the lock.
LEMMA AgeStep ==
    ASSUME HealLockInv, Age
    PROVE  HealLockInv'
<1> USE RolesFacts
<1>1. /\ pc' = pc /\ history' = [history EXCEPT !.overrun = @ \/ ~lockFile.orphan]
      /\ lockFile # None
      /\ lockFile' = [lockFile EXCEPT !.old = TRUE]
  BY DEF Age
<1>2. lockFile' \in Locks /\ lockFile'.by = lockFile.by /\ lockFile'.orphan = lockFile.orphan
  BY <1>1 DEF HealLockInv, LockTypes, Locks
<1>3. \A h \in Healers : Healing(h)' <=> Healing(h)
  BY <1>1 DEF Healing
<1>4. LockTypes'
  <2>1. history' \in Histories
    BY <1>1 DEF HealLockInv, LockTypes, Histories
  <2> QED
    BY <1>1, <1>2, <2>1 DEF HealLockInv, LockTypes
<1>6. LockNotLeaked'
  BY <1>2, <1>3, <1>1 DEF HealLockInv, LockTypes, LockNotLeaked, Locks
<1>5. Owned'
  BY <1>1, <1>2, <1>3 DEF HealLockInv, Owned, LockTypes, Histories
<1> QED
  BY <1>4, <1>5, <1>6 DEF HealLockInv

\* Edits, commits, expiries and aging; and deaths.
LEMMA WorldSteps ==
    ASSUME HealLockInv, World
    PROVE  HealLockInv'
<1>1. CASE Edit
  BY <1>1, WorldStep DEF Edit, LockStays, HealLockInv, LockTypes
<1>2. CASE Commit
  BY <1>2, WorldStep DEF Commit, LockStays, HealLockInv, LockTypes
<1>3. CASE Expire
  <2>1. pc' = pc /\ LockStays
    BY <1>3 DEF Expire, LockStays, HealLockInv, LockTypes, Histories
  <2> QED
    BY <2>1, WorldStep
<1> QED
  BY <1>1, <1>2, <1>3, AgeStep, CrashStep DEF World

\* An operation starts outside the lock; an explicit build needs none.
LEMMA BeginSteps ==
    ASSUME HealLockInv, NEW p \in Procs, Begin(p)
    PROVE  HealLockInv'
<1> USE RolesFacts
<1>1. KeepsRole(p) /\ LockStays
  BY DEF Begin, StartQuery, StartRefresh, StartBuild, Start, Goto, KeepsRole, LockStays,
         PC, HealPC, HealLockInv, LockTypes
<1> QED
  BY <1>1, KeepingStep

LEMMA HealerSteps ==
    ASSUME HealLockInv, NEW p \in Healers, HealStep(p)
    PROVE  HealLockInv'
<1> USE RolesFacts
<1>1. CASE \/ Check(p) \/ Churn(p) \/ CreateFails(p) \/ LockExists(p) \/ LockAge(p)
           \/ WaitStep(p)
  BY <1>1, OutsideSteps, KeepingStep
<1>2. CASE BuildStep(p)
  BY <1>2, BuildSteps, KeepingStep
<1>3. CASE \/ ArmFailed(p) \/ AfterRebuildErr(p) \/ Built(p) \/ Recheck(p)
           \/ DocSetDelta(p) \/ Arm(p) \/ Disarm(p)
  BY <1>3, VerdictSteps, KeepingStep
<1> QED
  BY <1>1, <1>2, <1>3, CreateLockStep, StealStep, DropStep
     DEF HealStep, LockStep, VerdictStep

LEMMA AdvanceSteps ==
    ASSUME HealLockInv, NEW p \in Procs, Advance(p)
    PROVE  HealLockInv'
<1> USE RolesFacts
<1>1. CASE p \in Healers /\ HealStep(p)
  BY <1>1, HealerSteps
<1>2. CASE p \in Refreshers /\ RefreshStep(p)
  BY <1>2, OutsideSteps, KeepingStep
<1>3. CASE p \in Builders /\ BuildStep(p)
  BY <1>3, BuildSteps, KeepingStep
<1> QED
  BY <1>1, <1>2, <1>3 DEF Advance

\* The heal lock's invariant holds in every reachable state.
THEOREM LockInvariant == Spec => []HealLockInv
<1>1. Init => HealLockInv
  BY InitLock
<1>2. HealLockInv /\ [Next]_vars => HealLockInv'
  <2> SUFFICES ASSUME HealLockInv, [Next]_vars PROVE HealLockInv'
    OBVIOUS
  <2>1. CASE World
    BY <2>1, WorldSteps
  <2>2. CASE \E p \in Procs : Begin(p) \/ Advance(p)
    BY <2>2, BeginSteps, AdvanceSteps
  <2>3. CASE UNCHANGED vars
    BY <2>3, WorldStep DEF vars, LockStays, HealLockInv, LockTypes
  <2> QED
    BY <2>1, <2>2, <2>3 DEF Next
<1> QED
  BY <1>1, <1>2, PTL DEF Spec

\* One healer at a time (build.rs, HealLock) as long as no lock was removed as
\* abandoned: two healers would both own the one lock file.
THEOREM SingleHealer == Spec => []OneHealerUnlessStolen
<1>1. HealLockInv => OneHealerUnlessStolen
  BY DEF HealLockInv, Owned, OneHealerUnlessStolen, OneHealer
<1> QED
  BY <1>1, LockInvariant, PTL

\* The lock file never outlives the healing of its creator, death excepted.
THEOREM NoLeak == Spec => []LockNotLeaked
<1>1. HealLockInv => LockNotLeaked
  BY DEF HealLockInv
<1> QED
  BY <1>1, LockInvariant, PTL

---------------------------------------------------------------------------
(* What the variables hold.                                                *)

Jobs == [peer : BOOLEAN, snap : Snapshots \cup {None}, cap : Nat, delta : BOOLEAN,
         kind : Kinds, lent : Snapshots \cup {None}, drift : BOOLEAN, head : Nat]
Answers == [kind : Kinds, lent : Snapshots \cup {None}, slot : Slots \cup {None},
            armed : BOOLEAN, before : Nat, after : Nat, failed : BOOLEAN]

\* The writer lock guards the build between its publication and its end, so the
\* index it builds the graph for is there.
GraphHasSlot ==
    \A p \in Procs : /\ pc[p] \in {"graph", "unmark"} => writer = p
                     /\ pc[p] = "graph" => slot # None

HealTypeInv == HealTypeOK /\ GraphHasSlot

OwnTypes == pc \in [Procs -> PC] /\ job \in [Procs -> Jobs] /\ answer \in [Healers -> Answers]

\* Only p moves.
Alone(p) ==
    /\ \A q \in Procs : q # p => pc'[q] = pc[q] /\ job'[q] = job[q]
    /\ \A h \in Healers : h # p => answer'[h] = answer[h]

LEMMA TypeFacts == HealTypeOK => OwnTypes
BY DEF HealTypeOK, OwnTypes, Jobs, Answers

LEMMA NoneFacts == None \notin Slots /\ None \notin Procs
BY HealRolesAssumption DEF Slots, Procs, Healers

LEMMA NoJobFacts == NoJob \in Jobs /\ NoAnswer \in Answers
BY DEF NoJob, NoAnswer, Jobs, Answers, Kinds

\* A snapshot of an index that is there is one.
LEMMA EvaluateFacts ==
    ASSUME HealTypeOK, slot # None
    PROVE  Evaluate \in Snapshots /\ Evaluate.slot = slot /\ Evaluate.drift = (slot.head # head)
BY DEF HealTypeOK, Evaluate, Snapshots, Stale, HeadDrift

\* Moving one process on.
LEMMA MoveTypes ==
    ASSUME OwnTypes, NEW p \in Procs, NEW to \in PC, Goto(p, to),
           NEW j \in Jobs, Set(p, j), answer' = answer
    PROVE  OwnTypes' /\ Alone(p) /\ pc'[p] = to /\ job'[p] = j
BY DEF OwnTypes, Goto, Set, Alone

LEMMA GotoTypes ==
    ASSUME OwnTypes, NEW p \in Procs, NEW to \in PC, Goto(p, to),
           job' = job, answer' = answer
    PROVE  OwnTypes' /\ Alone(p) /\ pc'[p] = to /\ job'[p] = job[p]
BY DEF OwnTypes, Goto, Alone

Delivered(h, kind, lent) ==
    /\ answer'[h] = [kind |-> kind, lent |-> lent, slot |-> slot, armed |-> armed,
                     before |-> job[h].head,
                     after |-> IF slot = None THEN job[h].head ELSE slot.head, failed |-> FALSE]
    /\ IF Syncs(h, kind) THEN pc'[h] = "sync" /\ job'[h] = job[h]
                         ELSE pc'[h] = "idle" /\ job'[h] = NoJob

LEMMA DeliverTypes ==
    ASSUME HealTypeOK, NEW h \in Healers, NEW kind \in Kinds,
           NEW lent \in Snapshots \cup {None}, Deliver(h, kind, lent)
    PROVE  OwnTypes' /\ Alone(h) /\ Delivered(h, kind, lent)
<1> DEFINE a == [kind |-> kind, lent |-> lent, slot |-> slot, armed |-> armed,
                 before |-> job[h].head,
                 after |-> IF slot = None THEN job[h].head ELSE slot.head, failed |-> FALSE]
<1>1. OwnTypes /\ h \in Procs /\ slot \in Slots \cup {None} /\ armed \in BOOLEAN
  BY TypeFacts, RolesFacts DEF HealTypeOK
<1>2. a \in Answers
  <2>1. job[h].head \in Nat
    BY <1>1 DEF OwnTypes, Jobs
  <2>2. slot # None => slot.head \in Nat
    BY <1>1 DEF Slots
  <2> QED
    BY <1>1, <2>1, <2>2 DEF Answers
<1> HIDE DEF a
<1>3. answer' = [answer EXCEPT ![h] = a]
  BY DEF Deliver, a
<1>4. answer' \in [Healers -> Answers] /\ answer'[h] = a
      /\ \A g \in Healers : g # h => answer'[g] = answer[g]
  BY <1>1, <1>2, <1>3 DEF OwnTypes
<1>5. IF Syncs(h, kind) THEN Goto(h, "sync") /\ job' = job
                        ELSE Goto(h, "idle") /\ Set(h, NoJob)
  BY DEF Deliver
<1>6. /\ pc' \in [Procs -> PC] /\ job' \in [Procs -> Jobs]
      /\ \A q \in Procs : q # h => pc'[q] = pc[q] /\ job'[q] = job[q]
      /\ IF Syncs(h, kind) THEN pc'[h] = "sync" /\ job'[h] = job[h]
                           ELSE pc'[h] = "idle" /\ job'[h] = NoJob
  <2>1. CASE Syncs(h, kind)
    BY <1>1, <1>5, <2>1 DEF OwnTypes, Goto, PC
  <2>2. CASE ~Syncs(h, kind)
    BY <1>1, <1>5, <2>2, NoJobFacts DEF OwnTypes, Goto, Set, PC
  <2> QED
    BY <2>1, <2>2
<1> QED
  BY <1>4, <1>6 DEF OwnTypes, Alone, Delivered, a

---------------------------------------------------------------------------
(* Every step keeps the types of the processes' own state.                 *)

OwnStep(p) == OwnTypes' /\ Alone(p)

LEMMA RefreshOwn ==
    ASSUME HealTypeOK, NEW p \in Refreshers, RefreshStep(p)
    PROVE  OwnStep(p)
<1> USE RolesFacts, TypeFacts
<1>1. CASE RefreshSnapshot(p)
  <2>1. CASE slot = None
    <3>1. Deliver(p, "error", None)
      BY <1>1, <2>1 DEF RefreshSnapshot
    <3> QED
      BY <3>1, DeliverTypes DEF Kinds, OwnStep
  <2>2. CASE slot # None
    <3>1. [job[p] EXCEPT !.drift = HeadDrift] \in Jobs
      BY DEF OwnTypes, Jobs, HeadDrift
    <3>2. Set(p, [job[p] EXCEPT !.drift = HeadDrift]) /\ Goto(p, "check") /\ answer' = answer
      BY <1>1, <2>2 DEF RefreshSnapshot
    <3> QED
      BY <3>1, <3>2, MoveTypes DEF PC, OwnStep
  <2> QED
    BY <2>1, <2>2
<1>2. CASE SyncHead(p) \/ SyncFails(p)
  <2>1. PICK failed \in BOOLEAN : EndSync(p, failed)
    BY <1>2 DEF SyncHead, SyncFails
  <2> DEFINE a == [answer[p] EXCEPT !.after = IF failed THEN @ ELSE head, !.failed = failed]
  <2>2. a \in Answers
    <3>1. answer[p] \in Answers /\ head \in Nat
      BY DEF HealTypeOK, OwnTypes
    <3>2. (IF failed THEN answer[p].after ELSE head) \in Nat
      BY <3>1 DEF Answers
    <3> QED
      BY <3>1, <3>2 DEF Answers
  <2> HIDE DEF a
  <2>3. answer' = [answer EXCEPT ![p] = a]
    BY <2>1 DEF EndSync, a, HealTypeOK, OwnTypes, Answers
  <2>4. pc' = [pc EXCEPT ![p] = "idle"] /\ job' = [job EXCEPT ![p] = NoJob]
    BY <2>1 DEF EndSync, Goto, Set
  <2> QED
    BY <2>2, <2>3, <2>4, NoJobFacts DEF OwnStep, OwnTypes, Alone, PC
<1> QED
  BY <1>1, <1>2 DEF RefreshStep

LEMMA CheckOwn ==
    ASSUME HealTypeOK, NEW p \in Healers, Check(p) \/ PeerEvaluate(p)
    PROVE  OwnStep(p)
<1> USE RolesFacts, TypeFacts
<1>1. CASE slot = None
  <2>1. Deliver(p, "fresh", None) \/ Deliver(p, "error", None)
    BY <1>1 DEF Check, PeerEvaluate
  <2> QED
    BY <2>1, DeliverTypes DEF Kinds, OwnStep
<1>2. CASE slot # None
  <2>1. [job[p] EXCEPT !.snap = Evaluate] \in Jobs
    BY <1>2, EvaluateFacts DEF OwnTypes, Jobs
  <2>2. /\ Set(p, [job[p] EXCEPT !.snap = Evaluate]) /\ answer' = answer
        /\ Goto(p, "churn") \/ Goto(p, "peer-churn")
    BY <1>2 DEF Check, PeerEvaluate
  <2> QED
    BY <2>1, <2>2, MoveTypes DEF PC, OwnStep
<1> QED
  BY <1>1, <1>2

LEMMA ChurnOwn ==
    ASSUME HealTypeOK, NEW p \in Healers, Churn(p) \/ PeerChurn(p)
    PROVE  OwnStep(p)
<1> USE RolesFacts, TypeFacts
<1>1. job[p].snap \in Snapshots \cup {None}
  BY DEF OwnTypes, Jobs
<1>2. \/ \E kind \in Kinds, lent \in Snapshots \cup {None} : Deliver(p, kind, lent)
      \/ Goto(p, "acquire") /\ UNCHANGED <<job, answer>>
  BY <1>1 DEF Churn, PeerChurn, Kinds
<1> QED
  BY <1>2, DeliverTypes, GotoTypes DEF PC, OwnStep

LEMMA LockOwn ==
    ASSUME HealTypeOK, NEW p \in Healers, LockStep(p) \/ PeerGone(p) \/ WaitTimeout(p)
    PROVE  OwnStep(p)
<1> USE RolesFacts, TypeFacts
<1>1. job[p] \in Jobs /\ job[p].snap \in Snapshots \cup {None}
      /\ [job[p] EXCEPT !.peer = TRUE] \in Jobs
  BY DEF OwnTypes, Jobs
<1>2. CASE CreateLock(p) \/ CreateFails(p) \/ PeerGone(p)
  <2>1. \E to \in PC : Goto(p, to) /\ job' = job /\ answer' = answer
    BY <1>2 DEF CreateLock, CreateFails, PeerGone, PC, HealPC
  <2> QED
    BY <2>1, GotoTypes DEF OwnStep
<1>3. CASE LockExists(p) \/ WaitTimeout(p)
  <2>1. \/ \E lent \in Snapshots \cup {None} : Deliver(p, "stale", lent)
        \/ Goto(p, "age") /\ job' = job /\ answer' = answer
    BY <1>1, <1>3 DEF LockExists, WaitTimeout
  <2> QED
    BY <2>1, DeliverTypes, GotoTypes DEF OwnStep, Kinds, PC
<1>4. CASE LockAge(p) \/ Steal(p)
  <2>1. /\ answer' = answer
        /\ \/ Goto(p, "poll") /\ Set(p, [job[p] EXCEPT !.peer = TRUE])
           \/ (Goto(p, "steal") \/ Goto(p, "acquire")) /\ job' = job
    BY <1>4 DEF LockAge, Steal, WaitForPeer
  <2> QED
    BY <1>1, <2>1, MoveTypes, GotoTypes DEF OwnStep, PC
<1> QED
  BY <1>2, <1>3, <1>4 DEF LockStep

LEMMA ReturnsOwn ==
    ASSUME HealTypeOK, NEW p \in Procs, NEW to \in PC, Returns(p, to), answer' = answer
    PROVE  OwnStep(p) /\ pc'[p] \in {"idle", to}
BY TypeFacts, NoJobFacts, MoveTypes, GotoTypes DEF Returns, OwnStep, PC

LEMMA BuildOwn ==
    ASSUME HealTypeOK, NEW p \in Procs, BuildStep(p)
    PROVE  OwnStep(p)
<1> USE RolesFacts, TypeFacts
<1>1. CASE BeginBuild(p)
  <2>1. [job[p] EXCEPT !.cap = src] \in Jobs
    BY DEF HealTypeOK, OwnTypes, Jobs
  <2> QED
    BY <1>1, <2>1, MoveTypes DEF BeginBuild, PC, HealPC, OwnStep
<1>2. CASE Publish(p) \/ BuildGraph(p)
  <2>1. \E to \in PC : Goto(p, to) /\ job' = job /\ answer' = answer
    BY <1>2 DEF Publish, BuildGraph, PC, HealPC
  <2> QED
    BY <2>1, GotoTypes DEF OwnStep
<1>3. CASE PublishEmpty(p) \/ BuildFails(p) \/ GraphFails(p) \/ Unmark(p)
  <2>1. \E to \in PC : Returns(p, to) /\ answer' = answer
    BY <1>3 DEF PublishEmpty, BuildFails, GraphFails, Unmark, PC, HealPC
  <2> QED
    BY <2>1, ReturnsOwn
<1> QED
  BY <1>1, <1>2, <1>3 DEF BuildStep

LEMMA DecideOwn ==
    ASSUME HealTypeOK, NEW p \in Healers, NEW kind \in Kinds, NEW lent \in Snapshots \cup {None},
           Decide(p, kind, lent), answer' = answer
    PROVE  /\ OwnStep(p) /\ pc'[p] = "release"
           /\ job'[p] = [job[p] EXCEPT !.kind = kind, !.lent = lent]
<1>1. [job[p] EXCEPT !.kind = kind, !.lent = lent] \in Jobs
  <2>1. job[p] \in Jobs
    BY TypeFacts, RolesFacts DEF OwnTypes
  <2> QED
    BY <2>1 DEF Jobs
<1> QED
  BY <1>1, RolesFacts, TypeFacts, MoveTypes DEF Decide, PC, HealPC, OwnStep

LEMMA VerdictOwn ==
    ASSUME HealTypeOK, NEW p \in Healers, VerdictStep(p)
    PROVE  OwnStep(p)
<1> USE RolesFacts, TypeFacts
<1>1. /\ job[p] \in Jobs /\ job[p].snap \in Snapshots \cup {None}
      /\ job[p].lent \in Snapshots \cup {None} /\ job[p].kind \in Kinds
  BY DEF OwnTypes, Jobs
<1>2. CASE ArmFailed(p)
  BY <1>2, GotoTypes DEF ArmFailed, OwnStep, PC, HealPC
<1>3. CASE AfterRebuildErr(p) \/ Arm(p)
  <2>1. /\ answer' = answer
        /\ \E kind \in Kinds, lent \in Snapshots \cup {None} : Decide(p, kind, lent)
    BY <1>3, EvaluateFacts DEF AfterRebuildErr, Arm, Kinds
  <2> QED
    BY <2>1, DecideOwn
<1>4. CASE Built(p)
  BY <1>4, DecideOwn, GotoTypes DEF Built, OwnStep, PC, HealPC, Kinds
<1>5. CASE Recheck(p)
  <2>1. CASE slot = None
    BY <1>5, <2>1, DecideOwn DEF Recheck, Kinds
  <2>2. CASE slot # None
    <3>1. [job[p] EXCEPT !.snap = Evaluate] \in Jobs
      BY <1>1, <2>2, EvaluateFacts DEF Jobs
    <3> QED
      BY <1>5, <2>2, <3>1, MoveTypes DEF Recheck, OwnStep, PC, HealPC
  <2> QED
    BY <2>1, <2>2
<1>6. CASE DocSetDelta(p)
  <2> DEFINE j == [job[p] EXCEPT !.delta = slot # None /\ ~slot.whole]
  <2>1. j \in Jobs
    BY <1>1 DEF Jobs
  <2> HIDE DEF j
  <2>2. Set(p, j) /\ (Goto(p, "arm") \/ Goto(p, "disarm")) /\ answer' = answer
    BY <1>6 DEF DocSetDelta, j
  <2> QED
    BY <2>1, <2>2, MoveTypes DEF OwnStep, PC, HealPC
<1>7. CASE Disarm(p)
  <2>1. CASE job[p].delta
    BY <1>7, <2>1, GotoTypes DEF Disarm, OwnStep, PC, HealPC
  <2>2. CASE ~job[p].delta
    BY <1>1, <1>7, <2>2, DecideOwn DEF Disarm, Kinds
  <2> QED
    BY <2>1, <2>2
<1>8. CASE Drop(p)
  BY <1>1, <1>8, DeliverTypes DEF Drop, OwnStep
<1> QED
  BY <1>2, <1>3, <1>4, <1>5, <1>6, <1>7, <1>8 DEF VerdictStep

LEMMA BeginOwn ==
    ASSUME HealTypeOK, NEW p \in Procs, Begin(p)
    PROVE  OwnStep(p) /\ pc'[p] \in {"check", "snap", "build"}
<1> USE RolesFacts, TypeFacts, NoJobFacts
<1>1. [NoJob EXCEPT !.head = head] \in Jobs
  BY DEF HealTypeOK, Jobs
<1>2. /\ answer' = answer
      /\ \E to \in {"check", "snap", "build"}, j \in Jobs : Goto(p, to) /\ Set(p, j)
  BY <1>1 DEF Begin, StartQuery, StartRefresh, StartBuild, Start
<1> QED
  BY <1>2, MoveTypes DEF PC, HealPC, OwnStep

LEMMA CrashOwn ==
    ASSUME HealTypeOK, NEW p \in Procs, Crash(p)
    PROVE  /\ OwnStep(p) /\ pc'[p] = "idle" /\ job'[p] = NoJob
           /\ p \in Healers => answer'[p] = NoAnswer
<1> USE RolesFacts, TypeFacts, NoJobFacts
<1>1. /\ Goto(p, "idle") /\ Set(p, NoJob)
      /\ answer' = [h \in Healers |-> IF h = p THEN NoAnswer ELSE answer[h]]
  BY DEF Crash
<1>2. /\ answer' \in [Healers -> Answers]
      /\ \A h \in Healers : answer'[h] = IF h = p THEN NoAnswer ELSE answer[h]
  BY <1>1 DEF OwnTypes
<1> QED
  BY <1>1, <1>2 DEF OwnStep, OwnTypes, Alone, Goto, Set, PC

---------------------------------------------------------------------------
(* What the processes share.                                               *)

SharedTypes ==
    /\ src \in Nat /\ head \in Nat /\ slot \in Slots \cup {None}
    /\ armed \in BOOLEAN /\ writer \in Procs \cup {None}
    /\ budget \in [edits : Nat, crashes : Nat, ages : Nat, expiries : Nat,
                   runs : [Procs -> Nat]]

\* What a build step does to the index and the writer lock.
LEMMA BuildShared ==
    ASSUME HealTypeInv, NEW p \in Procs, BuildStep(p)
    PROVE  SharedTypes' /\ GraphHasSlot'
<1> USE RolesFacts, NoneFacts, TypeFacts DEF HealTypeInv
<1>1. OwnStep(p)
  BY BuildOwn
<1>2. CASE BeginBuild(p) \/ BuildFails(p)
  <2>1. /\ src' = src /\ head' = head /\ slot' = slot /\ armed' = armed /\ writer' = writer
        /\ budget' = budget /\ pc'[p] \in {"produce", "failed", "idle"}
    BY <1>2, ReturnsOwn DEF BeginBuild, BuildFails, plane, Goto, OwnTypes, PC, HealPC
  <2> QED
    BY <1>1, <2>1 DEF OwnStep, Alone, HealTypeOK, SharedTypes, GraphHasSlot
<1>3. CASE Publish(p)
  <2>1. slot' \in Slots
    BY <1>3 DEF Publish, HealTypeOK, Slots
  <2>2. /\ src' = src /\ head' = head /\ armed' = armed /\ writer = None /\ writer' = p
        /\ budget' = budget
    BY <1>3 DEF Publish
  <2> QED
    BY <1>1, <2>1, <2>2 DEF OwnStep, Alone, HealTypeOK, SharedTypes, GraphHasSlot
<1>4. CASE PublishEmpty(p)
  <2>1. /\ src' = src /\ head' = head /\ armed' \in BOOLEAN /\ writer = None /\ writer' = None
        /\ budget' = budget /\ slot' = None /\ pc'[p] \in {"built", "idle"}
    BY <1>4, ReturnsOwn DEF PublishEmpty, PC, HealPC
  <2> QED
    BY <1>1, <2>1 DEF OwnStep, Alone, HealTypeOK, SharedTypes, GraphHasSlot
<1>5. CASE BuildGraph(p)
  <2>1. slot' \in Slots
    BY <1>5 DEF BuildGraph, HealTypeOK, GraphHasSlot, Slots
  <2>2. /\ src' = src /\ head' = head /\ armed' = armed /\ writer' = writer
        /\ budget' = budget /\ pc'[p] = "unmark" /\ pc[p] = "graph"
    BY <1>5 DEF BuildGraph, Goto, OwnTypes
  <2> QED
    BY <1>1, <2>1, <2>2 DEF OwnStep, Alone, HealTypeOK, SharedTypes, GraphHasSlot
<1>6. CASE GraphFails(p) \/ Unmark(p)
  <2>1. /\ src' = src /\ head' = head /\ slot' = slot /\ armed' \in BOOLEAN
        /\ writer' = None /\ budget' = budget
        /\ pc'[p] \in {"failed", "built", "idle"} /\ pc[p] \in {"graph", "unmark"}
    BY <1>6, ReturnsOwn DEF GraphFails, Unmark, plane, PC, HealPC, HealTypeOK
  <2> QED
    BY <1>1, <2>1 DEF OwnStep, Alone, HealTypeOK, SharedTypes, GraphHasSlot
<1> QED
  BY <1>2, <1>3, <1>4, <1>5, <1>6 DEF BuildStep

\* No other step of a process takes the writer lock or takes the index away.
LEMMA OtherShared ==
    ASSUME HealTypeInv, NEW p \in Procs,
           \/ p \in Healers /\ ( \/ Check(p) \/ Churn(p) \/ LockStep(p) \/ WaitStep(p)
                                \/ VerdictStep(p))
           \/ p \in Refreshers /\ RefreshStep(p)
           \/ Begin(p)
    PROVE  SharedTypes' /\ GraphHasSlot' /\ OwnStep(p)
<1> USE RolesFacts, NoneFacts, TypeFacts DEF HealTypeInv
<1>1. OwnStep(p)
  BY CheckOwn, ChurnOwn, LockOwn, VerdictOwn, RefreshOwn, BeginOwn DEF WaitStep
<1>2. src' = src /\ head' = head /\ writer' = writer /\ armed' \in BOOLEAN
  BY DEF HealTypeOK, plane, Check, Churn, LockStep, CreateLock, CreateFails, LockExists, LockAge,
         Steal, WaitStep, PeerGone, WaitTimeout, PeerEvaluate, PeerChurn, VerdictStep, ArmFailed,
         AfterRebuildErr, Built, Recheck, DocSetDelta, Arm, Disarm, Drop, RefreshStep,
         RefreshSnapshot, SyncHead, SyncFails, Begin, StartQuery, StartRefresh, StartBuild
<1>3. slot' = slot \/ (slot' \in Slots /\ slot # None)
  <2>1. CASE SyncHead(p)
    BY <2>1 DEF SyncHead, HealTypeOK, Slots
  <2>2. CASE ~SyncHead(p)
    BY <2>2
       DEF plane, Check, Churn, LockStep, CreateLock, CreateFails, LockExists, LockAge,
           Steal, WaitStep, PeerGone, WaitTimeout, PeerEvaluate, PeerChurn, VerdictStep, ArmFailed,
           AfterRebuildErr, Built, Recheck, DocSetDelta, Arm, Disarm, Drop, RefreshStep,
           RefreshSnapshot, SyncFails, Begin, StartQuery, StartRefresh, StartBuild
  <2> QED
    BY <2>1, <2>2
<1>4. pc'[p] \notin {"graph", "unmark"}
  <2>1. CASE Begin(p)
    BY <2>1, BeginOwn
  <2>2. CASE ~Begin(p)
    BY <2>2
       DEF OwnTypes, Goto, Deliver, Decide, WaitForPeer, EndSync, Check, Churn, LockStep,
           CreateLock, CreateFails, LockExists, LockAge,
           Steal, WaitStep, PeerGone, WaitTimeout, PeerEvaluate, PeerChurn, VerdictStep, ArmFailed,
           AfterRebuildErr, Built, Recheck, DocSetDelta, Arm, Disarm, Drop, RefreshStep,
           RefreshSnapshot, SyncHead, SyncFails
  <2> QED
    BY <2>1, <2>2
<1>5. budget' \in [edits : Nat, crashes : Nat, ages : Nat, expiries : Nat, runs : [Procs -> Nat]]
  <2>1. CASE Begin(p)
    <3>1. budget' = [budget EXCEPT !.runs = [budget.runs EXCEPT ![p] = budget.runs[p] + 1]]
      BY <2>1 DEF Begin, StartQuery, StartRefresh, StartBuild, Start
    <3>2. [budget.runs EXCEPT ![p] = budget.runs[p] + 1] \in [Procs -> Nat]
      BY DEF HealTypeOK
    <3> QED
      BY <3>1, <3>2 DEF HealTypeOK
  <2>2. CASE ~Begin(p)
    BY <2>2
       DEF HealTypeOK, Check, Churn, LockStep, CreateLock, CreateFails, LockExists, LockAge,
           Steal, WaitStep, PeerGone, WaitTimeout, PeerEvaluate, PeerChurn, VerdictStep, ArmFailed,
           AfterRebuildErr, Built, Recheck, DocSetDelta, Arm, Disarm, Drop, RefreshStep,
           RefreshSnapshot, SyncHead, SyncFails
  <2> QED
    BY <2>1, <2>2
<1>6. SharedTypes'
  BY <1>2, <1>3, <1>5 DEF HealTypeOK, SharedTypes
<1> HIDE DEF OwnStep, OwnTypes, HealTypeOK
<1>7. GraphHasSlot'
  BY <1>1, <1>2, <1>3, <1>4 DEF OwnStep, Alone, GraphHasSlot
<1> QED
  BY <1>1, <1>6, <1>7

LEMMA WorldTypes ==
    ASSUME HealTypeInv, World
    PROVE  SharedTypes' /\ GraphHasSlot' /\ OwnTypes'
<1> USE RolesFacts, NoneFacts, TypeFacts DEF HealTypeInv
<1>1. CASE Edit \/ Commit \/ Age \/ Expire
  <2>1. /\ slot' = slot /\ pc' = pc /\ job' = job /\ answer' = answer /\ writer' = writer
        /\ src' \in {src, src + 1} /\ head' \in {head, head + 1} /\ armed' \in {armed, FALSE}
    BY <1>1 DEF Edit, Commit, Age, Expire, plane
  <2>2. budget' \in [edits : Nat, crashes : Nat, ages : Nat, expiries : Nat, runs : [Procs -> Nat]]
    BY <1>1 DEF Edit, Commit, Age, Expire, HealTypeOK
  <2>3. src \in Nat /\ head \in Nat /\ armed \in BOOLEAN /\ writer \in Procs \cup {None}
        /\ slot \in Slots \cup {None}
    BY DEF HealTypeOK
  <2>4. src' \in Nat /\ head' \in Nat /\ armed' \in BOOLEAN
    <3>1. src' \in Nat /\ head' \in Nat
      BY <2>1, <2>3
    <3>2. armed' \in BOOLEAN
      BY <2>1, <2>3, Zenon
    <3> QED
      BY <3>1, <3>2
  <2>5. SharedTypes'
    BY <2>1, <2>2, <2>3, <2>4 DEF SharedTypes
  <2>6. GraphHasSlot' /\ OwnTypes'
    BY <2>1 DEF GraphHasSlot, OwnTypes
  <2> QED
    BY <2>5, <2>6
<1>2. CASE \E p \in Procs : Crash(p)
  <2>1. PICK p \in Procs : Crash(p)
    BY <1>2
  <2>2. OwnStep(p) /\ pc'[p] = "idle"
    BY <2>1, CrashOwn
  <2>3. /\ src' = src /\ head' = head /\ slot' = slot /\ armed' = armed
        /\ writer' = IF writer = p THEN None ELSE writer
        /\ budget' = [budget EXCEPT !.crashes = @ + 1]
    BY <2>1 DEF Crash, plane
  <2>4. SharedTypes'
    BY <2>3 DEF SharedTypes, HealTypeOK
  <2>5. GraphHasSlot'
    BY <2>2, <2>3 DEF OwnStep, Alone, GraphHasSlot
  <2> QED
    BY <2>2, <2>4, <2>5 DEF OwnStep
<1> QED
  BY <1>1, <1>2 DEF World

\* The types of the shared, the own and the lock state are those of HealTypeOK.
LEMMA TypesTogether == SharedTypes /\ OwnTypes /\ LockTypes => HealTypeOK
BY DEF SharedTypes, OwnTypes, LockTypes, HealTypeOK, Jobs, Answers, Locks, Histories

LEMMA InitTypes == Init => HealTypeInv
<1> SUFFICES ASSUME Init PROVE HealTypeInv
  OBVIOUS
<1> USE RolesFacts, NoneFacts, NoJobFacts
<1>1. LockTypes
  BY InitLock DEF HealLockInv
<1>2. OwnTypes
  BY DEF Init, OwnTypes, PC
<1>3. SharedTypes
  <2>1. [of |-> 0, head |-> 0, whole |-> TRUE, graph |-> TRUE] \in Slots
    BY DEF Slots
  <2>2. budget \in [edits : Nat, crashes : Nat, ages : Nat, expiries : Nat, runs : [Procs -> Nat]]
    BY DEF Init
  <2>3. slot \in Slots \cup {None} /\ armed = FALSE /\ writer = None /\ src = 0 /\ head = 0
    BY <2>1 DEF Init
  <2> QED
    BY <2>2, <2>3 DEF SharedTypes
<1>4. GraphHasSlot
  BY DEF Init, GraphHasSlot
<1> QED
  BY <1>1, <1>2, <1>3, <1>4, TypesTogether DEF HealTypeInv

LEMMA NextTypes == HealLockInv' /\ HealTypeInv /\ [Next]_vars => HealTypeInv'
<1> SUFFICES ASSUME HealLockInv', HealTypeInv, [Next]_vars PROVE HealTypeInv'
  OBVIOUS
<1> USE RolesFacts, TypeFacts
<1>1. SharedTypes' /\ GraphHasSlot' /\ OwnTypes'
  <2>1. CASE World
    BY <2>1, WorldTypes
  <2>2. ASSUME NEW p \in Procs, Begin(p) \/ Advance(p) PROVE SharedTypes' /\ GraphHasSlot' /\ OwnTypes'
    <3>1. CASE BuildStep(p)
      BY <3>1, BuildShared, BuildOwn DEF OwnStep, HealTypeInv
    <3>2. CASE ~BuildStep(p)
      BY <2>2, <3>2, OtherShared DEF Advance, HealStep, OwnStep
    <3> QED
      BY <3>1, <3>2
  <2>3. CASE UNCHANGED vars
    BY <2>3 DEF vars, SharedTypes, GraphHasSlot, OwnTypes, HealTypeInv, HealTypeOK
  <2> QED
    BY <2>1, <2>2, <2>3 DEF Next
<1>2. HealTypeOK'
  BY <1>1 DEF SharedTypes, OwnTypes, HealLockInv, LockTypes, HealTypeOK, Jobs, Answers, Locks,
              Histories
<1> QED
  BY <1>1, <1>2 DEF HealTypeInv

\* Every reachable state holds what the code can put in it, and a build that
\* makes its graph has the index it published.
THEOREM HealTypes == Spec => []HealTypeInv
BY InitTypes, NextTypes, LockInvariant, PTL DEF Spec

\* The type invariant the runs check.
THEOREM HealTyped == Spec => []HealTypeOK
<1>1. HealTypeInv => HealTypeOK
  BY DEF HealTypeInv
<1> QED
  BY <1>1, HealTypes, PTL

---------------------------------------------------------------------------
(* The churn marker: why a waiter may believe the healer it waited for.    *)

\* About to put the marker back.
Arming(g) == pc[g] = "arm" \/ (pc[g] = "disarm" /\ job[g].delta)

\* A heal that did not converge has left the marker, or is about to.
MarkerInv == history.unconverged => armed \/ \E g \in Healers : Arming(g)

\* Steps of a process that is not arming, and leave the marker alone.
LEMMA MarkerKept ==
    ASSUME MarkerInv, NEW p \in Procs, Alone(p), ~Arming(p), armed' = armed,
           history'.unconverged => history.unconverged
    PROVE  MarkerInv'
BY RolesFacts DEF MarkerInv, Arming, Alone

LEMMA MarkerBuild ==
    ASSUME HealTypeOK, MarkerInv, NEW p \in Procs, BuildStep(p)
    PROVE  MarkerInv'
<1>1. Alone(p)
  BY BuildOwn DEF OwnStep
<1>2. CASE PublishEmpty(p) \/ Unmark(p)
  <2>1. history'.unconverged = FALSE
    BY <1>2 DEF PublishEmpty, Unmark, HealTypeOK
  <2> QED
    BY <2>1 DEF MarkerInv
<1>3. CASE BeginBuild(p) \/ Publish(p) \/ BuildFails(p) \/ BuildGraph(p) \/ GraphFails(p)
  <2>1. armed' = armed /\ history' = history /\ pc[p] \in {"build", "produce", "graph"}
    BY <1>3 DEF BeginBuild, Publish, BuildFails, BuildGraph, GraphFails
  <2> QED
    BY <1>1, <2>1, MarkerKept DEF Arming
<1> QED
  BY <1>2, <1>3 DEF BuildStep

LEMMA MarkerVerdict ==
    ASSUME HealTypeOK, MarkerInv, NEW p \in Healers, VerdictStep(p)
    PROVE  MarkerInv'
<1> USE RolesFacts, TypeFacts
<1>1. Alone(p)
  BY VerdictOwn DEF OwnStep
<1>2. CASE ArmFailed(p) \/ Arm(p)
  BY <1>2 DEF ArmFailed, Arm, MarkerInv
<1>3. CASE AfterRebuildErr(p) \/ Built(p) \/ Recheck(p) \/ Drop(p)
  <2>1. armed' = armed /\ history' = history /\ pc[p] \in {"half", "built", "recheck", "release"}
    BY <1>3 DEF AfterRebuildErr, Built, Recheck, Drop
  <2> QED
    BY <1>1, <2>1, MarkerKept DEF Arming
<1>4. CASE DocSetDelta(p)
  <2>1. /\ armed' = armed /\ pc[p] = "delta"
        /\ job' = [job EXCEPT ![p] = [job[p] EXCEPT !.delta = slot # None /\ ~slot.whole]]
        /\ pc' = [pc EXCEPT ![p] = IF job[p].snap.stale THEN "arm" ELSE "disarm"]
        /\ history' = [history EXCEPT !.unconverged =
                          @ \/ job[p].snap.stale \/ (slot # None /\ ~slot.whole)]
    BY <1>4 DEF DocSetDelta, Set, Goto
  <2>2. CASE job[p].snap.stale
    BY <2>1, <2>2 DEF MarkerInv, Arming, OwnTypes
  <2>3. CASE ~job[p].snap.stale /\ slot # None /\ ~slot.whole
    <3>1. pc'[p] = "disarm"
      BY <2>1, <2>3 DEF OwnTypes
    <3>2. job'[p].delta
      <4>1. job[p] \in Jobs /\ job'[p] = [job[p] EXCEPT !.delta = slot # None /\ ~slot.whole]
        BY <2>1 DEF OwnTypes
      <4> QED
        BY <4>1, <2>3 DEF Jobs
    <3> QED
      BY <3>1, <3>2 DEF MarkerInv, Arming
  <2>4. CASE ~job[p].snap.stale /\ ~(slot # None /\ ~slot.whole)
    <3>1. history'.unconverged => history.unconverged
      BY <2>1, <2>4 DEF HealTypeOK
    <3> QED
      BY <1>1, <2>1, <3>1, MarkerKept DEF Arming
  <2> QED
    BY <2>2, <2>3, <2>4
<1>5. CASE Disarm(p)
  <2>1. CASE job[p].delta
    BY <1>5, <2>1 DEF Disarm, Goto, OwnTypes, MarkerInv, Arming
  <2>2. CASE ~job[p].delta
    <3>1. history'.unconverged = FALSE
      BY <1>5, <2>2 DEF Disarm, HealTypeOK
    <3> QED
      BY <3>1 DEF MarkerInv
  <2> QED
    BY <2>1, <2>2
<1> QED
  BY <1>2, <1>3, <1>4, <1>5 DEF VerdictStep

LEMMA MarkerOther ==
    ASSUME HealTypeInv, MarkerInv, NEW p \in Procs,
           \/ p \in Healers /\ (Check(p) \/ Churn(p) \/ LockStep(p) \/ WaitStep(p))
           \/ p \in Refreshers /\ RefreshStep(p)
           \/ Begin(p)
    PROVE  MarkerInv'
<1>1. Alone(p)
  BY OtherShared DEF OwnStep
<1>2. pc[p] \notin {"arm", "disarm"} /\ armed' = armed
  BY DEF plane, Check, Churn, LockStep, CreateLock, CreateFails, LockExists, LockAge,
         Steal, WaitStep, PeerGone, WaitTimeout, PeerEvaluate, PeerChurn, RefreshStep,
         RefreshSnapshot, SyncHead, SyncFails, Begin, StartQuery, StartRefresh, StartBuild, Start
<1>3. history'.unconverged = history.unconverged
  BY DEF HealTypeInv, HealTypeOK, Check, Churn, LockStep, CreateLock, CreateFails, LockExists,
         LockAge, Steal, WaitStep, PeerGone, WaitTimeout, PeerEvaluate, PeerChurn, RefreshStep,
         RefreshSnapshot, SyncHead, SyncFails, Begin, StartQuery, StartRefresh, StartBuild
<1> QED
  BY <1>1, <1>2, <1>3, MarkerKept DEF Arming

LEMMA MarkerWorld ==
    ASSUME HealTypeOK, MarkerInv, World
    PROVE  MarkerInv'
<1>1. CASE Edit \/ Commit \/ Age
  <2>1. /\ armed' = armed /\ history'.unconverged = history.unconverged
        /\ pc' = pc /\ job' = job
    BY <1>1 DEF Edit, Commit, Age, HealTypeOK
  <2> QED
    BY <2>1 DEF MarkerInv, Arming
<1>2. CASE Expire \/ \E p \in Procs : Crash(p)
  <2>1. history'.unconverged => armed'
    BY <1>2 DEF Expire, Crash, HealTypeOK
  <2> QED
    BY <2>1 DEF MarkerInv
<1> QED
  BY <1>1, <1>2 DEF World

LEMMA NextMarker == HealTypeInv /\ MarkerInv /\ [Next]_vars => MarkerInv'
<1> SUFFICES ASSUME HealTypeInv, MarkerInv, [Next]_vars PROVE MarkerInv'
  OBVIOUS
<1> USE RolesFacts DEF HealTypeInv
<1>1. ASSUME NEW p \in Procs, Begin(p) \/ Advance(p) PROVE MarkerInv'
  <2>1. CASE BuildStep(p)
    BY <2>1, MarkerBuild
  <2>2. CASE p \in Healers /\ VerdictStep(p)
    BY <2>2, MarkerVerdict
  <2>3. CASE ~BuildStep(p) /\ ~(p \in Healers /\ VerdictStep(p))
    BY <1>1, <2>3, MarkerOther DEF Advance, HealStep
  <2> QED
    BY <2>1, <2>2, <2>3
<1>2. CASE UNCHANGED vars
  BY <1>2 DEF vars, MarkerInv, Arming
<1> QED
  BY <1>1, <1>2, MarkerWorld DEF Next

\* In every behaviour, a heal that did not converge leaves the churn marker on
\* disk, or its healer is at the step that puts it back (ensure_fresh).
THEOREM MarkerStands == Spec => []MarkerInv
<1>1. Init => MarkerInv
  BY DEF Init, MarkerInv
<1> QED
  BY <1>1, NextMarker, HealTypes, PTL DEF Spec

\* wait_peer_and_reevaluate answers PeerHealed only after a heal that converged:
\* an unconverged one has left the marker that stops the waiter, or is under way.
THEOREM PeerBelieved == Spec => PeerFixedIt
<1>1. ASSUME HealTypeInv, MarkerInv, NEW h \in Healers, PeerChurn(h), answer'[h].kind = "peer",
             pc'[h] = "idle"
      PROVE  ~history.unconverged \/ job[h].snap.drift \/ \E g \in Healers : Healing(g)
  <2> USE TypeFacts, RolesFacts DEF HealTypeInv
  <2>1. CASE InCooldown(job[h].snap)
    <3>1. Deliver(h, "stale", None)
      BY <1>1, <2>1 DEF PeerChurn
    <3>2. "stale" \in Kinds
      BY DEF Kinds
    <3>3. Delivered(h, "stale", None)
      BY <1>1, <3>1, <3>2, DeliverTypes
    <3>4. answer'[h].kind = "stale"
      BY <3>3 DEF Delivered
    <3> QED
      BY <1>1, <3>4
  <2>2. CASE ~InCooldown(job[h].snap)
    <3>1. job[h].snap.drift \/ ~armed
      BY <2>2 DEF InCooldown
    <3>2. \A g \in Healers : Arming(g) => Healing(g)
      BY DEF Arming, Healing, HealPC
    <3> QED
      BY <1>1, <3>1, <3>2 DEF MarkerInv
  <2> QED
    BY <2>1, <2>2
<1>2. HealTypeInv /\ MarkerInv =>
        [\A h \in Healers :
            PeerChurn(h) /\ answer'[h].kind = "peer" /\ pc'[h] = "idle" =>
                \/ ~history.unconverged \/ job[h].snap.drift
                \/ \E g \in Healers : Healing(g)]_vars
  BY <1>1
<1> QED
  BY <1>2, HealTypes, MarkerStands, PTL DEF PeerFixedIt

---------------------------------------------------------------------------
(* The head in the stamp: what a refresh leaves behind.                    *)

PastPublish == {"graph", "unmark", "built", "recheck", "delta", "disarm"}

\* Steps of a refresh at which the stamp, if there is one, is known to be of the
\* head it began with or a later one: its own build has published, or its own
\* snapshot saw no drift.
StampAhead(r) ==
    \/ pc[r] \in PastPublish
    \/ pc[r] = "release" /\ job[r].kind = "healed"
    \/ pc[r] \notin {"idle", "snap"} /\ ~job[r].drift

CaughtUp(r) == slot = None \/ slot.head >= job[r].head

Told(r) ==
    pc[r] # "sync" /\ answer[r].kind \in {"fresh", "healed"} /\ ~answer[r].failed =>
        answer[r].after >= answer[r].before

HeadInv ==
    /\ \A h \in Healers : job[h].head <= head /\ answer[h].before <= head
    /\ \A r \in Refreshers : StampAhead(r) => CaughtUp(r)
    /\ \A r \in Refreshers : Told(r)

\* Whoever writes a stamp writes the head of that moment; nobody else changes it.
SlotGrows ==
    \/ slot' = None \/ slot'.head = head'
    \/ slot # None /\ slot' # None /\ slot'.head = slot.head

LEMMA NatFacts ==
    ASSUME HealTypeOK
    PROVE  /\ head \in Nat
           /\ slot # None => slot.head \in Nat
           /\ \A h \in Healers : job[h].head \in Nat /\ answer[h].before \in Nat
                                /\ answer[h].after \in Nat
<1>1. \A h \in Healers : job[h] \in Jobs /\ answer[h] \in Answers
  BY TypeFacts, RolesFacts DEF OwnTypes
<1>2. head \in Nat /\ (slot # None => slot.head \in Nat)
  BY DEF HealTypeOK, Slots
<1> QED
  BY <1>1, <1>2 DEF Jobs, Answers

LEMMA HeadKept ==
    ASSUME HealTypeOK, HealTypeOK', HeadInv, NEW p \in Procs, Alone(p), head' = head, SlotGrows,
           p \in Healers => job'[p].head <= head /\ answer'[p].before <= head,
           p \in Refreshers /\ StampAhead(p)' =>
               CaughtUp(p)' \/ (StampAhead(p) /\ job'[p].head = job[p].head),
           p \in Refreshers => Told(p)'
    PROVE  HeadInv'
<1> USE RolesFacts
<1>1. \A h \in Healers : job'[h].head <= head' /\ answer'[h].before <= head'
  BY DEF HeadInv, Alone
<1>2. ASSUME NEW r \in Refreshers, CaughtUp(r), job'[r].head = job[r].head PROVE CaughtUp(r)'
  <2>1. /\ job[r].head \in Nat /\ job[r].head <= head /\ head \in Nat
        /\ slot # None => slot.head \in Nat
    BY NatFacts DEF HeadInv
  <2> QED
    BY <1>2, <2>1 DEF CaughtUp, SlotGrows
<1>3. ASSUME NEW r \in Refreshers, StampAhead(r)' PROVE CaughtUp(r)'
  <2>1. CASE r = p
    BY <1>2, <1>3, <2>1 DEF HeadInv
  <2>2. CASE r # p
    <3>1. pc'[r] = pc[r] /\ job'[r] = job[r]
      BY <2>2 DEF Alone
    <3>2. StampAhead(r)
      BY <1>3, <3>1 DEF StampAhead
    <3> QED
      BY <1>2, <3>1, <3>2 DEF HeadInv
  <2> QED
    BY <2>1, <2>2
<1>4. ASSUME NEW r \in Refreshers PROVE Told(r)'
  <2>1. CASE r # p
    BY <2>1 DEF Alone, Told, HeadInv
  <2> QED
    BY <2>1
<1> QED
  BY <1>1, <1>3, <1>4 DEF HeadInv

\* A step that answers nothing.
LEMMA HeadAside ==
    ASSUME HealTypeOK, HealTypeOK', HeadInv, NEW p \in Procs, Alone(p), head' = head, SlotGrows,
           answer' = answer, pc[p] # "sync",
           p \in Healers => job'[p].head \in {0, job[p].head, head},
           p \in Refreshers /\ StampAhead(p)' =>
               CaughtUp(p)' \/ (StampAhead(p) /\ job'[p].head = job[p].head)
    PROVE  HeadInv'
<1> USE RolesFacts
<1>1. p \in Healers => job'[p].head <= head /\ answer'[p].before <= head
  BY NatFacts DEF HeadInv
<1>2. p \in Refreshers => Told(p)'
  BY DEF HeadInv, Told
<1> QED
  BY <1>1, <1>2, HeadKept

\* A step that answers.
LEMMA HeadAnswer ==
    ASSUME HealTypeOK, HealTypeOK', HeadInv, NEW h \in Healers, NEW kind \in Kinds,
           NEW lent \in Snapshots \cup {None}, Deliver(h, kind, lent),
           head' = head, slot' = slot,
           h \in Refreshers /\ kind \in {"fresh", "healed"} /\ ~Syncs(h, kind) => CaughtUp(h)
    PROVE  HeadInv'
<1> USE RolesFacts
<1>1. Alone(h) /\ Delivered(h, kind, lent)
  BY DeliverTypes
<1>2. /\ answer'[h].before = job[h].head /\ answer'[h].kind = kind
      /\ answer'[h].after = IF slot = None THEN job[h].head ELSE slot.head
  BY <1>1 DEF Delivered
<1>3. job[h].head \in Nat /\ job[h].head <= head
  BY NatFacts DEF HeadInv
<1>4. job'[h].head <= head
  BY <1>1, <1>3, NatFacts DEF Delivered, NoJob
<1>5. h \in Refreshers => ~StampAhead(h)'
  BY <1>1 DEF Delivered, Syncs, StampAhead, PastPublish
<1>6. h \in Refreshers => Told(h)'
  <2>1. CASE Syncs(h, kind)
    BY <1>1, <2>1 DEF Delivered, Told
  <2>2. CASE ~Syncs(h, kind)
    BY <1>2, <1>3, <2>2, NatFacts DEF Told, CaughtUp
  <2> QED
    BY <2>1, <2>2
<1>7. SlotGrows
  BY DEF SlotGrows
<1> QED
  BY <1>1, <1>2, <1>3, <1>4, <1>5, <1>6, <1>7, HeadKept

LEMMA HeadBuild ==
    ASSUME HealTypeInv, HealTypeOK', HeadInv, NEW p \in Procs, BuildStep(p)
    PROVE  HeadInv'
<1> USE RolesFacts, TypeFacts DEF HealTypeInv
<1>1. Alone(p) /\ OwnTypes'
  BY BuildOwn DEF OwnStep
<1>2. answer' = answer /\ head' = head /\ pc[p] # "sync" /\ pc[p] # "idle" /\ pc[p] # "snap"
  BY DEF BuildStep, BeginBuild, Publish, PublishEmpty, BuildFails, BuildGraph, GraphFails,
         Unmark, plane
<1>3. SlotGrows
  <2>1. CASE Publish(p)
    <3>1. \E whole \in BOOLEAN : slot' = [of |-> src, head |-> head, whole |-> whole, graph |-> FALSE]
      BY <2>1 DEF Publish
    <3> QED
      BY <1>2, <3>1 DEF SlotGrows
  <2>2. CASE BuildGraph(p)
    <3>1. slot \in Slots /\ slot' = [slot EXCEPT !.graph = TRUE]
      BY <2>2 DEF BuildGraph, GraphHasSlot, HealTypeOK
    <3>2. slot' \in Slots /\ slot'.head = slot.head
      BY <3>1 DEF Slots
    <3> QED
      BY <3>1, <3>2, NoneFacts DEF SlotGrows
  <2>3. CASE ~Publish(p) /\ ~BuildGraph(p)
    BY <2>3 DEF BuildStep, BeginBuild, PublishEmpty, BuildFails, GraphFails, Unmark, plane, SlotGrows
  <2> QED
    BY <2>1, <2>2, <2>3
<1>4. ASSUME p \in Healers
      PROVE  job'[p].head = job[p].head /\ job'[p].drift = job[p].drift /\ pc'[p] \in HealPC
  <2>1. p \notin Builders /\ job[p] \in Jobs
    BY <1>4 DEF OwnTypes
  <2> QED
    BY <2>1 DEF BuildStep, BeginBuild, Publish, PublishEmpty, BuildFails, BuildGraph, GraphFails,
         Unmark, Returns, Goto, Set, OwnTypes, HealPC, Jobs
<1>5. ASSUME p \in Refreshers, StampAhead(p)' PROVE CaughtUp(p)' \/ StampAhead(p)
  <2>1. CASE Publish(p)
    <3>1. \E whole \in BOOLEAN : slot' = [of |-> src, head |-> head, whole |-> whole, graph |-> FALSE]
      BY <2>1 DEF Publish
    <3>2. job'[p].head <= head /\ job'[p].head \in Nat
      BY <1>4, <1>5, NatFacts DEF HeadInv
    <3> QED
      BY <3>1, <3>2, NatFacts DEF CaughtUp
  <2>2. CASE PublishEmpty(p)
    BY <2>2 DEF PublishEmpty, CaughtUp
  <2>3. CASE BuildGraph(p) \/ GraphFails(p) \/ Unmark(p)
    BY <2>3 DEF BuildGraph, GraphFails, Unmark, StampAhead, PastPublish
  <2>4. CASE BeginBuild(p) \/ BuildFails(p)
    <3>1. pc'[p] \in {"produce", "failed"}
      BY <1>5, <2>4 DEF BeginBuild, BuildFails, Returns, Goto, OwnTypes
    <3> QED
      BY <1>2, <1>4, <1>5, <3>1 DEF StampAhead, PastPublish
  <2> QED
    BY <2>1, <2>2, <2>3, <2>4 DEF BuildStep
<1>6. p \in Healers => job'[p].head \in {0, job[p].head, head}
  BY <1>4
<1>7. p \in Refreshers /\ StampAhead(p)' =>
          CaughtUp(p)' \/ (StampAhead(p) /\ job'[p].head = job[p].head)
  BY <1>4, <1>5
<1> QED
  BY <1>1, <1>2, <1>3, <1>6, <1>7, HeadAside

\* What the heal around the build does, up to its verdict.
LEMMA HeadVerdict ==
    ASSUME HealTypeInv, HealTypeOK', HeadInv, NEW p \in Healers, VerdictStep(p)
    PROVE  HeadInv'
<1> USE RolesFacts, TypeFacts DEF HealTypeInv
<1>1. Alone(p) /\ OwnTypes' /\ head' = head /\ slot' = slot
  BY VerdictOwn
     DEF OwnStep, plane, VerdictStep, ArmFailed, AfterRebuildErr, Built, Recheck, DocSetDelta, Arm,
         Disarm, Drop
<1>2. job[p] \in Jobs
  BY DEF OwnTypes
<1>3. SlotGrows
  BY <1>1 DEF SlotGrows
<1>4. CASE Drop(p)
  <2>1. /\ Deliver(p, job[p].kind, job[p].lent) /\ job[p].kind \in Kinds
        /\ job[p].lent \in Snapshots \cup {None} /\ pc[p] = "release"
    BY <1>2, <1>4 DEF Drop, Jobs
  <2>2. p \in Refreshers /\ job[p].kind \in {"fresh", "healed"} /\ ~Syncs(p, job[p].kind)
            => CaughtUp(p)
    <3> SUFFICES ASSUME p \in Refreshers, job[p].kind \in {"fresh", "healed"},
                        ~Syncs(p, job[p].kind), slot # None
                 PROVE  StampAhead(p)
      BY DEF HeadInv, CaughtUp
    <3> QED
      BY <2>1 DEF StampAhead, Syncs
  <2> QED
    BY <1>1, <2>1, <2>2, HeadAnswer
<1>5. CASE ~Drop(p)
  <2>1. answer' = answer /\ pc[p] \in HealPC /\ pc'[p] \in HealPC
    BY <1>5 DEF VerdictStep, ArmFailed, AfterRebuildErr, Built, Recheck, DocSetDelta, Arm,
         Disarm, Decide, Goto, HealPC, OwnTypes
  <2>2. job'[p].head = job[p].head /\ job'[p].drift = job[p].drift
    <3>1. \/ job' = job
          \/ \E kind, lent : job' = [job EXCEPT ![p] = [job[p] EXCEPT !.kind = kind, !.lent = lent]]
          \/ job' = [job EXCEPT ![p] = [job[p] EXCEPT !.snap = Evaluate]]
          \/ \E d : job' = [job EXCEPT ![p] = [job[p] EXCEPT !.delta = d]]
      BY <1>5 DEF VerdictStep, ArmFailed, AfterRebuildErr, Built, Recheck, DocSetDelta, Arm,
         Disarm, Decide, Set
    <3>2. \A j : job' = [job EXCEPT ![p] = j] => job'[p] = j
      BY DEF OwnTypes
    <3>3. CASE \E kind, lent : job' = [job EXCEPT ![p] = [job[p] EXCEPT !.kind = kind, !.lent = lent]]
      <4>1. PICK kind, lent : job' = [job EXCEPT ![p] = [job[p] EXCEPT !.kind = kind, !.lent = lent]]
        BY <3>3
      <4>2. job'[p] = [job[p] EXCEPT !.kind = kind, !.lent = lent]
        BY <3>2, <4>1
      <4> QED
        BY <1>2, <4>2 DEF Jobs
    <3>4. CASE job' = [job EXCEPT ![p] = [job[p] EXCEPT !.snap = Evaluate]]
      <4>1. job'[p] = [job[p] EXCEPT !.snap = Evaluate]
        BY <3>2, <3>4
      <4> QED
        BY <1>2, <4>1 DEF Jobs
    <3>5. CASE \E d : job' = [job EXCEPT ![p] = [job[p] EXCEPT !.delta = d]]
      <4>1. PICK d : job' = [job EXCEPT ![p] = [job[p] EXCEPT !.delta = d]]
        BY <3>5
      <4>2. job'[p] = [job[p] EXCEPT !.delta = d]
        BY <3>2, <4>1
      <4> QED
        BY <1>2, <4>2 DEF Jobs
    <3> QED
      BY <3>1, <3>3, <3>4, <3>5
  <2>3. pc'[p] \in PastPublish => pc[p] \in PastPublish
    BY <1>5 DEF VerdictStep, ArmFailed, AfterRebuildErr, Built, Recheck, DocSetDelta, Arm,
         Disarm, Decide, Goto, PastPublish, OwnTypes
  <2>4. pc'[p] = "release" /\ job'[p].kind = "healed" => pc[p] \in PastPublish
    <3>1. CASE Built(p) \/ Disarm(p)
      BY <3>1 DEF Built, Disarm, PastPublish
    <3>2. CASE AfterRebuildErr(p) \/ Arm(p)
      <4>1. \E kind \in {"error", "half", "stale"} : \E lent :
                job'[p] = [job[p] EXCEPT !.kind = kind, !.lent = lent]
        BY <3>2 DEF AfterRebuildErr, Arm, Decide, Set, OwnTypes
      <4> QED
        BY <1>2, <4>1 DEF Jobs
    <3>3. CASE Recheck(p)
      BY <3>3 DEF Recheck, PastPublish
    <3>4. CASE ArmFailed(p) \/ DocSetDelta(p)
      BY <3>4 DEF ArmFailed, DocSetDelta, Goto, OwnTypes
    <3> QED
      BY <1>5, <3>1, <3>2, <3>3, <3>4 DEF VerdictStep
  <2>5. StampAhead(p)' => StampAhead(p)
    BY <2>1, <2>2, <2>3, <2>4 DEF StampAhead, HealPC
  <2>6. pc[p] # "sync"
    BY <2>1 DEF HealPC
  <2> QED
    BY <1>1, <1>3, <2>1, <2>2, <2>5, <2>6, HeadAside
<1> QED
  BY <1>4, <1>5

\* The check, the race for the lock and the wait for a peer: only Fresh promises
\* something of the head.
LEMMA HeadWait ==
    ASSUME HealTypeInv, HealTypeOK', HeadInv, NEW p \in Healers,
           Check(p) \/ Churn(p) \/ LockStep(p) \/ WaitStep(p)
    PROVE  HeadInv'
<1> USE RolesFacts, TypeFacts DEF HealTypeInv
<1>1. Alone(p) /\ OwnTypes'
  BY OtherShared DEF OwnStep
<1>2. head' = head /\ slot' = slot /\ pc[p] \notin {"idle", "snap", "sync"}
  BY DEF plane, Check, Churn, LockStep, CreateLock, CreateFails, LockExists, LockAge,
         Steal, WaitStep, PeerGone, WaitTimeout, PeerEvaluate, PeerChurn
<1>3. job[p] \in Jobs /\ job[p].snap \in Snapshots \cup {None}
  BY DEF OwnTypes, Jobs
<1>4. ASSUME NEW kind \in {"stale", "peer", "error"}, NEW lent \in Snapshots \cup {None},
             Deliver(p, kind, lent)
      PROVE  HeadInv'
  <2>1. kind \in Kinds /\ kind \notin {"fresh", "healed"}
    BY DEF Kinds
  <2> QED
    BY <1>2, <1>4, <2>1, HeadAnswer
<1>5. ASSUME NEW lent \in Snapshots \cup {None}, Deliver(p, "fresh", lent),
             slot = None \/ pc[p] = "churn"
      PROVE  HeadInv'
  <2>1. "fresh" \in Kinds
    BY DEF Kinds
  <2>2. p \in Refreshers /\ "fresh" \in {"fresh", "healed"} /\ ~Syncs(p, "fresh") => CaughtUp(p)
    BY <1>5 DEF HeadInv, StampAhead, CaughtUp, Syncs
  <2> QED
    BY <1>2, <1>5, <2>1, <2>2, HeadAnswer
<1>6. ASSUME answer' = answer, pc'[p] \notin PastPublish \cup {"release"},
             \E j \in {job[p], [job[p] EXCEPT !.snap = Evaluate], [job[p] EXCEPT !.peer = TRUE]} :
                 job'[p] = j
      PROVE  HeadInv'
  <2>1. job'[p].head = job[p].head /\ job'[p].drift = job[p].drift
    BY <1>3, <1>6 DEF Jobs
  <2>2. StampAhead(p)' => StampAhead(p)
    BY <1>2, <1>6, <2>1 DEF StampAhead
  <2>3. SlotGrows
    BY <1>2 DEF SlotGrows
  <2> QED
    BY <1>1, <1>2, <1>6, <2>1, <2>2, <2>3, HeadAside
<1>7. CASE Check(p) \/ PeerEvaluate(p)
  <2>1. CASE slot = None
    BY <1>4, <1>5, <1>7, <2>1 DEF Check, PeerEvaluate
  <2>2. CASE slot # None
    BY <1>6, <1>7, <2>2 DEF Check, PeerEvaluate, Goto, Set, OwnTypes, PastPublish
  <2> QED
    BY <2>1, <2>2
<1>8. CASE Churn(p) \/ PeerChurn(p)
  <2>1. \/ \E kind \in {"stale", "peer"}, lent \in Snapshots \cup {None} : Deliver(p, kind, lent)
        \/ Deliver(p, "fresh", job[p].snap) /\ pc[p] = "churn"
        \/ Goto(p, "acquire") /\ UNCHANGED <<job, answer>>
    BY <1>3, <1>8 DEF Churn, PeerChurn
  <2>2. Goto(p, "acquire") => pc'[p] \notin PastPublish \cup {"release"}
    BY DEF Goto, OwnTypes, PastPublish
  <2> QED
    BY <1>3, <1>4, <1>5, <1>6, <2>1, <2>2
<1>9. CASE LockExists(p) \/ WaitTimeout(p)
  <2>1. \/ \E lent \in Snapshots \cup {None} : Deliver(p, "stale", lent)
        \/ Goto(p, "age") /\ UNCHANGED <<job, answer>>
    BY <1>3, <1>9 DEF LockExists, WaitTimeout
  <2>2. Goto(p, "age") => pc'[p] \notin PastPublish \cup {"release"}
    BY DEF Goto, OwnTypes, PastPublish
  <2> QED
    BY <1>4, <1>6, <2>1, <2>2
<1>10. CASE CreateLock(p) \/ CreateFails(p) \/ LockAge(p) \/ Steal(p) \/ PeerGone(p)
  <2>1. /\ answer' = answer /\ pc'[p] \in {"build", "exists", "steal", "poll", "acquire", "peer"}
        /\ job'[p] = job[p] \/ job'[p] = [job[p] EXCEPT !.peer = TRUE]
    BY <1>10 DEF CreateLock, CreateFails, LockAge, Steal, PeerGone, WaitForPeer, Goto, Set, OwnTypes
  <2> QED
    BY <1>6, <2>1 DEF PastPublish
<1> QED
  BY <1>7, <1>8, <1>9, <1>10 DEF LockStep, WaitStep

\* The snapshot of a refresh sees the drift; the head-sync writes the head.
LEMMA HeadRefresh ==
    ASSUME HealTypeInv, HealTypeOK', HeadInv, NEW p \in Refreshers, RefreshStep(p)
    PROVE  HeadInv'
<1> USE RolesFacts, TypeFacts DEF HealTypeInv
<1>1. Alone(p) /\ OwnTypes' /\ job[p] \in Jobs /\ answer[p] \in Answers
  BY RefreshOwn DEF OwnStep, OwnTypes
<1>2. head' = head
  BY DEF RefreshStep, RefreshSnapshot, SyncHead, SyncFails, plane
<1>3. CASE RefreshSnapshot(p)
  <2>1. slot' = slot /\ SlotGrows
    BY <1>3 DEF RefreshSnapshot, plane, SlotGrows
  <2>2. CASE slot = None
    <3>1. Deliver(p, "error", None) /\ "error" \in Kinds
      BY <1>3, <2>2 DEF RefreshSnapshot, Kinds
    <3> QED
      BY <1>2, <2>1, <3>1, HeadAnswer
  <2>3. CASE slot # None
    <3>1. /\ job'[p] = [job[p] EXCEPT !.drift = HeadDrift] /\ answer' = answer
          /\ pc[p] = "snap" /\ pc'[p] = "check"
      BY <1>3, <2>3 DEF RefreshSnapshot, Goto, Set, OwnTypes
    <3>2. job'[p].head = job[p].head /\ job'[p].drift = HeadDrift
      BY <1>1, <3>1 DEF Jobs
    <3>3. StampAhead(p)' => CaughtUp(p)'
      <4>1. job[p].head \in Nat /\ job[p].head <= head /\ head \in Nat
        BY NatFacts DEF HeadInv
      <4> QED
        BY <2>1, <3>1, <3>2, <4>1 DEF StampAhead, PastPublish, HeadDrift, CaughtUp
    <3> QED
      BY <1>1, <1>2, <2>1, <3>1, <3>2, <3>3, HeadAside
  <2> QED
    BY <2>2, <2>3
<1>4. CASE SyncHead(p) \/ SyncFails(p)
  <2>1. PICK failed \in BOOLEAN : EndSync(p, failed)
    BY <1>4 DEF SyncHead, SyncFails
  <2>2. SlotGrows
    <3>1. CASE SyncHead(p)
      BY <1>2, <3>1 DEF SyncHead, SlotGrows, HealTypeOK, Slots
    <3>2. CASE SyncFails(p)
      BY <3>2 DEF SyncFails, plane, SlotGrows
    <3> QED
      BY <1>4, <3>1, <3>2
  <2>3. pc'[p] = "idle" /\ job'[p] = NoJob
    BY <2>1 DEF EndSync, Goto, Set, OwnTypes
  <2> DEFINE after == IF failed THEN answer[p].after ELSE head
  <2>4. answer'[p] = [[answer[p] EXCEPT !.after = after] EXCEPT !.failed = failed]
    BY <2>1 DEF EndSync, OwnTypes
  <2>5. answer'[p].before = answer[p].before /\ answer'[p].after = after
        /\ answer'[p].failed = failed
    BY <1>1, <2>4 DEF Answers
  <2>6. /\ answer[p].before \in Nat /\ answer[p].before <= head /\ head \in Nat
        /\ NoJob.head <= head
    BY NatFacts DEF HeadInv, NoJob
  <2>7. Told(p)'
    BY <2>5, <2>6 DEF Told
  <2>8. ~StampAhead(p)'
    BY <2>3 DEF StampAhead, PastPublish
  <2>9. job'[p].head <= head /\ answer'[p].before <= head
    BY <2>3, <2>5, <2>6
  <2> QED
    BY <1>1, <1>2, <2>2, <2>7, <2>8, <2>9, HeadKept
<1> QED
  BY <1>3, <1>4 DEF RefreshStep

LEMMA HeadBegin ==
    ASSUME HealTypeInv, HealTypeOK', HeadInv, NEW p \in Procs, Begin(p)
    PROVE  HeadInv'
<1> USE RolesFacts, TypeFacts, NoJobFacts DEF HealTypeInv
<1>1. Alone(p)
  BY BeginOwn DEF OwnStep
<1>2. answer' = answer /\ head' = head /\ slot' = slot /\ pc[p] = "idle"
  BY DEF Begin, StartQuery, StartRefresh, StartBuild, Start, plane
<1>3. job'[p].head \in {0, head}
  <2>1. job'[p] = NoJob \/ job'[p] = [NoJob EXCEPT !.head = head]
    BY DEF Begin, StartQuery, StartRefresh, StartBuild, Start, Set, OwnTypes
  <2> QED
    BY <2>1 DEF NoJob
<1>4. p \in Refreshers => ~StampAhead(p)'
  <2>1. p \in Refreshers => pc'[p] = "snap"
    BY HealRolesAssumption DEF Begin, StartRefresh, Start, Goto, OwnTypes
  <2> QED
    BY <2>1 DEF StampAhead, PastPublish
<1>5. SlotGrows
  BY <1>2 DEF SlotGrows
<1>6. pc[p] # "sync"
  BY <1>2
<1>7. job'[p].head \in {0, job[p].head, head}
  BY <1>3
<1> QED
  BY <1>1, <1>2, <1>4, <1>5, <1>6, <1>7, HeadAside

LEMMA HeadWorld ==
    ASSUME HealTypeInv, HealTypeOK', HeadInv, World
    PROVE  HeadInv'
<1> USE RolesFacts, TypeFacts DEF HealTypeInv
<1>1. CASE Edit \/ Commit \/ Age \/ Expire
  <2>1. /\ slot' = slot /\ pc' = pc /\ job' = job /\ answer' = answer
        /\ head' = head \/ head' = head + 1
    BY <1>1 DEF Edit, Commit, Age, Expire, plane
  <2>2. \A h \in Healers : job[h].head <= head' /\ answer[h].before <= head'
    BY <2>1, NatFacts DEF HeadInv
  <2> QED
    BY <2>1, <2>2 DEF HeadInv, StampAhead, CaughtUp, Told
<1>2. ASSUME NEW p \in Procs, Crash(p) PROVE HeadInv'
  <2>1. /\ Alone(p) /\ pc'[p] = "idle" /\ job'[p] = NoJob
        /\ p \in Healers => answer'[p] = NoAnswer
    BY <1>2, CrashOwn DEF OwnStep
  <2>2. head' = head /\ slot' = slot /\ SlotGrows
    BY <1>2 DEF Crash, plane, SlotGrows
  <2>3. ~StampAhead(p)'
    BY <2>1 DEF StampAhead, PastPublish
  <2>4. p \in Healers => job'[p].head <= head /\ answer'[p].before <= head
    BY <2>1, NatFacts DEF NoJob, NoAnswer
  <2>5. p \in Refreshers => Told(p)'
    BY <2>1 DEF Told, NoAnswer
  <2> QED
    BY <2>1, <2>2, <2>3, <2>4, <2>5, HeadKept
<1> QED
  BY <1>1, <1>2 DEF World

LEMMA NextHead == HealTypeInv /\ HealTypeInv' /\ HeadInv /\ [Next]_vars => HeadInv'
<1> SUFFICES ASSUME HealTypeInv, HealTypeOK', HeadInv, [Next]_vars PROVE HeadInv'
  BY DEF HealTypeInv
<1> USE RolesFacts
<1>1. ASSUME NEW p \in Procs, Begin(p) \/ Advance(p) PROVE HeadInv'
  BY <1>1, HeadBegin, HeadBuild, HeadVerdict, HeadWait, HeadRefresh DEF Advance, HealStep
<1>2. CASE UNCHANGED vars
  BY <1>2 DEF vars, HeadInv, StampAhead, CaughtUp, Told
<1> QED
  BY <1>1, <1>2, HeadWorld DEF Next

\* In every behaviour, a refresh past its own build, or one that saw no drift,
\* finds no stamp older than the head it began with, and answers accordingly.
THEOREM HeadStands == Spec => []HeadInv
<1>1. Init => HeadInv
  BY RolesFacts DEF Init, HeadInv, StampAhead, PastPublish, Told, NoJob, NoAnswer
<1> QED
  BY <1>1, NextHead, HealTypes, PTL DEF Spec

\* A refresh that is told Fresh, or rebuilt the index, leaves a stamp of the head
\* it began with or a later one, whatever edits, commits and builds meanwhile.
THEOREM RefreshLeavesHead == Spec => []RefreshSyncsHead
<1>1. HeadInv => RefreshSyncsHead
  BY DEF HeadInv, Told, RefreshSyncsHead, Synced
<1> QED
  BY <1>1, HeadStands, PTL

---------------------------------------------------------------------------
(* The snapshot a heal lends: the heal lock keeps other builds away from   *)
(* its second look to its answer.                                          *)

SameIndex(s, t) == [s EXCEPT !.head = 0] = [t EXCEPT !.head = 0]

\* The verdict under way is of the index that is there.
Judged(h) ==
    /\ pc[h] \in {"delta", "disarm"} => SameIndex(job[h].snap.slot, slot)
    /\ pc[h] = "release" /\ job[h].kind \in {"healed", "half"} /\ job[h].lent # None =>
          SameIndex(job[h].lent.slot, slot)

Lent(h) ==
    answer[h].kind \in {"healed", "half"} /\ answer[h].lent # None =>
        SameIndex(answer[h].lent.slot, answer[h].slot)

JudgedInv ==
    ~history.stolen /\ Builders = {} => \A h \in Healers : Judged(h) /\ Lent(h)

\* The index is the same but for the head of its stamp.
IndexStays == \A x : SameIndex(x, slot) => SameIndex(x, slot')

LEMMA StolenStays ==
    ASSUME HealTypeOK, [Next]_vars
    PROVE  history.stolen => history'.stolen
BY DEF HealTypeOK, Next, vars, World, Edit, Commit, Age, Expire, Crash, Begin, StartQuery,
       StartRefresh, StartBuild, Advance, HealStep, RefreshStep, RefreshSnapshot, SyncHead,
       SyncFails, BuildStep, BeginBuild, Publish, PublishEmpty, BuildFails, BuildGraph, GraphFails,
       Unmark, Check, Churn, LockStep, CreateLock, CreateFails, LockExists, LockAge, Steal, WaitStep,
       PeerGone, WaitTimeout, PeerEvaluate, PeerChurn, VerdictStep, ArmFailed, AfterRebuildErr,
       Built, Recheck, DocSetDelta, Arm, Disarm, Drop

\* Where nobody can build but the one healer, everyone else's verdict stands.
LEMMA OthersJudged ==
    ASSUME HealTypeInv, HealLockInv, ~history.stolen, Builders = {},
           \A h \in Healers : Judged(h) /\ Lent(h),
           NEW p \in Procs, Alone(p), BuildStep(p) \/ IndexStays,
           NEW q \in Healers, q # p
    PROVE  Judged(q)' /\ Lent(q)'
<1> USE RolesFacts
<1>1. pc'[q] = pc[q] /\ job'[q] = job[q] /\ answer'[q] = answer[q]
  BY DEF Alone
<1>2. CASE BuildStep(p)
  <2>1. p \in Healers /\ Healing(p)
    BY <1>2 DEF Procs, Healing, HealPC, BuildStep, BeginBuild, Publish, PublishEmpty, BuildFails,
              BuildGraph, GraphFails, Unmark
  <2>2. ~Healing(q)
    BY <2>1 DEF HealLockInv, Owned
  <2> QED
    BY <1>1, <2>2 DEF Healing, HealPC, Judged, Lent
<1>3. CASE IndexStays
  BY <1>1, <1>3 DEF IndexStays, Judged, Lent
<1> QED
  BY <1>2, <1>3

\* Only builds and the head-sync write the index, and the head-sync its head.
LEMMA IndexStaysStep ==
    ASSUME HealTypeInv, NEW p \in Procs,
           \/ p \in Healers /\ ( \/ Check(p) \/ Churn(p) \/ LockStep(p) \/ WaitStep(p)
                                \/ VerdictStep(p))
           \/ p \in Refreshers /\ RefreshStep(p)
           \/ Begin(p) \/ Crash(p)
    PROVE  IndexStays
<1>1. CASE SyncHead(p)
  <2>1. slot \in Slots /\ slot' = [slot EXCEPT !.head = head]
    BY <1>1 DEF SyncHead, HealTypeInv, HealTypeOK
  <2>2. SameIndex(slot', slot)
    BY <2>1 DEF SameIndex, Slots
  <2> QED
    BY <2>2 DEF IndexStays, SameIndex
<1>2. CASE ~SyncHead(p)
  <2>1. slot' = slot
    BY <1>2
       DEF plane, Check, Churn, LockStep, CreateLock, CreateFails, LockExists, LockAge,
           Steal, WaitStep, PeerGone, WaitTimeout, PeerEvaluate, PeerChurn, VerdictStep, ArmFailed,
           AfterRebuildErr, Built, Recheck, DocSetDelta, Arm, Disarm, Drop, RefreshStep,
           RefreshSnapshot, SyncFails, Begin, StartQuery, StartRefresh, StartBuild, Crash
  <2> QED
    BY <2>1 DEF IndexStays
<1> QED
  BY <1>1, <1>2

LEMMA OwnJudgedVerdict ==
    ASSUME HealTypeInv, NEW p \in Healers, Judged(p), Lent(p), VerdictStep(p)
    PROVE  Judged(p)' /\ Lent(p)'
<1> USE RolesFacts, TypeFacts DEF HealTypeInv
<1>1. slot' = slot
  BY DEF plane, VerdictStep, ArmFailed, AfterRebuildErr, Built, Recheck, DocSetDelta, Arm, Disarm, Drop
<1>2. job[p] \in Jobs
  BY DEF OwnTypes
<1>3. CASE Drop(p)
  <2>1. /\ Deliver(p, job[p].kind, job[p].lent) /\ job[p].kind \in Kinds
        /\ job[p].lent \in Snapshots \cup {None} /\ pc[p] = "release"
    BY <1>2, <1>3 DEF Drop, Jobs
  <2>2. Delivered(p, job[p].kind, job[p].lent)
    BY <2>1, DeliverTypes
  <2>3. /\ answer'[p].kind = job[p].kind /\ answer'[p].lent = job[p].lent
        /\ answer'[p].slot = slot /\ pc'[p] \in {"idle", "sync"}
    BY <2>2 DEF Delivered
  <2> QED
    BY <2>1, <2>3 DEF Judged, Lent
<1>4. CASE ~Drop(p)
  <2>1. answer' = answer
    BY <1>4 DEF VerdictStep, ArmFailed, AfterRebuildErr, Built, Recheck, DocSetDelta, Arm, Disarm
  <2>2. ASSUME NEW kind, NEW lent, Decide(p, kind, lent),
               kind \in {"healed", "half"} /\ lent # None => SameIndex(lent.slot, slot)
        PROVE  Judged(p)'
    <3>1. /\ pc'[p] = "release"
          /\ job'[p] = [[job[p] EXCEPT !.kind = kind] EXCEPT !.lent = lent]
      BY <2>2 DEF Decide, Goto, Set, OwnTypes
    <3>2. job'[p].kind = kind /\ job'[p].lent = lent
      BY <1>2, <3>1 DEF Jobs
    <3> QED
      BY <1>1, <2>2, <3>1, <3>2 DEF Judged
  <2>3. slot # None => Evaluate.slot = slot
    BY EvaluateFacts
  <2>4. CASE \/ ArmFailed(p) \/ (Built(p) /\ slot # None)
             \/ (DocSetDelta(p) /\ job[p].snap.stale) \/ (Disarm(p) /\ job[p].delta)
    <3>1. pc'[p] \in {"half", "recheck", "arm"}
      BY <2>4 DEF ArmFailed, Built, DocSetDelta, Disarm, Goto, OwnTypes
    <3> QED
      BY <2>1, <3>1 DEF Judged, Lent
  <2>5. CASE AfterRebuildErr(p) \/ Arm(p) \/ ((Built(p) \/ Recheck(p)) /\ slot = None)
    <3>1. \/ slot # None /\ Decide(p, "half", Evaluate)
          \/ Decide(p, "error", None) \/ Decide(p, "stale", None) \/ Decide(p, "healed", None)
      BY <2>5 DEF AfterRebuildErr, Arm, Built, Recheck
    <3> QED
      BY <2>1, <2>2, <2>3, <3>1 DEF SameIndex, Lent
  <2>6. CASE Recheck(p) /\ slot # None
    <3>1. pc'[p] = "delta" /\ job'[p] = [job[p] EXCEPT !.snap = Evaluate]
      BY <2>6 DEF Recheck, Goto, Set, OwnTypes
    <3>2. job'[p].snap = Evaluate
      BY <1>2, <3>1 DEF Jobs
    <3> QED
      BY <1>1, <2>1, <2>3, <2>6, <3>1, <3>2 DEF Judged, Lent, SameIndex
  <2>7. CASE DocSetDelta(p) /\ ~job[p].snap.stale
    <3> DEFINE d == slot # None /\ ~slot.whole
    <3>1. pc[p] = "delta" /\ pc'[p] = "disarm" /\ job'[p] = [job[p] EXCEPT !.delta = d]
      BY <2>7 DEF DocSetDelta, Goto, Set, OwnTypes
    <3> HIDE DEF d
    <3>2. job'[p].snap = job[p].snap
      BY <1>2, <3>1 DEF Jobs
    <3> QED
      BY <1>1, <2>1, <3>1, <3>2 DEF Judged, Lent
  <2>8. CASE Disarm(p) /\ ~job[p].delta
    <3>1. Decide(p, "healed", job[p].snap) /\ SameIndex(job[p].snap.slot, slot)
      BY <2>8 DEF Disarm, Judged
    <3> QED
      BY <2>1, <2>2, <3>1 DEF Lent
  <2> QED
    BY <1>4, <2>4, <2>5, <2>6, <2>7, <2>8 DEF VerdictStep
<1> QED
  BY <1>3, <1>4

LEMMA OwnJudgedOther ==
    ASSUME HealTypeInv, NEW p \in Healers, Lent(p),
           \/ Check(p) \/ Churn(p) \/ LockStep(p) \/ WaitStep(p)
           \/ p \in Refreshers /\ RefreshStep(p)
           \/ Begin(p) \/ Crash(p) \/ BuildStep(p)
    PROVE  Judged(p)' /\ Lent(p)'
<1> USE RolesFacts, TypeFacts DEF HealTypeInv
<1>1. pc'[p] \notin {"delta", "disarm", "release"}
  <2>1. CASE Begin(p) \/ Crash(p)
    BY <2>1, BeginOwn, CrashOwn
  <2>2. CASE ~Begin(p) /\ ~Crash(p)
    BY <2>2
       DEF OwnTypes, Goto, Deliver, WaitForPeer, EndSync, Check, Churn, LockStep,
           CreateLock, CreateFails, LockExists, LockAge,
           Steal, WaitStep, PeerGone, WaitTimeout, PeerEvaluate, PeerChurn, RefreshStep,
           RefreshSnapshot, SyncHead, SyncFails, BuildStep, BeginBuild, Publish, PublishEmpty,
           BuildFails, BuildGraph, GraphFails, Unmark, Returns
  <2> QED
    BY <2>1, <2>2
<1>2. Lent(p)'
  <2>1. ASSUME NEW kind \in {"stale", "peer", "error", "fresh"}, NEW lent \in Snapshots \cup {None},
               Deliver(p, kind, lent)
        PROVE  Lent(p)'
    <3>1. kind \in Kinds
      BY DEF Kinds
    <3>2. Delivered(p, kind, lent)
      BY <2>1, <3>1, DeliverTypes
    <3>3. answer'[p].kind = kind
      BY <3>2 DEF Delivered
    <3> QED
      BY <3>3 DEF Lent
  <2>2. CASE answer' = answer
    BY <2>2 DEF Lent
  <2>3. CASE \E failed \in BOOLEAN : EndSync(p, failed)
    <3>1. PICK failed \in BOOLEAN : EndSync(p, failed)
      BY <2>3
    <3> DEFINE after == IF failed THEN answer[p].after ELSE head
    <3>2. answer'[p] = [[answer[p] EXCEPT !.after = after] EXCEPT !.failed = failed]
      BY <3>1 DEF EndSync, OwnTypes
    <3> HIDE DEF after
    <3>3. answer[p] \in Answers
      BY DEF OwnTypes
    <3>4. answer'[p].kind = answer[p].kind /\ answer'[p].lent = answer[p].lent
          /\ answer'[p].slot = answer[p].slot
      BY <3>2, <3>3 DEF Answers
    <3> QED
      BY <3>4 DEF Lent
  <2>4. CASE Crash(p)
    BY <2>4, CrashOwn DEF Lent, NoAnswer
  <2>5. job[p].snap \in Snapshots \cup {None}
    BY DEF OwnTypes, Jobs
  <2>6. \/ answer' = answer \/ Crash(p) \/ \E failed \in BOOLEAN : EndSync(p, failed)
        \/ \E kind \in {"stale", "peer", "error", "fresh"}, lent \in Snapshots \cup {None} :
              Deliver(p, kind, lent)
    <3>1. CASE \/ Check(p) \/ Churn(p) \/ WaitStep(p) \/ RefreshStep(p) \/ LockExists(p)
      BY <2>5, <3>1
       DEF Check, Churn, LockExists, WaitStep, PeerGone, WaitTimeout, PeerEvaluate, PeerChurn,
           RefreshStep, RefreshSnapshot, SyncHead, SyncFails
    <3>2. CASE LockStep(p) /\ ~LockExists(p)
      BY <3>2 DEF LockStep, CreateLock, CreateFails, LockAge, Steal
    <3>3. CASE Begin(p) \/ BuildStep(p)
      BY <3>3 DEF Begin, StartQuery, StartRefresh, StartBuild, BuildStep, BeginBuild, Publish,
           PublishEmpty, BuildFails, BuildGraph, GraphFails, Unmark
    <3> QED
      BY <3>1, <3>2, <3>3
  <2> QED
    BY <2>1, <2>2, <2>3, <2>4, <2>6
<1> QED
  BY <1>1, <1>2 DEF Judged

LEMMA NextJudged == HealTypeInv /\ HealLockInv /\ JudgedInv /\ [Next]_vars => JudgedInv'
<1> SUFFICES ASSUME HealTypeInv, HealLockInv, JudgedInv, [Next]_vars,
                    ~history'.stolen, Builders = {}, NEW h \in Healers
             PROVE  Judged(h)' /\ Lent(h)'
  BY DEF JudgedInv
<1> USE RolesFacts
<1>1. ~history.stolen /\ \A g \in Healers : Judged(g) /\ Lent(g)
  BY StolenStays DEF HealTypeInv, JudgedInv
<1>2. CASE UNCHANGED vars \/ Edit \/ Commit \/ Age \/ Expire
  <2>1. slot' = slot /\ pc' = pc /\ job' = job /\ answer' = answer
    BY <1>2 DEF vars, Edit, Commit, Age, Expire, plane
  <2> QED
    BY <1>1, <2>1 DEF Judged, Lent
<1>3. ASSUME NEW p \in Procs, Crash(p) \/ Begin(p) \/ Advance(p) PROVE Judged(h)' /\ Lent(h)'
  <2>1. Alone(p) /\ p \in Healers
    <3>1. p \in Healers
      BY DEF Procs
    <3> QED
      BY <1>3, <3>1, CrashOwn, BuildOwn, OtherShared DEF HealTypeInv, Advance, HealStep, OwnStep
  <2>2. BuildStep(p) \/ IndexStays
    BY <1>3, <2>1, IndexStaysStep DEF Advance, HealStep
  <2>3. CASE h # p
    BY <1>1, <2>1, <2>2, <2>3, OthersJudged
  <2>4. CASE h = p
    BY <1>1, <1>3, <2>1, <2>4, OwnJudgedVerdict, OwnJudgedOther DEF Advance, HealStep
  <2> QED
    BY <2>3, <2>4
<1> QED
  BY <1>2, <1>3 DEF Next, World

\* In every behaviour without a stolen lock or an outside build, what a healer
\* has judged is the index of the slot, and what it lends is what it judged.
THEOREM JudgedStands == Spec => []JudgedInv
<1>1. Init => JudgedInv
  BY RolesFacts DEF Init, JudgedInv, Judged, Lent, NoAnswer
<1> QED
  BY <1>1, NextJudged, HealTypes, LockInvariant, PTL DEF Spec

\* run_heal_locked hands its caller the snapshot of its second look without
\* another: it is of the index that is there when the lock is dropped, as long
\* as the lock was nobody's to steal and no explicit build ran.
THEOREM LentSnapshotStands == Spec => []HealedSnapshotStands
<1>1. JudgedInv => HealedSnapshotStands
  BY DEF JudgedInv, Lent, SameIndex, HealedSnapshotStands
<1> QED
  BY <1>1, JudgedStands, PTL

=============================================================================
