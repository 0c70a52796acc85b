----------------------------- MODULE QueryHeal -----------------------------
(***************************************************************************)
(* The pre-query heal of one repository: queries and post-commit refreshes *)
(* that find the index stale, the single-flight lock file they race for,   *)
(* the churn marker that stops hopeless retries, and explicit builds that  *)
(* know of neither.  The index is abstracted to what evaluate_staleness    *)
(* and the residual document check can tell of it; DataPlane has the       *)
(* files.                                                                  *)
(***************************************************************************)
EXTENDS Naturals, FiniteSets

CONSTANTS
    Queries,     \* processes in ensure_fresh_check before a query
    Refreshers,  \* processes running `code-reality refresh`
    Builders,    \* processes running an explicit build
    None,
    MaxRuns,     \* bound: operations started by each process
    MaxEdits, MaxCommits, MaxCrashes,
    MaxAges,     \* bound: lock files that grow older than HEAL_LOCK_MAX_AGE
    MaxExpiries  \* bound: churn markers that grow older than the cooldown

ASSUME HealRolesAssumption ==
    /\ Queries \cap (Refreshers \cup Builders) = {}
    /\ Refreshers \cap Builders = {}
    /\ None \notin Queries \cup Refreshers \cup Builders
    /\ None \notin [of : Nat, head : Nat, whole : BOOLEAN, graph : BOOLEAN]
    /\ None \notin [by : Queries \cup Refreshers, old : BOOLEAN, orphan : BOOLEAN]
ASSUME HealBoundsAssumption ==
    {MaxRuns, MaxEdits, MaxCommits, MaxCrashes, MaxAges, MaxExpiries} \subseteq Nat

VARIABLES
    src,       \* version of the governed source
    head,      \* the repository's HEAD
    slot,      \* None or [of, head, whole, graph]
    armed,     \* a churn marker younger than the cooldown is there
    lockFile,  \* .heal.lock: None or [by, old, orphan]
    writer,    \* holder of .writer.lock, or None
    pc, job,   \* process -> next step, locals
    answer,    \* process -> its last answer
    budget,    \* events and starts so far (bounds only)
    history    \* [stolen, overrun, unconverged], read by properties only

vars == <<src, head, slot, armed, lockFile, writer, pc, job, answer, budget, history>>
plane == <<src, head, slot>>

Healers == Queries \cup Refreshers
Procs == Healers \cup Builders

\* What evaluate_staleness tells of the index.  `whole` is what it does not
\* tell: every governed document is in the index.
Stale == slot.of # src \/ ~slot.graph
HeadDrift == slot.head # head
Evaluate == [slot |-> slot, stale |-> Stale, drift |-> HeadDrift]

HealPC == {"build", "produce", "graph", "unmark", "failed", "half", "built",
           "recheck", "delta", "arm", "disarm", "release"}
PC == HealPC \cup {"idle", "snap", "check", "churn", "acquire", "exists", "age",
                   "steal", "poll", "peer", "peer-churn", "sync"}

\* A process that was given the heal lock and has not dropped it.
Healing(h) == h \in Healers /\ pc[h] \in HealPC

NoJob == [peer |-> FALSE, snap |-> None, cap |-> 0, delta |-> FALSE,
          kind |-> "none", lent |-> None, drift |-> FALSE, head |-> 0]
NoAnswer == [kind |-> "none", lent |-> None, slot |-> None, armed |-> FALSE,
             before |-> 0, after |-> 0, failed |-> FALSE]

Init ==
    /\ src = 0 /\ head = 0
    /\ slot \in {None, [of |-> 0, head |-> 0, whole |-> TRUE, graph |-> TRUE]}
    /\ armed = FALSE /\ lockFile = None /\ writer = None
    /\ pc = [p \in Procs |-> "idle"]
    /\ job = [p \in Procs |-> NoJob]
    /\ answer = [h \in Healers |-> NoAnswer]
    /\ budget = [edits |-> 0, crashes |-> 0, ages |-> 0, expiries |-> 0,
                 runs |-> [p \in Procs |-> 0]]
    /\ history = [stolen |-> FALSE, overrun |-> FALSE, unconverged |-> FALSE]

Goto(p, to) == pc' = [pc EXCEPT ![p] = to]
Set(p, j) == job' = [job EXCEPT ![p] = j]
Start(p, at, j) ==
    /\ pc[p] = "idle" /\ budget.runs[p] < MaxRuns
    /\ budget' = [budget EXCEPT !.runs[p] = @ + 1]
    /\ Goto(p, at) /\ Set(p, j)

---------------------------------------------------------------------------
(* The world.                                                              *)

Edit ==
    /\ budget.edits < MaxEdits
    /\ src' = src + 1 /\ budget' = [budget EXCEPT !.edits = @ + 1]
    /\ UNCHANGED <<head, slot, armed, lockFile, writer, pc, job, answer, history>>

Commit ==
    /\ head < MaxCommits /\ head' = head + 1
    /\ UNCHANGED <<src, slot, armed, lockFile, writer, pc, job, answer, budget, history>>

\* The lock file is now older than HEAL_LOCK_MAX_AGE.
Age ==
    /\ lockFile # None /\ ~lockFile.old /\ budget.ages < MaxAges
    /\ lockFile' = [lockFile EXCEPT !.old = TRUE]
    /\ budget' = [budget EXCEPT !.ages = @ + 1]
    /\ history' = [history EXCEPT !.overrun = @ \/ ~lockFile.orphan]
    /\ UNCHANGED <<plane, armed, writer, pc, job, answer>>

\* The marker is now older than the cooldown.
Expire ==
    /\ armed /\ budget.expiries < MaxExpiries
    /\ armed' = FALSE
    /\ budget' = [budget EXCEPT !.expiries = @ + 1]
    /\ history' = [history EXCEPT !.unconverged = FALSE]
    /\ UNCHANGED <<plane, lockFile, writer, pc, job, answer>>

\* A process dies: its lock file stays behind, the OS frees its flock.
Crash(p) ==
    /\ pc[p] # "idle" /\ budget.crashes < MaxCrashes
    /\ budget' = [budget EXCEPT !.crashes = @ + 1]
    /\ Goto(p, "idle") /\ Set(p, NoJob)
    /\ writer' = IF writer = p THEN None ELSE writer
    /\ lockFile' = IF lockFile # None /\ lockFile.by = p
                   THEN [lockFile EXCEPT !.orphan = TRUE] ELSE lockFile
    /\ answer' = [h \in Healers |-> IF h = p THEN NoAnswer ELSE answer[h]]
    /\ history' = [history EXCEPT !.unconverged = @ /\ armed]
    /\ UNCHANGED <<plane, armed>>

---------------------------------------------------------------------------
(* Answers.                                                                *)

\* Mutant: the head-sync follows a heal, not a fresh check.
SyncsHealed(h, kind) == h \in Refreshers /\ kind = "healed" /\ job[h].drift /\ slot # None

\* The caller has its outcome.  A refresh told Fresh goes on to the head-sync
\* when its own snapshot saw the head drift.
Syncs(h, kind) == h \in Refreshers /\ kind = "fresh" /\ job[h].drift /\ slot # None

Deliver(h, kind, lent) ==
    /\ answer' = [answer EXCEPT ![h] =
          [kind |-> kind, lent |-> lent, slot |-> slot, armed |-> armed,
           before |-> job[h].head,
           after |-> IF slot = None THEN job[h].head ELSE slot.head, failed |-> FALSE]]
    /\ IF Syncs(h, kind) THEN Goto(h, "sync") /\ UNCHANGED job
                         ELSE Goto(h, "idle") /\ Set(h, NoJob)

\* The outcome is decided under the heal lock and delivered when it is dropped.
Decide(h, kind, lent) ==
    /\ Goto(h, "release")
    /\ Set(h, [job[h] EXCEPT !.kind = kind, !.lent = lent])

---------------------------------------------------------------------------
(* ensure_fresh_check and the refresh around it.                           *)

StartQuery(q) ==
    /\ Start(q, "check", [NoJob EXCEPT !.head = head])
    /\ UNCHANGED <<plane, armed, lockFile, writer, answer, history>>

StartRefresh(r) ==
    /\ Start(r, "snap", [NoJob EXCEPT !.head = head])
    /\ UNCHANGED <<plane, armed, lockFile, writer, answer, history>>

\* refresh_run's own snapshot comes first; it ends when the check fails.
RefreshSnapshot(r) ==
    /\ pc[r] = "snap"
    /\ IF slot = None THEN Deliver(r, "error", None)
       ELSE /\ Set(r, [job[r] EXCEPT !.drift = HeadDrift])
            /\ Goto(r, "check") /\ UNCHANGED answer
    /\ UNCHANGED <<plane, armed, lockFile, writer, budget, history>>

Check(h) ==
    /\ pc[h] = "check"
    /\ IF slot = None THEN Deliver(h, "fresh", None)
       ELSE /\ Set(h, [job[h] EXCEPT !.snap = Evaluate])
            /\ Goto(h, "churn") /\ UNCHANGED answer
    /\ UNCHANGED <<plane, armed, lockFile, writer, budget, history>>

InCooldown(snap) == ~snap.drift /\ armed

\* The churn guard comes before any Fresh.
Churn(h) ==
    /\ pc[h] = "churn"
    /\ LET snap == job[h].snap IN
          \/ InCooldown(snap) /\ Deliver(h, "stale", snap)
          \/ ~InCooldown(snap) /\ ~snap.stale /\ Deliver(h, "fresh", snap)
          \/ /\ ~InCooldown(snap) /\ snap.stale
             /\ Goto(h, "acquire") /\ UNCHANGED <<job, answer>>
    /\ UNCHANGED <<plane, armed, lockFile, writer, budget, history>>

---------------------------------------------------------------------------
(* acquire_heal_lock.                                                      *)

\* Mutant: the lock file is opened, not created new.
OpenLock(h) ==
    /\ pc[h] = "acquire"
    /\ lockFile' = [by |-> h, old |-> FALSE, orphan |-> FALSE]
    /\ Goto(h, "build")
    /\ UNCHANGED <<plane, armed, writer, job, answer, budget, history>>

CreateLock(h) ==
    /\ pc[h] = "acquire" /\ lockFile = None
    /\ lockFile' = [by |-> h, old |-> FALSE, orphan |-> FALSE]
    /\ Goto(h, "build")
    /\ UNCHANGED <<plane, armed, writer, job, answer, budget, history>>

\* The lock is there, or the directory refuses.
CreateFails(h) ==
    /\ pc[h] = "acquire" /\ Goto(h, "exists")
    /\ UNCHANGED <<plane, armed, lockFile, writer, job, answer, budget, history>>

\* No lock to be seen: an environment failure.  The check lends its snapshot,
\* the wait for a peer lends none.
LockExists(h) ==
    /\ pc[h] = "exists"
    /\ IF lockFile = None
       THEN Deliver(h, "stale", IF job[h].peer THEN None ELSE job[h].snap)
       ELSE Goto(h, "age") /\ UNCHANGED <<job, answer>>
    /\ UNCHANGED <<plane, armed, lockFile, writer, budget, history>>

WaitForPeer(h) == Goto(h, "poll") /\ Set(h, [job[h] EXCEPT !.peer = TRUE])

LockAge(h) ==
    /\ pc[h] = "age"
    /\ IF lockFile # None /\ lockFile.old THEN Goto(h, "steal") /\ UNCHANGED job
                                          ELSE WaitForPeer(h)
    /\ UNCHANGED <<plane, armed, lockFile, writer, answer, budget, history>>

\* An abandoned lock is removed, whoever's it is by now, and the create retried.
Steal(h) ==
    /\ pc[h] = "steal"
    /\ IF lockFile = None
       THEN WaitForPeer(h) /\ UNCHANGED <<lockFile, history>>
       ELSE /\ lockFile' = None
            /\ history' = [history EXCEPT !.stolen = TRUE]
            /\ Goto(h, "acquire") /\ UNCHANGED job
    /\ UNCHANGED <<plane, armed, writer, answer, budget>>

---------------------------------------------------------------------------
(* wait_peer_and_reevaluate.                                               *)

PeerGone(h) ==
    /\ pc[h] = "poll" /\ lockFile = None
    /\ Goto(h, "peer")
    /\ UNCHANGED <<plane, armed, lockFile, writer, job, answer, budget, history>>

\* Mutant: the wait has no budget.
WaitForever(h) == FALSE

\* The 120 s budget is spent while a peer still holds the lock.
WaitTimeout(h) ==
    /\ pc[h] = "poll" /\ lockFile # None
    /\ Deliver(h, "stale", None)
    /\ UNCHANGED <<plane, armed, lockFile, writer, budget, history>>

PeerEvaluate(h) ==
    /\ pc[h] = "peer"
    /\ IF slot = None THEN Deliver(h, "error", None)
       ELSE /\ Set(h, [job[h] EXCEPT !.snap = Evaluate])
            /\ Goto(h, "peer-churn") /\ UNCHANGED answer
    /\ UNCHANGED <<plane, armed, lockFile, writer, budget, history>>

PeerChurn(h) ==
    /\ pc[h] = "peer-churn"
    /\ LET snap == job[h].snap IN
          \/ InCooldown(snap) /\ Deliver(h, "stale", None)
          \/ ~InCooldown(snap) /\ ~snap.stale /\ Deliver(h, "peer", snap)
          \/ /\ ~InCooldown(snap) /\ snap.stale
             /\ Goto(h, "acquire") /\ UNCHANGED <<job, answer>>
    /\ UNCHANGED <<plane, armed, lockFile, writer, budget, history>>

---------------------------------------------------------------------------
(* build_repo, by a healer or explicit.                                    *)

StartBuild(b) ==
    /\ Start(b, "build", NoJob)
    /\ UNCHANGED <<plane, armed, lockFile, writer, answer, history>>

BeginBuild(p) ==
    /\ pc[p] = "build"
    /\ Set(p, [job[p] EXCEPT !.cap = src])
    /\ Goto(p, "produce")
    /\ UNCHANGED <<plane, armed, lockFile, writer, answer, budget, history>>

\* The build returns: to the heal around it, or to the shell.
Returns(p, to) ==
    IF p \in Builders THEN Goto(p, "idle") /\ Set(p, NoJob)
                      ELSE Goto(p, to) /\ UNCHANGED job

\* Mutant: a HEAD that cannot be read is stamped all the same.
PublishUnknownHead(p) ==
    /\ pc[p] = "produce" /\ writer = None /\ job[p].cap = src
    /\ writer' = p
    /\ \E whole \in BOOLEAN :
          slot' = [of |-> src, head |-> None, whole |-> whole, graph |-> FALSE]
    /\ Goto(p, "graph")
    /\ UNCHANGED <<src, head, armed, lockFile, job, answer, budget, history>>

\* Producers that leave documents out publish an index that is not whole.
Publish(p) ==
    /\ pc[p] = "produce" /\ writer = None /\ job[p].cap = src
    /\ writer' = p
    /\ \E whole \in BOOLEAN :
          slot' = [of |-> src, head |-> head, whole |-> whole, graph |-> FALSE]
    /\ Goto(p, "graph")
    /\ UNCHANGED <<src, head, armed, lockFile, job, answer, budget, history>>

\* Every face is excluded: the plane is removed, and so is the marker.
PublishEmpty(p) ==
    /\ pc[p] = "produce" /\ writer = None /\ job[p].cap = src
    /\ slot' = None /\ armed' = FALSE
    /\ history' = [history EXCEPT !.unconverged = FALSE]
    /\ Returns(p, "built")
    /\ UNCHANGED <<src, head, lockFile, writer, answer, budget>>

\* A producer, a capture that differs, the writer lock, or a gate.
BuildFails(p) ==
    /\ pc[p] = "produce" /\ Returns(p, "failed")
    /\ UNCHANGED <<plane, armed, lockFile, writer, answer, budget, history>>

BuildGraph(p) ==
    /\ pc[p] = "graph"
    /\ slot' = [slot EXCEPT !.graph = TRUE]
    /\ Goto(p, "unmark")
    /\ UNCHANGED <<src, head, armed, lockFile, writer, job, answer, budget, history>>

GraphFails(p) ==
    /\ pc[p] = "graph"
    /\ writer' = None /\ Returns(p, "failed")
    /\ UNCHANGED <<plane, armed, lockFile, answer, budget, history>>

\* The last thing a completed build does is remove the churn marker.
Unmark(p) ==
    /\ pc[p] = "unmark"
    /\ armed' = FALSE /\ writer' = None
    /\ history' = [history EXCEPT !.unconverged = FALSE]
    /\ Returns(p, "built")
    /\ UNCHANGED <<plane, lockFile, answer, budget>>

---------------------------------------------------------------------------
(* run_heal_locked after the build.                                        *)

\* A failed rebuild arms the marker, then looks again: Healed all the same
\* ("half") when the index turns out to be current.
ArmFailed(h) ==
    /\ pc[h] = "failed"
    /\ armed' = TRUE /\ history' = [history EXCEPT !.unconverged = TRUE]
    /\ Goto(h, "half")
    /\ UNCHANGED <<plane, lockFile, writer, job, answer, budget>>

AfterRebuildErr(h) ==
    /\ pc[h] = "half"
    /\ \/ slot = None /\ Decide(h, "error", None)
       \/ slot # None /\ ~Stale /\ Decide(h, "half", Evaluate)
       \/ slot # None /\ Stale /\ Decide(h, "stale", None)
    /\ UNCHANGED <<plane, armed, lockFile, writer, answer, budget, history>>

\* Mutant: the lock is dropped when the build returns.
BuiltDropsLock(h) ==
    /\ pc[h] = "built"
    /\ IF slot = None THEN Decide(h, "healed", None) ELSE Goto(h, "recheck") /\ UNCHANGED job
    /\ lockFile' = None
    /\ UNCHANGED <<plane, armed, writer, answer, budget, history>>

\* No slot is the converged state of an empty corpus.
Built(h) ==
    /\ pc[h] = "built"
    /\ IF slot = None THEN Decide(h, "healed", None) ELSE Goto(h, "recheck") /\ UNCHANGED job
    /\ UNCHANGED <<plane, armed, lockFile, writer, answer, budget, history>>

Recheck(h) ==
    /\ pc[h] = "recheck"
    /\ IF slot = None THEN Decide(h, "error", None)
       ELSE Goto(h, "delta") /\ Set(h, [job[h] EXCEPT !.snap = Evaluate])
    /\ UNCHANGED <<plane, armed, lockFile, writer, answer, budget, history>>

\* The index's documents against a walk; an unreadable index has no delta.
DocSetDelta(h) ==
    /\ pc[h] = "delta"
    /\ Set(h, [job[h] EXCEPT !.delta = slot # None /\ ~slot.whole])
    /\ Goto(h, IF job[h].snap.stale THEN "arm" ELSE "disarm")
    /\ history' = [history EXCEPT !.unconverged =
                      @ \/ job[h].snap.stale \/ (slot # None /\ ~slot.whole)]
    /\ UNCHANGED <<plane, armed, lockFile, writer, answer, budget>>

\* Mutant: a heal that did not converge leaves no marker.
ArmForgotten(h) ==
    /\ pc[h] = "arm"
    /\ Decide(h, "stale", None)
    /\ UNCHANGED <<plane, armed, lockFile, writer, answer, budget, history>>

\* Did not converge: marker, and serve what is there.
Arm(h) ==
    /\ pc[h] = "arm"
    /\ armed' = TRUE
    /\ history' = [history EXCEPT !.unconverged = TRUE]
    /\ Decide(h, "stale", None)
    /\ UNCHANGED <<plane, lockFile, writer, answer, budget>>

\* Converged: the marker goes; a residual delta arms it again.
Disarm(h) ==
    /\ pc[h] = "disarm"
    /\ armed' = FALSE
    /\ IF job[h].delta THEN Goto(h, "arm") /\ UNCHANGED <<job, history>>
       ELSE /\ Decide(h, "healed", job[h].snap)
            /\ history' = [history EXCEPT !.unconverged = FALSE]
    /\ UNCHANGED <<plane, lockFile, writer, answer, budget>>

\* Mutant: the lock is dropped without removing the file.
DropKeepsFile(h) ==
    /\ pc[h] = "release"
    /\ Deliver(h, job[h].kind, job[h].lent)
    /\ UNCHANGED <<plane, armed, lockFile, writer, budget, history>>

\* Drop: the path is removed, whoever's lock is there by now.
Drop(h) ==
    /\ pc[h] = "release"
    /\ lockFile' = None
    /\ Deliver(h, job[h].kind, job[h].lent)
    /\ UNCHANGED <<plane, armed, writer, budget, history>>

---------------------------------------------------------------------------
(* The refresh's head-sync.                                                *)

EndSync(r, failed) ==
    /\ answer' = [answer EXCEPT ![r].after = IF failed THEN @ ELSE head, ![r].failed = failed]
    /\ Goto(r, "idle") /\ Set(r, NoJob)

SyncHead(r) ==
    /\ pc[r] = "sync" /\ writer = None /\ slot # None
    /\ slot' = [slot EXCEPT !.head = head]
    /\ EndSync(r, FALSE)
    /\ UNCHANGED <<src, head, armed, lockFile, writer, budget, history>>

SyncFails(r) ==
    /\ pc[r] = "sync"
    /\ EndSync(r, TRUE)
    /\ UNCHANGED <<plane, armed, lockFile, writer, budget, history>>

---------------------------------------------------------------------------

BuildStep(p) ==
    \/ BeginBuild(p) \/ Publish(p) \/ PublishEmpty(p) \/ BuildFails(p)
    \/ BuildGraph(p) \/ GraphFails(p) \/ Unmark(p)

LockStep(h) ==
    \/ CreateLock(h) \/ CreateFails(h) \/ LockExists(h) \/ LockAge(h) \/ Steal(h)

WaitStep(h) == PeerGone(h) \/ WaitTimeout(h) \/ PeerEvaluate(h) \/ PeerChurn(h)

VerdictStep(h) ==
    \/ ArmFailed(h) \/ AfterRebuildErr(h) \/ Built(h) \/ Recheck(h)
    \/ DocSetDelta(h) \/ Arm(h) \/ Disarm(h) \/ Drop(h)

HealStep(h) ==
    \/ Check(h) \/ Churn(h) \/ LockStep(h) \/ WaitStep(h)
    \/ BuildStep(h) \/ VerdictStep(h)

RefreshStep(r) == RefreshSnapshot(r) \/ SyncHead(r) \/ SyncFails(r)

Advance(p) ==
    \/ p \in Healers /\ HealStep(p)
    \/ p \in Refreshers /\ RefreshStep(p)
    \/ p \in Builders /\ BuildStep(p)

Begin(p) ==
    \/ p \in Queries /\ StartQuery(p)
    \/ p \in Refreshers /\ StartRefresh(p)
    \/ p \in Builders /\ StartBuild(p)

World == Edit \/ Commit \/ Age \/ Expire \/ \E p \in Procs : Crash(p)

Next == World \/ \E p \in Procs : Begin(p) \/ Advance(p)

Spec == Init /\ [][Next]_vars

\* A running process keeps running, and a wait's clock runs.
FairSpec == Spec /\ \A p \in Procs : WF_vars(Advance(p))

---------------------------------------------------------------------------
(* Properties.                                                             *)

Slots == [of : Nat, head : Nat, whole : BOOLEAN, graph : BOOLEAN]
Snapshots == [slot : Slots, stale : BOOLEAN, drift : BOOLEAN]
Kinds == {"none", "fresh", "healed", "half", "peer", "stale", "error"}

\* Every variable holds what the code can put in it.
HealTypeOK ==
    /\ src \in Nat /\ head \in Nat /\ slot \in Slots \cup {None}
    /\ armed \in BOOLEAN
    /\ lockFile \in [by : Healers, old : BOOLEAN, orphan : BOOLEAN] \cup {None}
    /\ writer \in Procs \cup {None}
    /\ pc \in [Procs -> PC]
    /\ job \in [Procs -> [peer : BOOLEAN, snap : Snapshots \cup {None}, cap : Nat,
                          delta : BOOLEAN, kind : Kinds, lent : Snapshots \cup {None},
                          drift : BOOLEAN, head : Nat]]
    /\ answer \in [Healers -> [kind : Kinds, lent : Snapshots \cup {None},
                               slot : Slots \cup {None}, armed : BOOLEAN,
                               before : Nat, after : Nat, failed : BOOLEAN]]
    /\ budget \in [edits : Nat, crashes : Nat, ages : Nat, expiries : Nat,
                   runs : [Procs -> Nat]]
    /\ history \in [stolen : BOOLEAN, overrun : BOOLEAN, unconverged : BOOLEAN]

OneHealer == \A g, h \in Healers : Healing(g) /\ Healing(h) => g = h

\* As long as no lock was judged abandoned and removed, there is one healer at
\* a time, whatever crashes, waits and explicit builds do.
OneHealerUnlessStolen == ~history.stolen => OneHealer

\* The lock file is there only while its creator heals, or since it died.
LockNotLeaked == lockFile # None => lockFile.orphan \/ Healing(lockFile.by)

\* A snapshot lent with Healed is of the index that is there when the heal
\* lock is dropped, if no lock was stolen and no explicit build is possible.
HealedSnapshotStands ==
    ~history.stolen /\ Builders = {} =>
        \A h \in Healers :
            answer[h].kind \in {"healed", "half"} /\ answer[h].lent # None =>
                [answer[h].lent.slot EXCEPT !.head = 0] = [answer[h].slot EXCEPT !.head = 0]

\* A waiter is told a peer healed the index only when the last heal converged,
\* unless a marker expired, the head moved, or yet another healer is at work.
PeerFixedIt ==
    [][\A h \in Healers :
          PeerChurn(h) /\ answer'[h].kind = "peer" /\ pc'[h] = "idle" =>
              \/ ~history.unconverged \/ job[h].snap.drift
              \/ \E g \in Healers : Healing(g)]_vars

Synced(kinds) ==
    \A r \in Refreshers :
        pc[r] = "idle" /\ answer[r].kind \in kinds /\ ~answer[r].failed =>
            answer[r].after >= answer[r].before

\* A refresh that found the index fresh, or rebuilt it, leaves the stamp at the
\* head it began with or later.
RefreshSyncsHead == Synced({"fresh", "healed"})

\* Every query, refresh and build ends.
HealsEnd == \A p \in Procs : pc[p] # "idle" ~> pc[p] = "idle"

=============================================================================
