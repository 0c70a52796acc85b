---------------------------- MODULE RefreshHook ----------------------------
(***************************************************************************)
(* The opt-in post-commit hook of refresh.rs: its installation and removal *)
(* and the script it installs, which gathers a burst of commits into one   *)
(* refresh through two marker files and no lock.  Every commit stamps      *)
(* refresh.pending; the first of a burst leaves a runner behind, which     *)
(* beats refresh.scheduled, waits for a quiet window and launches the      *)
(* refresh.  A stamp is modelled by its age, up to the largest age anyone  *)
(* compares it with, so that time needs no bound.                          *)
(***************************************************************************)
EXTENDS Integers

CONSTANTS
  Quiet,        \* the quiet window, in ticks of the clock
  MaxCommits,   \* bound: commits, each with its own hook process
  MaxKills,     \* bound: runners that are killed
  MaxOps,       \* bound: hook install and hook remove calls, before the first commit
  MaxFaults,    \* bound: git config calls that fail
  None          \* no such file

ASSUME RefreshHookAssumption ==
  /\ Quiet \in Nat \ {0} /\ {MaxCommits, MaxKills, MaxOps, MaxFaults} \subseteq Nat
  /\ None \notin Nat

Commits == 1..MaxCommits
Dead  == 3 * Quiet                     \* a heartbeat of this age is a dead runner's

VARIABLES
  head,         \* the number of commits made
  seen,         \* the head at the launch of the latest refresh
  pending, scheduled,   \* the marker files: None, or the age of the stamp
  pc, local,    \* each commit's process, and the stamp it has read or its sleep
  script,       \* .githooks/post-commit: "none", "foreign", "old", "current"
  hooksPath,    \* core.hooksPath: "unset", "ours", "other"
  installer,    \* the hook command under way: [pc, said]
  excused,      \* history: commits a dead runner may have been trusted with
  death,        \* history: the time since a runner was killed
  budget        \* kills, operations and faults left

files == <<pending, scheduled>>
hooks == <<script, hooksPath, installer>>
vars  == <<head, seen, files, pc, local, hooks, excused, death, budget>>

Init ==
  /\ head = 0 /\ seen = 0 /\ pending = None /\ scheduled = None
  /\ pc = [c \in Commits |-> "none"] /\ local = [c \in Commits |-> 0]
  /\ script \in {"none", "foreign", "old"} /\ hooksPath \in {"unset", "ours", "other"}
  /\ installer = [pc |-> "idle", said |-> "nothing"]
  /\ excused = {} /\ death = Dead
  /\ budget = [kills |-> MaxKills, ops |-> MaxOps, faults |-> MaxFaults]

Older(age) == IF age = None \/ age = Dead THEN age ELSE age + 1
Spend(k) == budget[k] > 0 /\ budget' = [budget EXCEPT ![k] = @ - 1]
Go(c, from, to) == pc[c] = from /\ pc' = [pc EXCEPT ![c] = to]
Keep(c, age) == local' = [local EXCEPT ![c] = age]

\* `date > file' empties the file before it writes it; an empty or garbled
\* stamp reads as the epoch.
Epoch == Dead
Reads(file) == IF file = None THEN Epoch ELSE file

Tick ==                                \* stamps age, sleeps run out
  /\ pending' = Older(pending) /\ scheduled' = Older(scheduled) /\ death' = Older(death)
  /\ local' = [c \in Commits |->
                 CASE pc[c] = "sleep" -> IF local[c] = 0 THEN 0 ELSE local[c] - 1
                   [] pc[c] \in {"judge", "quiet"} -> Older(local[c])
                   [] OTHER -> local[c]]
  /\ UNCHANGED <<head, seen, pc, hooks, excused, budget>>

(***************************************************************************)
(* hook install and hook remove.                                           *)
(***************************************************************************)
Says(what) == installer' = [pc |-> "idle", said |-> what]

Install ==                             \* the refusals, and what needs no change
  /\ head = 0 /\ installer.pc = "idle" /\ Spend("ops")
  /\ \E localHooks \in BOOLEAN :
       IF script = "foreign" \/ hooksPath = "other" \/ (localHooks /\ hooksPath # "ours")
       THEN Says("refused")
       ELSE IF script = "current" THEN Says("installed")
       ELSE installer' = [pc |-> "write", said |-> "nothing"]
  /\ UNCHANGED <<head, seen, files, pc, local, script, hooksPath, excused, death>>

WriteScript ==
  /\ installer.pc = "write" /\ script' = "current"
  /\ installer' = [installer EXCEPT !.pc = "config"]
  /\ UNCHANGED <<head, seen, files, pc, local, hooksPath, excused, death, budget>>

SetPath ==
  /\ installer.pc = "config"
  /\ \/ Says("installed") /\ hooksPath' = "ours" /\ UNCHANGED budget
     \/ Says("failed") /\ hooksPath # "ours" /\ Spend("faults") /\ UNCHANGED hooksPath
  /\ UNCHANGED <<head, seen, files, pc, local, script, excused, death>>

Remove ==
  /\ head = 0 /\ installer.pc = "idle" /\ Spend("ops") /\ Says("removed")
  /\ script' = IF script \in {"old", "current"} THEN "none" ELSE script
  /\ \/ hooksPath' = IF hooksPath = "ours" THEN "unset" ELSE hooksPath
     \/ UNCHANGED hooksPath            \* a failed unset is a warning
  /\ UNCHANGED <<head, seen, files, pc, local, excused, death>>

(***************************************************************************)
(* The script, command by command.                                         *)
(***************************************************************************)
Active == script \in {"old", "current"} /\ hooksPath = "ours"

Commit(c) ==                           \* an old script refreshes at every commit
  /\ c = head + 1 /\ head' = c
  /\ pc' = [pc EXCEPT ![c] = IF ~Active THEN "off" ELSE IF script = "old" THEN "launch" ELSE "empty"]
  /\ UNCHANGED <<seen, files, local, hooks, excused, death, budget>>

Stamp(c, file) == pending' = (IF file = "pending" THEN 0 ELSE pending)
                  /\ scheduled' = (IF file = "scheduled" THEN 0 ELSE scheduled)

EmptyPending(c) ==
  /\ Go(c, "empty", "stamp") /\ pending' = Epoch
  /\ UNCHANGED <<head, seen, scheduled, local, hooks, excused, death, budget>>
StampPending(c) ==
  /\ Go(c, "stamp", "test") /\ Stamp(c, "pending")
  /\ UNCHANGED <<head, seen, local, hooks, excused, death, budget>>

\* Mutant: whoever is scheduled is taken to be alive.
TestTrusts(c) ==
  /\ Go(c, "test", IF scheduled = None THEN "mark" ELSE "exit") /\ UNCHANGED local
  /\ UNCHANGED <<head, seen, files, hooks, excused, death, budget>>

TestScheduled(c) ==
  /\ Go(c, "test", IF scheduled = None THEN "mark" ELSE "judge")
  /\ Keep(c, IF scheduled = None THEN 0 ELSE scheduled)
  /\ UNCHANGED <<head, seen, files, hooks, excused, death, budget>>

Judge(c) ==                            \* a young heartbeat: leave it to the runner
  /\ Go(c, "judge", IF local[c] < Dead THEN "exit" ELSE "mark")
  /\ excused' = IF local[c] < Dead /\ death < Dead THEN excused \cup {c} ELSE excused
  /\ Keep(c, 0)
  /\ UNCHANGED <<head, seen, files, hooks, death, budget>>

Schedule(c) ==                         \* the hook's last act: a runner is left behind
  \/ Go(c, "mark", "spawn") /\ scheduled' = Epoch
     /\ UNCHANGED <<head, seen, pending, local, hooks, excused, death, budget>>
  \/ Go(c, "spawn", "sleep") /\ Stamp(c, "scheduled") /\ Keep(c, Quiet)
     /\ UNCHANGED <<head, seen, hooks, excused, death, budget>>

Beat(c) ==
  \/ Go(c, "sleep", "beat") /\ local[c] = 0 /\ scheduled' = Epoch
     /\ UNCHANGED <<head, seen, pending, local, hooks, excused, death, budget>>
  \/ Go(c, "beat", "last") /\ Stamp(c, "scheduled")
     /\ UNCHANGED <<head, seen, local, hooks, excused, death, budget>>

ReadPending(c) ==
  /\ Go(c, "last", "quiet") /\ Keep(c, Reads(pending))
  /\ UNCHANGED <<head, seen, files, hooks, excused, death, budget>>

QuietYet(c) ==
  /\ IF local[c] >= Quiet THEN Go(c, "quiet", "clear") /\ Keep(c, 0)
     ELSE Go(c, "quiet", "sleep") /\ Keep(c, Quiet)
  /\ UNCHANGED <<head, seen, files, hooks, excused, death, budget>>

Clear(c) ==
  \/ Go(c, "clear", "clear2") /\ scheduled' = None
     /\ UNCHANGED <<head, seen, pending, local, hooks, excused, death, budget>>
  \/ Go(c, "clear2", "launch") /\ pending' = None
     /\ UNCHANGED <<head, seen, scheduled, local, hooks, excused, death, budget>>

Launch(c) ==                           \* nohup: what follows is refresh_run's
  /\ Go(c, "launch", "end") /\ seen' = head
  /\ UNCHANGED <<head, files, local, hooks, excused, death, budget>>

Running == {"sleep", "beat", "last", "quiet", "clear", "clear2", "launch"}

Kill(c) ==                             \* a logout, a reboot
  /\ pc[c] \in Running /\ Spend("kills") /\ pc' = [pc EXCEPT ![c] = "dead"] /\ Keep(c, 0)
  /\ death' = 0 /\ excused' = excused \cup (seen + 1)..head
  /\ UNCHANGED <<head, seen, files, hooks>>

Hook(c) == EmptyPending(c) \/ StampPending(c) \/ TestScheduled(c) \/ Judge(c) \/ Schedule(c)
Runner(c) == Beat(c) \/ ReadPending(c) \/ QuietYet(c) \/ Clear(c) \/ Launch(c)

Next ==
  \/ Tick \/ Install \/ WriteScript \/ SetPath \/ Remove
  \/ \E c \in Commits : Commit(c) \/ Hook(c) \/ Runner(c) \/ Kill(c)

(* Time passes, and the shells that are running go on. *)
Fairness == WF_vars(Tick) /\ \A c \in Commits : WF_vars(Hook(c)) /\ WF_vars(Runner(c))

Spec == Init /\ [][Next]_vars /\ Fairness

-----------------------------------------------------------------------------
(* Every commit that ran the hook is followed by a refresh launched after  *)
(* it, whatever the overlap of hooks and runners over the two files;       *)
(* except one made while, or less than three quiet windows after, a runner *)
(* was killed (the script of hook_install).                                *)
TailRefreshed ==
  \A c \in Commits :
    (pc[c] \notin {"none", "off"}) ~> (seen >= c \/ c \in excused)
=============================================================================
