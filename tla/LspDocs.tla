------------------------------ MODULE LspDocs ------------------------------
(***************************************************************************)
(* The documents of one language-server session: what the bridge knows of  *)
(* each file (the overlay), which files it keeps open on the server and in *)
(* which order, what the server was told, and the diagnostics it pushes    *)
(* back, late, in order, some never.  Tool calls run concurrently.         *)
(***************************************************************************)
EXTENDS Naturals, Sequences, FiniteSets, SequencesExt

CONSTANTS
    Callers,       \* threads running check_file and edit_file
    Files,
    Cap,           \* files kept open on the server (8 in the code)
    DiagVersions,  \* the backend stamps versions on its pushes
    None,
    MaxCalls,      \* bound: tool calls
    MaxDisk,       \* bound: writes of files on disk by others
    MaxReopens,    \* bound: reopenings by checks that stall
    MaxWire        \* bound: pushes under way

ASSUME LspAssumption ==
    /\ Cap \in Nat \ {0} /\ DiagVersions \in BOOLEAN
    /\ {MaxCalls, MaxDisk, MaxReopens, MaxWire} \subseteq Nat
    /\ None \notin Callers /\ None \notin Nat /\ None \notin Files
ASSUME LspSentinelAssumption ==
    /\ None \notin [content : Nat, version : Nat, stamp : Nat, mutated : Nat]
    /\ None \notin [content : Nat, version : Nat, opened : Nat, pushed : BOOLEAN]
    /\ None \notin [version : Nat \cup {None}, content : Nat \cup {None}, opened : Nat, after : Nat]

VARIABLES
    disk,       \* file -> content on disk; (mtime, size) tells contents apart
    openFiles,  \* files open on the server, least recently used first
    overlay,    \* file -> None or [content, version, stamp, mutated]
    server,     \* file -> None or [content, version, opened, pushed]
    wire,       \* pushes the reader thread has not read yet
    diags,      \* the diagnostics cache: file -> None or a push and when it came
    lock,       \* holders of the open_files and overlay mutexes
    pc, call,   \* caller -> next step, locals
    clock,      \* file -> instants taken by its mutations so far
    made,       \* file -> contents made of it so far
    budget,     \* calls, disk writes and reopenings so far (bounds only)
    past,       \* file -> contents of its overlay so far; read by properties only
    history     \* [crossed, raced], read by properties only

vars == <<disk, openFiles, overlay, server, wire, diags, lock, pc, call, clock,
          made, budget, past, history>>

Closing == {"get", "reopen", "insert"}
Syncing == {"open", "reread", "replay", "evict"}
PC == Closing \cup Syncing \cup {"idle", "sync", "overlay", "apply", "version", "poll", "close"}

NoCall == [op |-> "none", file |-> None, text |-> None, stamp |-> None, basis |-> 0,
           version |-> 0, from |-> 0, entry |-> None, reissued |-> FALSE]

Init ==
    /\ disk = [f \in Files |-> 0] 
    /\ made = [f \in Files |-> 0] /\ clock = [f \in Files |-> 0]
    /\ openFiles = <<>> /\ overlay = [f \in Files |-> None]
    /\ server = [f \in Files |-> None] /\ wire = <<>>
    /\ diags = [f \in Files |-> None]
    /\ lock = [open |-> None, overlay |-> None]
    /\ pc = [c \in Callers |-> "idle"] /\ call = [c \in Callers |-> NoCall]
    /\ budget = [calls |-> 0, writes |-> 0, reopens |-> 0]
    /\ past = [f \in Files |-> <<>>]
    /\ history = [crossed |-> FALSE, raced |-> FALSE]

Goto(c, to) == pc' = [pc EXCEPT ![c] = to]
Set(c, j) == call' = [call EXCEPT ![c] = j]
File(c) == call[c].file
Now(f) == clock[f] + 1
Tick(f) == clock' = [clock EXCEPT ![f] = @ + 1]

\* What a call leaves alone, by the part of the session it is about.
bridgeSide == <<openFiles, overlay, past>>
serverSide == <<server, wire>>
outside == <<disk, made, budget>>

---------------------------------------------------------------------------
(* Messages to the server, in the order of the interaction lock.           *)

\* A file is being closed and reopened by another call.
Reopening(f, c) == \E d \in Callers \ {c} : pc[d] \in Closing /\ File(d) = f

\* A message about f, sent while another call is between its didClose and the
\* overlay it will write back.
Crossing(c, f) == history' = [history EXCEPT !.crossed = @ \/ Reopening(f, c)]

DidOpen(f, text) ==
    /\ server' = [server EXCEPT ![f] =
          [content |-> text, version |-> 1, opened |-> Now(f), pushed |-> FALSE]]
    /\ UNCHANGED wire

\* A change to a document the server has not open is ignored by it.
DidChange(f, v, text) ==
    /\ server' = [server EXCEPT ![f] =
          IF @ = None THEN None
          ELSE [@ EXCEPT !.content = text, !.version = v, !.pushed = FALSE]]
    /\ UNCHANGED wire

Push(f, v, text, at) == [file |-> f, version |-> v, content |-> text, opened |-> at]

\* Some backends push an empty list on close, without version or with the next.
ClosePushes(f) ==
    IF server[f] = None THEN {<<>>}
    ELSE {<<>>} \cup {<<Push(f, v, None, server[f].opened)>> :
                        v \in IF DiagVersions THEN {None, server[f].version + 1} ELSE {None}}

DidClose(f) ==
    /\ server' = [server EXCEPT ![f] = None]
    /\ \E p \in ClosePushes(f) : wire' = wire \o p

Forget(f) == diags' = [diags EXCEPT ![f] = None]

\* The overlay of f, and its contents so far.
Record(f, content, v, stamp, at) ==
    /\ overlay' = [overlay EXCEPT ![f] =
          [content |-> content, version |-> v, stamp |-> stamp, mutated |-> at]]
    /\ past' = [past EXCEPT ![f] =
          IF @ # <<>> /\ Last(@) = content THEN @ ELSE Append(@, content)]

---------------------------------------------------------------------------
(* The backend and the disk.                                               *)

\* The backend pushes what it found of a document, once for each version.
Analyze(f) ==
    /\ server[f] # None /\ ~server[f].pushed /\ Len(wire) < MaxWire
    /\ \E v \in IF DiagVersions THEN {server[f].version} ELSE {None} :
          wire' = Append(wire, Push(f, v, server[f].content, server[f].opened))
    /\ server' = [server EXCEPT ![f].pushed = TRUE]
    /\ UNCHANGED <<outside, bridgeSide, diags, lock, pc, call, clock, history>>

\* The reader thread caches the next push under its file.
Arrive ==
    /\ wire # <<>> /\ wire' = Tail(wire)
    /\ LET p == Head(wire) IN
          diags' = [diags EXCEPT ![p.file] =
              [version |-> p.version, content |-> p.content, opened |-> p.opened, after |-> clock[p.file]]]
    /\ UNCHANGED <<outside, bridgeSide, server, lock, pc, call, clock, history>>

DiskWrite(f) ==
    /\ budget.writes < MaxDisk /\ budget' = [budget EXCEPT !.writes = @ + 1]
    /\ made' = [made EXCEPT ![f] = @ + 1] /\ disk' = [disk EXCEPT ![f] = made[f] + 1]
    /\ UNCHANGED <<bridgeSide, serverSide, diags, lock, pc, call, clock, history>>

---------------------------------------------------------------------------
(* sync_open, which every tool call begins with.                           *)

Start(c, op, f) ==
    /\ pc[c] = "idle" /\ budget.calls < MaxCalls
    /\ budget' = [budget EXCEPT !.calls = @ + 1]
    /\ Goto(c, "sync") /\ Set(c, [NoCall EXCEPT !.op = op, !.file = f])
    /\ UNCHANGED <<disk, made, bridgeSide, serverSide, diags, lock, clock, history>>

\* An open file moves to the back (position, remove, push).
Touched(f) ==
    IF Contains(openFiles, f)
    THEN LET pos == CHOOSE i \in 1..Len(openFiles) : openFiles[i] = f IN
         Append(RemoveAt(openFiles, pos), f)
    ELSE openFiles

TakeOpenFiles(c) ==
    /\ pc[c] = "sync" /\ lock.open = None
    /\ lock' = [lock EXCEPT !.open = c]
    /\ openFiles' = Touched(File(c))
    /\ Goto(c, "overlay")
    /\ UNCHANGED <<outside, overlay, past, serverSide, diags, call, clock, history>>

\* With both mutexes: a file never opened is read; of an open one the stamp is
\* taken; an evicted one is replayed.
TakeOverlay(c) ==
    LET f == File(c)  e == overlay[f] IN
    /\ pc[c] = "overlay" /\ lock.overlay = None
    /\ lock' = [lock EXCEPT !.overlay = c]
    /\ \/ /\ e = None
          /\ Goto(c, "open") /\ Set(c, [call[c] EXCEPT !.text = disk[f]])
       \/ /\ e # None /\ Contains(openFiles, f) /\ disk[f] # e.stamp
          /\ Goto(c, "reread") /\ Set(c, [call[c] EXCEPT !.stamp = disk[f]])
       \/ /\ e # None /\ Contains(openFiles, f) /\ disk[f] = e.stamp
          /\ Goto(c, "evict") /\ UNCHANGED call
       \/ /\ e # None /\ ~Contains(openFiles, f)
          /\ Goto(c, "replay") /\ UNCHANGED call
    /\ UNCHANGED <<outside, bridgeSide, serverSide, diags, clock, history>>

\* What the call remembers of its own mutation.
Mutated(c) == [call[c] EXCEPT !.text = None, !.stamp = None,
                              !.basis = IF call[c].op = "check" THEN Now(File(c)) ELSE 0]

\* Never opened: the stamp is taken after the text was read.
OpenFirst(c) ==
    LET f == File(c) IN
    /\ pc[c] = "open"
    /\ DidOpen(f, call[c].text) /\ Tick(f)
    /\ Record(f, call[c].text, 1, disk[f], Now(f))
    /\ openFiles' = Append(openFiles, f)
    /\ Goto(c, "evict") /\ Set(c, Mutated(c))
    /\ history' = [history EXCEPT !.crossed = @ \/ Reopening(f, c),
                                  !.raced = @ \/ disk[f] # call[c].text]
    /\ UNCHANGED <<outside, diags, lock>>

\* Open: the stamp was taken before the text is read.
ChangeFromDisk(c) ==
    LET f == File(c)  v == overlay[f].version + 1 IN
    /\ pc[c] = "reread"
    /\ DidChange(f, v, disk[f]) /\ Tick(f)
    /\ Record(f, disk[f], v, call[c].stamp, Now(f))
    /\ Goto(c, "evict") /\ Set(c, Mutated(c))
    /\ history' = [history EXCEPT !.crossed = @ \/ Reopening(f, c),
                                  !.raced = @ \/ disk[f] # call[c].stamp]
    /\ UNCHANGED <<outside, openFiles, diags, lock>>

ReplayOf(c, text, v) ==
    LET f == File(c)  e == overlay[f] IN
    /\ pc[c] = "replay"
    /\ DidOpen(f, text) /\ Tick(f)
    /\ Record(f, text, v, e.stamp, Now(f))
    /\ openFiles' = Append(openFiles, f)
    /\ Goto(c, "evict") /\ Set(c, Mutated(c))
    /\ Crossing(c, f)
    /\ UNCHANGED <<outside, diags, lock>>

\* Mutants: an evicted file is opened again from disk; or keeps its version.
ReplayDisk(c) == ReplayOf(c, disk[File(c)], 1)
ReplayVersion(c) == ReplayOf(c, overlay[File(c)].content, overlay[File(c)].version)

\* Evicted: opened again from the overlay, at version 1.
Replay(c) == ReplayOf(c, overlay[File(c)].content, 1)

\* The least recently used files are closed, their diagnostics forgotten.
Evict(c) ==
    LET victim == Head(openFiles) IN
    /\ pc[c] = "evict" /\ Len(openFiles) > Cap
    /\ openFiles' = Tail(openFiles)
    /\ DidClose(victim) /\ Forget(victim)
    /\ Crossing(c, victim)
    /\ UNCHANGED <<outside, overlay, past, lock, pc, call, clock>>

Synced(c) ==
    /\ pc[c] = "evict" /\ Len(openFiles) <= Cap
    /\ lock' = [open |-> None, overlay |-> None]
    /\ Goto(c, IF call[c].op = "edit" THEN "apply" ELSE "version")
    /\ UNCHANGED <<outside, bridgeSide, serverSide, diags, call, clock, history>>

---------------------------------------------------------------------------
(* apply_edit, under the overlay mutex alone.                              *)

ApplyStamped(c, stamp) ==
    LET f == File(c)  e == overlay[f]  text == made[f] + 1 IN
    /\ pc[c] = "apply" /\ lock.overlay = None
    /\ made' = [made EXCEPT ![f] = text]
    /\ DidChange(f, e.version + 1, text) /\ Tick(f)
    /\ Record(f, text, e.version + 1, stamp, Now(f))
    /\ Goto(c, "idle") /\ Set(c, NoCall)
    /\ Crossing(c, f)
    /\ UNCHANGED <<disk, budget, openFiles, diags, lock>>

\* Mutant: an edit vouches for what is on disk now.
ApplyRestamps(c) == ApplyStamped(c, disk[File(c)])

ApplyEdit(c) == ApplyStamped(c, overlay[File(c)].stamp)

---------------------------------------------------------------------------
(* check_file, and force_reopen within it.                                 *)

ReadVersion(c) ==
    /\ pc[c] = "version" /\ lock.overlay = None
    /\ Goto(c, "poll")
    /\ Set(c, [call[c] EXCEPT !.version = overlay[File(c)].version, !.from = Len(past[File(c)])])
    /\ UNCHANGED <<outside, bridgeSide, serverSide, diags, lock, clock, history>>

\* The newer of this call's own mutation and the overlay's.
Basis(c) ==
    LET m == overlay[File(c)].mutated IN IF m > call[c].basis THEN m ELSE call[c].basis

\* The cached push came after the basis.
Fresh(c) == diags[File(c)] # None /\ diags[File(c)].after >= Basis(c)

\* Mutant: the version of a push is not compared.
VersionAny(c) == TRUE

VersionOK(c) ==
    DiagVersions => diags[File(c)].version # None /\ diags[File(c)].version >= call[c].version

\* The poll's answer; when the push is quiesced is a matter of time.
Converge(c) ==
    /\ pc[c] = "poll" /\ lock.overlay = None
    /\ Fresh(c) /\ VersionOK(c)
    /\ Goto(c, "idle") /\ Set(c, NoCall)
    /\ UNCHANGED <<outside, bridgeSide, serverSide, diags, lock, clock, history>>

\* Mutant: a check without a deadline.
NoDeadline(c) == FALSE

\* The deadline: what is there is returned with a warning.
Deadline(c) ==
    /\ pc[c] = "poll"
    /\ Goto(c, "idle") /\ Set(c, NoCall)
    /\ UNCHANGED <<outside, bridgeSide, serverSide, diags, lock, clock, history>>

\* Past half the deadline, once: no push, none with a version, or no new one.
Stalled(c) ==
    /\ pc[c] = "poll" /\ lock.overlay = None /\ ~call[c].reissued
    /\ budget.reopens < MaxReopens /\ budget' = [budget EXCEPT !.reopens = @ + 1]
    /\ LET e == diags[File(c)] IN
          IF e = None THEN TRUE
          ELSE IF e.version = None THEN DiagVersions ELSE ~Fresh(c)
    /\ Goto(c, "close")
    /\ UNCHANGED <<disk, made, bridgeSide, serverSide, diags, lock, call, clock, history>>

CloseAgain(c) ==
    /\ pc[c] = "close"
    /\ DidClose(File(c)) /\ Forget(File(c)) /\ Tick(File(c))
    /\ Goto(c, "get") /\ Set(c, [call[c] EXCEPT !.basis = Now(File(c))])
    /\ history' = [history EXCEPT !.crossed =
                      @ \/ Reopening(File(c), c) \/ server[File(c)] = None]
    /\ UNCHANGED <<outside, bridgeSide, lock>>

GetOverlay(c) ==
    /\ pc[c] = "get" /\ lock.overlay = None
    /\ Goto(c, "reopen") /\ Set(c, [call[c] EXCEPT !.entry = overlay[File(c)]])
    /\ UNCHANGED <<outside, bridgeSide, serverSide, diags, lock, clock, history>>

OpenAgain(c) ==
    /\ pc[c] = "reopen"
    /\ DidOpen(File(c), call[c].entry.content)
    /\ Tick(File(c))
    /\ Goto(c, "insert") /\ Crossing(c, File(c))
    /\ UNCHANGED <<outside, bridgeSide, diags, lock, call>>

InsertOverlay(c) ==
    LET e == call[c].entry IN
    /\ pc[c] = "insert" /\ lock.overlay = None
    /\ Record(File(c), e.content, 1, e.stamp, call[c].basis)
    /\ Goto(c, "poll")
    /\ Set(c, [call[c] EXCEPT !.version = 1, !.reissued = TRUE, !.entry = None])
    /\ UNCHANGED <<outside, openFiles, serverSide, diags, lock, clock, history>>

---------------------------------------------------------------------------

SyncStep(c) ==
    \/ TakeOpenFiles(c) \/ TakeOverlay(c) \/ OpenFirst(c) \/ ChangeFromDisk(c) \/ Replay(c)
    \/ Evict(c) \/ Synced(c)

ReopenStep(c) ==
    CloseAgain(c) \/ GetOverlay(c) \/ OpenAgain(c) \/ InsertOverlay(c)

CheckStep(c) == ReadVersion(c) \/ Converge(c) \/ Deadline(c) \/ Stalled(c) \/ ReopenStep(c)

Advance(c) == SyncStep(c) \/ ApplyEdit(c) \/ CheckStep(c)

Next ==
    \/ \E f \in Files : Analyze(f) \/ DiskWrite(f)
    \/ Arrive
    \/ \E c \in Callers : Advance(c)
    \/ \E c \in Callers, op \in {"edit", "check"}, f \in Files : Start(c, op, f)

Spec == Init /\ [][Next]_vars

---------------------------------------------------------------------------
(* Properties.                                                             *)

Entries == [content : Nat, version : Nat, stamp : Nat, mutated : Nat]

\* Every variable holds what the code can put in it; no file is open twice.
LspTypeOK ==
    /\ disk \in [Files -> Nat] /\ made \in [Files -> Nat] /\ clock \in [Files -> Nat]
    /\ openFiles \in Seq(Files) /\ IsInjective(openFiles)
    /\ overlay \in [Files -> Entries \cup {None}]
    /\ server \in [Files -> [content : Nat, version : Nat, opened : Nat, pushed : BOOLEAN]
                            \cup {None}]
    /\ \A i \in DOMAIN wire :
          wire[i] \in [file : Files, version : Nat \cup {None}, content : Nat \cup {None},
                       opened : Nat]
    /\ diags \in [Files -> [version : Nat \cup {None}, content : Nat \cup {None},
                            opened : Nat, after : Nat] \cup {None}]
    /\ lock \in [open : Callers \cup {None}, overlay : Callers \cup {None}]
    /\ pc \in [Callers -> PC]
    /\ call \in [Callers -> [op : {"none", "edit", "check"},
                             file : Files \cup {None}, text : Nat \cup {None},
                             stamp : Nat \cup {None}, basis : Nat, version : Nat,
                             from : Nat, entry : Entries \cup {None}, reissued : BOOLEAN]]
    /\ budget \in [calls : Nat, writes : Nat, reopens : Nat]
    /\ past \in [Files -> Seq(Nat)] /\ history \in [crossed : BOOLEAN, raced : BOOLEAN]

\* While nobody holds the overlay and nobody reopens the file, the server has
\* open what the bridge says, with the overlay's content and version, unless a
\* reopen crossed another call of the same file.
MirrorsServer ==
    lock.overlay = None /\ ~history.crossed =>
        \A f \in Files :
            (\A c \in Callers : ~(pc[c] \in Closing /\ File(c) = f)) =>
                /\ server[f] # None <=> Contains(openFiles, f)
                /\ server[f] # None =>
                      /\ server[f].content = overlay[f].content
                      /\ server[f].version = overlay[f].version

\* What holds in every state of the document protocol: the shape of the state and
\* the agreement of the open list, the overlays and the server.
DocsInv == LspTypeOK /\ MirrorsServer

\* The stamp of an overlay vouches only for disk content that was sent, unless
\* the disk was written between a stamp and its read.
StampVouches ==
    ~history.raced =>
        \A f \in Files : overlay[f] # None => Contains(past[f], overlay[f].stamp)

\* A content that an edit or a disk write replaced never comes back.
NeverRolledBack == \A f \in Files : IsInjective(past[f])

\* Nor does it when no reopen crossed another call and no disk write a read,
\* whatever is evicted and opened again.
EditsSurvive == ~history.crossed /\ ~history.raced => NeverRolledBack

\* What a check reports as converged was found of a content the file had during
\* the check, but for a push of an earlier opening that came late, and unless a
\* reopen crossed another call.
CheckedIsRecent ==
    [][\A c \in Callers : DiagVersions /\ ~history.crossed /\ Converge(c) =>
          LET f == File(c) IN
          server[f] # None /\ diags[f].opened = server[f].opened =>
              \E i \in call[c].from..Len(past[f]) : past[f][i] = diags[f].content]_vars

\* The calls never all wait: as long as one runs, one of them can go on without
\* the backend, the disk or a new call.
CallsGoOn ==
    (\E c \in Callers : pc[c] # "idle") => \E c \in Callers : ENABLED Advance(c)

=============================================================================
