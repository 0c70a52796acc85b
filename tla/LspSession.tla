----------------------------- MODULE LspSession -----------------------------
(***************************************************************************)
(* One language-server session of the bridge: callers that send a request  *)
(* or a notification, callers that shut the session down, the writer and   *)
(* the reader thread of the transport, and the backend process, external,  *)
(* which answers, asks, hangs or exits as it likes                         *)
(* (crates/code-reality-lsp-bridge, session.rs and transport.rs).  What    *)
(* the documents hold is the business of LspDocs; here a frame is its kind *)
(* and its sender.  A deadline may pass at any moment of a wait: the code  *)
(* compares clocks at every turn of a loop, and no property depends on how *)
(* long it waits, so each wait has a failing action that is always enabled.*)
(***************************************************************************)
EXTENDS Integers, Sequences, SequencesExt

CONSTANTS
  Callers,      \* threads that call once each
  Notifiers,    \* those of them that call notify, the others request
  Shutters,     \* threads calling shutdown
  QueueCap,     \* frames the writer's channel holds (8 in transport.rs)
  PipeCap,      \* messages each pipe to or from the backend holds
  MaxAsks,      \* bound: requests the backend sends to the bridge
  NoOne         \* no thread

ASSUME SessionAssumption ==
  /\ QueueCap \in Nat \ {0} /\ PipeCap \in Nat \ {0} /\ MaxAsks \in Nat
  /\ NoOne \notin Callers \cup Shutters \cup {"reader"}
  /\ "reader" \notin Callers \cup Shutters
  /\ Callers \cap Shutters = {} /\ Notifiers \subseteq Callers
ASSUME SessionSentinelAssumption ==
  NoOne \notin [id : Nat, who : Callers \cup Shutters] \cup [id : Nat, ok : BOOLEAN]

VARIABLES
  dead,         \* the session is over: set once, read by everyone
  interaction,  \* who holds the interaction lock
  slotLock,     \* who holds the backend slot's lock across a cleanup
  slot,         \* the slot holds the transport
  child,        \* "none", "alive", "exited" (not waited for), "reaped"
  queue,        \* the writer's channel
  writer,       \* "none", "idle", "busy", "gone"
  writing,      \* the frame the writer is busy with, or NoOne
  reader,       \* "none", "read", "post", "ack", "leave", "orphan", "gone"
  acks,         \* the writer's answers: sender -> "none", "ok", "failed"
  stdin,        \* frames the backend has not read
  stdout,       \* messages the reader has not read
  owed,         \* ids the backend may still answer
  asks,         \* requests the backend has sent
  nextId,       \* the next request id
  pending,      \* the one request waiting: [id, who], or NoOne
  box,          \* the answer in a caller's channel: [id, ok], or NoOne
  greeted,      \* server_info is set: the handshake is over
  pc, what,     \* each thread's place, and what it calls for
  stage,        \* the frame it is about: the handshake comes first
  asked,        \* the id of the thread's request
  res           \* "none", "ok", "err": how its call returned

transport == <<child, queue, writer, writing, reader, acks, stdin, stdout, owed, asks>>
shared == <<dead, interaction, slotLock, slot, nextId, pending, box, greeted>>
own == <<pc, what, stage, asked, res>>
callers == <<interaction, slotLock, slot, nextId, pending, box, greeted, what, stage, asked, res>>
vars == <<transport, shared, own>>

Threads == Callers \cup Shutters
Frame(k, p, i) == [kind |-> k, from |-> p, id |-> i]
Answered == {"initialize", "request", "shutdown"}   \* kinds sent by request_locked

Init ==
  /\ dead = FALSE /\ interaction = NoOne /\ slotLock = NoOne /\ slot = FALSE
  /\ child = "none" /\ queue = <<>> /\ writer = "none" /\ writing = NoOne /\ reader = "none"
  /\ acks = [p \in Threads \cup {"reader"} |-> "none"]
  /\ stdin = <<>> /\ stdout = <<>> /\ owed = {} /\ asks = 0
  /\ nextId = 1 /\ pending = NoOne /\ box = [p \in Threads |-> NoOne]
  /\ greeted = FALSE
  /\ pc = [p \in Threads |-> "idle"]
  /\ what = [p \in Threads |-> IF p \in Shutters THEN "shutdown"
                                ELSE IF p \in Notifiers THEN "notify" ELSE "request"]
  /\ stage = what
  /\ asked = [p \in Threads |-> 0]
  /\ res = [p \in Threads |-> "none"]

Goto(p, l) == pc' = [pc EXCEPT ![p] = l]
Returns(p, r) ==                       \* the guard and the locals drop here
  /\ Goto(p, "done") /\ res' = [res EXCEPT ![p] = r]
  /\ stage' = [stage EXCEPT ![p] = what[p]] /\ asked' = [asked EXCEPT ![p] = 0]
  /\ box' = [box EXCEPT ![p] = NoOne] /\ acks' = [acks EXCEPT ![p] = "none"]
  /\ interaction' = IF interaction = p THEN NoOne ELSE interaction

(***************************************************************************)
(* terminate: mark the session dead, then stop the transport while holding *)
(* the slot's lock, then forget the pending request.                       *)
(***************************************************************************)
Reap ==                                \* killed and waited for: its pipes close
  child' = "reaped" /\ stdin' = <<>> /\ stdout' = <<>> /\ owed' = {}
Dies(p) == dead' = TRUE /\ Goto(p, "take")
Terminates(p) == Dies(p) /\ UNCHANGED <<transport, callers>>

\* Mutant: the slot's lock is released before the cleanup.
TakeUnlocks(p) ==
  /\ pc[p] = "take" /\ slotLock = NoOne /\ slot
  /\ slot' = FALSE /\ Reap /\ Goto(p, "join")
  /\ UNCHANGED <<slotLock, dead, interaction, queue, writer, writing, reader, acks, asks,
                 nextId, pending, box, greeted, what, stage, asked, res>>

TakeSlot(p) ==
  /\ pc[p] = "take" /\ slotLock = NoOne /\ slot
  /\ slot' = FALSE /\ slotLock' = p /\ Reap /\ Goto(p, "join")
  /\ UNCHANGED <<dead, interaction, queue, writer, writing, reader, acks, asks,
                 nextId, pending, box, greeted, what, stage, asked, res>>

Ended(p) ==                            \* nothing to stop, or both threads joined
  /\ \/ pc[p] = "take" /\ slotLock = NoOne /\ ~slot
     \/ pc[p] = "join" /\ writer = "gone" /\ reader = "gone"
  /\ slotLock' = NoOne /\ pending' = NoOne
  /\ Returns(p, IF p \in Shutters THEN "ok" ELSE "err")
  /\ UNCHANGED <<child, queue, writer, writing, reader, stdin, stdout, owed, asks, dead, slot, nextId, greeted, what>>

(***************************************************************************)
(* A call: the interaction lock, the lazy spawn, the handshake, the frame. *)
(***************************************************************************)
Begin(p) ==
  /\ pc[p] = "idle" /\ p \in Callers
  /\ Goto(p, "lock")
  /\ UNCHANGED <<transport, shared, what, stage, asked, res>>

BeginShutdown(p) ==
  /\ pc[p] = "idle" /\ p \in Shutters /\ slotLock = NoOne
  /\ IF slot /\ ~dead THEN Goto(p, "lock") /\ UNCHANGED <<transport, dead, callers>> ELSE Terminates(p)

(* The wait for the lock ends: the session is dead or time is up. *)
LockFails(p) == pc[p] = "lock" /\ Terminates(p)

Lock(p) ==
  /\ pc[p] = "lock" /\ ~dead /\ interaction = NoOne
  /\ interaction' = p
  /\ Goto(p, IF p \in Shutters THEN "send" ELSE "spawn")
  /\ UNCHANGED <<transport, dead, slotLock, slot, nextId, pending, box, greeted, what, stage, asked, res>>

AlreadySpawned(p) ==
  /\ pc[p] = "spawn" /\ ~dead /\ slotLock = NoOne /\ slot
  /\ Goto(p, "send")
  /\ UNCHANGED <<transport, shared, what, stage, asked, res>>

SpawnSeesDead(p) == pc[p] = "spawn" /\ dead /\ Terminates(p)

SpawnFails(p) ==                       \* the backend command does not start
  /\ pc[p] = "spawn" /\ ~dead /\ slotLock = NoOne /\ ~slot
  /\ Returns(p, "err")
  /\ UNCHANGED <<child, queue, writer, writing, reader, stdin, stdout, owed, asks,
                 dead, slotLock, slot, nextId, pending, greeted, what>>

Spawn(p) ==                            \* Transport::start: both threads run
  /\ pc[p] = "spawn" /\ ~dead /\ slotLock = NoOne /\ ~slot
  /\ child' = "alive" /\ writer' = "idle" /\ reader' = "read"
  /\ Goto(p, "store")
  /\ UNCHANGED <<queue, writing, acks, stdin, stdout, owed, asks, shared, what, stage, asked, res>>

Store(p) ==
  /\ pc[p] = "store" /\ slotLock = NoOne /\ ~dead
  /\ slot' = TRUE /\ Goto(p, "send") /\ stage' = [stage EXCEPT ![p] = "initialize"]
  /\ UNCHANGED <<transport, dead, interaction, slotLock, nextId, pending, box, greeted, what, asked, res>>

Discard(p) ==                          \* the session died during the spawn
  /\ pc[p] = "store" /\ slotLock = NoOne /\ dead
  /\ slotLock' = p /\ Reap /\ Goto(p, "discard")
  /\ UNCHANGED <<queue, writer, writing, reader, acks, asks, dead, interaction,
                 slot, nextId, pending, box, greeted, what, stage, asked, res>>

Discarded(p) ==
  /\ pc[p] = "discard" /\ writer = "gone" /\ reader = "gone"
  /\ slotLock' = NoOne /\ Returns(p, "err")
  /\ UNCHANGED <<child, queue, writer, writing, reader, stdin, stdout, owed, asks,
                 dead, slot, nextId, pending, greeted, what>>

(***************************************************************************)
(* request_locked and send_until: an id and the pending slot, the frame to *)
(* the writer, its acknowledgement, and for a request the answer.  Every   *)
(* failure but an error answer ends the session.                           *)
(***************************************************************************)
Send(p) ==
  /\ pc[p] = "send" /\ ~dead /\ slotLock = NoOne /\ slot
  /\ IF stage[p] \in Answered
     THEN /\ asked' = [asked EXCEPT ![p] = nextId] /\ nextId' = nextId + 1
          /\ pending' = [id |-> nextId, who |-> p]
          /\ box' = [box EXCEPT ![p] = NoOne]
     ELSE UNCHANGED <<asked, nextId, pending, box>>
  /\ Goto(p, "post") /\ acks' = [acks EXCEPT ![p] = "none"]
  /\ UNCHANGED <<child, queue, writer, writing, reader, stdin, stdout, owed, asks,
                 dead, interaction, slotLock, slot, greeted, what, stage, res>>

Post(p) ==
  /\ pc[p] = "post" /\ ~dead /\ writer # "gone" /\ Len(queue) < QueueCap
  /\ queue' = Append(queue, Frame(stage[p], p, asked[p]))
  /\ Goto(p, "ack")
  /\ UNCHANGED <<child, writer, writing, reader, acks, stdin, stdout, owed, asks, shared, what, stage, asked, res>>

SendFails(p) ==                        \* dead, slot emptied, or out of time
  /\ \/ pc[p] = "send" /\ (dead \/ (slotLock = NoOne /\ ~slot))
     \/ pc[p] \in {"post", "ack"}
  /\ Terminates(p)

(* The frame is delivered: a request waits, a notification is over. *)
Delivered(p) ==
  /\ pc[p] = "ack" /\ ~dead /\ acks[p] = "ok"
  /\ CASE stage[p] \in Answered ->
            /\ Goto(p, "await") /\ UNCHANGED <<stage, greeted, res, interaction, asked, box, acks>>
       [] stage[p] = "initialized" ->
            /\ greeted' = TRUE /\ stage' = [stage EXCEPT ![p] = what[p]]
            /\ Goto(p, "send")
            /\ UNCHANGED <<res, interaction, asked, box, acks>>
       [] stage[p] = "notify" ->
            /\ Returns(p, "ok") /\ UNCHANGED greeted
       [] stage[p] = "exit" ->
            /\ Goto(p, "poll") /\ interaction' = NoOne
            /\ UNCHANGED <<stage, greeted, res, asked, box, acks>>
  /\ UNCHANGED <<child, queue, writer, writing, reader, stdin, stdout, owed, asks,
                 dead, slotLock, slot, nextId, pending, what>>

\* Mutant: the session is not checked after the answer.
ReceiveDead(p) ==
  /\ pc[p] = "await" /\ box[p] # NoOne
  /\ LET Next1(k) == /\ Goto(p, "send") /\ stage' = [stage EXCEPT ![p] = k]
                     /\ UNCHANGED <<dead, res, interaction, asked, box, acks>>
     IN CASE stage[p] = "initialize" /\ box[p].ok -> Next1("initialized")
          [] stage[p] = "initialize" /\ ~box[p].ok ->
               Dies(p) /\ UNCHANGED <<stage, res, interaction, asked, box, acks>>
          [] stage[p] = "shutdown" -> Next1("exit")
          [] stage[p] = "request" ->
               Returns(p, IF box[p].ok THEN "ok" ELSE "err") /\ UNCHANGED dead
  /\ UNCHANGED <<child, queue, writer, writing, reader, stdin, stdout, owed, asks,
                 slotLock, slot, nextId, pending, greeted, what>>

(* The answer is in the channel and the session still lives. *)
Receive(p) ==
  /\ pc[p] = "await" /\ ~dead /\ box[p] # NoOne
  /\ LET Next1(k) == /\ Goto(p, "send") /\ stage' = [stage EXCEPT ![p] = k]
                     /\ UNCHANGED <<dead, res, interaction, asked, box, acks>>
     IN CASE stage[p] = "initialize" /\ box[p].ok -> Next1("initialized")
          [] stage[p] = "initialize" /\ ~box[p].ok ->
               Dies(p) /\ UNCHANGED <<stage, res, interaction, asked, box, acks>>
          [] stage[p] = "shutdown" -> Next1("exit")
          [] stage[p] = "request" ->
               Returns(p, IF box[p].ok THEN "ok" ELSE "err") /\ UNCHANGED dead
  /\ UNCHANGED <<child, queue, writer, writing, reader, stdin, stdout, owed, asks,
                 slotLock, slot, nextId, pending, greeted, what>>

\* Mutant: the wait for the answer has no deadline.
AwaitForEver(p) == pc[p] = "await" /\ dead /\ Terminates(p)

AwaitFails(p) == pc[p] = "await" /\ Terminates(p)   \* dead, late, or channel closed

(* shutdown polls until the backend exits, then terminates all the same. *)
Poll(p) == pc[p] = "poll" /\ Terminates(p)

Thread(p) ==
  \/ TakeSlot(p) \/ Ended(p)
  \/ LockFails(p) \/ Lock(p)
  \/ AlreadySpawned(p) \/ SpawnSeesDead(p) \/ SpawnFails(p) \/ Spawn(p)
  \/ Store(p) \/ Discard(p) \/ Discarded(p)
  \/ Send(p) \/ Post(p) \/ SendFails(p)
  \/ Delivered(p) \/ Receive(p) \/ AwaitFails(p) \/ Poll(p)

(***************************************************************************)
(* The transport's threads.                                                *)
(***************************************************************************)
WriterTakes ==
  /\ writer = "idle" /\ ~dead /\ queue # <<>>
  /\ writer' = "busy" /\ writing' = Head(queue) /\ queue' = Tail(queue)
  /\ UNCHANGED <<child, reader, acks, stdin, stdout, owed, asks, shared, own>>

WriterWrites ==
  /\ writer = "busy" /\ ~dead
  /\ child = "alive" /\ Len(stdin) < PipeCap
  /\ stdin' = Append(stdin, writing)
  /\ acks' = [acks EXCEPT ![writing.from] = "ok"]
  /\ writer' = "idle" /\ writing' = NoOne
  /\ UNCHANGED <<child, queue, reader, stdout, owed, asks, shared, own>>

WriterFails ==                         \* session over, frame too late, broken pipe
  /\ writer = "busy"
  /\ acks' = [acks EXCEPT ![writing.from] = "failed"]
  /\ writer' = "gone" /\ writing' = NoOne /\ queue' = <<>> /\ dead' = TRUE
  /\ UNCHANGED <<child, reader, stdin, stdout, owed, asks,
                 interaction, slotLock, slot, nextId, pending, box, greeted, own>>

WriterStops ==
  /\ writer = "idle" /\ dead
  /\ writer' = "gone" /\ queue' = <<>>
  /\ UNCHANGED <<child, writing, reader, acks, stdin, stdout, owed, asks, shared, own>>

\* Mutant: whatever answer comes is the pending request's.
ReaderTrusts ==
  /\ reader = "read" /\ ~dead /\ stdout # <<>>
  /\ stdout' = Tail(stdout)
  /\ LET m == Head(stdout) IN
     IF m.kind = "ask"
     THEN /\ reader' = "post"
          /\ acks' = [acks EXCEPT !["reader"] = "none"]
          /\ UNCHANGED <<pending, box>>
     ELSE /\ IF pending # NoOne
             THEN /\ box' = [box EXCEPT ![pending.who] = [id |-> m.id, ok |-> m.ok]]
                  /\ pending' = NoOne
             ELSE UNCHANGED <<pending, box>>
          /\ UNCHANGED <<reader, acks>>
  /\ UNCHANGED <<child, queue, writer, writing, stdin, owed, asks, dead, interaction, slotLock, slot,
                 nextId, greeted, own>>

(* A message of the backend: an answer counts if its id is the pending one. *)
ReaderReads ==
  /\ reader = "read" /\ ~dead /\ stdout # <<>>
  /\ stdout' = Tail(stdout)
  /\ LET m == Head(stdout) IN
     IF m.kind = "ask"
     THEN /\ reader' = "post"
          /\ acks' = [acks EXCEPT !["reader"] = "none"]
          /\ UNCHANGED <<pending, box>>
     ELSE /\ IF pending # NoOne /\ pending.id = m.id
             THEN /\ box' = [box EXCEPT ![pending.who] = [id |-> m.id, ok |-> m.ok]]
                  /\ pending' = NoOne
             ELSE UNCHANGED <<pending, box>>
          /\ UNCHANGED <<reader, acks>>
  /\ UNCHANGED <<child, queue, writer, writing, stdin, owed, asks, dead, interaction, slotLock, slot,
                 nextId, greeted, own>>

ReaderPosts ==
  /\ reader = "post" /\ ~dead /\ writer # "gone" /\ Len(queue) < QueueCap
  /\ queue' = Append(queue, Frame("reply", "reader", 0))
  /\ reader' = "ack"
  /\ UNCHANGED <<child, writer, writing, acks, stdin, stdout, owed, asks, shared, own>>

ReaderAcked ==
  /\ reader = "ack" /\ ~dead /\ acks["reader"] = "ok"
  /\ reader' = "read"
  /\ UNCHANGED <<child, queue, writer, writing, acks, stdin, stdout, owed, asks, shared, own>>

ReaderEnds ==                          \* end of file, session over, or no reply sent
  /\ \/ reader = "read" /\ (dead \/ (stdout = <<>> /\ child # "alive"))
     \/ reader \in {"post", "ack"}
  /\ dead' = TRUE /\ reader' = "leave"
  /\ UNCHANGED <<child, queue, writer, writing, acks, stdin, stdout, owed, asks,
                 interaction, slotLock, slot, nextId, pending, box, greeted, own>>

ReaderFails ==                         \* the waiting request hears of the exit
  /\ reader = "leave"
  /\ box' = IF pending = NoOne THEN box
            ELSE [box EXCEPT ![pending.who] = [id |-> pending.id, ok |-> FALSE]]
  /\ pending' = NoOne /\ reader' = "orphan"
  /\ UNCHANGED <<child, queue, writer, writing, acks, stdin, stdout, owed, asks,
                 dead, interaction, slotLock, slot, nextId, greeted, own>>

ReaderReaps ==
  /\ reader = "orphan"
  /\ Reap /\ reader' = "gone"
  /\ UNCHANGED <<queue, writer, writing, acks, asks, shared, own>>

Writing == WriterTakes \/ WriterWrites \/ WriterFails \/ WriterStops
Reading == ReaderReads \/ ReaderPosts \/ ReaderAcked \/ ReaderEnds \/ ReaderFails \/ ReaderReaps

(***************************************************************************)
(* The backend, external: reads when it likes, answers any request it has  *)
(* read, twice even, in any order; asks; exits.                            *)
(***************************************************************************)
BackendReads ==
  /\ child = "alive" /\ stdin # <<>>
  /\ stdin' = Tail(stdin)
  /\ owed' = IF Head(stdin).kind \in Answered THEN owed \cup {Head(stdin).id} ELSE owed
  /\ UNCHANGED <<child, queue, writer, writing, reader, acks, stdout, asks, shared, own>>

BackendAnswers ==
  /\ child = "alive" /\ Len(stdout) < PipeCap
  /\ \E i \in owed, ok \in BOOLEAN : stdout' = Append(stdout, [kind |-> "answer", id |-> i, ok |-> ok])
  /\ UNCHANGED <<child, queue, writer, writing, reader, acks, stdin, owed, asks, shared, own>>

BackendAsks ==
  /\ child = "alive" /\ Len(stdout) < PipeCap /\ asks < MaxAsks
  /\ stdout' = Append(stdout, [kind |-> "ask", id |-> 0, ok |-> TRUE])
  /\ asks' = asks + 1
  /\ UNCHANGED <<child, queue, writer, writing, reader, acks, stdin, owed, shared, own>>

BackendExits ==
  /\ child = "alive"
  /\ child' = "exited" /\ stdin' = <<>> /\ owed' = {}
  /\ UNCHANGED <<queue, writer, writing, reader, acks, stdout, asks, shared, own>>

Next ==
  \/ \E p \in Threads : Begin(p) \/ BeginShutdown(p) \/ Thread(p)
  \/ Writing \/ Reading
  \/ BackendReads \/ BackendAnswers \/ BackendAsks \/ BackendExits
  \/ /\ \A p \in Threads : pc[p] = "done"      \* nothing left to call
     /\ UNCHANGED vars

Spec == Init /\ [][Next]_vars

(* Threads run and time passes; the backend may hang for ever. *)
FairSpec ==
  /\ Spec
  /\ \A p \in Threads : WF_vars(Thread(p))
  /\ WF_vars(Writing) /\ WF_vars(Reading)

-----------------------------------------------------------------------------
(* Every variable keeps its shape: the type invariant of the module. *)
SessionTypeOK ==
  /\ dead \in BOOLEAN /\ slot \in BOOLEAN /\ greeted \in BOOLEAN
  /\ interaction \in Threads \cup {NoOne} /\ slotLock \in Threads \cup {NoOne}
  /\ child \in {"none", "alive", "exited", "reaped"}
  /\ Len(queue) <= QueueCap /\ Len(stdin) <= PipeCap /\ Len(stdout) <= PipeCap
  /\ reader \in {"none", "read", "post", "ack", "leave", "orphan", "gone"}
  /\ res \in [Threads -> {"none", "ok", "err"}]

(* A caller is handed the answer to its own request: request_locked's      *)
(* pending slot is only ever overwritten when no earlier answer can land   *)
(* in it, and an answer in the channel carries the id asked for.           *)
AnswersMatch ==
  \A p \in Threads :
    /\ box[p] # NoOne => box[p].id = asked[p]
    /\ (pc[p] = "await" /\ ~dead) => (pending # NoOne /\ pending.who = p /\ pending.id = asked[p])
                                     \/ box[p] # NoOne

(* Nothing but the handshake reaches the backend before it is over: a      *)
(* caller that finds the slot filled waits for the interaction lock        *)
(* (ensure_spawned_locked runs under it).                                  *)
HandshakeFirst ==
  ~greeted =>
    \A f \in ToSet(queue) \cup ToSet(stdin) \cup ({writing} \ {NoOne}) :
      f.kind \in {"initialize", "initialized", "reply"}

(* What holds in every state of a session: the shape of its state, answers *)
(* in the hands of those who asked, and the handshake before all else.     *)
SessionInv == SessionTypeOK /\ AnswersMatch /\ HandshakeFirst

(* A call that ends after a shutdown has returned never reports success,   *)
(* whatever answer was already in its channel (check_alive comes last).    *)
NothingAfterShutdown ==
  [][(\E s \in Shutters : res[s] # "none") =>
       \A p \in Callers : res[p] = "none" => res'[p] # "ok"]_vars

(* When a shutdown has returned and no caller is in the middle of a spawn, *)
(* the backend is reaped and both transport threads have ended: cleanup is *)
(* done under the slot's lock, so a second shutdown waits for the first.   *)
ShutdownReaps ==
  (/\ \E s \in Shutters : res[s] # "none"
   /\ \A p \in Callers : pc[p] \notin {"store", "discard"})
  => /\ child \in {"none", "reaped"}
     /\ writer \in {"none", "gone"} /\ reader \in {"none", "gone"}

(* Every call returns, whatever the backend does: a full queue, a full     *)
(* pipe in both directions, an answer that never comes.  Each thread calls *)
(* once, so it is enough that no thread stays inside its call.             *)
CallsEnd == <>[](\A p \in Threads : pc[p] \in {"idle", "done"})
=============================================================================
