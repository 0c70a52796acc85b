--------------------------- MODULE LspSession_proof ---------------------------
(***************************************************************************)
(* Proofs about LspSession, for any callers, shutdowns, queues and pipes:  *)
(* answers in the hands of those who asked, the handshake before all else, *)
(* nothing left running and no success reported after a shutdown.          *)
(***************************************************************************)
EXTENDS LspSession, TLAPS

Stages == {"initialize", "initialized", "request", "notify", "shutdown", "exit"}
Frames == [kind : Stages \cup {"reply"}, from : Threads \cup {"reader"}, id : Nat]
Messages == [kind : {"answer", "ask"}, id : Nat, ok : BOOLEAN]
Requests == [id : Nat, who : Threads]
Answers == [id : Nat, ok : BOOLEAN]
Places == {"idle", "lock", "spawn", "store", "discard", "send", "post", "ack", "await",
           "poll", "take", "join", "done"}

\* Every variable holds what the code can put in it.
SessionTypes ==
  /\ dead \in BOOLEAN /\ slot \in BOOLEAN /\ greeted \in BOOLEAN
  /\ interaction \in Threads \cup {NoOne} /\ slotLock \in Threads \cup {NoOne}
  /\ child \in {"none", "alive", "exited", "reaped"}
  /\ queue \in Seq(Frames) /\ Len(queue) <= QueueCap
  /\ stdin \in Seq(Frames) /\ Len(stdin) <= PipeCap
  /\ stdout \in Seq(Messages) /\ Len(stdout) <= PipeCap
  /\ writer \in {"none", "idle", "busy", "gone"}
  /\ writing \in Frames \cup {NoOne} /\ (writer = "busy" => writing \in Frames)
  /\ reader \in {"none", "read", "post", "ack", "leave", "orphan", "gone"}
  /\ acks \in [Threads \cup {"reader"} -> {"none", "ok", "failed"}]
  /\ owed \in SUBSET Nat /\ asks \in Nat /\ nextId \in Nat
  /\ pending \in Requests \cup {NoOne} /\ box \in [Threads -> Answers \cup {NoOne}]
  /\ pc \in [Threads -> Places]
  /\ what \in [Threads -> {"request", "notify", "shutdown"}] /\ stage \in [Threads -> Stages]
  /\ asked \in [Threads -> Nat] /\ res \in [Threads -> {"none", "ok", "err"}]
  /\ \A p \in Threads : pc[p] = "await" => stage[p] \in Answered

LEMMA SeqFacts ==
  ASSUME NEW S, NEW s \in Seq(S)
  PROVE  /\ \A e \in S : /\ Append(s, e) \in Seq(S) /\ Len(Append(s, e)) = Len(s) + 1
                         /\ ToSet(Append(s, e)) = ToSet(s) \cup {e}
         /\ s # <<>> => /\ Head(s) \in S /\ Head(s) \in ToSet(s)
                        /\ Tail(s) \in Seq(S) /\ Len(Tail(s)) <= Len(s)
                        /\ ToSet(Tail(s)) \subseteq ToSet(s)
         /\ Len(s) \in Nat /\ <<>> \in Seq(S) /\ Len(<<>>) = 0 /\ ToSet(<<>>) = {}
<1>1. ASSUME NEW e \in S PROVE ToSet(Append(s, e)) = ToSet(s) \cup {e}
  <2>1. DOMAIN Append(s, e) = 1..(Len(s) + 1) /\ DOMAIN s = 1..Len(s) /\ Len(s) \in Nat
    OBVIOUS
  <2>2. \A i \in 1..Len(s) : Append(s, e)[i] = s[i]
    OBVIOUS
  <2>3. Append(s, e)[Len(s) + 1] = e
    OBVIOUS
  <2>4. ToSet(Append(s, e)) \subseteq ToSet(s) \cup {e}
    BY <2>1, <2>2, <2>3 DEF ToSet
  <2>5. ToSet(s) \cup {e} \subseteq ToSet(Append(s, e))
    BY <2>1, <2>2, <2>3 DEF ToSet
  <2> QED
    BY <2>4, <2>5
<1>2. ASSUME s # <<>>
      PROVE  /\ Head(s) \in S /\ Head(s) \in ToSet(s) /\ Tail(s) \in Seq(S)
             /\ Len(Tail(s)) <= Len(s) /\ ToSet(Tail(s)) \subseteq ToSet(s)
  <2>1. Len(s) \in Nat /\ Len(s) > 0 /\ DOMAIN s = 1..Len(s)
    BY <1>2
  <2>2. Head(s) = s[1] /\ 1 \in DOMAIN s /\ s[1] \in S
    BY <2>1
  <2>3. Tail(s) \in Seq(S) /\ Len(Tail(s)) = Len(s) - 1 /\ DOMAIN Tail(s) = 1..(Len(s) - 1)
    BY <1>2, <2>1
  <2>4. \A i \in 1..(Len(s) - 1) : Tail(s)[i] = s[i + 1] /\ i + 1 \in DOMAIN s
    BY <1>2, <2>1
  <2>5. ToSet(Tail(s)) \subseteq ToSet(s)
    BY <2>3, <2>4 DEF ToSet
  <2> QED
    BY <2>1, <2>2, <2>3, <2>5 DEF ToSet
<1>3. ToSet(<<>>) = {}
  BY DEF ToSet
<1> QED
  BY <1>1, <1>2, <1>3

\* A delivered frame and a received answer, case by case.
LEMMA DeliveredCases ==
  ASSUME SessionTypes, NEW p \in Threads, Delivered(p)
  PROVE  /\ pc[p] = "ack" /\ ~dead /\ acks[p] = "ok"
         /\ UNCHANGED <<child, queue, writer, writing, reader, stdin, stdout, owed, asks,
                        dead, slotLock, slot, nextId, pending, what>>
         /\ \/ /\ stage[p] \in Answered /\ Goto(p, "await")
               /\ UNCHANGED <<stage, greeted, res, interaction, asked, box, acks>>
            \/ /\ stage[p] = "initialized" /\ greeted' = TRUE /\ Goto(p, "send")
               /\ stage' = [stage EXCEPT ![p] = what[p]]
               /\ UNCHANGED <<res, interaction, asked, box, acks>>
            \/ stage[p] = "notify" /\ Returns(p, "ok") /\ UNCHANGED greeted
            \/ /\ stage[p] = "exit" /\ Goto(p, "poll") /\ interaction' = NoOne
               /\ UNCHANGED <<stage, greeted, res, asked, box, acks>>
<1>1. stage[p] \in Stages
  BY DEF SessionTypes
<1>2. CASE stage[p] \in Answered
  BY <1>2 DEF Delivered
<1>3. CASE stage[p] = "initialized"
  BY <1>3 DEF Delivered, Answered
<1>4. CASE stage[p] = "notify"
  BY <1>4 DEF Delivered, Answered
<1>5. CASE stage[p] = "exit"
  BY <1>5 DEF Delivered, Answered
<1> QED
  BY <1>1, <1>2, <1>3, <1>4, <1>5 DEF Stages, Answered

LEMMA ReceiveCases ==
  ASSUME SessionTypes, NEW p \in Threads, Receive(p)
  PROVE  /\ pc[p] = "await" /\ ~dead /\ box[p] # NoOne
         /\ UNCHANGED <<child, queue, writer, writing, reader, stdin, stdout, owed, asks,
                        slotLock, slot, nextId, pending, greeted, what>>
         /\ \/ /\ stage[p] \in {"initialize", "shutdown"} /\ Goto(p, "send")
               /\ stage' = [stage EXCEPT ![p] = IF stage[p] = "shutdown" THEN "exit" ELSE "initialized"]
               /\ UNCHANGED <<dead, res, interaction, asked, box, acks>>
            \/ /\ stage[p] = "initialize" /\ Dies(p)
               /\ UNCHANGED <<stage, res, interaction, asked, box, acks>>
            \/ /\ stage[p] = "request" /\ UNCHANGED dead
               /\ \E r \in {"ok", "err"} : Returns(p, r)
<1>0. pc[p] = "await" /\ stage[p] \in Answered
  BY DEF Receive, SessionTypes
<1>1. CASE stage[p] = "initialize"
  BY <1>1 DEF Receive
<1>2. CASE stage[p] = "shutdown"
  BY <1>2 DEF Receive
<1>3. CASE stage[p] = "request"
  BY <1>3 DEF Receive
<1> QED
  BY <1>0, <1>1, <1>2, <1>3 DEF Answered

\* What a thread's own step writes of the types.
OwnTypes ==
  /\ pc' \in [Threads -> Places] /\ res' \in [Threads -> {"none", "ok", "err"}]
  /\ stage' \in [Threads -> Stages] /\ asked' \in [Threads -> Nat]
  /\ box' \in [Threads -> Answers \cup {NoOne}]
  /\ acks' \in [Threads \cup {"reader"} -> {"none", "ok", "failed"}]
  /\ interaction' \in Threads \cup {NoOne}
  /\ \A p \in Threads : pc'[p] = "await" => stage'[p] \in Answered

LEMMA ReturnsTyped ==
  ASSUME SessionTypes, NEW p \in Threads, NEW r \in {"ok", "err"}, Returns(p, r)
  PROVE  OwnTypes
<1>1. /\ pc' \in [Threads -> Places] /\ res' \in [Threads -> {"none", "ok", "err"}]
      /\ stage' \in [Threads -> Stages] /\ asked' \in [Threads -> Nat]
  BY DEF SessionTypes, Returns, Goto, Places, Stages
<1>2. /\ box' \in [Threads -> Answers \cup {NoOne}]
      /\ acks' \in [Threads \cup {"reader"} -> {"none", "ok", "failed"}]
      /\ interaction' \in Threads \cup {NoOne}
  BY DEF SessionTypes, Returns, Goto
<1>3. \A q \in Threads : pc'[q] = "await" => stage'[q] \in Answered
  BY DEF SessionTypes, Returns, Goto
<1> QED
  BY <1>1, <1>2, <1>3 DEF OwnTypes

LEMMA GotoTyped ==
  ASSUME SessionTypes, NEW p \in Threads, NEW to \in Places \ {"await"}, Goto(p, to),
         UNCHANGED <<res, stage, asked, box, acks>>, interaction' \in Threads \cup {NoOne}
  PROVE  OwnTypes
BY DEF SessionTypes, OwnTypes, Goto

LEMMA RestTyped ==
  ASSUME SessionTypes, OwnTypes,
         UNCHANGED <<queue, writer, writing, stdout, asks, nextId, pending, what>>,
         dead' \in BOOLEAN, slot' \in BOOLEAN, greeted' \in BOOLEAN,
         slotLock' \in Threads \cup {NoOne}, child' \in {"none", "alive", "exited", "reaped"},
         UNCHANGED reader, UNCHANGED <<stdin, owed>>
  PROVE  SessionTypes'
BY DEF SessionTypes, OwnTypes

LEMMA ReapTyped ==
  ASSUME SessionTypes, Reap
  PROVE  /\ child' \in {"none", "alive", "exited", "reaped"}
         /\ stdin' \in Seq(Frames) /\ Len(stdin') <= PipeCap
         /\ stdout' \in Seq(Messages) /\ Len(stdout') <= PipeCap /\ owed' \in SUBSET Nat
<1>1. PipeCap \in Nat /\ <<>> \in Seq(Frames) /\ <<>> \in Seq(Messages) /\ Len(<<>>) = 0
  BY SessionAssumption
<1> QED
  BY <1>1 DEF Reap

LEMMA TypesInit == Init => SessionTypes
<1> SUFFICES ASSUME Init PROVE SessionTypes
  OBVIOUS
<1>1. QueueCap \in Nat /\ PipeCap \in Nat
  BY SessionAssumption
<1>2. what \in [Threads -> {"request", "notify", "shutdown"}] /\ stage = what
  BY DEF Init
<1>3. \A p \in Threads : pc[p] = "idle"
  BY DEF Init
<1>4. queue \in Seq(Frames) /\ Len(queue) = 0 /\ stdin \in Seq(Frames) /\ Len(stdin) = 0
      /\ stdout \in Seq(Messages) /\ Len(stdout) = 0
  BY DEF Init
<1>5. /\ acks \in [Threads \cup {"reader"} -> {"none", "ok", "failed"}]
      /\ box \in [Threads -> Answers \cup {NoOne}] /\ pc \in [Threads -> Places]
      /\ asked \in [Threads -> Nat] /\ res \in [Threads -> {"none", "ok", "err"}]
  BY DEF Init, Places
<1>6. stage \in [Threads -> Stages]
  BY <1>2 DEF Stages
<1>7. dead \in BOOLEAN /\ slot \in BOOLEAN /\ greeted \in BOOLEAN
  BY DEF Init
<1>8. /\ interaction = NoOne /\ slotLock = NoOne /\ child = "none" /\ writer = "none"
      /\ writing = NoOne /\ reader = "none" /\ pending = NoOne
      /\ owed \in SUBSET Nat /\ asks \in Nat /\ nextId \in Nat
  BY DEF Init
<1> QED
  BY <1>1, <1>2, <1>3, <1>4, <1>5, <1>6, <1>7, <1>8 DEF SessionTypes

\* The steps of the threads.
LEMMA ThreadTyped ==
  ASSUME SessionTypes, NEW p \in Threads, Begin(p) \/ BeginShutdown(p) \/ Thread(p)
  PROVE  SessionTypes'
<1> USE DEF transport, shared, own, callers
<1>1. ASSUME Terminates(p) PROVE SessionTypes'
  <2>1. OwnTypes /\ dead' = TRUE
    BY <1>1, GotoTyped DEF Terminates, Dies, Places, SessionTypes
  <2> QED
    BY <1>1, <2>1, RestTyped DEF Terminates, Dies, SessionTypes
<1>2. CASE TakeSlot(p)
  <2>1. OwnTypes
    BY <1>2, GotoTyped DEF TakeSlot, Places, SessionTypes
  <2>2. /\ child' \in {"none", "alive", "exited", "reaped"}
        /\ stdin' \in Seq(Frames) /\ Len(stdin') <= PipeCap
        /\ stdout' \in Seq(Messages) /\ Len(stdout') <= PipeCap /\ owed' \in SUBSET Nat
    BY <1>2, ReapTyped DEF TakeSlot
  <2> QED
    BY <1>2, <2>1, <2>2 DEF TakeSlot, SessionTypes, OwnTypes
<1>3. CASE Ended(p)
  <2>1. OwnTypes
    <3>1. PICK r \in {"ok", "err"} : Returns(p, r)
      BY <1>3 DEF Ended
    <3> QED
      BY <3>1, ReturnsTyped
  <2> QED
    BY <1>3, <2>1 DEF Ended, SessionTypes, OwnTypes
<1>4. CASE Begin(p)
  <2>1. OwnTypes
    BY <1>4, GotoTyped DEF Begin, Places, SessionTypes
  <2> QED
    BY <1>4, <2>1, RestTyped DEF Begin, SessionTypes
<1>5. CASE BeginShutdown(p)
  <2>1. CASE Goto(p, "lock") /\ UNCHANGED <<transport, dead, callers>>
    <3>1. OwnTypes
      BY <2>1, GotoTyped DEF Places, SessionTypes
    <3> QED
      BY <2>1, <3>1, RestTyped DEF SessionTypes
  <2> QED
    BY <1>1, <1>5, <2>1 DEF BeginShutdown
<1>6. CASE LockFails(p) \/ SpawnSeesDead(p) \/ SendFails(p) \/ AwaitFails(p) \/ Poll(p)
  BY <1>1, <1>6 DEF LockFails, SpawnSeesDead, SendFails, AwaitFails, Poll
<1>7. CASE Lock(p)
  <2>1. OwnTypes
    BY <1>7, GotoTyped DEF Lock, Places, SessionTypes
  <2> QED
    BY <1>7, <2>1, RestTyped DEF Lock, SessionTypes
<1>8. CASE AlreadySpawned(p)
  <2>1. OwnTypes
    BY <1>8, GotoTyped DEF AlreadySpawned, Places, SessionTypes
  <2> QED
    BY <1>8, <2>1, RestTyped DEF AlreadySpawned, SessionTypes
<1>9. CASE SpawnFails(p)
  <2>1. OwnTypes
    BY <1>9, ReturnsTyped DEF SpawnFails
  <2> QED
    BY <1>9, <2>1, RestTyped DEF SpawnFails, SessionTypes
<1>10. CASE Spawn(p)
  <2>1. OwnTypes
    BY <1>10, GotoTyped DEF Spawn, Places, SessionTypes
  <2> QED
    BY <1>10, <2>1 DEF Spawn, SessionTypes, OwnTypes
<1>11. CASE Store(p)
  <2>1. OwnTypes
    BY <1>11 DEF Store, Goto, Places, Stages, SessionTypes, OwnTypes
  <2> QED
    BY <1>11, <2>1, RestTyped DEF Store, SessionTypes
<1>12. CASE Discard(p)
  <2>1. OwnTypes
    BY <1>12, GotoTyped DEF Discard, Places, SessionTypes
  <2>2. /\ child' \in {"none", "alive", "exited", "reaped"}
        /\ stdin' \in Seq(Frames) /\ Len(stdin') <= PipeCap
        /\ stdout' \in Seq(Messages) /\ Len(stdout') <= PipeCap /\ owed' \in SUBSET Nat
    BY <1>12, ReapTyped DEF Discard
  <2> QED
    BY <1>12, <2>1, <2>2 DEF Discard, SessionTypes, OwnTypes
<1>13. CASE Discarded(p)
  <2>1. OwnTypes
    BY <1>13, ReturnsTyped DEF Discarded
  <2> QED
    BY <1>13, <2>1, RestTyped DEF Discarded, SessionTypes
<1>14. CASE Send(p)
  <2>1. OwnTypes
    BY <1>14 DEF Send, Goto, Places, SessionTypes, OwnTypes
  <2>2. nextId' \in Nat /\ pending' \in Requests \cup {NoOne}
    BY <1>14 DEF Send, SessionTypes, Requests
  <2> QED
    BY <1>14, <2>1, <2>2 DEF Send, SessionTypes, OwnTypes
<1>15. CASE Post(p)
  <2>1. OwnTypes
    BY <1>15, GotoTyped DEF Post, Places, SessionTypes
  <2>2. Frame(stage[p], p, asked[p]) \in Frames
    BY DEF Frame, Frames, SessionTypes
  <2>3. queue' \in Seq(Frames) /\ Len(queue') <= QueueCap
    BY <1>15, <2>2, SeqFacts, SessionAssumption DEF Post, SessionTypes
  <2> QED
    BY <1>15, <2>1, <2>3 DEF Post, SessionTypes, OwnTypes
<1>16. CASE Delivered(p)
  <2>1. OwnTypes
    <3>1. CASE /\ stage[p] \in Answered /\ Goto(p, "await")
               /\ UNCHANGED <<stage, greeted, res, interaction, asked, box, acks>>
      BY <3>1 DEF Goto, Places, SessionTypes, OwnTypes
    <3>2. CASE /\ stage[p] = "initialized" /\ Goto(p, "send") /\ stage' = [stage EXCEPT ![p] = what[p]]
               /\ UNCHANGED <<res, interaction, asked, box, acks>>
      BY <3>2 DEF Goto, Places, Stages, SessionTypes, OwnTypes
    <3>3. CASE Returns(p, "ok")
      BY <3>3, ReturnsTyped
    <3>4. CASE /\ Goto(p, "poll") /\ interaction' = NoOne
               /\ UNCHANGED <<stage, greeted, res, asked, box, acks>>
      BY <3>4, GotoTyped DEF Places
    <3> QED
      BY <1>16, <3>1, <3>2, <3>3, <3>4, DeliveredCases
  <2>2. greeted' \in BOOLEAN
    BY <1>16, DeliveredCases DEF SessionTypes
  <2> QED
    BY <1>16, <2>1, <2>2, RestTyped, DeliveredCases DEF SessionTypes
<1>17. CASE Receive(p)
  <2>1. OwnTypes
    <3>1. CASE /\ stage[p] \in {"initialize", "shutdown"} /\ Goto(p, "send")
               /\ stage' = [stage EXCEPT ![p] = IF stage[p] = "shutdown" THEN "exit" ELSE "initialized"]
               /\ UNCHANGED <<dead, res, interaction, asked, box, acks>>
      BY <3>1 DEF Goto, Places, Stages, SessionTypes, OwnTypes
    <3>2. CASE Dies(p) /\ UNCHANGED <<stage, res, interaction, asked, box, acks>>
      BY <3>2, GotoTyped DEF Dies, Places, SessionTypes
    <3>3. CASE \E r \in {"ok", "err"} : Returns(p, r)
      BY <3>3, ReturnsTyped
    <3> QED
      BY <1>17, <3>1, <3>2, <3>3, ReceiveCases
  <2>2. dead' \in BOOLEAN
    BY <1>17, ReceiveCases DEF SessionTypes, Dies
  <2> QED
    BY <1>17, <2>1, <2>2, RestTyped, ReceiveCases DEF SessionTypes
<1> QED
  BY <1>2, <1>3, <1>4, <1>5, <1>6, <1>7, <1>8, <1>9, <1>10, <1>11, <1>12, <1>13, <1>14, <1>15, <1>16, <1>17
     DEF Thread

LEMMA TypesNext == SessionTypes /\ [Next]_vars => SessionTypes'
<1> SUFFICES ASSUME SessionTypes, [Next]_vars PROVE SessionTypes'
  OBVIOUS
<1> USE DEF transport, shared, own
<1>0. CASE UNCHANGED vars
  BY <1>0 DEF vars, SessionTypes
<1> HIDE DEF transport, shared, own
<1>18. CASE \E p \in Threads : Begin(p) \/ BeginShutdown(p) \/ Thread(p)
  BY <1>18, ThreadTyped
<1> USE DEF transport, shared, own
<1>1. CASE WriterTakes
  <2>1. /\ queue' \in Seq(Frames) /\ Len(queue') <= QueueCap /\ writing' \in Frames
    BY <1>1, SeqFacts, SessionAssumption DEF WriterTakes, SessionTypes
  <2> QED
    BY <1>1, <2>1 DEF WriterTakes, SessionTypes
<1>2. ASSUME NEW r \in {"ok", "failed"}, writer = "busy", acks' = [acks EXCEPT ![writing.from] = r]
      PROVE  acks' \in [Threads \cup {"reader"} -> {"none", "ok", "failed"}]
  BY <1>2 DEF SessionTypes
<1>3. CASE WriterWrites
  <2>1. stdin' \in Seq(Frames) /\ Len(stdin') <= PipeCap
    BY <1>3, SeqFacts, SessionAssumption DEF WriterWrites, SessionTypes
  <2> QED
    BY <1>2, <1>3, <2>1 DEF WriterWrites, SessionTypes
<1>4. <<>> \in Seq(Frames) /\ Len(<<>>) = 0 /\ QueueCap \in Nat /\ PipeCap \in Nat
  BY SessionAssumption
<1>5. CASE WriterFails
  BY <1>2, <1>4, <1>5 DEF WriterFails, SessionTypes
<1>6. CASE WriterStops
  BY <1>4, <1>6 DEF WriterStops, SessionTypes
<1>7. CASE ReaderReads
  <2>1. stdout' \in Seq(Messages) /\ Len(stdout') <= PipeCap /\ Head(stdout) \in Messages
    BY <1>7, SeqFacts, SessionAssumption DEF ReaderReads, SessionTypes
  <2>2. CASE Head(stdout).kind = "ask"
    BY <1>7, <2>1, <2>2 DEF ReaderReads, SessionTypes
  <2>3. CASE Head(stdout).kind # "ask" /\ pending # NoOne /\ pending.id = Head(stdout).id
    <3>1. pending.who \in Threads /\ [id |-> Head(stdout).id, ok |-> Head(stdout).ok] \in Answers
      BY <2>1, <2>3 DEF SessionTypes, Requests, Messages, Answers
    <3>2. box' \in [Threads -> Answers \cup {NoOne}] /\ pending' = NoOne
      BY <1>7, <2>3, <3>1 DEF ReaderReads, SessionTypes
    <3> QED
      BY <1>7, <2>1, <2>3, <3>2 DEF ReaderReads, SessionTypes
  <2>4. CASE Head(stdout).kind # "ask" /\ ~(pending # NoOne /\ pending.id = Head(stdout).id)
    BY <1>7, <2>1, <2>4 DEF ReaderReads, SessionTypes
  <2> QED
    BY <2>2, <2>3, <2>4
<1>8. CASE ReaderPosts
  <2>1. Frame("reply", "reader", 0) \in Frames
    BY DEF Frame, Frames
  <2>2. queue' \in Seq(Frames) /\ Len(queue') <= QueueCap
    BY <1>8, <2>1, SeqFacts, SessionAssumption DEF ReaderPosts, SessionTypes
  <2> QED
    BY <1>8, <2>2 DEF ReaderPosts, SessionTypes
<1>9. CASE ReaderAcked
  BY <1>9 DEF ReaderAcked, SessionTypes
<1>10. CASE ReaderEnds
  BY <1>10 DEF ReaderEnds, SessionTypes
<1>11. CASE ReaderFails
  <2>1. box' \in [Threads -> Answers \cup {NoOne}]
    <3>1. CASE pending = NoOne
      BY <1>11, <3>1 DEF ReaderFails, SessionTypes
    <3>2. CASE pending # NoOne
      <4>1. pending.who \in Threads /\ [id |-> pending.id, ok |-> FALSE] \in Answers
        BY <3>2 DEF SessionTypes, Requests, Answers
      <4> QED
        BY <1>11, <3>2, <4>1 DEF ReaderFails, SessionTypes
    <3> QED
      BY <3>1, <3>2
  <2> QED
    BY <1>11, <2>1 DEF ReaderFails, SessionTypes
<1>12. CASE ReaderReaps
  <2>1. /\ child' \in {"none", "alive", "exited", "reaped"}
        /\ stdin' \in Seq(Frames) /\ Len(stdin') <= PipeCap
        /\ stdout' \in Seq(Messages) /\ Len(stdout') <= PipeCap /\ owed' \in SUBSET Nat
    BY <1>12, ReapTyped DEF ReaderReaps
  <2> QED
    BY <1>12, <2>1 DEF ReaderReaps, SessionTypes
<1>13. CASE BackendReads
  <2>1. stdin' \in Seq(Frames) /\ Len(stdin') <= PipeCap /\ Head(stdin) \in Frames
    BY <1>13, SeqFacts, SessionAssumption DEF BackendReads, SessionTypes
  <2>2. owed' \in SUBSET Nat
    BY <1>13, <2>1 DEF BackendReads, SessionTypes, Frames
  <2> QED
    BY <1>13, <2>1, <2>2 DEF BackendReads, SessionTypes
<1>14. ASSUME NEW m \in Messages, stdout' = Append(stdout, m), Len(stdout) < PipeCap
       PROVE  stdout' \in Seq(Messages) /\ Len(stdout') <= PipeCap
  BY <1>14, SeqFacts, SessionAssumption DEF SessionTypes
<1>15. CASE BackendAnswers
  <2>1. PICK i \in owed, ok \in BOOLEAN : stdout' = Append(stdout, [kind |-> "answer", id |-> i, ok |-> ok])
    BY <1>15 DEF BackendAnswers
  <2>2. [kind |-> "answer", id |-> i, ok |-> ok] \in Messages
    BY DEF Messages, SessionTypes
  <2>3. stdout' \in Seq(Messages) /\ Len(stdout') <= PipeCap
    BY <1>14, <1>15, <2>1, <2>2 DEF BackendAnswers
  <2> QED
    BY <1>15, <2>3 DEF BackendAnswers, SessionTypes
<1>16. CASE BackendAsks
  <2>1. [kind |-> "ask", id |-> 0, ok |-> TRUE] \in Messages
    BY DEF Messages
  <2>2. stdout' \in Seq(Messages) /\ Len(stdout') <= PipeCap
    BY <1>14, <1>16, <2>1 DEF BackendAsks
  <2> QED
    BY <1>16, <2>2 DEF BackendAsks, SessionTypes
<1>17. CASE BackendExits
  BY <1>4, <1>17 DEF BackendExits, SessionTypes
<1> QED
  BY <1>0, <1>1, <1>3, <1>5, <1>6, <1>7, <1>8, <1>9, <1>10, <1>11, <1>12, <1>13, <1>15, <1>16, <1>17, <1>18
     DEF Next, Writing, Reading

---------------------------------------------------------------------------
(* The two locks: who is inside a call holds the interaction lock, and who *)
(* cleans up holds the slot's, in a session that is over.                  *)

LockInv ==
  \A p \in Threads :
    /\ pc[p] \in {"spawn", "store", "discard", "send", "post", "ack", "await"} => interaction = p
    /\ pc[p] \in {"join", "discard"} <=> slotLock = p
    /\ pc[p] \in {"take", "join", "discard"} => dead
    /\ pc[p] \in {"spawn", "store", "discard"} => p \in Callers
    /\ stage[p] \in {"shutdown", "exit"} <=> p \in Shutters
    /\ what[p] = "shutdown" <=> p \in Shutters
    /\ what[p] # "exit"

\* Thread p goes to another place; the others stay where they are.
LEMMA GotoFacts ==
  ASSUME SessionTypes, NEW p \in Threads, NEW to, Goto(p, to)
  PROVE  pc'[p] = to /\ \A q \in Threads : q # p => pc'[q] = pc[q]
BY DEF SessionTypes, Goto

LEMMA ReturnsFacts ==
  ASSUME SessionTypes, NEW p \in Threads, NEW r, Returns(p, r)
  PROVE  /\ pc'[p] = "done" /\ res'[p] = r /\ stage'[p] = what[p] /\ asked'[p] = 0 /\ box'[p] = NoOne
         /\ \A q \in Threads : q # p => /\ pc'[q] = pc[q] /\ res'[q] = res[q] /\ stage'[q] = stage[q]
                                       /\ asked'[q] = asked[q] /\ box'[q] = box[q]
         /\ interaction' = IF interaction = p THEN NoOne ELSE interaction
BY DEF SessionTypes, Returns, Goto

LEMMA ServiceFrame ==
  ASSUME Writing \/ Reading \/ BackendReads \/ BackendAnswers \/ BackendAsks \/ BackendExits
  PROVE  /\ UNCHANGED <<pc, what, stage, asked, res, interaction, slotLock, slot, nextId, greeted>>
         /\ dead => dead'
<1> USE DEF shared, own
<1>1. CASE Writing
  BY <1>1 DEF Writing, WriterTakes, WriterWrites, WriterFails, WriterStops
<1>2. CASE Reading
  BY <1>2 DEF Reading, ReaderReads, ReaderPosts, ReaderAcked, ReaderEnds, ReaderFails, ReaderReaps
<1>3. CASE BackendReads \/ BackendAnswers \/ BackendAsks \/ BackendExits
  BY <1>3 DEF BackendReads, BackendAnswers, BackendAsks, BackendExits
<1> QED
  BY <1>1, <1>2, <1>3

LEMMA ThreadFacts ==
  /\ NoOne \notin Threads
  /\ \A p \in Threads : p \in Callers <=> p \notin Shutters
BY SessionAssumption DEF Threads

LEMMA LockInit == Init => LockInv
BY ThreadFacts DEF Init, LockInv

LEMMA LockThread ==
  ASSUME SessionTypes, LockInv, NEW p \in Threads, Begin(p) \/ BeginShutdown(p) \/ Thread(p)
  PROVE  LockInv'
<1> USE ThreadFacts
<1>1. ASSUME NEW to \in {"take", "lock", "poll"}, Goto(p, to),
             slotLock' = slotLock, stage' = stage, what' = what,
             interaction' = interaction \/ interaction = p, dead => dead',
             pc[p] \notin {"join", "discard"}, to = "take" => dead'
      PROVE  LockInv'
  BY <1>1, GotoFacts DEF LockInv
<1>2. ASSUME Terminates(p), pc[p] \notin {"join", "discard"} PROVE LockInv'
  BY <1>1, <1>2 DEF Terminates, Dies, callers
<1>3. CASE TakeSlot(p)
  BY <1>3, GotoFacts DEF TakeSlot, LockInv
<1>4. ASSUME NEW r, Returns(p, r), pc[p] \notin {"join", "discard"} \/ slotLock' = NoOne,
             slotLock' = slotLock \/ (slotLock \in {p, NoOne} /\ slotLock' = NoOne),
             dead' = dead, what' = what
      PROVE  LockInv'
  BY <1>4, ReturnsFacts DEF LockInv
<1>5. CASE Ended(p)
  <2>1. slotLock \in {p, NoOne} /\ slotLock' = NoOne /\ UNCHANGED <<dead, what>>
    BY <1>5 DEF Ended, LockInv
  <2> QED
    BY <1>4, <1>5, <2>1 DEF Ended
<1>6. CASE Begin(p)
  BY <1>1, <1>6 DEF Begin, shared
<1>7. CASE BeginShutdown(p)
  BY <1>1, <1>2, <1>7 DEF BeginShutdown, callers
<1>8. CASE LockFails(p) \/ SpawnSeesDead(p) \/ SendFails(p) \/ AwaitFails(p) \/ Poll(p)
  BY <1>2, <1>8 DEF LockFails, SpawnSeesDead, SendFails, AwaitFails, Poll
<1>9. CASE Lock(p)
  BY <1>9, GotoFacts DEF Lock, LockInv
<1>10. CASE AlreadySpawned(p)
  BY <1>10, GotoFacts DEF AlreadySpawned, LockInv, shared
<1>11. CASE SpawnFails(p)
  BY <1>4, <1>11 DEF SpawnFails
<1>12. CASE Spawn(p)
  BY <1>12, GotoFacts DEF Spawn, LockInv, shared
<1>13. CASE Store(p)
  <2>1. stage'[p] = "initialize" /\ \A q \in Threads : q # p => stage'[q] = stage[q]
    BY <1>13 DEF Store, SessionTypes
  <2> QED
    BY <1>13, <2>1, GotoFacts DEF Store, LockInv
<1>14. CASE Discard(p)
  BY <1>14, GotoFacts DEF Discard, LockInv
<1>15. CASE Discarded(p)
  <2>1. slotLock = p
    BY <1>15 DEF Discarded, LockInv
  <2> QED
    BY <1>4, <1>15, <2>1 DEF Discarded
<1>16. CASE Send(p)
  BY <1>16, GotoFacts DEF Send, LockInv
<1>17. CASE Post(p)
  BY <1>17, GotoFacts DEF Post, LockInv, shared
<1>18. CASE Delivered(p)
  <2>1. pc[p] = "ack" /\ interaction = p /\ UNCHANGED <<slotLock, dead, what>>
    BY <1>18, DeliveredCases DEF LockInv
  <2>2. CASE Goto(p, "await") /\ UNCHANGED <<stage, interaction>>
    BY <2>1, <2>2, GotoFacts DEF LockInv
  <2>3. CASE /\ stage[p] = "initialized" /\ Goto(p, "send") /\ stage' = [stage EXCEPT ![p] = what[p]]
             /\ UNCHANGED interaction
    <3>1. stage'[p] = what[p] /\ \A q \in Threads : q # p => stage'[q] = stage[q]
      BY <2>3 DEF SessionTypes
    <3> QED
      BY <2>1, <2>3, <3>1, GotoFacts DEF LockInv
  <2>4. CASE Returns(p, "ok")
    BY <1>4, <2>1, <2>4
  <2>5. CASE Goto(p, "poll") /\ interaction' = NoOne /\ UNCHANGED stage
    <3>1. dead => dead'
      BY <2>1
    <3> QED
      BY <1>1, <2>1, <2>5, <3>1
  <2> QED
    BY <1>18, <2>2, <2>3, <2>4, <2>5, DeliveredCases
<1>19. CASE Receive(p)
  <2>1. pc[p] = "await" /\ interaction = p /\ UNCHANGED <<slotLock, what>>
    BY <1>19, ReceiveCases DEF LockInv
  <2>2. CASE /\ stage[p] \in {"initialize", "shutdown"} /\ Goto(p, "send")
             /\ stage' = [stage EXCEPT ![p] = IF stage[p] = "shutdown" THEN "exit" ELSE "initialized"]
             /\ UNCHANGED <<dead, interaction>>
    <3>1. /\ stage'[p] = (IF stage[p] = "shutdown" THEN "exit" ELSE "initialized")
          /\ \A q \in Threads : q # p => stage'[q] = stage[q]
      BY <2>2 DEF SessionTypes
    <3> QED
      BY <2>1, <2>2, <3>1, GotoFacts DEF LockInv
  <2>3. CASE Dies(p) /\ UNCHANGED <<stage, interaction>>
    <3>1. dead' /\ Goto(p, "take") /\ stage' = stage /\ interaction' = interaction
      BY <2>3 DEF Dies
    <3> QED
      BY <1>1, <2>1, <3>1
  <2>4. CASE UNCHANGED dead /\ \E r \in {"ok", "err"} : Returns(p, r)
    BY <1>4, <2>1, <2>4
  <2> QED
    BY <1>19, <2>2, <2>3, <2>4, ReceiveCases
<1> QED
  BY <1>3, <1>5, <1>6, <1>7, <1>8, <1>9, <1>10, <1>11, <1>12, <1>13, <1>14, <1>15, <1>16, <1>17, <1>18, <1>19
     DEF Thread

LEMMA LockNext == SessionTypes /\ LockInv /\ [Next]_vars => LockInv'
<1> SUFFICES ASSUME SessionTypes, LockInv, [Next]_vars PROVE LockInv'
  OBVIOUS
<1>1. CASE UNCHANGED vars
  BY <1>1 DEF vars, shared, own, LockInv
<1>2. CASE \E p \in Threads : Begin(p) \/ BeginShutdown(p) \/ Thread(p)
  BY <1>2, LockThread
<1>3. CASE Writing \/ Reading \/ BackendReads \/ BackendAnswers \/ BackendAsks \/ BackendExits
  <2>1. /\ pc' = pc /\ what' = what /\ stage' = stage /\ interaction' = interaction
        /\ slotLock' = slotLock /\ (dead => dead')
    BY <1>3, ServiceFrame
  <2> QED
    BY <2>1 DEF LockInv
<1> QED
  BY <1>1, <1>2, <1>3 DEF Next

---------------------------------------------------------------------------
(* What runs is in the slot, or in the hands of the one thread that has    *)
(* just started it or is stopping it.                                      *)

Hands == {"store", "join", "discard"}
Up == child \in {"alive", "exited"} \/ writer \in {"idle", "busy"} \/ reader \notin {"none", "gone"}
ReapInv ==
  /\ child = "reaped" \/ writer = "gone" \/ reader \in {"leave", "orphan", "gone"} => dead
  /\ \A p \in Threads : pc[p] \in {"join", "discard"} => child = "reaped"
  /\ \A p \in Threads : pc[p] \in Hands => ~slot
  /\ Up => slot \/ \E p \in Threads : pc[p] \in Hands
  /\ \A s \in Shutters : res[s] # "none" => dead /\ ~slot /\ \A p \in Threads : pc[p] # "join"

LEMMA ReapInit == Init => ReapInv
BY DEF Init, ReapInv, Up, Hands, Threads

LEMMA ReapThread ==
  ASSUME SessionTypes, LockInv, ReapInv, NEW p \in Threads, Begin(p) \/ BeginShutdown(p) \/ Thread(p)
  PROVE  ReapInv'
<1> USE ThreadFacts
<1>0. Shutters \subseteq Threads
  BY DEF Threads
<1>1. ASSUME NEW to \in Places \ Hands, Goto(p, to), pc[p] \notin Hands,
             child' = child, writer' = writer, reader' = reader, slot' = slot, dead => dead',
             \A s \in Shutters : res'[s] = res[s]
      PROVE  ReapInv'
  BY <1>0, <1>1, GotoFacts DEF ReapInv, Up, Hands
<1>2. ASSUME Terminates(p), pc[p] \notin Hands PROVE ReapInv'
  BY <1>1, <1>2 DEF Terminates, Dies, callers, transport, Places, Hands
<1>3. CASE TakeSlot(p)
  <2>1. pc'[p] = "join" /\ \A q \in Threads : q # p => pc'[q] = pc[q]
    BY <1>3, GotoFacts DEF TakeSlot
  <2>2. dead /\ slot /\ ~slot' /\ child' = "reaped" /\ dead' = dead /\ res' = res
    BY <1>3 DEF TakeSlot, Reap, LockInv
  <2> QED
    BY <1>0, <2>1, <2>2 DEF ReapInv, Hands
<1>4. ASSUME NEW r, Returns(p, r), child' = child, writer' = writer, reader' = reader,
             slot' = slot, dead' = dead, pc[p] \in Hands => ~Up, p \in Callers
      PROVE  ReapInv'
  <2>1. \A s \in Shutters : res'[s] = res[s]
    BY <1>0, <1>4, ReturnsFacts
  <2> QED
    BY <1>0, <1>4, <2>1, ReturnsFacts DEF ReapInv, Up, Hands
<1>5. CASE Ended(p)
  <2>1. PICK r : Returns(p, r)
    BY <1>5 DEF Ended
  <2>2. /\ child' = child /\ writer' = writer /\ reader' = reader /\ slot' = slot /\ dead' = dead
        /\ dead
    BY <1>5 DEF Ended, LockInv
  <2>3. ~slot /\ \A q \in Threads : q # p => pc[q] # "join"
    BY <1>5 DEF Ended, LockInv, ReapInv, Hands
  <2>4. pc[p] \in Hands => ~Up
    BY <1>5 DEF Ended, ReapInv, Up, Hands
  <2>5. pc'[p] = "done" /\ \A q \in Threads : q # p => pc'[q] = pc[q] /\ res'[q] = res[q]
    BY <2>1, ReturnsFacts
  <2> QED
    BY <1>0, <2>2, <2>3, <2>4, <2>5 DEF ReapInv, Up, Hands
<1>6. CASE Begin(p)
  BY <1>1, <1>6 DEF Begin, shared, transport, Places, Hands
<1>7. CASE BeginShutdown(p)
  <2>1. CASE Goto(p, "lock") /\ UNCHANGED <<transport, dead, callers>>
    BY <1>1, <1>7, <2>1 DEF BeginShutdown, callers, transport, Places, Hands
  <2> QED
    BY <1>2, <1>7, <2>1 DEF BeginShutdown, Hands
<1>8. CASE LockFails(p) \/ SpawnSeesDead(p) \/ SendFails(p) \/ AwaitFails(p) \/ Poll(p)
  BY <1>2, <1>8 DEF LockFails, SpawnSeesDead, SendFails, AwaitFails, Poll, Hands
<1>9. CASE Lock(p)
  <2>1. PICK to \in {"send", "spawn"} : Goto(p, to)
    BY <1>9 DEF Lock
  <2> QED
    BY <1>1, <1>9, <2>1 DEF Lock, transport, Places, Hands
<1>10. CASE AlreadySpawned(p)
  BY <1>1, <1>10 DEF AlreadySpawned, shared, transport, Places, Hands
<1>11. CASE SpawnFails(p)
  BY <1>4, <1>11 DEF SpawnFails, LockInv, Hands
<1>12. CASE Spawn(p)
  <2>1. pc'[p] = "store" /\ \A q \in Threads : q # p => pc'[q] = pc[q]
    BY <1>12, GotoFacts DEF Spawn
  <2>2. ~dead /\ ~slot /\ slot' = slot /\ dead' = dead /\ res' = res
        /\ child' = "alive" /\ writer' = "idle" /\ reader' = "read"
    BY <1>12 DEF Spawn, shared
  <2> QED
    BY <1>0, <2>1, <2>2 DEF ReapInv, LockInv, Hands
<1>13. CASE Store(p)
  <2>1. pc'[p] = "send" /\ \A q \in Threads : q # p => pc'[q] = pc[q]
    BY <1>13, GotoFacts DEF Store
  <2>2. /\ pc[p] = "store" /\ ~dead /\ slot' = TRUE /\ dead' = dead /\ res' = res
        /\ child' = child /\ writer' = writer /\ reader' = reader
    BY <1>13 DEF Store, transport
  <2>3. \A q \in Threads : q # p => pc[q] \notin Hands
    BY <2>2 DEF LockInv, Hands
  <2> QED
    BY <1>0, <2>1, <2>2, <2>3 DEF ReapInv, Hands
<1>14. CASE Discard(p)
  <2>1. pc'[p] = "discard" /\ \A q \in Threads : q # p => pc'[q] = pc[q]
    BY <1>14, GotoFacts DEF Discard
  <2>2. pc[p] = "store" /\ dead /\ dead' = dead /\ child' = "reaped" /\ res' = res /\ slot' = slot
    BY <1>14 DEF Discard, Reap
  <2> QED
    BY <1>0, <2>1, <2>2 DEF ReapInv, Hands
<1>15. CASE Discarded(p)
  <2>1. p \in Callers /\ ~Up
    BY <1>15 DEF Discarded, LockInv, ReapInv, Up
  <2> QED
    BY <1>4, <1>15, <2>1 DEF Discarded
<1>16. CASE Send(p)
  BY <1>1, <1>16 DEF Send, Places, Hands
<1>17. CASE Post(p)
  BY <1>1, <1>17 DEF Post, shared, Places, Hands
<1>18. CASE Delivered(p)
  <2>1. /\ pc[p] = "ack" /\ child' = child /\ writer' = writer /\ reader' = reader
        /\ slot' = slot /\ dead' = dead
    BY <1>18, DeliveredCases
  <2>2. \/ stage[p] = "notify" /\ Returns(p, "ok")
        \/ res' = res /\ \E to \in {"await", "send", "poll"} : Goto(p, to)
    BY <1>18, DeliveredCases
  <2>3. stage[p] = "notify" => p \in Callers
    BY DEF LockInv
  <2> QED
    BY <1>1, <1>4, <2>1, <2>2, <2>3 DEF Places, Hands
<1>19. CASE Receive(p)
  <2>1. /\ pc[p] = "await" /\ child' = child /\ writer' = writer /\ reader' = reader
        /\ slot' = slot /\ ~dead
    BY <1>19, ReceiveCases
  <2>2. \/ stage[p] = "request" /\ dead' = dead /\ \E r \in {"ok", "err"} : Returns(p, r)
        \/ res' = res /\ \E to \in {"send", "take"} : Goto(p, to)
    BY <1>19, ReceiveCases DEF Dies
  <2>3. stage[p] = "request" => p \in Callers
    BY DEF LockInv
  <2> QED
    BY <1>1, <1>4, <2>1, <2>2, <2>3 DEF Places, Hands
<1> QED
  BY <1>3, <1>5, <1>6, <1>7, <1>8, <1>9, <1>10, <1>11, <1>12, <1>13, <1>14, <1>15, <1>16, <1>17, <1>18, <1>19
     DEF Thread

LEMMA ReapNext == SessionTypes /\ LockInv /\ ReapInv /\ [Next]_vars => ReapInv'
<1> SUFFICES ASSUME SessionTypes, LockInv, ReapInv, [Next]_vars PROVE ReapInv'
  OBVIOUS
<1>1. CASE UNCHANGED vars
  BY <1>1 DEF vars, shared, own, transport, ReapInv, Up
<1>2. CASE \E p \in Threads : Begin(p) \/ BeginShutdown(p) \/ Thread(p)
  BY <1>2, ReapThread
<1>3. CASE Writing \/ Reading \/ BackendReads \/ BackendAnswers \/ BackendAsks \/ BackendExits
  <2>1. pc' = pc /\ slot' = slot /\ res' = res /\ (dead => dead')
    BY <1>3, ServiceFrame
  <2>2. /\ Up' => Up
        /\ child = "reaped" => child' = "reaped"
        /\ (child' = "reaped" \/ writer' = "gone" \/ reader' \in {"leave", "orphan", "gone"}) => dead'
    <3> USE DEF shared, own, Up, SessionTypes, ReapInv
    <3>1. CASE Writing
      BY <3>1 DEF Writing, WriterTakes, WriterWrites, WriterFails, WriterStops
    <3>2. CASE Reading
      BY <3>2 DEF Reading, ReaderReads, ReaderPosts, ReaderAcked, ReaderEnds, ReaderFails, ReaderReaps, Reap
    <3>3. CASE BackendReads \/ BackendAnswers \/ BackendAsks \/ BackendExits
      BY <3>3 DEF BackendReads, BackendAnswers, BackendAsks, BackendExits
    <3> QED
      BY <1>3, <3>1, <3>2, <3>3
  <2> QED
    BY <2>1, <2>2 DEF ReapInv
<1> QED
  BY <1>1, <1>2, <1>3 DEF Next

---------------------------------------------------------------------------
(* The handshake.  A live session whose backend is not greeted has one     *)
(* caller inside, and that one is about the handshake's own frames.        *)

Early == {"initialize", "initialized", "reply"}
InCall == {"send", "post", "ack", "await"}
GreetInv ==
  /\ ~greeted /\ ~dead =>
        /\ \A p \in Threads : pc[p] \in InCall => stage[p] \in {"initialize", "initialized"}
        /\ slot => \E p \in Threads : pc[p] \in InCall
  /\ \A p \in Shutters : pc[p] = "lock" => slot \/ dead

LEMMA GreetInit == Init => GreetInv
BY DEF Init, GreetInv, InCall, Threads

LEMMA GreetThread ==
  ASSUME SessionTypes, LockInv, ReapInv, GreetInv, NEW p \in Threads,
         Begin(p) \/ BeginShutdown(p) \/ Thread(p)
  PROVE  GreetInv'
<1> USE ThreadFacts
<1>0. Shutters \subseteq Threads
  BY DEF Threads
<1>1. ASSUME dead' PROVE GreetInv'
  BY <1>1 DEF GreetInv
\* A step outside of the calls.
<1>2. ASSUME pc[p] \notin InCall, pc'[p] \notin InCall,
             \A q \in Threads : q # p => pc'[q] = pc[q] /\ stage'[q] = stage[q],
             slot' = slot, dead' = dead, greeted' = greeted,
             pc'[p] = "lock" /\ p \in Shutters => slot \/ dead
      PROVE  GreetInv'
  BY <1>0, <1>2 DEF GreetInv
\* A step inside one, about the same frame.
<1>3. ASSUME pc[p] \in InCall, pc'[p] \in InCall, \A q \in Threads : q # p => pc'[q] = pc[q],
             stage' = stage, slot' = slot, dead' = dead, greeted' = greeted
      PROVE  GreetInv'
  BY <1>0, <1>3 DEF GreetInv, InCall
<1>4. CASE TakeSlot(p) \/ Ended(p) \/ Discard(p) \/ Discarded(p)
  BY <1>1, <1>4 DEF TakeSlot, Ended, Discard, Discarded, LockInv
<1>5. CASE LockFails(p) \/ SpawnSeesDead(p) \/ SendFails(p) \/ AwaitFails(p) \/ Poll(p)
  BY <1>1, <1>5 DEF LockFails, SpawnSeesDead, SendFails, AwaitFails, Poll, Terminates, Dies
<1>6. CASE Begin(p)
  BY <1>2, <1>6, GotoFacts DEF Begin, shared, InCall
<1>7. CASE BeginShutdown(p)
  <2>1. CASE slot /\ Goto(p, "lock") /\ UNCHANGED <<transport, dead, callers>>
    BY <1>2, <1>7, <2>1, GotoFacts DEF BeginShutdown, callers, InCall
  <2> QED
    BY <1>1, <1>7, <2>1 DEF BeginShutdown, Terminates, Dies
<1>8. CASE Lock(p)
  <2>1. /\ pc[p] = "lock" /\ ~dead /\ interaction = NoOne /\ dead' = dead /\ slot' = slot
        /\ greeted' = greeted /\ stage' = stage
    BY <1>8 DEF Lock
  <2>2. \A q \in Threads : pc[q] \notin InCall
    BY <2>1 DEF LockInv, InCall
  <2>3. CASE p \in Shutters
    <3>1. greeted
      BY <2>1, <2>2, <2>3 DEF GreetInv
    <3>2. pc'[p] = "send" /\ \A q \in Threads : q # p => pc'[q] = pc[q]
      BY <1>8, <2>3, GotoFacts DEF Lock
    <3> QED
      BY <1>0, <2>1, <3>1, <3>2 DEF GreetInv
  <2>4. CASE p \notin Shutters
    <3>1. pc'[p] = "spawn" /\ \A q \in Threads : q # p => pc'[q] = pc[q]
      BY <1>8, <2>4, GotoFacts DEF Lock
    <3> QED
      BY <1>2, <2>1, <3>1 DEF InCall
  <2> QED
    BY <2>3, <2>4
<1>9. CASE AlreadySpawned(p)
  <2>1. /\ pc[p] = "spawn" /\ ~dead /\ slot /\ dead' = dead /\ slot' = slot /\ greeted' = greeted
    BY <1>9 DEF AlreadySpawned, shared
  <2>2. \A q \in Threads : pc[q] \notin InCall
    BY <2>1 DEF LockInv, InCall
  <2>3. greeted
    BY <2>1, <2>2 DEF GreetInv
  <2>4. pc'[p] = "send" /\ \A q \in Threads : q # p => pc'[q] = pc[q]
    BY <1>9, GotoFacts DEF AlreadySpawned
  <2> QED
    BY <1>0, <2>1, <2>3, <2>4 DEF GreetInv
<1>10. CASE SpawnFails(p)
  BY <1>2, <1>10, ReturnsFacts DEF SpawnFails, InCall
<1>11. CASE Spawn(p)
  BY <1>2, <1>11, GotoFacts DEF Spawn, shared, InCall
<1>12. CASE Store(p)
  <2>1. pc[p] = "store" /\ ~dead /\ dead' = dead /\ slot' = TRUE /\ greeted' = greeted
    BY <1>12 DEF Store
  <2>2. pc'[p] = "send" /\ \A q \in Threads : q # p => pc'[q] = pc[q]
    BY <1>12, GotoFacts DEF Store
  <2>3. stage'[p] = "initialize" /\ \A q \in Threads : q # p => stage'[q] = stage[q]
    BY <1>12 DEF Store, SessionTypes
  <2> QED
    BY <1>0, <2>1, <2>2, <2>3 DEF GreetInv, InCall
<1>13. CASE Send(p)
  BY <1>3, <1>13, GotoFacts DEF Send, InCall
<1>14. CASE Post(p)
  BY <1>3, <1>14, GotoFacts DEF Post, shared, InCall
<1>15. CASE Delivered(p)
  <2>1. pc[p] = "ack" /\ ~dead /\ dead' = dead /\ slot' = slot
    BY <1>15, DeliveredCases
  <2>2. ~greeted => stage[p] \in {"initialize", "initialized"}
    BY <2>1 DEF GreetInv, InCall
  <2>3. CASE Goto(p, "await") /\ stage' = stage /\ greeted' = greeted
    BY <1>3, <2>1, <2>3, GotoFacts DEF InCall
  <2>4. CASE greeted' = TRUE /\ Goto(p, "send")
    BY <1>0, <2>1, <2>4, GotoFacts DEF GreetInv
  <2>5. CASE stage[p] = "notify" /\ Returns(p, "ok") /\ greeted' = greeted
    BY <1>0, <2>1, <2>2, <2>5, ReturnsFacts DEF GreetInv
  <2>6. CASE stage[p] = "exit" /\ Goto(p, "poll") /\ greeted' = greeted
    BY <1>0, <2>1, <2>2, <2>6, GotoFacts DEF GreetInv
  <2> QED
    BY <1>15, <2>3, <2>4, <2>5, <2>6, DeliveredCases
<1>16. CASE Receive(p)
  <2>1. pc[p] = "await" /\ ~dead /\ slot' = slot /\ greeted' = greeted
    BY <1>16, ReceiveCases
  <2>2. ~greeted => stage[p] \in {"initialize", "initialized"}
    BY <2>1 DEF GreetInv, InCall
  <2>3. CASE /\ stage[p] \in {"initialize", "shutdown"} /\ Goto(p, "send") /\ dead' = dead
             /\ stage' = [stage EXCEPT ![p] = IF stage[p] = "shutdown" THEN "exit" ELSE "initialized"]
    <3>1. /\ stage'[p] = (IF stage[p] = "shutdown" THEN "exit" ELSE "initialized")
          /\ \A q \in Threads : q # p => stage'[q] = stage[q]
      BY <2>3 DEF SessionTypes
    <3>2. pc'[p] = "send" /\ \A q \in Threads : q # p => pc'[q] = pc[q]
      BY <2>3, GotoFacts
    <3> QED
      BY <1>0, <2>1, <2>2, <2>3, <3>1, <3>2 DEF GreetInv, InCall
  <2>4. CASE Dies(p)
    BY <1>1, <2>4 DEF Dies
  <2>5. CASE stage[p] = "request" /\ dead' = dead /\ \E r \in {"ok", "err"} : Returns(p, r)
    BY <1>0, <2>1, <2>2, <2>5, ReturnsFacts DEF GreetInv
  <2> QED
    BY <1>16, <2>3, <2>4, <2>5, ReceiveCases
<1> QED
  BY <1>4, <1>5, <1>6, <1>7, <1>8, <1>9, <1>10, <1>11, <1>12, <1>13, <1>14, <1>15, <1>16 DEF Thread

LEMMA GreetNext == SessionTypes /\ LockInv /\ ReapInv /\ GreetInv /\ [Next]_vars => GreetInv'
<1> SUFFICES ASSUME SessionTypes, LockInv, ReapInv, GreetInv, [Next]_vars PROVE GreetInv'
  OBVIOUS
<1>1. CASE UNCHANGED vars
  BY <1>1 DEF vars, shared, own, GreetInv
<1>2. CASE \E p \in Threads : Begin(p) \/ BeginShutdown(p) \/ Thread(p)
  BY <1>2, GreetThread
<1>3. CASE Writing \/ Reading \/ BackendReads \/ BackendAnswers \/ BackendAsks \/ BackendExits
  <2>1. pc' = pc /\ slot' = slot /\ stage' = stage /\ greeted' = greeted /\ (dead => dead')
    BY <1>3, ServiceFrame
  <2> QED
    BY <2>1 DEF GreetInv
<1> QED
  BY <1>1, <1>2, <1>3 DEF Next

\* The frames on their way are then the handshake's.
FrameInv ==
  ~greeted => /\ \A f \in ToSet(queue) \cup ToSet(stdin) : f.kind \in Early
              /\ writer = "busy" \/ writing # NoOne => writing.kind \in Early

LEMMA FrameInit == Init => FrameInv
BY SeqFacts DEF Init, FrameInv, ToSet

LEMMA FrameNext == SessionTypes /\ GreetInv /\ FrameInv /\ [Next]_vars => FrameInv'
<1> SUFFICES ASSUME SessionTypes, GreetInv, FrameInv, [Next]_vars PROVE FrameInv'
  OBVIOUS
<1>0. /\ queue \in Seq(Frames) /\ stdin \in Seq(Frames) /\ ToSet(<<>>) = {}
  BY SeqFacts DEF SessionTypes
\* No frame but those there were.
<1>1. ASSUME ToSet(queue') \subseteq ToSet(queue), ToSet(stdin') \subseteq ToSet(stdin) \cup {writing},
             writer = "busy" \/ ToSet(stdin') \subseteq ToSet(stdin),
             writing' = writing \/ writing' = NoOne, writer' = "busy" => writer = "busy" /\ writing' = writing,
             greeted => greeted'
      PROVE  FrameInv'
  BY <1>1 DEF FrameInv
<1>2. CASE UNCHANGED vars
  BY <1>1, <1>2 DEF vars, shared, transport
<1>3. CASE BackendReads \/ BackendAnswers \/ BackendAsks \/ BackendExits
  <2>1. /\ queue' = queue /\ writing' = writing /\ writer' = writer /\ greeted' = greeted
        /\ stdin' \in {stdin, <<>>} \/ (stdin # <<>> /\ stdin' = Tail(stdin))
    BY <1>3 DEF BackendReads, BackendAnswers, BackendAsks, BackendExits, shared
  <2>2. ToSet(stdin') \subseteq ToSet(stdin)
    BY <1>0, <2>1, SeqFacts
  <2> QED
    BY <1>1, <2>1, <2>2
<1>4. CASE WriterTakes
  <2>1. /\ Head(queue) \in ToSet(queue) /\ ToSet(queue') \subseteq ToSet(queue)
        /\ writing' = Head(queue) /\ stdin' = stdin /\ greeted' = greeted
    BY <1>0, <1>4, SeqFacts DEF WriterTakes, shared
  <2> QED
    BY <2>1 DEF FrameInv
<1>5. CASE WriterWrites
  <2>1. /\ writer = "busy" /\ writing \in Frames /\ stdin' = Append(stdin, writing) /\ queue' = queue
        /\ writing' = NoOne /\ writer' = "idle" /\ greeted' = greeted
    BY <1>5 DEF WriterWrites, shared, SessionTypes
  <2>2. ToSet(stdin') = ToSet(stdin) \cup {writing}
    BY <1>0, <2>1, SeqFacts
  <2> QED
    BY <1>1, <2>1, <2>2
<1>6. CASE WriterFails \/ WriterStops
  <2>1. /\ queue' = <<>> /\ writer' = "gone" /\ (writing' = writing \/ writing' = NoOne)
        /\ stdin' = stdin /\ greeted' = greeted
    BY <1>6 DEF WriterFails, WriterStops, shared
  <2> QED
    BY <1>0, <1>1, <2>1
<1>7. CASE ReaderPosts
  <2>1. Frame("reply", "reader", 0) \in Frames /\ Frame("reply", "reader", 0).kind = "reply"
    BY DEF Frame, Frames
  <2>2. ToSet(queue') = ToSet(queue) \cup {Frame("reply", "reader", 0)}
    BY <1>0, <1>7, <2>1, SeqFacts DEF ReaderPosts
  <2>3. writing' = writing /\ writer' = writer /\ stdin' = stdin /\ greeted' = greeted
    BY <1>7 DEF ReaderPosts, shared
  <2> QED
    BY <2>1, <2>2, <2>3 DEF FrameInv, Early
<1>8. CASE ReaderReads \/ ReaderAcked \/ ReaderEnds \/ ReaderFails \/ ReaderReaps
  <2>1. /\ queue' = queue /\ writing' = writing /\ writer' = writer /\ greeted' = greeted
        /\ stdin' \in {stdin, <<>>}
    BY <1>8 DEF ReaderReads, ReaderAcked, ReaderEnds, ReaderFails, ReaderReaps, Reap, shared
  <2> QED
    BY <1>0, <1>1, <2>1
<1>9. ASSUME NEW p \in Threads, Post(p) PROVE FrameInv'
  <2> DEFINE new == Frame(stage[p], p, asked[p])
  <2>1. new \in Frames /\ new.kind = stage[p]
    BY DEF Frame, Frames, SessionTypes
  <2>2. queue' = Append(queue, new) /\ pc[p] = "post" /\ ~dead
    BY <1>9 DEF Post
  <2>3. writing' = writing /\ writer' = writer /\ stdin' = stdin /\ greeted' = greeted
    BY <1>9 DEF Post, shared
  <2> HIDE DEF new
  <2>4. ToSet(queue') = ToSet(queue) \cup {new}
    BY <1>0, <2>1, <2>2, SeqFacts
  <2>5. ~greeted => new.kind \in Early
    BY <2>1, <2>2 DEF GreetInv, InCall, Early
  <2> QED
    BY <2>3, <2>4, <2>5 DEF FrameInv
<1>10. ASSUME NEW p \in Threads, Begin(p) \/ BeginShutdown(p) \/ Thread(p), ~Post(p) PROVE FrameInv'
  <2>1. queue' = queue /\ writing' = writing /\ stdin' \in {stdin, <<>>} /\ (greeted => greeted')
        /\ writer' \in {writer, "idle"}
    <3> USE DEF transport, shared, callers, Terminates, Reap
    <3>1. CASE TakeSlot(p) \/ Ended(p) \/ Begin(p) \/ BeginShutdown(p)
      BY <3>1 DEF TakeSlot, Ended, Begin, BeginShutdown
    <3>2. CASE LockFails(p) \/ SpawnSeesDead(p) \/ SendFails(p) \/ AwaitFails(p) \/ Poll(p)
      BY <3>2 DEF LockFails, SpawnSeesDead, SendFails, AwaitFails, Poll
    <3>3. CASE Lock(p) \/ AlreadySpawned(p) \/ SpawnFails(p) \/ Spawn(p)
      BY <3>3 DEF Lock, AlreadySpawned, SpawnFails, Spawn
    <3>4. CASE Store(p) \/ Discard(p) \/ Discarded(p) \/ Send(p)
      BY <3>4 DEF Store, Discard, Discarded, Send
    <3>5. CASE Delivered(p)
      BY <3>5, DeliveredCases
    <3>6. CASE Receive(p)
      BY <3>6, ReceiveCases
    <3> QED
      BY <1>10, <3>1, <3>2, <3>3, <3>4, <3>5, <3>6 DEF Thread
  <2> QED
    BY <1>0, <1>1, <2>1
<1> QED
  BY <1>2, <1>3, <1>4, <1>5, <1>6, <1>7, <1>8, <1>9, <1>10 DEF Next, Writing, Reading

---------------------------------------------------------------------------
(* Answers.  The pending slot names a thread that is about a frame to be   *)
(* answered, or that has just given up; what its channel holds is the      *)
(* answer to the id it asked for.                                          *)

About == {"post", "ack", "await"}
MatchInv ==
  /\ pending # NoOne =>
        /\ pending.id = asked[pending.who] /\ box[pending.who] = NoOne
        /\ pc[pending.who] \in About \cup {"take", "join"}
        /\ pc[pending.who] \in About => stage[pending.who] \in Answered
  /\ \A p \in Threads : box[p] # NoOne => box[p].id = asked[p]
  /\ \A p \in Threads : pc[p] \in About /\ stage[p] \in Answered /\ ~dead =>
        (pending # NoOne /\ pending.who = p) \/ box[p] # NoOne

LEMMA MatchInit == Init => MatchInv
BY DEF Init, MatchInv, About

LEMMA PendingWho == SessionTypes /\ pending # NoOne => pending.who \in Threads /\ pending.id \in Nat
BY DEF SessionTypes, Requests

LEMMA MatchThread ==
  ASSUME SessionTypes, LockInv, MatchInv, NEW p \in Threads, Begin(p) \/ BeginShutdown(p) \/ Thread(p)
  PROVE  MatchInv'
<1> USE PendingWho
\* A step that touches no answer: to where the pending thread may be, or not its own.
<1>1. ASSUME NEW to, Goto(p, to), stage' = stage, asked' = asked, box' = box, pending' = pending,
             dead => dead', to \in About => pc[p] \in About,
             to \in About \cup {"take", "join"} \/ pc[p] \notin About \cup {"take", "join"}
               \/ (pc[p] \in About /\ stage[p] \notin Answered)
      PROVE  MatchInv'
  <2>1. pc'[p] = to /\ \A q \in Threads : q # p => pc'[q] = pc[q]
    BY <1>1, GotoFacts
  <2> QED
    BY <1>1, <2>1 DEF MatchInv, About
<1>2. ASSUME Terminates(p) PROVE MatchInv'
  BY <1>1, <1>2 DEF Terminates, Dies, callers, About
<1>3. CASE TakeSlot(p)
  BY <1>1, <1>3 DEF TakeSlot, About
\* A call that returns was not waiting any more, or nobody is.
<1>4. ASSUME NEW r, Returns(p, r), dead => dead', pending' = pending \/ (pending' = NoOne /\ dead'),
             pending' # NoOne => pending.who # p
      PROVE  MatchInv'
  <2>1. pc'[p] = "done" /\ box'[p] = NoOne
    BY <1>4, ReturnsFacts
  <2>2. \A q \in Threads : q # p => pc'[q] = pc[q] /\ stage'[q] = stage[q] /\ asked'[q] = asked[q] /\ box'[q] = box[q]
    BY <1>4, ReturnsFacts
  <2> QED
    BY <1>4, <2>1, <2>2 DEF MatchInv, About
<1>5. CASE Ended(p)
  <2>1. dead /\ dead' = dead /\ pending' = NoOne /\ \E r : Returns(p, r)
    BY <1>5 DEF Ended, LockInv
  <2> QED
    BY <1>4, <2>1
<1>6. CASE Begin(p)
  BY <1>1, <1>6 DEF Begin, shared, About
<1>7. CASE BeginShutdown(p)
  BY <1>1, <1>2, <1>7 DEF BeginShutdown, callers, About
<1>8. CASE LockFails(p) \/ SpawnSeesDead(p) \/ SendFails(p) \/ AwaitFails(p) \/ Poll(p)
  BY <1>2, <1>8 DEF LockFails, SpawnSeesDead, SendFails, AwaitFails, Poll
<1>9. CASE Lock(p)
  BY <1>1, <1>9 DEF Lock, About
<1>10. CASE AlreadySpawned(p)
  BY <1>1, <1>10 DEF AlreadySpawned, shared, About
<1>11. CASE SpawnFails(p)
  <2>1. pending # NoOne => pending.who # p
    BY <1>11 DEF SpawnFails, MatchInv, About
  <2>2. Returns(p, "err") /\ pending' = pending /\ (dead => dead')
    BY <1>11 DEF SpawnFails
  <2> QED
    BY <1>4, <2>1, <2>2
<1>12. CASE Spawn(p)
  BY <1>1, <1>12 DEF Spawn, shared, About
<1>13. CASE Store(p)
  <2>1. /\ pc[p] = "store" /\ dead' = dead /\ asked' = asked /\ box' = box /\ pending' = pending
    BY <1>13 DEF Store
  <2>2. pc'[p] = "send" /\ \A q \in Threads : q # p => pc'[q] = pc[q] /\ stage'[q] = stage[q]
    BY <1>13, GotoFacts DEF Store, SessionTypes
  <2> QED
    BY <2>1, <2>2 DEF MatchInv, About
<1>14. CASE Discard(p)
  BY <1>1, <1>14 DEF Discard, About
<1>15. CASE Discarded(p)
  <2>1. pending # NoOne => pending.who # p
    BY <1>15 DEF Discarded, MatchInv, About
  <2>2. Returns(p, "err") /\ pending' = pending /\ (dead => dead')
    BY <1>15 DEF Discarded
  <2> QED
    BY <1>4, <2>1, <2>2
<1>16. CASE Send(p)
  <2>1. /\ pc[p] = "send" /\ ~dead /\ dead' = dead /\ stage' = stage
        /\ pc'[p] = "post" /\ \A q \in Threads : q # p => pc'[q] = pc[q]
    BY <1>16, GotoFacts DEF Send
  <2>2. \A q \in Threads : pc[q] \notin About
    BY <2>1 DEF LockInv, About
  <2>3. CASE stage[p] \in Answered
    <3>1. /\ asked'[p] = nextId /\ box'[p] = NoOne /\ pending' = [id |-> nextId, who |-> p]
          /\ \A q \in Threads : q # p => asked'[q] = asked[q] /\ box'[q] = box[q]
      BY <1>16, <2>3 DEF Send, SessionTypes
    <3>2. pending' # NoOne /\ pending'.id = nextId /\ pending'.who = p
      <4>1. nextId \in Nat
        BY DEF SessionTypes
      <4>2. [id |-> nextId, who |-> p] \in [id : Nat, who : Callers \cup Shutters]
        BY <4>1 DEF Threads
      <4> QED
        BY <3>1, <4>2, SessionSentinelAssumption
    <3> QED
      BY <2>1, <2>2, <2>3, <3>1, <3>2 DEF MatchInv, About
  <2>4. CASE stage[p] \notin Answered
    <3>1. asked' = asked /\ box' = box /\ pending' = pending
      BY <1>16, <2>4 DEF Send
    <3>2. pending # NoOne => pending.who # p
      BY <2>1 DEF MatchInv, About
    <3> QED
      BY <2>1, <2>2, <2>4, <3>1, <3>2 DEF MatchInv, About
  <2> QED
    BY <2>3, <2>4
<1>17. CASE Post(p)
  BY <1>1, <1>17 DEF Post, shared, About
<1>18. CASE Delivered(p)
  <2>1. pc[p] = "ack" /\ (dead => dead') /\ pending' = pending
    BY <1>18, DeliveredCases
  <2>2. CASE Goto(p, "await") /\ UNCHANGED <<stage, asked, box>>
    BY <1>1, <2>1, <2>2 DEF About
  <2>3. CASE stage[p] \notin Answered /\ Goto(p, "poll") /\ UNCHANGED <<stage, asked, box>>
    BY <1>1, <2>1, <2>3 DEF About
  <2>4. ASSUME stage[p] \notin Answered PROVE pending # NoOne => pending.who # p
    BY <2>1, <2>4 DEF MatchInv, About
  <2>5. CASE stage[p] \notin Answered /\ Returns(p, "ok")
    BY <1>4, <2>1, <2>4, <2>5
  <2>6. CASE /\ stage[p] \notin Answered /\ Goto(p, "send") /\ stage' = [stage EXCEPT ![p] = what[p]]
             /\ UNCHANGED <<asked, box>>
    <3>1. pc'[p] = "send" /\ \A q \in Threads : q # p => pc'[q] = pc[q] /\ stage'[q] = stage[q]
      BY <2>6, GotoFacts DEF SessionTypes
    <3> QED
      BY <2>1, <2>4, <2>6, <3>1 DEF MatchInv, About
  <2> QED
    BY <1>18, <2>2, <2>3, <2>5, <2>6, DeliveredCases DEF Answered
<1>19. CASE Receive(p)
  <2>1. pc[p] = "await" /\ box[p] # NoOne /\ pending' = pending
    BY <1>19, ReceiveCases
  <2>2. pending # NoOne => pending.who # p
    BY <2>1 DEF MatchInv
  <2>3. CASE /\ Goto(p, "send") /\ UNCHANGED <<dead, asked, box>>
             /\ stage' = [stage EXCEPT ![p] = IF stage[p] = "shutdown" THEN "exit" ELSE "initialized"]
    <3>1. pc'[p] = "send" /\ \A q \in Threads : q # p => pc'[q] = pc[q] /\ stage'[q] = stage[q]
      BY <2>3, GotoFacts DEF SessionTypes
    <3> QED
      BY <2>1, <2>2, <2>3, <3>1 DEF MatchInv, About
  <2>4. CASE Dies(p) /\ UNCHANGED <<stage, asked, box>>
    BY <1>1, <2>1, <2>4 DEF Dies, About
  <2>5. CASE dead' = dead /\ \E r \in {"ok", "err"} : Returns(p, r)
    <3>1. pending' = pending /\ (dead => dead') /\ \E r \in {"ok", "err"} : Returns(p, r)
      BY <2>1, <2>5
    <3> QED
      BY <1>4, <2>2, <3>1
  <2> QED
    BY <1>19, <2>3, <2>4, <2>5, ReceiveCases
<1> QED
  BY <1>3, <1>5, <1>6, <1>7, <1>8, <1>9, <1>10, <1>11, <1>12, <1>13, <1>14, <1>15, <1>16, <1>17, <1>18, <1>19
     DEF Thread

LEMMA MatchNext == SessionTypes /\ LockInv /\ ReapInv /\ MatchInv /\ [Next]_vars => MatchInv'
<1> SUFFICES ASSUME SessionTypes, LockInv, ReapInv, MatchInv, [Next]_vars PROVE MatchInv'
  OBVIOUS
<1>1. CASE UNCHANGED vars
  BY <1>1 DEF vars, shared, own, MatchInv
<1>2. CASE \E p \in Threads : Begin(p) \/ BeginShutdown(p) \/ Thread(p)
  BY <1>2, MatchThread
<1>3. CASE Writing \/ Reading \/ BackendReads \/ BackendAnswers \/ BackendAsks \/ BackendExits
  <2>1. pc' = pc /\ stage' = stage /\ asked' = asked /\ (dead => dead')
    BY <1>3, ServiceFrame
  \* The reader hands the pending thread an answer to the id it asked for.
  <2>2. ASSUME pending # NoOne, pending' = NoOne, NEW b \in BOOLEAN,
               box' = [box EXCEPT ![pending.who] = [id |-> pending.id, ok |-> b]]
        PROVE  MatchInv'
    <3> DEFINE w == pending.who
               a == [id |-> pending.id, ok |-> b]
    <3>1. w \in Threads /\ pending.id \in Nat /\ pending.id = asked[w]
      BY <2>2, PendingWho DEF MatchInv
    <3>2. a # NoOne /\ a.id = pending.id
      <4>1. a \in [id : Nat, ok : BOOLEAN]
        BY <3>1
      <4> QED
        BY <4>1, SessionSentinelAssumption
    <3>3. box'[w] = a /\ \A q \in Threads : q # w => box'[q] = box[q]
      BY <2>2, <3>1 DEF SessionTypes
    <3> HIDE DEF a
    <3> QED
      BY <2>1, <2>2, <3>1, <3>2, <3>3 DEF MatchInv
  <2>3. CASE box' = box /\ pending' = pending
    BY <2>1, <2>3 DEF MatchInv
  <2>4. CASE ReaderReads
    <3>1. stdout \in Seq(Messages) /\ Head(stdout) \in Messages
      BY <2>4, SeqFacts DEF ReaderReads, SessionTypes
    <3>2. Head(stdout).ok \in BOOLEAN
      BY <3>1 DEF Messages
    <3> QED
      BY <2>2, <2>3, <2>4, <3>2 DEF ReaderReads
  <2>5. CASE ReaderFails
    BY <2>2, <2>3, <2>5 DEF ReaderFails
  <2>6. CASE ~ReaderReads /\ ~ReaderFails
    <3> USE DEF shared
    <3>1. CASE Writing
      BY <2>3, <3>1 DEF Writing, WriterTakes, WriterWrites, WriterFails, WriterStops
    <3>2. CASE Reading
      BY <2>3, <2>6, <3>2 DEF Reading, ReaderPosts, ReaderAcked, ReaderEnds, ReaderReaps
    <3>3. CASE BackendReads \/ BackendAnswers \/ BackendAsks \/ BackendExits
      BY <2>3, <3>3 DEF BackendReads, BackendAnswers, BackendAsks, BackendExits
    <3> QED
      BY <1>3, <3>1, <3>2, <3>3
  <2> QED
    BY <2>4, <2>5, <2>6
<1> QED
  BY <1>1, <1>2, <1>3 DEF Next

---------------------------------------------------------------------------
Ind == SessionTypes /\ LockInv /\ ReapInv /\ GreetInv /\ FrameInv /\ MatchInv

\* The inductive invariant of a session holds in its every state.
THEOREM Invariant == Spec => []Ind
<1>1. Init => Ind
  BY TypesInit, LockInit, ReapInit, GreetInit, FrameInit, MatchInit DEF Ind
<1>2. Ind /\ [Next]_vars => Ind'
  BY TypesNext, LockNext, ReapNext, GreetNext, FrameNext, MatchNext DEF Ind
<1> QED
  BY <1>1, <1>2, PTL DEF Spec

\* A session's state keeps its shape, an answer is in the hands of the one who
\* asked for it, and nothing but the handshake's frames travels before it is
\* over (request_locked, handle_message, ensure_spawned_locked).
THEOREM SessionHolds == Spec => []SessionInv
<1>1. Ind => SessionTypeOK
  BY DEF Ind, SessionTypes, SessionTypeOK
<1>2. Ind => AnswersMatch
  <2> SUFFICES ASSUME Ind, NEW p \in Threads
               PROVE  /\ box[p] # NoOne => box[p].id = asked[p]
                      /\ (pc[p] = "await" /\ ~dead) =>
                           (pending # NoOne /\ pending.who = p /\ pending.id = asked[p]) \/ box[p] # NoOne
    BY DEF AnswersMatch
  <2>1. pc[p] = "await" => stage[p] \in Answered
    BY DEF Ind, SessionTypes
  <2>2. MatchInv
    BY DEF Ind
  <2> QED
    BY <2>1, <2>2 DEF MatchInv, About
<1>3. Ind => HandshakeFirst
  BY DEF Ind, FrameInv, HandshakeFirst, Early
<1>4. Ind => SessionInv
  BY <1>1, <1>2, <1>3 DEF SessionInv
<1> QED
  BY <1>4, Invariant, PTL

\* Once a shutdown has returned and no caller is between starting a backend
\* and giving it up, nothing runs any more: shutdown stops the transport under
\* the slot's lock (terminate, and the dead check of ensure_spawned_locked).
THEOREM ShutdownLeavesNothing == Spec => []ShutdownReaps
<1>1. Ind => ShutdownReaps
  <2> SUFFICES ASSUME Ind, NEW s \in Shutters, res[s] # "none",
                      \A p \in Callers : pc[p] \notin {"store", "discard"}
               PROVE  /\ child \in {"none", "reaped"}
                      /\ writer \in {"none", "gone"} /\ reader \in {"none", "gone"}
    BY DEF ShutdownReaps
  <2>1. ~slot /\ \A p \in Threads : pc[p] # "join"
    BY DEF Ind, ReapInv
  <2>2. \A p \in Threads : pc[p] \notin Hands
    BY <2>1 DEF Ind, LockInv, Hands
  <2>3. ~Up
    BY <2>1, <2>2 DEF Ind, ReapInv
  <2> QED
    BY <2>3 DEF Up, Ind, SessionTypes
<1> QED
  BY <1>1, Invariant, PTL

\* A call that ends after a shutdown has returned does not report success: an
\* answer still in the channel is dropped by the check that the session lives
\* (check_alive, after the wait in request_locked).
THEOREM SilentAfterShutdown == Spec => NothingAfterShutdown
<1>1. Ind /\ [Next]_vars =>
        [(\E s \in Shutters : res[s] # "none") =>
            \A p \in Callers : res[p] = "none" => res'[p] # "ok"]_vars
  <2> SUFFICES ASSUME Ind, Next, NEW s \in Shutters, res[s] # "none",
                      NEW p \in Callers, res[p] = "none", res'[p] = "ok"
               PROVE  FALSE
    OBVIOUS
  <2>0. SessionTypes /\ LockInv /\ dead /\ p \in Threads
    BY DEF Ind, ReapInv, Threads
  \* Only the caller's own return writes how its call went.
  <2>1. ASSUME NEW q \in Threads, NEW r, Returns(q, r) PROVE q = p /\ r = "ok"
    BY <2>0, <2>1, ReturnsFacts
  <2>2. res' # res
    OBVIOUS
  <2>3. PICK q \in Threads : Begin(q) \/ BeginShutdown(q) \/ Thread(q)
    <3>1. CASE Writing \/ Reading \/ BackendReads \/ BackendAnswers \/ BackendAsks \/ BackendExits
      BY <2>2, <3>1, ServiceFrame
    <3>2. CASE UNCHANGED vars
      BY <2>2, <3>2 DEF vars, own
    <3> QED
      BY <3>1, <3>2 DEF Next
  <2>4. ~(Begin(q) \/ BeginShutdown(q) \/ TakeSlot(q) \/ LockFails(q) \/ Lock(q) \/ AlreadySpawned(q)
          \/ SpawnSeesDead(q) \/ Spawn(q) \/ Store(q) \/ Discard(q) \/ Send(q) \/ Post(q)
          \/ SendFails(q) \/ AwaitFails(q) \/ Poll(q))
    BY <2>2 DEF Begin, BeginShutdown, TakeSlot, LockFails, Lock, AlreadySpawned, SpawnSeesDead, Spawn,
                Store, Discard, Send, Post, SendFails, AwaitFails, Poll, Terminates, callers
  <2>5. ~Ended(q)
    <3>1. SUFFICES ASSUME Ended(q) PROVE FALSE
      OBVIOUS
    <3>2. Returns(q, IF q \in Shutters THEN "ok" ELSE "err")
      BY <3>1 DEF Ended
    <3>3. q = p /\ (IF q \in Shutters THEN "ok" ELSE "err") = "ok"
      BY <2>1, <3>2
    <3> QED
      BY <3>3, ThreadFacts, <2>0
  <2>6. ~SpawnFails(q) /\ ~Discarded(q)
    <3>1. ~Returns(q, "err")
      BY <2>1
    <3> QED
      BY <3>1 DEF SpawnFails, Discarded
  <2>7. ~Delivered(q) /\ ~Receive(q)
    BY <2>0, DeliveredCases, ReceiveCases
  <2> QED
    BY <2>3, <2>4, <2>5, <2>6, <2>7 DEF Thread
<1> QED
  BY <1>1, Invariant, PTL DEF Spec, NothingAfterShutdown

=============================================================================
