-------------------------- MODULE CollabService_proofs --------------------------
(***************************************************************************)
(* The safety of a service process, for any number of messages, workers,   *)
(* rooms, clients, sockets and events.                                     *)
(*                                                                         *)
(* Each part has an invariant of its own, which its own steps keep; Next   *)
(* moves one part at a time, except when the process starts, stops or      *)
(* ends, and no part's steps need to know about another's.  Only the       *)
(* notifications depend on the phase: rooms read before a process listens  *)
(* to content updates are none of StaleIsHeard's concern.                  *)
(***************************************************************************)
EXTENDS CollabService, RoomPresence_proofs

-----------------------------------------------------------------------------
(* The queue.                                                              *)

\* What a worker awaits is for the message it read, and the answer it is about
\* to give has its reason.
DeliveryOk(d) ==
    /\ queue[d.message].place # "none"
    /\ d.reads \in 1 .. queue[d.message].reads
    /\ d.awaits # "archive" => queue[d.message].shape # "contract"
    /\ d.awaits = "complete" => d.message \in attached
    /\ d.awaits = "archive" /\ queue[d.message].shape # "contract" =>
          d.message \in failures /\ queue[d.message].reads > MaxRetries

QueueInv ==
    /\ QueueTypeOK
    /\ \A w \in Workers : worker[w].on # NoDelivery => DeliveryOk(worker[w].on)
    /\ \A m \in attached : queue[m].place # "none" /\ queue[m].shape = "sound"
    /\ SettledForCause

QueueStep ==
    \/ StartQueueConsumer \/ WorkersLost
    \/ \E m \in Messages : BecomesVisible(m) \/ \E shape \in Shapes : Sends(m, shape)
    \/ \E w \in Workers :
          \/ \E m \in Messages : ReadMessage(w, m)
          \/ WorkerStops(w) \/ HandlerSucceeds(w) \/ HandlerThrows(w)
          \/ Completes(w) \/ Retries(w) \/ Archives(w) \/ HandoffFails(w)
          \/ AttachTrackOriginalAudio(w)

LEMMA QueueInit == InitQueue => QueueInv
BY MaxRetriesAssumption
DEF InitQueue, QueueInv, QueueTypeOK, Message, ReadCounts, Shapes, Idle, Work, Stopped,
    Polling, SettledForCause

\* A busy worker has the delivery it is busy with.
LEMMA DeliveryType ==
    ASSUME QueueInv, NEW w \in Workers, worker[w].on # NoDelivery
    PROVE  worker[w].on \in Delivery /\ DeliveryOk(worker[w].on)
BY DEF QueueInv, QueueTypeOK, Work

\* Workers whose work stays, or ends; the queue as it was.
LEMMA WorkersIdle ==
    ASSUME QueueInv, UNCHANGED <<queue, attached, failures>>,
           worker' \in [Workers -> [at : {Stopped, Polling, "busy"}, on : Work]],
           \A w \in Workers : \/ worker'[w] = worker[w]
                              \/ worker'[w] \in {Idle(Polling), Idle(Stopped)}
    PROVE  QueueInv'
<1> USE DEF QueueInv
<1>1. QueueTypeOK'
  BY DEF QueueTypeOK, Idle, Stopped, Polling
<1>2. \A w \in Workers : worker'[w].on # NoDelivery => worker'[w].on = worker[w].on
  BY DEF Idle
<1>3. \A w \in Workers : worker'[w].on # NoDelivery => DeliveryOk(worker[w].on)'
  BY <1>2 DEF DeliveryOk
<1>4. SettledForCause'
  BY DEF SettledForCause
<1> QED
  BY <1>1, <1>2, <1>3, <1>4 DEF DeliveryOk

LEMMA IdleType == Idle(Polling) \in [at : {Stopped, Polling, "busy"}, on : Work]
                  /\ Idle(Stopped) \in [at : {Stopped, Polling, "busy"}, on : Work]
BY DEF Idle, Work

LEMMA TurnsIdle ==
    ASSUME QueueInv, NEW w \in Workers,
           Turns(w, Idle(Polling)) \/ Turns(w, Idle(Stopped)),
           UNCHANGED <<queue, attached, failures>>
    PROVE  QueueInv'
<1>1. worker \in [Workers -> [at : {Stopped, Polling, "busy"}, on : Work]]
  BY DEF QueueInv, QueueTypeOK
<1>2. /\ worker' \in [Workers -> [at : {Stopped, Polling, "busy"}, on : Work]]
      /\ \A v \in Workers : \/ worker'[v] = worker[v]
                            \/ worker'[v] \in {Idle(Polling), Idle(Stopped)}
  BY <1>1, IdleType DEF Turns
<1> QED
  BY <1>2, WorkersIdle

\* A worker goes on with its delivery.
LEMMA AwaitsKeeps ==
    ASSUME QueueInv, NEW w \in Workers, worker[w].on # NoDelivery,
           NEW answer \in {"handler", "complete", "retry", "archive"},
           AwaitsNext(w, answer), UNCHANGED <<queue, attached>>,
           failures \subseteq failures', failures' \subseteq Messages,
           LET d == worker[w].on
           IN  /\ answer # "archive" => queue[d.message].shape # "contract"
               /\ answer = "complete" => d.message \in attached
               /\ answer = "archive" /\ queue[d.message].shape # "contract" =>
                     d.message \in failures' /\ queue[d.message].reads > MaxRetries
    PROVE  QueueInv'
<1> DEFINE d == worker[w].on
           e == [d EXCEPT !.awaits = answer]
<1>1. d \in Delivery /\ DeliveryOk(d)
  BY DeliveryType
<1>2. /\ e \in Delivery /\ e # NoDelivery
      /\ e.message = d.message /\ e.reads = d.reads /\ e.awaits = answer
  BY <1>1, NoDeliveryAssumption DEF Delivery
<1>3. worker' = [worker EXCEPT ![w] = Busy(e)]
  BY DEF AwaitsNext, Turns
<1> HIDE DEF e
<1>4. Busy(e) = [at |-> "busy", on |-> e] /\ Busy(e) \in [at : {Stopped, Polling, "busy"}, on : Work]
  BY <1>2 DEF Busy, Work
<1>5. QueueTypeOK'
  BY <1>2, <1>3, <1>4 DEF QueueInv, QueueTypeOK
<1>6. ASSUME NEW v \in Workers, worker'[v].on # NoDelivery PROVE DeliveryOk(worker[v].on)'
  <2>1. CASE v = w
    <3>1. worker'[w].on = e
      BY <1>3, <1>4 DEF QueueInv, QueueTypeOK
    <3> QED
      BY <1>1, <1>2, <2>1, <3>1 DEF DeliveryOk
  <2>2. CASE v # w
    <3>1. worker'[v] = worker[v] /\ DeliveryOk(worker[v].on)
      BY <1>3, <1>6, <2>2 DEF QueueInv, QueueTypeOK
    <3> QED
      BY <3>1 DEF DeliveryOk
  <2> QED
    BY <2>1, <2>2
<1>7. SettledForCause'
  BY DEF QueueInv, SettledForCause
<1> QED
  BY <1>5, <1>6, <1>7 DEF QueueInv

\* A message that was sent keeps its shape and its reads, and a worker keeps its
\* delivery or gives it up.
LEMMA QueueMoved ==
    ASSUME QueueInv, queue' \in [Messages -> Message],
           \A m \in Messages : queue[m].place # "none" =>
              /\ queue'[m].place # "none" /\ queue'[m].shape = queue[m].shape
              /\ queue'[m].reads >= queue[m].reads,
           UNCHANGED <<attached, failures>>,
           worker' \in [Workers -> [at : {Stopped, Polling, "busy"}, on : Work]],
           \A w \in Workers : \/ worker'[w] = worker[w]
                              \/ worker'[w] \in {Idle(Polling), Idle(Stopped)},
           SettledForCause'
    PROVE  QueueInv'
<1>1. QueueTypeOK'
  BY DEF QueueInv, QueueTypeOK, Idle, Stopped, Polling
<1>2. ASSUME NEW w \in Workers, worker'[w].on # NoDelivery PROVE DeliveryOk(worker[w].on)'
  <2>1. worker'[w].on = worker[w].on
    BY <1>2 DEF Idle
  <2> DEFINE d == worker[w].on
  <2>2. d \in Delivery /\ DeliveryOk(d)
    BY <1>2, <2>1, DeliveryType
  <2>3. d.message \in Messages /\ queue[d.message].reads \in Nat /\ queue'[d.message].reads \in Nat
    BY <2>2 DEF Delivery, QueueInv, QueueTypeOK, Message, ReadCounts
  <2>4. MaxRetries \in Nat /\ d.reads \in Nat
    BY <2>2, MaxRetriesAssumption DEF Delivery, ReadCounts
  <2>5. /\ queue'[d.message].place # "none" /\ queue'[d.message].shape = queue[d.message].shape
        /\ queue'[d.message].reads >= queue[d.message].reads
    BY <2>2, <2>3 DEF DeliveryOk
  <2> HIDE DEF d
  <2>6. /\ queue'[d.message].place # "none"
        /\ d.reads \in 1 .. queue'[d.message].reads
        /\ d.awaits # "archive" => queue'[d.message].shape # "contract"
        /\ d.awaits = "complete" => d.message \in attached'
        /\ d.awaits = "archive" /\ queue'[d.message].shape # "contract" =>
              d.message \in failures' /\ queue'[d.message].reads > MaxRetries
    BY <2>2, <2>3, <2>4, <2>5 DEF DeliveryOk
  <2>7. worker'[w].on = d
    BY <2>1 DEF d
  <2> QED
    BY <2>6, <2>7 DEF DeliveryOk
<1>3. \A m \in attached' : queue'[m].place # "none" /\ queue'[m].shape = "sound"
  BY DEF QueueInv, QueueTypeOK
<1> QED
  BY <1>1, <1>2, <1>3 DEF QueueInv

LEMMA QueueKeeps == ASSUME QueueInv, QueueStep \/ UNCHANGED queueVars PROVE QueueInv'
<1> USE DEF QueueInv
<1>0. /\ queue \in [Messages -> Message] /\ attached \subseteq Messages
      /\ worker \in [Workers -> [at : {Stopped, Polling, "busy"}, on : Work]]
      /\ failures \subseteq Messages
  BY DEF QueueTypeOK
<1>1. CASE UNCHANGED queueVars
  BY <1>0, <1>1, WorkersIdle DEF queueVars
<1>2. CASE StartQueueConsumer \/ WorkersLost
  <2>1. /\ UNCHANGED <<queue, attached, failures>>
        /\ worker' \in [Workers -> [at : {Stopped, Polling, "busy"}, on : Work]]
        /\ \A w \in Workers : worker'[w] \in {Idle(Polling), Idle(Stopped)}
    BY <1>2, IdleType DEF StartQueueConsumer, WorkersLost
  <2> QED
    BY <2>1, WorkersIdle
<1>3. ASSUME NEW m \in Messages, BecomesVisible(m) PROVE QueueInv'
  <2>1. /\ queue' = [queue EXCEPT ![m].hidden = FALSE]
        /\ UNCHANGED <<attached, worker, failures>>
    BY <1>3 DEF BecomesVisible
  <2>2. queue' \in [Messages -> Message]
        /\ \A n \in Messages : /\ queue'[n].place = queue[n].place /\ queue'[n].reads = queue[n].reads
                               /\ queue'[n].shape = queue[n].shape
    BY <1>0, <2>1 DEF Message
  <2>3. \A n \in Messages : queue'[n].reads >= queue[n].reads
    BY <1>0, <2>2 DEF Message, ReadCounts
  <2>4. SettledForCause'
    BY <2>1, <2>2 DEF SettledForCause
  <2> QED
    BY <1>0, <2>1, <2>2, <2>3, <2>4, QueueMoved
<1>4. ASSUME NEW m \in Messages, NEW shape \in Shapes, Sends(m, shape) PROVE QueueInv'
  <2>1. /\ queue[m].place = "none"
        /\ queue' = [queue EXCEPT ![m].place = "queued", ![m].shape = shape]
        /\ UNCHANGED <<attached, worker, failures>>
    BY <1>4 DEF Sends
  <2>2. queue' \in [Messages -> Message]
    <3> DEFINE sent == [queue[m] EXCEPT !.place = "queued", !.shape = shape]
    <3>1. sent \in Message
      <4>1. queue[m] \in Message
        BY <1>0
      <4>2. \A message \in Message :
              [message EXCEPT !.place = "queued", !.shape = shape] \in Message
        BY DEF Message
      <4> QED
        BY <4>1, <4>2
    <3>2. queue' = [queue EXCEPT ![m] = sent]
      BY <1>0, <2>1
    <3> HIDE DEF sent
    <3> QED
      BY <1>0, <3>1, <3>2
  <2>3. /\ queue'[m].place = "queued" /\ queue'[m].reads = queue[m].reads
        /\ \A n \in Messages \ {m} : queue'[n] = queue[n]
    BY <1>0, <2>1 DEF Message
  <2>4. \A n \in Messages : queue[n].place # "none" =>
              /\ queue'[n].place # "none" /\ queue'[n].shape = queue[n].shape
              /\ queue'[n].reads >= queue[n].reads
    BY <1>0, <2>1, <2>3 DEF Message, ReadCounts
  <2>5. SettledForCause'
    BY <2>1, <2>3 DEF SettledForCause
  <2> QED
    BY <1>0, <2>1, <2>2, <2>4, <2>5, QueueMoved
<1>5. ASSUME NEW w \in Workers, AttachTrackOriginalAudio(w) PROVE QueueInv'
  <2> DEFINE m == worker[w].on.message
  <2>1. /\ worker[w].on # NoDelivery /\ worker[w].on.awaits = "handler"
        /\ queue[m].shape \notin {"undecodable", "other"}
        /\ attached' = attached \cup {m} /\ UNCHANGED <<queue, worker, failures>>
    BY <1>5 DEF AttachTrackOriginalAudio, Awaits, prepareTrackOriginalAudioAttachment,
                decodeFileIngestEvent
  <2>2. worker[w].on \in Delivery /\ DeliveryOk(worker[w].on)
    BY <2>1, DeliveryType
  <2>3. /\ m \in Messages /\ queue[m].place # "none"
        /\ queue[m].shape = "sound"
    BY <1>0, <2>1, <2>2 DEF Delivery, DeliveryOk, Message, Shapes
  <2>4. QueueTypeOK'
    BY <2>1, <2>3 DEF QueueTypeOK
  <2>5. \A v \in Workers : worker'[v].on # NoDelivery => DeliveryOk(worker[v].on)'
    BY <2>1 DEF DeliveryOk
  <2>6. SettledForCause'
    BY <2>1 DEF SettledForCause
  <2> QED
    BY <2>1, <2>3, <2>4, <2>5, <2>6
<1>6. ASSUME NEW w \in Workers, WorkerStops(w) \/ HandoffFails(w) PROVE QueueInv'
  BY <1>6, TurnsIdle DEF WorkerStops, HandoffFails
<1>7. ASSUME NEW w \in Workers, HandlerSucceeds(w) PROVE QueueInv'
  <2>1. worker[w].on # NoDelivery /\ worker[w].on.awaits = "handler"
        /\ worker[w].on.message \in attached /\ AwaitsNext(w, "complete")
        /\ UNCHANGED <<queue, attached, failures>>
    BY <1>7 DEF HandlerSucceeds, Awaits
  <2>2. DeliveryOk(worker[w].on)
    BY <2>1, DeliveryType
  <2> QED
    BY <1>0, <2>1, <2>2, AwaitsKeeps DEF DeliveryOk
<1>8. ASSUME NEW w \in Workers, HandlerThrows(w) PROVE QueueInv'
  <2> DEFINE d == worker[w].on
             answer == IF RetriesLeft(d) THEN "retry" ELSE "archive"
  <2>1. d # NoDelivery /\ d.awaits = "handler" /\ AwaitsNext(w, answer)
        /\ UNCHANGED <<queue, attached>>
        /\ failures' = IF RetriesLeft(d) THEN failures ELSE failures \cup {d.message}
    BY <1>8 DEF HandlerThrows, Awaits
  <2>2. d \in Delivery /\ DeliveryOk(d)
    BY <2>1, DeliveryType
  <2>3. d.message \in Messages /\ queue[d.message].reads \in Nat
    BY <1>0, <2>2 DEF Delivery, Message, ReadCounts
  <2>4. ~RetriesLeft(d) => queue[d.message].reads > MaxRetries
    <3>1. d.reads \in 1 .. queue[d.message].reads
      BY <2>2 DEF DeliveryOk
    <3> QED
      BY <2>3, <3>1, MaxRetriesAssumption DEF RetriesLeft, deliveryRetryCount
  <2>5. /\ answer \in {"handler", "complete", "retry", "archive"} /\ answer # "complete"
        /\ failures \subseteq failures' /\ failures' \subseteq Messages
        /\ answer = "archive" => d.message \in failures' /\ queue[d.message].reads > MaxRetries
    BY <1>0, <2>1, <2>3, <2>4
  <2>6. queue[d.message].shape # "contract"
    BY <2>1, <2>2 DEF DeliveryOk
  <2> HIDE DEF answer
  <2> QED
    BY <2>1, <2>5, <2>6, AwaitsKeeps
<1>9. ASSUME NEW w \in Workers, NEW m \in Messages, ReadMessage(w, m) PROVE QueueInv'
  <2> DEFINE reads == Counted(queue[m].reads)
             d == [message |-> m, reads |-> reads,
                   awaits |-> IF deliveryContractError(m) THEN "archive" ELSE "handler"]
  <2>1. /\ queue[m].place = "queued"
        /\ queue' = [queue EXCEPT ![m].hidden = TRUE, ![m].reads = Counted(@)]
        /\ worker' = [worker EXCEPT ![w] = Busy(d)]
        /\ UNCHANGED <<attached, failures>>
    BY <1>9 DEF ReadMessage, Queued, Turns
  <2>2. /\ queue[m] \in Message /\ queue[m].reads \in ReadCounts
        /\ reads \in ReadCounts /\ reads >= queue[m].reads /\ reads \in 1 .. reads
    <3>1. queue[m] \in Message /\ queue[m].reads \in 0 .. MaxRetries + 1
      BY <1>0 DEF Message, ReadCounts
    <3> QED
      BY <3>1, MaxRetriesAssumption DEF Counted, ReadCounts
  <2> HIDE DEF reads
  <2>3. queue' = [queue EXCEPT ![m].hidden = TRUE, ![m].reads = reads]
    BY <1>0, <2>1 DEF reads, Message
  <2>4. /\ queue' \in [Messages -> Message]
        /\ queue'[m].place = "queued" /\ queue'[m].shape = queue[m].shape
        /\ queue'[m].reads = reads
        /\ \A n \in Messages \ {m} : queue'[n] = queue[n]
    <3>1. queue'[m] = [queue[m] EXCEPT !.hidden = TRUE, !.reads = reads]
      BY <1>0, <2>3
    <3>2. \A n \in Messages \ {m} : queue'[n] = queue[n]
      BY <1>0, <2>3
    <3>3. /\ queue'[m] \in Message /\ queue'[m].place = "queued"
          /\ queue'[m].shape = queue[m].shape /\ queue'[m].reads = reads
      <4>1. queue[m] \in Message /\ reads \in ReadCounts
        BY <2>2
      <4>2. queue[m].place = "queued"
        BY <2>1
      <4>3. \A message \in Message : \A r \in ReadCounts :
              LET read == [message EXCEPT !.hidden = TRUE, !.reads = r]
              IN  /\ read \in Message /\ read.place = message.place
                  /\ read.shape = message.shape /\ read.reads = r
        BY DEF Message
      <4>4. LET read == [queue[m] EXCEPT !.hidden = TRUE, !.reads = reads]
            IN  /\ read \in Message /\ read.place = queue[m].place
                /\ read.shape = queue[m].shape /\ read.reads = reads
        BY <4>1, <4>3
      <4> QED
        BY <3>1, <4>2, <4>4
    <3>4. queue' \in [Messages -> Message]
      BY <1>0, <2>3, <3>2, <3>3
    <3> QED
      BY <3>2, <3>3, <3>4
  <2>5. d \in Delivery /\ d # NoDelivery
    BY <2>2, NoDeliveryAssumption DEF Delivery
  <2>6. d.message = m /\ d.reads = reads
        /\ d.awaits = IF queue[m].shape = "contract" THEN "archive" ELSE "handler"
    BY DEF deliveryContractError
  <2> HIDE DEF d
  <2>7. QueueTypeOK'
    BY <2>1, <2>4, <2>5 DEF QueueTypeOK, Busy, Work
  <2>8. ASSUME NEW v \in Workers, worker'[v].on # NoDelivery PROVE DeliveryOk(worker[v].on)'
    <3>1. CASE v = w
      <4>1. worker'[w].on = d
        BY <1>0, <2>1 DEF Busy
      <4> QED
        BY <2>2, <2>4, <2>6, <3>1, <4>1 DEF DeliveryOk
    <3>2. CASE v # w
      <4> DEFINE e == worker[v].on
      <4>1. worker'[v].on = e /\ e \in Delivery /\ DeliveryOk(e)
        BY <1>0, <2>1, <2>8, <3>2, DeliveryType
      <4>2. e.message \in Messages
        BY <4>1 DEF Delivery
      <4>3. queue[e.message].reads \in Nat /\ queue'[e.message].reads \in Nat
        BY <1>0, <2>4, <4>2 DEF Message, ReadCounts
      <4>4. queue'[e.message].shape = queue[e.message].shape
            /\ queue'[e.message].place # "none"
            /\ queue'[e.message].reads >= queue[e.message].reads
        <5>1. CASE e.message = m
          BY <2>2, <2>4, <5>1
        <5>2. CASE e.message # m
          <6>1. queue'[e.message] = queue[e.message]
            BY <2>4, <4>2, <5>2
          <6>2. queue[e.message].place # "none"
            BY <4>1 DEF DeliveryOk
          <6> HIDE DEF e
          <6> QED
            BY <4>3, <6>1, <6>2
        <5> QED
          BY <5>1, <5>2
      <4>5. e.reads \in Nat /\ MaxRetries \in Nat
        BY <4>1, MaxRetriesAssumption DEF Delivery, ReadCounts
      <4> HIDE DEF e
      <4>6. UNCHANGED <<attached, failures>>
        BY <2>1
      <4>7. /\ queue'[e.message].place # "none"
            /\ e.reads \in 1 .. queue'[e.message].reads
            /\ e.awaits # "archive" => queue'[e.message].shape # "contract"
            /\ e.awaits = "complete" => e.message \in attached'
            /\ e.awaits = "archive" /\ queue'[e.message].shape # "contract" =>
                  e.message \in failures' /\ queue'[e.message].reads > MaxRetries
        BY <4>1, <4>3, <4>4, <4>5, <4>6 DEF DeliveryOk
      <4> QED
        BY <4>1, <4>7 DEF DeliveryOk
    <3> QED
      BY <3>1, <3>2
  <2>9. \A n \in attached' : queue'[n].place # "none" /\ queue'[n].shape = "sound"
    BY <1>0, <2>1, <2>4
  <2>10. SettledForCause'
    BY <2>1, <2>4 DEF SettledForCause
  <2> QED
    BY <2>7, <2>8, <2>9, <2>10
<1>10. ASSUME NEW w \in Workers, Completes(w) \/ Retries(w) \/ Archives(w) PROVE QueueInv'
  <2> DEFINE d == worker[w].on
             m == d.message
  <2>1. d # NoDelivery /\ UNCHANGED <<attached, failures>> /\ Turns(w, Idle(Polling))
    BY <1>10 DEF Completes, Retries, Archives, Awaits
  <2>2. d \in Delivery /\ DeliveryOk(d) /\ m \in Messages
    BY <2>1, DeliveryType DEF Delivery
  <2>3. \/ queue' = queue
        \/ d.awaits = "complete" /\ queue' = [queue EXCEPT ![m].place = "completed"]
        \/ d.awaits = "archive" /\ queue' = [queue EXCEPT ![m].place = "archived"]
        \/ \E hidden \in BOOLEAN : queue' = [queue EXCEPT ![m].hidden = hidden]
    <3>1. Retries(w) => \E hidden \in BOOLEAN : queue' = [queue EXCEPT ![m].hidden = hidden]
      <4> SUFFICES ASSUME Retries(w)
                   PROVE  \E hidden \in BOOLEAN : queue' = [queue EXCEPT ![m].hidden = hidden]
        OBVIOUS
      <4>1. (queue[m].hidden \/ Queued(m)) \in BOOLEAN
        OBVIOUS
      <4>2. queue' = [queue EXCEPT ![m].hidden = queue[m].hidden \/ Queued(m)]
        BY DEF Retries
      <4> QED
        BY <4>1, <4>2
    <3> QED
      BY <1>10, <3>1 DEF Completes, Archives, Awaits, Moved
  <2>4. /\ queue' \in [Messages -> Message]
        /\ \A n \in Messages : queue'[n].shape = queue[n].shape /\ queue'[n].reads = queue[n].reads
        /\ \A n \in Messages : \/ queue'[n].place = queue[n].place
                               \/ n = m /\ d.awaits = "complete" /\ queue'[n].place = "completed"
                               \/ n = m /\ d.awaits = "archive" /\ queue'[n].place = "archived"
    <3>1. CASE queue' = queue
      BY <1>0, <3>1
    <3>2. CASE d.awaits = "complete" /\ queue' = [queue EXCEPT ![m].place = "completed"]
      BY <1>0, <2>2, <3>2 DEF Message
    <3>3. CASE d.awaits = "archive" /\ queue' = [queue EXCEPT ![m].place = "archived"]
      BY <1>0, <2>2, <3>3 DEF Message
    <3>4. ASSUME NEW hidden \in BOOLEAN, queue' = [queue EXCEPT ![m].hidden = hidden]
          PROVE  /\ queue' \in [Messages -> Message]
                 /\ \A n \in Messages : /\ queue'[n].shape = queue[n].shape
                                        /\ queue'[n].reads = queue[n].reads
                                        /\ queue'[n].place = queue[n].place
      BY <1>0, <2>2, <3>4 DEF Message
    <3> QED
      BY <2>3, <3>1, <3>2, <3>3, <3>4
  <2>5. \A n \in Messages : queue[n].place # "none" => queue'[n].place # "none"
    BY <2>4
  <2>6. \A n \in Messages : queue'[n].reads >= queue[n].reads
    BY <1>0, <2>4 DEF Message, ReadCounts
  <2>7. SettledForCause'
    BY <2>1, <2>2, <2>4 DEF SettledForCause, DeliveryOk
  <2>8. /\ worker' \in [Workers -> [at : {Stopped, Polling, "busy"}, on : Work]]
        /\ \A v \in Workers : \/ worker'[v] = worker[v]
                              \/ worker'[v] \in {Idle(Polling), Idle(Stopped)}
    BY <1>0, <2>1, IdleType DEF Turns
  <2> QED
    BY <2>1, <2>4, <2>5, <2>6, <2>7, <2>8, QueueMoved
<1> QED
  BY <1>1, <1>2, <1>3, <1>4, <1>5, <1>6, <1>7, <1>8, <1>9, <1>10 DEF QueueStep

-----------------------------------------------------------------------------
(* The queue implements DurableQueue.                                      *)

Places == [m \in Messages |-> queue[m].place]
Kept == [m \in Messages |-> queue[m].shape]
Deliveries == [m \in Messages |-> queue[m].reads]

PromisedVars == <<Places, Kept, Deliveries, attached, failures>>

\* DurableQueue's actions, of the mapped variables.
LEMMA PromisedActions ==
    \A m \in Messages :
        /\ PromisedQueue!Send(m) <=>
              /\ Places[m] = "none"
              /\ Places' = [Places EXCEPT ![m] = "queued"]
              /\ \E kind \in Shapes : Kept' = [Kept EXCEPT ![m] = kind]
              /\ UNCHANGED <<Deliveries, attached, failures>>
        /\ PromisedQueue!Deliver(m) <=>
              /\ Places[m] = "queued"
              /\ Deliveries[m] <= MaxRetries
              /\ Deliveries' = [Deliveries EXCEPT ![m] = @ + 1]
              /\ UNCHANGED <<Places, Kept, attached, failures>>
        /\ PromisedQueue!Do(m) <=>
              /\ Deliveries[m] > 0
              /\ Kept[m] = "sound"
              /\ m \notin attached
              /\ attached' = attached \cup {m}
              /\ UNCHANGED <<Places, Kept, Deliveries, failures>>
        /\ PromisedQueue!GiveUp(m) <=>
              /\ Deliveries[m] > MaxRetries
              /\ Kept[m] # "contract"
              /\ failures' = failures \cup {m}
              /\ UNCHANGED <<Places, Kept, Deliveries, attached>>
        /\ \A end : PromisedQueue!Settle(m, end) <=>
              /\ Places[m] = "queued"
              /\ Places' = [Places EXCEPT ![m] = end]
              /\ UNCHANGED <<Kept, Deliveries, attached, failures>>
BY DEF Places, Kept, Deliveries, PromisedQueue!Send, PromisedQueue!Deliver,
       PromisedQueue!Do, PromisedQueue!GiveUp, PromisedQueue!Settle

LEMMA PromisedInit == InitQueue => PromisedQueue!Init
BY DEF InitQueue, PromisedQueue!Init

\* One message's place, shape and count of reads change, or none's.
LEMMA OneMessageMoves ==
    ASSUME NEW m \in Messages,
           \A n \in Messages \ {m} : queue'[n] = queue[n]
    PROVE  /\ queue'[m].place = queue[m].place => Places' = Places
           /\ queue'[m].shape = queue[m].shape => Kept' = Kept
           /\ queue'[m].reads = queue[m].reads => Deliveries' = Deliveries
           /\ Places' = [Places EXCEPT ![m] = queue'[m].place]
           /\ Kept' = [Kept EXCEPT ![m] = queue'[m].shape]
           /\ Deliveries' = [Deliveries EXCEPT ![m] = queue'[m].reads]
           /\ Places[m] = queue[m].place
           /\ Kept[m] = queue[m].shape
           /\ Deliveries[m] = queue[m].reads
BY DEF Places, Kept, Deliveries

\* A step that changes neither what the messages are nor what became of them.
LEMMA QueueStutters ==
    ASSUME \A m \in Messages : /\ queue'[m].place = queue[m].place
                               /\ queue'[m].shape = queue[m].shape
                               /\ queue'[m].reads = queue[m].reads,
           UNCHANGED <<attached, failures>>
    PROVE  UNCHANGED PromisedVars
BY DEF PromisedVars, Places, Kept, Deliveries

\* A worker settles the message of its delivery, unless another one did.
LEMMA MovedSettles ==
    ASSUME QueueInv, NEW m \in Messages, NEW end \in {"completed", "archived"},
           Moved(m, end), UNCHANGED <<attached, failures>>
    PROVE  PromisedQueue!Settle(m, end) \/ UNCHANGED PromisedVars
<1>1. queue \in [Messages -> Message]
  BY DEF QueueInv, QueueTypeOK
<1>2. CASE ~Queued(m)
  <2>1. queue' = queue
    BY <1>2 DEF Moved
  <2> QED
    BY <2>1, QueueStutters
<1>3. CASE Queued(m)
  <2>1. /\ queue'[m].place = end
        /\ queue'[m].shape = queue[m].shape
        /\ queue'[m].reads = queue[m].reads
        /\ \A n \in Messages \ {m} : queue'[n] = queue[n]
    BY <1>1, <1>3 DEF Moved, Message
  <2>2. /\ Places[m] = "queued"
        /\ Places' = [Places EXCEPT ![m] = end]
        /\ UNCHANGED <<Kept, Deliveries>>
    BY <1>3, <2>1, OneMessageMoves DEF Queued
  <2> QED
    BY <2>2, PromisedActions
<1> QED
  BY <1>2, <1>3

LEMMA QueueRefines ==
    ASSUME QueueInv, QueueStep \/ UNCHANGED queueVars
    PROVE  PromisedQueue!Next \/ UNCHANGED PromisedVars
<1>0. /\ queue \in [Messages -> Message] /\ attached \subseteq Messages
      /\ failures \subseteq Messages
  BY DEF QueueInv, QueueTypeOK
<1>1. ASSUME UNCHANGED <<queue, attached, failures>> PROVE UNCHANGED PromisedVars
  BY <1>1, QueueStutters
<1>2. CASE \/ UNCHANGED queueVars \/ StartQueueConsumer \/ WorkersLost
           \/ \E w \in Workers : WorkerStops(w) \/ HandlerSucceeds(w) \/ HandoffFails(w)
  <2>1. UNCHANGED <<queue, attached, failures>>
    BY <1>2 DEF queueVars, StartQueueConsumer, WorkersLost, WorkerStops, HandlerSucceeds,
                HandoffFails
  <2> QED
    BY <1>1, <2>1
<1>3. ASSUME NEW m \in Messages, BecomesVisible(m) PROVE UNCHANGED PromisedVars
  BY <1>0, <1>3, QueueStutters DEF BecomesVisible, Message
<1>4. ASSUME NEW m \in Messages, NEW shape \in Shapes, Sends(m, shape)
      PROVE  PromisedQueue!Send(m)
  <2>1. /\ queue[m].place = "none" /\ UNCHANGED <<attached, failures>>
        /\ queue'[m].place = "queued" /\ queue'[m].shape = shape
        /\ queue'[m].reads = queue[m].reads
        /\ \A n \in Messages \ {m} : queue'[n] = queue[n]
    BY <1>0, <1>4 DEF Sends, Message
  <2>2. /\ Places[m] = "none"
        /\ Places' = [Places EXCEPT ![m] = "queued"]
        /\ Kept' = [Kept EXCEPT ![m] = shape]
        /\ Deliveries' = Deliveries
    BY <2>1, OneMessageMoves
  <2> QED
    BY <2>1, <2>2, PromisedActions
<1>5. ASSUME NEW w \in Workers, NEW m \in Messages, ReadMessage(w, m)
      PROVE  PromisedQueue!Deliver(m) \/ UNCHANGED PromisedVars
  <2>1. /\ queue[m].place = "queued" /\ UNCHANGED <<attached, failures>>
        /\ queue'[m].place = "queued" /\ queue'[m].shape = queue[m].shape
        /\ queue'[m].reads = Counted(queue[m].reads)
        /\ \A n \in Messages \ {m} : queue'[n] = queue[n]
    BY <1>0, <1>5 DEF ReadMessage, Queued, Message
  <2>2. CASE queue[m].reads \in 0 .. MaxRetries
    <3>1. queue[m].reads <= MaxRetries /\ Counted(queue[m].reads) = queue[m].reads + 1
      BY <2>2, MaxRetriesAssumption DEF Counted
    <3>2. /\ Places[m] = "queued" /\ Places' = Places /\ Kept' = Kept
          /\ Deliveries[m] = queue[m].reads
          /\ Deliveries' = [Deliveries EXCEPT ![m] = Counted(queue[m].reads)]
      BY <2>1, OneMessageMoves
    <3>3. Deliveries[m] <= MaxRetries /\ Deliveries' = [Deliveries EXCEPT ![m] = @ + 1]
      BY <3>1, <3>2
    <3> QED
      BY <2>1, <3>2, <3>3, PromisedActions
  <2>3. CASE queue[m].reads \notin 0 .. MaxRetries
    <3>1. queue'[m].reads = queue[m].reads
      BY <2>1, <2>3 DEF Counted
    <3> QED
      BY <2>1, <3>1, QueueStutters
  <2> QED
    BY <2>2, <2>3
<1>6. ASSUME NEW w \in Workers, AttachTrackOriginalAudio(w)
      PROVE  \E m \in Messages : PromisedQueue!Do(m)
  <2> DEFINE m == worker[w].on.message
  <2>1. /\ worker[w].on # NoDelivery /\ worker[w].on.awaits = "handler"
        /\ queue[m].shape \notin {"undecodable", "other"} /\ m \notin attached
        /\ attached' = attached \cup {m} /\ UNCHANGED <<queue, failures>>
    BY <1>6 DEF AttachTrackOriginalAudio, Awaits, prepareTrackOriginalAudioAttachment,
                decodeFileIngestEvent
  <2>2. worker[w].on \in Delivery /\ DeliveryOk(worker[w].on)
    BY <2>1, DeliveryType
  <2>3. m \in Messages /\ queue[m].shape = "sound" /\ queue[m].reads > 0
    <3>1. m \in Messages /\ queue[m].shape \in Shapes /\ queue[m].reads \in Nat
      BY <1>0, <2>2 DEF Delivery, Message, ReadCounts
    <3>2. queue[m].shape # "contract" /\ worker[w].on.reads \in 1 .. queue[m].reads
      BY <2>1, <2>2 DEF DeliveryOk
    <3> QED
      BY <2>1, <3>1, <3>2 DEF Shapes
  <2> HIDE DEF m
  <2>4. Kept[m] = "sound" /\ Deliveries[m] > 0 /\ UNCHANGED <<Places, Kept, Deliveries>>
    BY <2>1, <2>3, OneMessageMoves
  <2> QED
    BY <2>1, <2>3, <2>4, PromisedActions
<1>7. ASSUME NEW w \in Workers, HandlerThrows(w)
      PROVE  (\E m \in Messages : PromisedQueue!GiveUp(m)) \/ UNCHANGED PromisedVars
  <2> DEFINE d == worker[w].on
             m == d.message
  <2>1. /\ d # NoDelivery /\ d.awaits = "handler" /\ UNCHANGED <<queue, attached>>
        /\ failures' = IF RetriesLeft(d) THEN failures ELSE failures \cup {m}
    BY <1>7 DEF HandlerThrows, Awaits
  <2>2. CASE RetriesLeft(d)
    BY <1>1, <2>1, <2>2
  <2>3. CASE ~RetriesLeft(d)
    <3>1. d \in Delivery /\ DeliveryOk(d)
      BY <2>1, DeliveryType
    <3>2. m \in Messages /\ queue[m].reads \in Nat
      BY <1>0, <3>1 DEF Delivery, Message, ReadCounts
    <3>3. queue[m].shape # "contract" /\ d.reads \in 1 .. queue[m].reads
      BY <2>1, <3>1 DEF DeliveryOk
    <3>4. queue[m].reads > MaxRetries
      BY <2>3, <3>2, <3>3, MaxRetriesAssumption DEF RetriesLeft, deliveryRetryCount
    <3> HIDE DEF m
    <3>5. Deliveries[m] > MaxRetries /\ Kept[m] # "contract"
          /\ UNCHANGED <<Places, Kept, Deliveries>>
      BY <2>1, <3>2, <3>3, <3>4, OneMessageMoves
    <3> QED
      BY <2>1, <2>3, <3>2, <3>5, PromisedActions
  <2> QED
    BY <2>2, <2>3
<1>8. ASSUME NEW w \in Workers, Completes(w) \/ Archives(w)
      PROVE  \/ \E m \in Messages : PromisedQueue!Complete(m) \/ PromisedQueue!Archive(m)
             \/ UNCHANGED PromisedVars
  <2> DEFINE d == worker[w].on
             m == d.message
  <2>1. /\ d # NoDelivery /\ UNCHANGED <<attached, failures>>
        /\ \/ d.awaits = "complete" /\ Moved(m, "completed")
           \/ d.awaits = "archive" /\ Moved(m, "archived")
    BY <1>8 DEF Completes, Archives, Awaits
  <2>2. d \in Delivery /\ DeliveryOk(d)
    BY <2>1, DeliveryType
  <2>3. m \in Messages /\ queue[m].reads \in Nat
    BY <1>0, <2>2 DEF Delivery, Message, ReadCounts
  <2>4. /\ d.awaits = "complete" => m \in attached
        /\ d.awaits = "archive" => queue[m].shape = "contract" \/ m \in failures
        /\ queue[m].reads > 0
    BY <2>2, <2>3 DEF DeliveryOk
  <2> HIDE DEF m
  <2>5. CASE d.awaits = "complete" /\ Moved(m, "completed")
    <3>1. PromisedQueue!Settle(m, "completed") \/ UNCHANGED PromisedVars
      BY <2>1, <2>3, <2>5, MovedSettles
    <3> QED
      BY <2>3, <2>4, <2>5, <3>1 DEF PromisedQueue!Complete
  <2>6. CASE d.awaits = "archive" /\ Moved(m, "archived")
    <3>1. PromisedQueue!Settle(m, "archived") \/ UNCHANGED PromisedVars
      BY <2>1, <2>3, <2>6, MovedSettles
    <3> QED
      BY <2>3, <2>4, <2>6, <3>1 DEF PromisedQueue!Archive
  <2> QED
    BY <2>1, <2>5, <2>6
<1>9. ASSUME NEW w \in Workers, Retries(w) PROVE UNCHANGED PromisedVars
  BY <1>0, <1>9, QueueStutters DEF Retries, Message
<1> QED
  BY <1>2, <1>3, <1>4, <1>5, <1>6, <1>7, <1>8, <1>9 DEF QueueStep, PromisedQueue!Next

-----------------------------------------------------------------------------
(* The signals.                                                            *)

SignalInv == SignalTypeOK /\ StaleIsHeard

LEMMA SignalInit == InitSignals => SignalInv
<1> SUFFICES ASSUME InitSignals PROVE SignalInv
  OBVIOUS
<1>1. \A s \in Signals : << >> \in Seq(Notifications[s])
  OBVIOUS
<1> QED
  BY <1>1 DEF InitSignals, SignalInv, SignalTypeOK, StaleIsHeard, Room, Absent

\* Rooms that come, go and are told; the notifications as they were.
LEMMA RoomsChange ==
    ASSUME SignalInv, UNCHANGED <<listening, inbox>>, rooms' \in [Rooms -> Room],
           \A r \in Rooms : rooms'[r].stale /\ rooms'[r].covered =>
                               rooms[r].stale /\ rooms[r].covered
    PROVE  SignalInv'
BY DEF SignalInv, SignalTypeOK, StaleIsHeard

LEMMA SameSignals == ASSUME SignalInv, UNCHANGED signalVars PROVE SignalInv'
<1>1. rooms' \in [Rooms -> Room] /\ UNCHANGED <<rooms, listening, inbox>>
  BY DEF SignalInv, SignalTypeOK, signalVars
<1> QED
  BY <1>1, RoomsChange

LEMMA RoomLoadsKeeps ==
    ASSUME SignalInv, NEW r \in Rooms, RoomLoads(r) \/ ClientsLeave(r) \/ RoomUnloads(r)
    PROVE  SignalInv' /\ \A q \in Rooms : rooms'[q].covered =>
                            rooms[q].covered \/ "content" \in listening
<1>1. /\ rooms \in [Rooms -> Room] /\ UNCHANGED <<listening, inbox>>
  BY DEF SignalInv, SignalTypeOK, RoomLoads, ClientsLeave, RoomUnloads
<1>2. CASE RoomLoads(r)
  <2> DEFINE room == [here |-> TRUE, clients |-> TRUE, stale |-> FALSE,
                      covered |-> "content" \in listening, told |-> FALSE]
  <2>1. rooms' = [rooms EXCEPT ![r] = room] /\ room \in Room /\ ~room.stale
        /\ room.covered = ("content" \in listening)
    <3>1. rooms' = [rooms EXCEPT ![r] = room]
      BY <1>2 DEF RoomLoads
    <3>2. ("content" \in listening) \in BOOLEAN
      OBVIOUS
    <3>3. room \in Room
      BY <3>2 DEF Room
    <3> QED
      BY <3>1, <3>3
  <2> HIDE DEF room
  <2> QED
    BY <1>1, <2>1, RoomsChange
<1>3. CASE ClientsLeave(r)
  <2>1. rooms' = [rooms EXCEPT ![r].clients = FALSE]
    BY <1>3 DEF ClientsLeave
  <2>2. /\ rooms' \in [Rooms -> Room]
        /\ \A q \in Rooms : rooms'[q].stale = rooms[q].stale /\ rooms'[q].covered = rooms[q].covered
    BY <1>1, <2>1 DEF Room
  <2> QED
    BY <1>1, <2>2, RoomsChange
<1>4. CASE RoomUnloads(r)
  <2>1. rooms' = [rooms EXCEPT ![r] = Absent] /\ Absent \in Room /\ ~Absent.stale /\ ~Absent.covered
    BY <1>4 DEF RoomUnloads, Absent, Room
  <2> QED
    BY <1>1, <2>1, RoomsChange
<1> QED
  BY <1>2, <1>3, <1>4

\* A notification comes after those that are there.
LEMMA ReceivedKeeps ==
    ASSUME SignalTypeOK, NEW signal \in Signals, NEW n \in Notifications[signal],
           inbox' = Received(signal, n)
    PROVE  /\ DOMAIN inbox' = Signals
           /\ \A s \in Signals : inbox'[s] \in Seq(Notifications[s])
           /\ \A i \in DOMAIN inbox["content"] :
                 i \in DOMAIN inbox'["content"] /\ inbox'["content"][i] = inbox["content"][i]
           /\ signal = "content" /\ "content" \in listening =>
                 \E i \in DOMAIN inbox'["content"] : inbox'["content"][i] = n
<1>1. CASE signal \notin listening
  BY <1>1 DEF Received, SignalTypeOK, Signals
<1>2. CASE signal \in listening
  <2>1. inbox' = [inbox EXCEPT ![signal] = Append(@, n)]
    BY <1>2 DEF Received
  <2>2. DOMAIN inbox' = Signals /\ inbox'[signal] = Append(inbox[signal], n)
        /\ \A s \in Signals \ {signal} : inbox'[s] = inbox[s]
    BY <2>1 DEF SignalTypeOK
  <2>3. inbox[signal] \in Seq(Notifications[signal])
    BY DEF SignalTypeOK
  <2>4. /\ Append(inbox[signal], n) \in Seq(Notifications[signal])
        /\ \A i \in DOMAIN inbox[signal] :
              i \in DOMAIN Append(inbox[signal], n) /\ Append(inbox[signal], n)[i] = inbox[signal][i]
        /\ Len(inbox[signal]) + 1 \in DOMAIN Append(inbox[signal], n)
        /\ Append(inbox[signal], n)[Len(inbox[signal]) + 1] = n
    <3> DEFINE q == inbox[signal]
    <3>1. q \in Seq(Notifications[signal])
      BY <2>3
    <3> HIDE DEF q
    <3>2. /\ Append(q, n) \in Seq(Notifications[signal])
          /\ \A i \in DOMAIN q : i \in DOMAIN Append(q, n) /\ Append(q, n)[i] = q[i]
          /\ Len(q) + 1 \in DOMAIN Append(q, n)
          /\ Append(q, n)[Len(q) + 1] = n
      BY <3>1
    <3> QED
      BY <3>2 DEF q
  <2>5. \A s \in Signals : inbox'[s] \in Seq(Notifications[s])
    BY <2>2, <2>4 DEF SignalTypeOK
  <2>6. CASE signal = "content"
    BY <2>2, <2>4, <2>5, <2>6
  <2>7. CASE signal # "content"
    BY <2>2, <2>5, <2>7 DEF Signals
  <2> QED
    BY <2>6, <2>7
<1> QED
  BY <1>1, <1>2

LEMMA NotifyKeeps ==
    ASSUME SignalInv, NEW signal \in Signals, NEW n \in Notifications[signal], Notify(signal, n)
    PROVE  SignalInv' /\ UNCHANGED rooms
<1>1. inbox' = Received(signal, n) /\ UNCHANGED <<rooms, listening>>
  BY DEF Notify
<1>2. /\ DOMAIN inbox' = Signals
      /\ \A s \in Signals : inbox'[s] \in Seq(Notifications[s])
      /\ \A i \in DOMAIN inbox["content"] :
            i \in DOMAIN inbox'["content"] /\ inbox'["content"][i] = inbox["content"][i]
  BY <1>1, ReceivedKeeps DEF SignalInv
<1>3. SignalTypeOK'
  BY <1>1, <1>2 DEF SignalInv, SignalTypeOK
<1>4. StaleIsHeard'
  BY <1>1, <1>2 DEF SignalInv, StaleIsHeard, Closes, externalContentUpdateFence,
     localeContentUpdateFence
<1> QED
  BY <1>1, <1>3, <1>4 DEF SignalInv

\* The rooms a change makes stale are those its notification closes.
LEMMA ChangeKeeps ==
    ASSUME SignalInv, NEW stale \in SUBSET Rooms, NEW event \in ContentEvents, NEW room \in Rooms,
           rooms' = Made(stale),
           inbox' = Received("content", [room |-> room, event |-> event]),
           UNCHANGED listening,
           \A r \in stale : Closes([room |-> room, event |-> event], r)
    PROVE  SignalInv' /\ \A r \in Rooms : rooms'[r].covered = rooms[r].covered
<1> DEFINE n == [room |-> room, event |-> event]
<1>1. "content" \in Signals /\ n \in Notifications["content"]
  BY DEF Signals, Notifications, Notification
<1>2. /\ DOMAIN inbox' = Signals
      /\ \A s \in Signals : inbox'[s] \in Seq(Notifications[s])
      /\ \A i \in DOMAIN inbox["content"] :
            i \in DOMAIN inbox'["content"] /\ inbox'["content"][i] = inbox["content"][i]
      /\ "content" \in listening =>
            \E i \in DOMAIN inbox'["content"] : inbox'["content"][i] = n
  BY <1>1, ReceivedKeeps DEF SignalInv
<1> HIDE DEF n
<1>3. /\ rooms' \in [Rooms -> Room]
      /\ \A r \in Rooms : rooms'[r].covered = rooms[r].covered
      /\ \A r \in Rooms \ stale : rooms'[r] = rooms[r]
  BY DEF Made, SignalInv, SignalTypeOK, Room
<1>4. SignalTypeOK'
  BY <1>2, <1>3 DEF SignalInv, SignalTypeOK
<1>5. ASSUME "content" \in listening, NEW r \in Rooms, rooms'[r].stale, rooms'[r].covered
      PROVE  \E i \in DOMAIN inbox'["content"] : Closes(inbox'["content"][i], r)
  <2>1. CASE r \in stale
    <3>1. Closes(n, r)
      BY <2>1 DEF n
    <3> QED
      BY <1>2, <1>5, <3>1
  <2>2. CASE r \notin stale
    <3>1. PICK i \in DOMAIN inbox["content"] : Closes(inbox["content"][i], r)
      BY <1>3, <1>5, <2>2 DEF SignalInv, StaleIsHeard
    <3> QED
      BY <1>2, <3>1
  <2> QED
    BY <2>1, <2>2
<1>6. StaleIsHeard'
  <2>1. \A m, r : Closes(m, r)' <=> Closes(m, r)
    BY DEF Closes, externalContentUpdateFence, localeContentUpdateFence
  <2> QED
    BY <1>5, <2>1 DEF StaleIsHeard
<1> QED
  BY <1>3, <1>4, <1>6 DEF SignalInv

\* The API's changes, as its notifications describe them.
LEMMA DocumentChangesKeeps ==
    ASSUME SignalInv, NEW room \in Rooms, NEW given \in BOOLEAN,
           DocumentChanges(room, given) \/ TranslationChanges(room, given)
    PROVE  SignalInv' /\ UNCHANGED listening
           /\ \A r \in Rooms : rooms'[r].covered = rooms[r].covered
<1>1. CASE DocumentChanges(room, given)
  <2> DEFINE event == [source |-> "external", revision |-> TRUE, locale |-> given,
                       exists |-> IF given THEN "true" ELSE "unset",
                       target |-> FALSE, advances |-> TRUE]
  <2>1. event \in ContentEvents /\ EntityDocuments(room) \in SUBSET Rooms
    BY DEF ContentEvents, EntityDocuments
  <2>2. \A r \in EntityDocuments(room) : Closes([room |-> room, event |-> event], r)
    BY DEF Closes, externalContentUpdateFence, hasLocaleTuple, localeContentUpdateRefused,
           localeContentUpdateFence
  <2>3. /\ rooms' = Made(EntityDocuments(room)) /\ UNCHANGED listening
        /\ inbox' = Received("content", [room |-> room, event |-> event])
    BY <1>1 DEF DocumentChanges
  <2> HIDE DEF event
  <2> QED
    BY <2>1, <2>2, <2>3, ChangeKeeps
<1>2. CASE TranslationChanges(room, given)
  <2> DEFINE event == [source |-> "external", revision |-> TRUE, locale |-> TRUE,
                       exists |-> IF given THEN "true" ELSE "false",
                       target |-> given, advances |-> FALSE]
  <2>1. event \in ContentEvents /\ LocaleDocument(room) \in SUBSET Rooms
    BY DEF ContentEvents, LocaleDocument
  <2>2. \A r \in LocaleDocument(room) : Closes([room |-> room, event |-> event], r)
    BY DEF Closes, externalContentUpdateFence, hasLocaleTuple, localeContentUpdateRefused,
           localeContentUpdateFence
  <2>3. /\ rooms' = Made(LocaleDocument(room)) /\ UNCHANGED listening
        /\ inbox' = Received("content", [room |-> room, event |-> event])
    BY <1>2 DEF TranslationChanges
  <2> HIDE DEF event
  <2> QED
    BY <2>1, <2>2, <2>3, ChangeKeeps
<1> QED
  BY <1>1, <1>2

\* Telling a room changes nothing about what it was read from.
LEMMA TellKept ==
    ASSUME rooms \in [Rooms -> Room], NEW documents, Tell(documents)
    PROVE  /\ rooms' \in [Rooms -> Room]
           /\ \A r \in Rooms : rooms'[r].stale = rooms[r].stale /\ rooms'[r].covered = rooms[r].covered
BY DEF Tell, Room

\* The notification that was handled was the oldest one.
LEMMA HandledKeeps ==
    ASSUME SignalTypeOK, NEW signal \in Signals, inbox[signal] # << >>, Handled(signal)
    PROVE  /\ DOMAIN inbox' = Signals
           /\ \A s \in Signals : inbox'[s] \in Seq(Notifications[s])
           /\ \A s \in Signals \ {signal} : inbox'[s] = inbox[s]
           /\ Oldest(signal) = inbox[signal][1]
           /\ \A i \in DOMAIN inbox[signal] :
                 i # 1 => i - 1 \in DOMAIN inbox'[signal] /\ inbox'[signal][i - 1] = inbox[signal][i]
<1> DEFINE q == inbox[signal]
<1>1. q \in Seq(Notifications[signal]) /\ q # << >>
  BY DEF SignalTypeOK
<1>2. /\ inbox' = [inbox EXCEPT ![signal] = Tail(q)] /\ DOMAIN inbox = Signals
  BY DEF Handled, SignalTypeOK
<1>3. inbox'[signal] = Tail(q) /\ \A s \in Signals \ {signal} : inbox'[s] = inbox[s]
  BY <1>2
<1>4. Oldest(signal) = Head(q)
  BY DEF Oldest
<1> HIDE DEF q
<1>5. /\ Tail(q) \in Seq(Notifications[signal]) /\ Head(q) = q[1]
      /\ \A i \in DOMAIN q : i # 1 => i - 1 \in DOMAIN Tail(q) /\ Tail(q)[i - 1] = q[i]
  BY <1>1
<1>6. \A s \in Signals : inbox'[s] \in Seq(Notifications[s])
  BY <1>3, <1>5 DEF SignalTypeOK
<1> QED
  BY <1>2, <1>3, <1>4, <1>5, <1>6 DEF q

LEMMA HandleSignalKeeps ==
    ASSUME SignalInv, HandleSignal
    PROVE  SignalInv' /\ UNCHANGED listening
           /\ \A r \in Rooms : rooms'[r].covered => rooms[r].covered
<1>1. SignalTypeOK /\ StaleIsHeard /\ rooms \in [Rooms -> Room]
  BY DEF SignalInv, SignalTypeOK
<1>2. ASSUME NEW signal \in Signals \ {"content"}, inbox[signal] # << >>, Handled(signal),
             UNCHANGED listening, UNCHANGED rooms \/ \E documents \in SUBSET Rooms : Tell(documents)
      PROVE  SignalInv' /\ UNCHANGED listening
             /\ \A r \in Rooms : rooms'[r].covered => rooms[r].covered
  <2>1. /\ DOMAIN inbox' = Signals /\ "content" \in Signals
        /\ \A s \in Signals : inbox'[s] \in Seq(Notifications[s])
        /\ inbox'["content"] = inbox["content"]
    BY <1>1, <1>2, HandledKeeps DEF Signals
  <2>2. /\ rooms' \in [Rooms -> Room]
        /\ \A r \in Rooms : rooms'[r].stale = rooms[r].stale /\ rooms'[r].covered = rooms[r].covered
    BY <1>1, <1>2, TellKept
  <2>3. SignalTypeOK'
    BY <1>1, <1>2, <2>1, <2>2 DEF SignalTypeOK
  <2>4. StaleIsHeard'
    BY <1>1, <1>2, <2>1, <2>2 DEF StaleIsHeard, Closes, externalContentUpdateFence,
       localeContentUpdateFence
  <2> QED
    BY <1>2, <2>2, <2>3, <2>4 DEF SignalInv
<1>3. {"og", "media", "translation"} \subseteq Signals \ {"content"}
  BY DEF Signals
<1>4. \A n : n.room \in Rooms =>
         /\ EntityDocuments(n.room) \in SUBSET Rooms /\ LocaleDocument(n.room) \in SUBSET Rooms
         /\ DocumentsOfType(n.room) \in SUBSET Rooms
  BY DEF EntityDocuments, LocaleDocument, DocumentsOfType
<1>5. \A s \in Signals : inbox[s] # << >> => Oldest(s) \in Notifications[s] /\ Oldest(s).room \in Rooms
  <2> SUFFICES ASSUME NEW s \in Signals, inbox[s] # << >>
               PROVE  Oldest(s) \in Notifications[s] /\ Oldest(s).room \in Rooms
    OBVIOUS
  <2>1. Oldest(s) \in Notifications[s]
    BY <1>1 DEF SignalTypeOK, Oldest
  <2>2. Notifications[s] \in {Notification(OgEvents), Notification(ContentEvents),
                             Notification(MediaEvents), Notification(TranslationEvents)}
    BY DEF Notifications, Signals
  <2>3. \A events : \A n \in Notification(events) : n.room \in Rooms
    BY DEF Notification
  <2> QED
    BY <2>1, <2>2, <2>3
<1>6. CASE HandleOgLifecycle
  <2>1. inbox["og"] # << >> /\ Handled("og") /\ UNCHANGED listening
        /\ (UNCHANGED rooms
            \/ (toRuntimeEvent(Oldest("og")) /\ Tell(resolveOgTarget(Oldest("og")))))
    BY <1>6 DEF HandleOgLifecycle
  <2>2. toRuntimeEvent(Oldest("og")) => resolveOgTarget(Oldest("og")) \in SUBSET Rooms
    <3>1. Oldest("og").event \in OgEvents /\ Oldest("og").room \in Rooms
      BY <1>3, <1>5, <2>1 DEF Notifications, Notification
    <3> QED
      BY <1>4, <3>1 DEF toRuntimeEvent, resolveOgTarget, OgEvents
  <2> QED
    BY <1>2, <1>3, <2>1, <2>2
<1>7. CASE HandleMediaProcessing
  <2>1. inbox["media"] # << >> /\ Handled("media") /\ UNCHANGED listening
        /\ (UNCHANGED rooms \/ Tell(EntityDocuments(Oldest("media").room)))
    BY <1>7 DEF HandleMediaProcessing
  <2> QED
    BY <1>2, <1>3, <1>4, <1>5, <2>1
<1>8. CASE HandleTranslationMessage
  <2>1. inbox["translation"] # << >> /\ Handled("translation") /\ UNCHANGED listening
        /\ Tell(translationDocumentTarget(Oldest("translation")))
    BY <1>8 DEF HandleTranslationMessage
  <2>2. translationDocumentTarget(Oldest("translation")) \in SUBSET Rooms
    BY <1>3, <1>4, <1>5, <2>1 DEF translationDocumentTarget
  <2> QED
    BY <1>2, <1>3, <2>1, <2>2
<1>9. CASE HandleContentUpdated
  <2> DEFINE n == Oldest("content")
  <2>1. /\ inbox["content"] # << >> /\ Handled("content") /\ UNCHANGED listening
        /\ \/ broadcastExternalEntityChangedHint(n) /\ Tell(EntityDocuments(n.room))
           \/ rooms' = [r \in Rooms |-> IF r \in externalContentUpdateFence(n) THEN Absent
                                        ELSE rooms[r]]
    BY <1>9 DEF HandleContentUpdated
  <2>2. /\ DOMAIN inbox' = Signals
        /\ \A s \in Signals : inbox'[s] \in Seq(Notifications[s])
        /\ n = inbox["content"][1]
        /\ \A i \in DOMAIN inbox["content"] :
              i # 1 => i - 1 \in DOMAIN inbox'["content"]
                       /\ inbox'["content"][i - 1] = inbox["content"][i]
    BY <1>1, <2>1, HandledKeeps DEF Signals
  <2> HIDE DEF n
  <2>3. /\ rooms' \in [Rooms -> Room]
        /\ \A r \in Rooms : rooms'[r].covered => rooms[r].covered
        /\ \A r \in Rooms : rooms'[r].stale =>
              rooms[r].stale /\ r \notin externalContentUpdateFence(n)
    <3>1. CASE broadcastExternalEntityChangedHint(n) /\ Tell(EntityDocuments(n.room))
      <4>1. externalContentUpdateFence(n) = {}
        BY <3>1 DEF externalContentUpdateFence, broadcastExternalEntityChangedHint
      <4> QED
        BY <1>1, <3>1, <4>1, TellKept
    <3>2. CASE rooms' = [r \in Rooms |-> IF r \in externalContentUpdateFence(n) THEN Absent
                                         ELSE rooms[r]]
      <4>1. Absent \in Room /\ ~Absent.stale /\ ~Absent.covered
        BY DEF Absent, Room
      <4> QED
        BY <1>1, <3>2, <4>1
    <3> QED
      BY <2>1, <3>1, <3>2
  <2>4. SignalTypeOK'
    BY <1>1, <2>1, <2>2, <2>3 DEF SignalTypeOK
  <2>5. ASSUME "content" \in listening, NEW r \in Rooms, rooms'[r].stale, rooms'[r].covered
        PROVE  \E i \in DOMAIN inbox'["content"] : Closes(inbox'["content"][i], r)
    <3>1. PICK i \in DOMAIN inbox["content"] : Closes(inbox["content"][i], r)
      BY <1>1, <2>3, <2>5 DEF StaleIsHeard
    <3>2. i # 1
      BY <2>2, <2>3, <2>5, <3>1 DEF Closes
    <3> QED
      BY <2>2, <3>1, <3>2
  <2>6. StaleIsHeard'
    <3>1. \A m, r : Closes(m, r)' <=> Closes(m, r)
      BY DEF Closes, externalContentUpdateFence, localeContentUpdateFence
    <3> QED
      BY <2>1, <2>5, <3>1 DEF StaleIsHeard
  <2> QED
    BY <2>1, <2>3, <2>4, <2>6 DEF SignalInv
<1> QED
  BY <1>6, <1>7, <1>8, <1>9 DEF HandleSignal

-----------------------------------------------------------------------------
(* The process.                                                            *)

\* Rooms that are read before content updates are listened to are not covered.
CoveredOk ==
    phase \in {"down", "starting"} /\ "content" \notin listening =>
        \A r \in Rooms : ~rooms[r].covered

ProcessTypeOK ==
    /\ phase \in Phases
    /\ started \in 0 .. Len(Subscribers)
    /\ left \in [Kinds -> Nat]

IInv == QueueInv /\ SignalInv /\ PresenceInv /\ ProcessTypeOK /\ CoveredOk

LEMMA SpendKeeps ==
    ASSUME left \in [Kinds -> Nat], NEW kind \in Kinds, Spend(kind)
    PROVE  left' \in [Kinds -> Nat]
BY DEF Spend

\* Next moves the queue by steps of the queue,
LEMMA QueueMoves == ASSUME Next PROVE QueueStep \/ UNCHANGED queueVars
<1>1. ASSUME NEW w \in Workers, WorkerMoves(w) \/ HandoffFault(w) \/ Attaches(w)
      PROVE  QueueStep
  BY <1>1 DEF WorkerMoves, WorkerStep, HandoffFault, Attaches, QueueStep
<1>2. ASSUME NEW m \in Messages, Sent(m) \/ Visible(m) PROVE QueueStep
  BY <1>2 DEF Sent, Visible, QueueStep
<1>3. CASE Ready \/ Die \/ Closed
  BY <1>3 DEF Ready, Die, Closed, Exit, QueueStep
<1>4. CASE Start \/ Subscribe \/ Shutdown \/ MessagingStopped \/ FramesDrained \/ Unload
           \/ Unloaded \/ Destroyed
  BY <1>4 DEF Start, Subscribe, Shutdown, MessagingStopped, FramesDrained, Unload, Unloaded,
     Destroyed
<1>5. CASE RoomMoves \/ ContentChanges \/ Signalled \/ SignalMoves \/ SocketMoves \/ DocumentMoves
  BY <1>5 DEF RoomMoves, ContentChanges, Signalled, SignalMoves, SocketMoves, DocumentMoves
<1>6. ASSUME NEW c \in Clients, ClientMoves(c) PROVE UNCHANGED queueVars
  BY <1>6 DEF ClientMoves
<1> QED
  BY <1>1, <1>2, <1>3, <1>4, <1>5, <1>6 DEF Next

\* and the clients and their document by steps of theirs.
LEMMA PresenceMoves == ASSUME Next PROVE PresenceStep \/ UNCHANGED <<drainVars, presenceVars>>
<1>1. ASSUME NEW c \in Clients, ClientMoves(c) PROVE PresenceStep
  BY <1>1 DEF ClientMoves, ClientStep, PresenceStep, CalmStep
<1>2. CASE SocketMoves
  BY <1>2 DEF SocketMoves, PresenceStep, CalmStep
<1>3. CASE DocumentMoves
  BY <1>3 DEF DocumentMoves, PresenceStep
<1>4. CASE MessagingStopped \/ Die \/ Closed
  BY <1>4 DEF MessagingStopped, Die, Closed, Exit, PresenceStep
<1>5. CASE Start \/ Subscribe \/ Ready \/ Shutdown \/ FramesDrained \/ Unload \/ Unloaded \/ Destroyed
  BY <1>5 DEF Start, Subscribe, Ready, Shutdown, FramesDrained, Unload, Unloaded, Destroyed,
     clientVars
<1>6. CASE RoomMoves \/ ContentChanges \/ Signalled \/ SignalMoves
  BY <1>6 DEF RoomMoves, ContentChanges, Signalled, SignalMoves, clientVars
<1>7. ASSUME NEW w \in Workers, WorkerMoves(w) \/ HandoffFault(w) \/ Attaches(w)
      PROVE  UNCHANGED <<drainVars, presenceVars>>
  BY <1>7 DEF WorkerMoves, HandoffFault, Attaches, clientVars
<1>8. ASSUME NEW m \in Messages, Sent(m) \/ Visible(m) PROVE UNCHANGED <<drainVars, presenceVars>>
  BY <1>8 DEF Sent, Visible, clientVars
<1> QED
  BY <1>1, <1>2, <1>3, <1>4, <1>5, <1>6, <1>7, <1>8 DEF Next

LEMMA ProcessKeeps == ASSUME ProcessTypeOK, Next PROVE ProcessTypeOK'
<1> USE DEF ProcessTypeOK
<1>1. Len(Subscribers) = 4
  BY DEF Subscribers
<1>2. CASE Start \/ Shutdown \/ Die \/ Closed
  BY <1>1, <1>2, SpendKeeps DEF Start, Shutdown, Die, Closed, Exit, Kinds, Phases
<1>3. CASE Subscribe \/ Ready \/ MessagingStopped \/ FramesDrained \/ Unload \/ Unloaded \/ Destroyed
  BY <1>1, <1>3 DEF Subscribe, Ready, MessagingStopped, FramesDrained, Unload, Unloaded,
     Destroyed, Phases
<1>4. ASSUME NEW w \in Workers, WorkerMoves(w) \/ HandoffFault(w) \/ Attaches(w)
      PROVE  ProcessTypeOK'
  BY <1>4, SpendKeeps DEF WorkerMoves, HandoffFault, Attaches, process, Kinds
<1>5. ASSUME NEW m \in Messages, Sent(m) \/ Visible(m) PROVE ProcessTypeOK'
  BY <1>5, SpendKeeps DEF Sent, Visible, process, Kinds
<1>6. CASE RoomMoves \/ ContentChanges \/ Signalled \/ SignalMoves
  BY <1>6, SpendKeeps DEF RoomMoves, ContentChanges, Signalled, SignalMoves, process, Kinds
<1>7. CASE SocketMoves \/ DocumentMoves
  BY <1>7, SpendKeeps DEF SocketMoves, DocumentMoves, process, Kinds
<1>8. ASSUME NEW c \in Clients, ClientMoves(c) PROVE ProcessTypeOK'
  BY <1>8, SpendKeeps DEF ClientMoves, process, Kinds
<1> QED
  BY <1>2, <1>3, <1>4, <1>5, <1>6, <1>7, <1>8 DEF Next

\* The rooms and their notifications, with the process that listens.
LEMMA SignalsFollow ==
    ASSUME SignalInv, CoveredOk, ProcessTypeOK, Next
    PROVE  SignalInv' /\ CoveredOk'
<1>0. /\ rooms \in [Rooms -> Room] /\ Absent \in Room /\ ~Absent.stale /\ ~Absent.covered
      /\ DOMAIN inbox = Signals /\ \A s \in Signals : inbox[s] \in Seq(Notifications[s])
      /\ listening \subseteq Signals
  BY DEF SignalInv, SignalTypeOK, Absent, Room
<1>1. CASE UNCHANGED signalVars /\ (UNCHANGED phase \/ Start \/ Ready \/ MessagingStopped
             \/ FramesDrained \/ Unload \/ Destroyed)
  <2>1. SignalInv'
    BY <1>1, SameSignals DEF signalVars
  <2>2. CoveredOk'
    BY <1>1 DEF CoveredOk, signalVars, Start, Ready, MessagingStopped, FramesDrained, Unload,
       Destroyed
  <2> QED
    BY <2>1, <2>2
<1>2. CASE Subscribe
  <2>1. /\ listening' = listening \cup {Subscribers[started + 1]} /\ UNCHANGED <<rooms, inbox>>
        /\ phase = "starting" /\ phase' = "starting"
    BY <1>2 DEF Subscribe, Listen
  <2>2. SignalTypeOK'
    <3>1. Subscribers[started + 1] \in Signals
      <4>1. started < 4 /\ started \in Nat
        BY <1>2 DEF Subscribe, Subscribers, ProcessTypeOK
      <4>2. started + 1 \in {1, 2, 3, 4}
        BY <4>1
      <4> QED
        BY <4>2 DEF Subscribers, Signals
    <3> QED
      BY <1>0, <2>1, <3>1 DEF SignalTypeOK
  <2>3. StaleIsHeard'
    <3>1. CASE "content" \in listening
      BY <2>1, <3>1 DEF SignalInv, StaleIsHeard, Closes, externalContentUpdateFence,
         localeContentUpdateFence
    <3>2. CASE "content" \notin listening
      <4>1. \A r \in Rooms : ~rooms[r].covered
        BY <2>1, <3>2 DEF CoveredOk
      <4> QED
        BY <2>1, <4>1 DEF StaleIsHeard
    <3> QED
      BY <3>1, <3>2
  <2> QED
    BY <2>1, <2>2, <2>3 DEF SignalInv, CoveredOk
<1>3. CASE Shutdown
  <2>1. listening' = {} /\ UNCHANGED <<rooms, inbox>> /\ phase' = "stopMessaging"
    BY <1>3 DEF Shutdown, StopListening
  <2> QED
    BY <1>0, <2>1 DEF SignalInv, SignalTypeOK, StaleIsHeard, CoveredOk
<1>4. CASE Unloaded
  <2>1. /\ rooms' = [r \in Rooms |-> IF rooms[r].clients THEN rooms[r] ELSE Absent]
        /\ UNCHANGED <<listening, inbox>> /\ phase' = "destroy"
    BY <1>4 DEF Unloaded
  <2>2. /\ rooms' \in [Rooms -> Room]
        /\ \A r \in Rooms : rooms'[r] = rooms[r] \/ ~rooms'[r].stale
    BY <1>0, <2>1
  <2>3. SignalTypeOK'
    BY <1>0, <2>1, <2>2 DEF SignalTypeOK
  <2>4. StaleIsHeard'
    BY <2>1, <2>2 DEF SignalInv, StaleIsHeard, Closes, externalContentUpdateFence,
       localeContentUpdateFence
  <2> QED
    BY <2>1, <2>3, <2>4 DEF SignalInv, CoveredOk
<1>5. CASE Die \/ Closed
  <2>1. /\ rooms' = [r \in Rooms |-> Absent] /\ listening' = {}
        /\ inbox' = [s \in Signals |-> << >>]
    BY <1>5 DEF Die, Closed, Exit, SignalsLost
  <2>2. \A s \in Signals : << >> \in Seq(Notifications[s])
    OBVIOUS
  <2> QED
    BY <1>0, <2>1, <2>2 DEF SignalInv, SignalTypeOK, StaleIsHeard, CoveredOk
<1>6. CASE RoomMoves
  <2>1. UNCHANGED phase
        /\ \E r \in Rooms : RoomLoads(r) \/ ClientsLeave(r) \/ RoomUnloads(r)
    BY <1>6 DEF RoomMoves, process
  <2>2. UNCHANGED listening
    BY <2>1 DEF RoomLoads, ClientsLeave, RoomUnloads
  <2> QED
    BY <2>1, <2>2, RoomLoadsKeeps DEF CoveredOk
<1>7. CASE ContentChanges
  <2>1. UNCHANGED phase
        /\ \E r \in Rooms : \E given \in BOOLEAN :
              DocumentChanges(r, given) \/ TranslationChanges(r, given)
    BY <1>7 DEF ContentChanges, process
  <2> QED
    BY <2>1, DocumentChangesKeeps DEF CoveredOk
<1>8. CASE Signalled
  <2>1. UNCHANGED phase
        /\ \E signal \in Signals : \E notification \in Notifications[signal] :
              Notify(signal, notification)
    BY <1>8 DEF Signalled, process
  <2>2. UNCHANGED listening
    BY <2>1 DEF Notify
  <2> QED
    BY <2>1, <2>2, NotifyKeeps DEF CoveredOk
<1>9. CASE SignalMoves
  <2>1. UNCHANGED phase /\ HandleSignal
    BY <1>9 DEF SignalMoves, process
  <2> QED
    BY <2>1, HandleSignalKeeps DEF CoveredOk
<1>10. CASE \/ Start \/ Ready \/ MessagingStopped \/ FramesDrained \/ Unload \/ Destroyed
            \/ \E w \in Workers : WorkerMoves(w) \/ HandoffFault(w) \/ Attaches(w)
            \/ \E m \in Messages : Sent(m) \/ Visible(m)
            \/ \E c \in Clients : ClientMoves(c)
            \/ SocketMoves \/ DocumentMoves
  <2>1. CASE \/ Start \/ Ready \/ MessagingStopped \/ FramesDrained \/ Unload \/ Destroyed
    BY <1>1, <2>1 DEF Start, Ready, MessagingStopped, FramesDrained, Unload, Destroyed
  <2>2. ASSUME NEW w \in Workers, WorkerMoves(w) \/ HandoffFault(w) \/ Attaches(w)
        PROVE  UNCHANGED <<signalVars, phase>>
    BY <2>2 DEF WorkerMoves, HandoffFault, Attaches, process
  <2>3. ASSUME NEW m \in Messages, Sent(m) \/ Visible(m) PROVE UNCHANGED <<signalVars, phase>>
    BY <2>3 DEF Sent, Visible, process
  <2>4. ASSUME NEW c \in Clients, ClientMoves(c) PROVE UNCHANGED <<signalVars, phase>>
    BY <2>4 DEF ClientMoves, process
  <2>5. CASE SocketMoves \/ DocumentMoves
    BY <1>1, <2>5 DEF SocketMoves, DocumentMoves, process
  <2> QED
    BY <1>1, <1>10, <2>1, <2>2, <2>3, <2>4, <2>5
<1> QED
  BY <1>2, <1>3, <1>4, <1>5, <1>6, <1>7, <1>8, <1>9, <1>10 DEF Next

-----------------------------------------------------------------------------
(* The theorems.                                                           *)

LEMMA InitOk == Init => IInv
<1> SUFFICES ASSUME Init PROVE IInv
  OBVIOUS
<1>1. QueueInv /\ SignalInv /\ PresenceInv
  BY QueueInit, SignalInit, PresenceInit DEF Init
<1>2. ProcessTypeOK
  BY BudgetsAssumption DEF Init, ProcessTypeOK, Phases, Subscribers
<1>3. CoveredOk
  BY DEF Init, InitSignals, Absent, CoveredOk
<1> QED
  BY <1>1, <1>2, <1>3 DEF IInv

LEMMA StepOk == ASSUME IInv, [Next]_vars PROVE IInv'
<1>1. CASE Next
  <2>1. QueueInv'
    BY <1>1, QueueMoves, QueueKeeps DEF IInv
  <2>2. SignalInv' /\ CoveredOk'
    BY <1>1, SignalsFollow DEF IInv
  <2>3. PresenceInv'
    BY <1>1, PresenceMoves, PresenceKeeps DEF IInv
  <2>4. ProcessTypeOK'
    BY <1>1, ProcessKeeps DEF IInv
  <2> QED
    BY <2>1, <2>2, <2>3, <2>4 DEF IInv
<1>2. CASE UNCHANGED vars
  <2>1. UNCHANGED <<queueVars, signalVars, drainVars, presenceVars, phase, started, left>>
    BY <1>2 DEF vars, clientVars, process
  <2>2. QueueInv'
    BY <2>1, QueueKeeps DEF IInv
  <2>3. SignalInv' /\ UNCHANGED <<rooms, listening>>
    BY <2>1, SameSignals DEF IInv, signalVars
  <2>4. PresenceInv'
    BY <2>1, PresenceKeeps DEF IInv
  <2> QED
    BY <2>1, <2>2, <2>3, <2>4 DEF IInv, ProcessTypeOK, CoveredOk
<1> QED
  BY <1>1, <1>2

LEMMA Inductive == Spec => []IInv
BY InitOk, StepOk, PTL DEF Spec

\* Every variable of the process and its parts keeps its type, at any number of
\* messages, workers, rooms, clients, sockets and members.
THEOREM TypeCorrect == Spec => []TypeOK
<1>1. IInv => TypeOK
  BY DEF IInv, QueueInv, SignalInv, PresenceInv, DrainInv, ProcessTypeOK, TypeOK
<1> QED
  BY <1>1, Inductive, PTL

\* A message is completed only because its file is attached, and archived only
\* because its contract is broken or its handler threw after all its retries,
\* whatever deliveries of it overlap and whatever crashes or handoffs that fail
\* come in between (runHandler, completeMessage and retryOrDeadLetter of
\* messaging-queue.ts).
THEOREM SettledForCauseAlways == Spec => []SettledForCause
<1>1. IInv => SettledForCause
  BY DEF IInv, QueueInv
<1> QED
  BY <1>1, Inductive, PTL

\* The service implements DurableQueue: however its processes crash, restart and
\* stop, and however deliveries of a message overlap, every step of it moves at
\* most one message, to an end that it never leaves and has the cause for; its
\* effect happens once (messaging-queue.ts, ingest-projection-subscriber.ts).
THEOREM ServiceImplementsDurableQueue == Spec => ImplementsDurableQueue
<1>1. Init => PromisedQueue!Init
  BY PromisedInit DEF Init
<1>2. IInv /\ [Next]_vars => [PromisedQueue!Next]_(PromisedQueue!vars)
  <2> SUFFICES ASSUME IInv, [Next]_vars
               PROVE  PromisedQueue!Next \/ UNCHANGED PromisedQueue!vars
    OBVIOUS
  <2>1. QueueInv /\ (QueueStep \/ UNCHANGED queueVars)
    BY QueueMoves DEF IInv, vars
  <2> QED
    BY <2>1, QueueRefines
    DEF PromisedQueue!vars, PromisedVars, Places, Kept, Deliveries
<1> QED
  BY <1>1, <1>2, Inductive, PTL DEF Spec, PromisedQueue!Spec, ImplementsDurableQueue

\* While content updates are listened to, a room read since then and changed
\* from outside has the notification that closes it still to be handled: the
\* fence the subscriber computes from the event always names the rooms the
\* change made stale (externalContentUpdateFence).
THEOREM StaleIsHeardAlways == Spec => []StaleIsHeard
<1>1. IInv => StaleIsHeard
  BY DEF IInv, SignalInv
<1> QED
  BY <1>1, Inductive, PTL

\* The shutdown drain waits for those it has to wait for, and for nobody else:
\* its entries of a key are as many as the clients it counted there, and an
\* admission is pending only of a client that authenticates or is connected
\* (shutdown-connection-drain.ts).  Excepted are the keys whose hooks crossed,
\* and, until their socket closes, clients refused as the load of another one
\* failed (document-hooks.ts).
THEOREM DrainIsExactAlways == Spec => []DrainIsExact
<1>1. IInv => DrainIsExact
  BY DrainExact DEF IInv, PresenceInv
<1> QED
  BY <1>1, Inductive, PTL

\* Once all hooks have run, a metadata request whose requester is not there has
\* its timer running, with the deadline it shows (metadata-ai-grace.ts).
THEOREM AwayIsTimedAlways == Spec => []AwayIsTimed
<1>1. IInv => AwayIsTimed
  BY AwayTimed DEF IInv
<1> QED
  BY <1>1, Inductive, PTL

\* An awareness id belongs to a connection that has not left, or was made under
\* a key that connections shared (awareness-connection-ownership.ts).
THEOREM PresenceIsReleasedAlways == Spec => []PresenceIsReleased
<1>1. IInv => PresenceIsReleased
  BY PresenceReleased DEF IInv
<1> QED
  BY <1>1, Inductive, PTL

\* The grace timer clears a request only of a requester who is away and has been
\* for a whole grace period (the timer callback of metadata-ai-grace.ts).
THEOREM ClearedForCauseAlways == Spec => ClearedForCause
<1>1. IInv /\ [Next]_vars => ClearedAfterGrace \/ UNCHANGED vars
  BY PresenceMoves, ClearedStep DEF IInv
<1>2. Spec => [][ClearedAfterGrace]_vars
  BY <1>1, Inductive, PTL DEF Spec
<1> QED
  BY <1>2 DEF ClearedForCause
=============================================================================
