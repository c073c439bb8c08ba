----------------------------- MODULE PgmqConsumer -----------------------------
(***************************************************************************)
(* A durable queue and the workers that consume it                         *)
(* (lib/postgresql/messaging-queue.ts), with the one handler the service   *)
(* gives them (events/ingest-projection-subscriber.ts): it asks the API to *)
(* attach a file to a track (lib/api/file-ingest.ts) and tells the         *)
(* release's rooms.                                                        *)
(*                                                                         *)
(* A read hides its message for a time and counts itself.  The message is  *)
(* deleted when its handler succeeded, left to be read again after a delay *)
(* when it failed, and archived when it failed too often or its envelope   *)
(* is wrong.  Each of the three may fail, and the message then comes back  *)
(* by itself.                                                              *)
(*                                                                         *)
(* Abstractions.  Delays only order events: a hidden message is read when  *)
(* its time is over, and that time may be shorter than its handler's.      *)
(* Reads are counted up to MaxRetries + 1, above which the code tells no   *)
(* two counts apart.  What is logged and traced is left out.               *)
(***************************************************************************)
EXTENDS Naturals

CONSTANTS
    Messages,
    Workers,      \* startQueueConsumer's workers
    MaxRetries,   \* deliveries after the first before a failing one is archived
    NoDelivery

ASSUME MaxRetriesAssumption == MaxRetries \in Nat

VARIABLES
    queue,        \* PGMQ: each message's place, visibility and count of reads
    attached,     \* the API: messages whose file is attached to its track
    worker,       \* what each worker awaits
    failures      \* messages whose handler threw when no retry was left (history)

queueVars == <<queue, attached, worker, failures>>

-----------------------------------------------------------------------------
(* Data.                                                                   *)

ReadCounts == 0 .. MaxRetries + 1

\* What a message is: as it should be, in a wrong envelope, undecodable, or of
\* an event that is not a track's audio.
Shapes == {"sound", "contract", "undecodable", "other"}

\* "none": not sent yet.
Message == [place : {"none", "queued", "completed", "archived"},
            reads : ReadCounts, hidden : BOOLEAN, shape : Shapes]

\* A message as one read returned it, and the answer its worker awaits.
Delivery == [message : Messages, reads : ReadCounts,
             awaits : {"handler", "complete", "retry", "archive"}]

ASSUME NoDeliveryAssumption == NoDelivery \notin Delivery

\* "polling": at the head of the loop, or in its delay.
Work == Delivery \cup {NoDelivery}
Stopped == "stopped"
Polling == "polling"

QueueTypeOK ==
    /\ queue \in [Messages -> Message]
    /\ attached \subseteq Messages
    /\ worker \in [Workers -> [at : {Stopped, Polling, "busy"}, on : Work]]
    /\ \A w \in Workers : worker[w].at = "busy" <=> worker[w].on # NoDelivery
    /\ failures \subseteq Messages

Idle(state) == [at |-> state, on |-> NoDelivery]
Busy(delivery) == [at |-> "busy", on |-> delivery]

Queued(m) == queue[m].place = "queued"
Settled(m) == queue[m].place \in {"completed", "archived"}

InitQueue ==
    /\ queue = [m \in Messages |->
                  [place |-> "none", reads |-> 0, hidden |-> FALSE, shape |-> "sound"]]
    /\ attached = {}
    /\ worker = [w \in Workers |-> Idle(Stopped)]
    /\ failures = {}

\* Worker w goes from what it awaits to what it does next.
Turns(w, next) == worker' = [worker EXCEPT ![w] = next]
AwaitsNext(w, answer) == Turns(w, Busy([worker[w].on EXCEPT !.awaits = answer]))
Awaits(w, answer) ==
    /\ worker[w].on # NoDelivery
    /\ worker[w].on.awaits = answer

\* One of PGMQ's functions on a message that may be settled by now.
Moved(m, place) ==
    queue' = IF Queued(m) THEN [queue EXCEPT ![m].place = place] ELSE queue

-----------------------------------------------------------------------------
(* PGMQ and the API.                                                       *)

Sends(m, shape) ==
    /\ queue[m].place = "none"
    /\ queue' = [queue EXCEPT ![m].place = "queued", ![m].shape = shape]
    /\ UNCHANGED <<attached, worker, failures>>

\* The visibility timeout or the delay of a retry is over, whatever the
\* worker that read the message is doing.
BecomesVisible(m) ==
    /\ Queued(m)
    /\ queue[m].hidden
    /\ queue' = [queue EXCEPT ![m].hidden = FALSE]
    /\ UNCHANGED <<attached, worker, failures>>

decodeFileIngestEvent(m) == queue[m].shape # "undecodable"

\* The handler asks the API for the track's original audio only.
prepareTrackOriginalAudioAttachment(m) ==
    decodeFileIngestEvent(m) /\ queue[m].shape # "other"

\* AttachTrackOriginalAudio commits; the answer is still on its way.
AttachTrackOriginalAudio(w) ==
    /\ Awaits(w, "handler")
    /\ prepareTrackOriginalAudioAttachment(worker[w].on.message)
    /\ worker[w].on.message \notin attached
    /\ attached' = attached \cup {worker[w].on.message}
    /\ UNCHANGED <<queue, worker, failures>>

-----------------------------------------------------------------------------
(* startQueueConsumer and its workers.                                     *)

StartQueueConsumer ==
    /\ worker' = [w \in Workers |-> Idle(Polling)]
    /\ UNCHANGED <<queue, attached, failures>>

deliveryContractError(m) == queue[m].shape = "contract"

Counted(reads) == IF reads \in 0 .. MaxRetries THEN reads + 1 ELSE reads

\* runQueueWorker reads a message; processQueueMessage archives it at once
\* when its contract is broken.
ReadMessage(w, m) ==
    /\ worker[w].at = Polling
    /\ Queued(m)
    /\ ~queue[m].hidden
    /\ queue' = [queue EXCEPT ![m].hidden = TRUE, ![m].reads = Counted(@)]
    /\ Turns(w, Busy([message |-> m, reads |-> Counted(queue[m].reads),
                      awaits |-> IF deliveryContractError(m)
                                 THEN "archive" ELSE "handler"]))
    /\ UNCHANGED <<attached, failures>>

\* The loop ends once messaging was told to stop.
WorkerStops(w) ==
    /\ worker[w].at = Polling
    /\ Turns(w, Idle(Stopped))
    /\ UNCHANGED <<queue, attached, failures>>

\* Variant with a bug: reads are taken for retries.
RetryCountOfReads(delivery) == delivery.reads

deliveryRetryCount(delivery) ==
    IF delivery.reads = 0 THEN 0 ELSE delivery.reads - 1

\* Variant with a bug: a message is retried for ever.
RetriesForever(delivery) == TRUE

RetriesLeft(delivery) == deliveryRetryCount(delivery) < MaxRetries

\* The projection succeeded: the API applied it now or before.
HandlerSucceeds(w) ==
    /\ Awaits(w, "handler")
    /\ worker[w].on.message \in attached
    /\ AwaitsNext(w, "complete")
    /\ UNCHANGED <<queue, attached, failures>>

\* It threw (the event, the request or the answer was bad, or the answer was
\* lost after the API applied it): retryOrArchiveDelivery.
HandlerThrows(w) ==
    /\ Awaits(w, "handler")
    /\ AwaitsNext(w, IF RetriesLeft(worker[w].on) THEN "retry" ELSE "archive")
    /\ failures' = IF RetriesLeft(worker[w].on) THEN failures
                   ELSE failures \cup {worker[w].on.message}
    /\ UNCHANGED <<queue, attached>>

Completes(w) ==
    /\ Awaits(w, "complete")
    /\ Moved(worker[w].on.message, "completed")
    /\ Turns(w, Idle(Polling))
    /\ UNCHANGED <<attached, failures>>

\* The retry's delay replaces what was left of the visibility timeout.
Retries(w) ==
    /\ Awaits(w, "retry")
    /\ queue' = [queue EXCEPT ![worker[w].on.message].hidden =
                   @ \/ Queued(worker[w].on.message)]
    /\ Turns(w, Idle(Polling))
    /\ UNCHANGED <<attached, failures>>

Archives(w) ==
    /\ Awaits(w, "archive")
    /\ Moved(worker[w].on.message, "archived")
    /\ Turns(w, Idle(Polling))
    /\ UNCHANGED <<attached, failures>>

\* Variant with a bug: the worker goes on without giving its delivery up.
HandoffFailsHolding(w) ==
    /\ worker[w].on # NoDelivery
    /\ worker[w].on.awaits # "handler"
    /\ Turns(w, [worker[w] EXCEPT !.at = Polling])
    /\ UNCHANGED <<queue, attached, failures>>

\* Completion, retry or archive failed and is only logged.
HandoffFails(w) ==
    /\ worker[w].on # NoDelivery
    /\ worker[w].on.awaits # "handler"
    /\ Turns(w, Idle(Polling))
    /\ UNCHANGED <<queue, attached, failures>>

\* The process is gone: messages stay in PostgreSQL, counted as read.
WorkersLost ==
    /\ worker' = [w \in Workers |-> Idle(Stopped)]
    /\ UNCHANGED <<queue, attached, failures>>

WorkersDone == \A w \in Workers : worker[w].at = Stopped

-----------------------------------------------------------------------------
(* Properties.                                                             *)

\* What ended a message is known: it was completed because its file is
\* attached (whichever of several overlapping deliveries did it), or
\* archived because its contract is broken or because its handler was run
\* and threw after all its retries, however many reads crashes have used up.
SettledForCause ==
    \A m \in Messages :
        /\ queue[m].place = "completed" => m \in attached /\ queue[m].shape = "sound"
        /\ queue[m].place = "archived" /\ queue[m].shape # "contract" =>
              /\ m \in failures
              /\ queue[m].reads > MaxRetries

\* The queue implements DurableQueue: a settled message stays as it was settled
\* and its effect happens once, whatever deliveries of it overlap, and it is
\* given up only after all its deliveries.
PromisedQueue == INSTANCE DurableQueue WITH
    place <- [m \in Messages |-> queue[m].place],
    shape <- [m \in Messages |-> queue[m].shape],
    deliveries <- [m \in Messages |-> queue[m].reads],
    done <- attached,
    failed <- failures
ImplementsDurableQueue == PromisedQueue!Spec
=============================================================================
