---------------------------- MODULE EditSession ----------------------------
(***************************************************************************)
(* Who edited one resident room, and when its edits are saved and counted  *)
(* into a version checkpoint (lib/collaboration/edit-session-*.ts, the     *)
(* hooks of document-hooks.ts and connection-handler-helpers.ts that drive *)
(* it, and the queue of resident-block-runtime.ts).                        *)
(*                                                                         *)
(* Frames enter one actor lane: another member's unsaved edits are saved   *)
(* before a frame is applied.  Persists (store hook, persist.now, lane)    *)
(* and the session's finalization share the room's queue.  A finalization  *)
(* saves, then takes a version checkpoint naming the contributors; it is   *)
(* retried on a timer, and given up after MaxRetries.                      *)
(*                                                                         *)
(* Abstractions.  An edit is its position in `edits`, which also serves as *)
(* the mutation sequence and the session's generation: both are compared   *)
(* for equality and grow with every edit.  The room's baseline and batches *)
(* are those of ResidentPersistence, as sets of edits.  Steps that run in  *)
(* one turn of the event loop are one action or take precedence (Quiet).   *)
(* A room is unloaded once its queued calls have answered; the shutdown    *)
(* drain is not modelled.                                                  *)
(***************************************************************************)
EXTENDS Naturals, Sequences

CONSTANTS
    Members,        \* authenticated members with permission to edit
    MaxRetries,     \* EDIT_SESSION_MAX_RETRIES
    MaxEdits, MaxFailures, MaxConflicts, MaxPersistNow,   \* bounds of the model
    NoMember, NoSession, NoBatch, NoOperation

ASSUME BoundsAssumption ==
    {MaxRetries, MaxEdits, MaxFailures, MaxConflicts, MaxPersistNow} \subseteq Nat
ASSUME NoMemberAssumption == NoMember \notin Members

VARIABLES
    edits,      \* accepted edits in order: author, and who the save credited
    change,     \* ResidentRoom.pendingChangeSet: edits in no batch yet
    batch,      \* BlockMutationBaseline.pending
    pending,    \* pendingContributors: the sequence of a member's last edit, or 0
    session,    \* sessions.get(documentName)
    queue,      \* operations waiting for the room's queue
    running,    \* the operation that holds it
    lane,       \* the frame that waits in the actor lane for another's save
    connected,  \* members with an open connection
    fenced,     \* revisionConflicts: stale, no longer writable
    discarded,  \* deletedEntities: the resource is gone or was replaced
    owed,       \* members with an edit that no version checkpoint credits yet
    gaveUp,     \* the session was settled or discarded without a checkpoint
    acked,      \* persist.now.ack ok:true was sent for the edits up to here
    spent       \* failures, conflicts and persist.now requests so far

document == <<edits, change, batch>>
tracker == <<pending, session>>
work == <<queue, running, lane>>
ghosts == <<owed, gaveUp, acked>>
flags == <<fenced, discarded>>
vars == <<document, tracker, work, connected, flags, ghosts, spent>>

-----------------------------------------------------------------------------
(* Data.                                                                   *)

Positions == 1 .. MaxEdits
Edit == [author : Members, credit : Members \cup {NoMember}]
Batch == [edits : SUBSET Positions, by : Members]
Timers == {"none", "active-window", "room-close"}
Session == [contributors : SUBSET Members, next : SUBSET Members,
            finalizing : BOOLEAN, retries : Nat, timer : Timers]

\* An operation of the queue: `by` and `sequence` are the contributor captured
\* by persistWith, `position` how many edits there were when it was queued.
Operation == [caller : {"store", "now", "lane", "finalize"},
              by : Members \cup {NoMember}, sequence : 0 .. MaxEdits,
              position : 0 .. MaxEdits, contributors : SUBSET Members,
              ignoreConnections : BOOLEAN]
Running == [operation : Operation, stage : {"retrying", "saving", "checkpoint"}]

\* The sentinels are not what they stand for.
ASSUME SentinelsAssumption ==
    NoSession \notin Session /\ NoBatch \notin Batch /\ NoOperation \notin Running

Kinds == {"failure", "conflict", "now"}
Bound == [failure |-> MaxFailures, conflict |-> MaxConflicts, now |-> MaxPersistNow]

TypeOK ==
    /\ edits \in Seq(Edit) /\ Len(edits) <= MaxEdits
    /\ change \subseteq Positions
    /\ batch \in Batch \cup {NoBatch}
    /\ pending \in [Members -> 0 .. MaxEdits]
    /\ session \in Session \cup {NoSession}
    /\ queue \in Seq(Operation)
    /\ running \in Running \cup {NoOperation}
    /\ lane \in [member : Members \cup {NoMember}, ready : BOOLEAN]
    /\ connected \subseteq Members
    /\ fenced \in BOOLEAN /\ discarded \in BOOLEAN
    /\ owed \subseteq Members
    /\ gaveUp \in BOOLEAN
    /\ acked \in 0 .. MaxEdits
    /\ spent \in [Kinds -> Nat]

Spend(kind) ==
    /\ spent[kind] < Bound[kind]
    /\ spent' = [spent EXCEPT ![kind] = @ + 1]

Pending == {m \in Members : pending[m] > 0}
NothingPending == [m \in Members |-> 0]
FreeLane == [member |-> NoMember, ready |-> FALSE]

\* Microtasks come first: an idle queue starts its next operation, a saved
\* frame of the lane resumes, before any timer, frame or answer is handled.
QueueReady == running = NoOperation /\ queue # << >>
Quiet == ~ QueueReady /\ ~ lane.ready

Writable == ~ fenced /\ ~ discarded

-----------------------------------------------------------------------------
(* The session's timer.                                                    *)

Schedule(s, timer) == IF s.timer = "none" THEN [s EXCEPT !.timer = timer] ELSE s

Cancel(s, timer) == IF s.timer = timer THEN [s EXCEPT !.timer = "none"] ELSE s

\* Variant with a bug: a timer mode of its own for retries.
RescheduleAsRetry(s) == Schedule(s, "retry")

\* scheduleRetry, scheduleNextCheckpoint
Reschedule(s) ==
    Schedule(s, IF connected = {} THEN "room-close" ELSE "active-window")

\* Variants with a bug: forgets who joined; leaves the session finalizing.
MergedWithoutNext(s) == [s EXCEPT !.next = {}, !.finalizing = FALSE]
MergedStillFinalizing(s) == [s EXCEPT !.contributors = @ \cup s.next, !.next = {}]

\* Contributors that joined during a finalization go back to the session.
Merged(s) == [s EXCEPT !.contributors = @ \cup s.next, !.next = {},
                       !.finalizing = FALSE]

\* recordCheckpointContributor
Recorded(m) ==
    LET s == IF session # NoSession THEN session
             ELSE [contributors |-> {}, next |-> {}, finalizing |-> FALSE,
                   retries |-> 0, timer |-> "none"]
        t == [Cancel(s, "room-close") EXCEPT !.retries = 0]
    IN IF s.finalizing THEN [t EXCEPT !.next = @ \cup {m}]
       ELSE Schedule([t EXCEPT !.contributors = @ \cup {m}], "active-window")

-----------------------------------------------------------------------------
(* Connections and frames.                                                 *)

Connect(m) ==
    /\ Quiet /\ Writable /\ m \notin connected
    /\ connected' = connected \cup {m}
    /\ session' =
           IF session = NoSession THEN session
           ELSE LET s == [Cancel(session, "room-close") EXCEPT !.retries = 0]
                IN IF s.finalizing THEN s ELSE Schedule(s, "active-window")
    /\ UNCHANGED <<document, pending, work, flags, ghosts, spent>>

\* onDisconnect runs after the frames of the connection.
Disconnect(m) ==
    /\ Quiet /\ m \in connected /\ lane.member # m
    /\ connected' = connected \ {m}
    /\ session' =
           IF \/ session = NoSession
              \/ session.finalizing
              \/ session.retries > MaxRetries
              \/ connected' # {}
           THEN session
           ELSE [session EXCEPT !.timer = "room-close"]
    /\ UNCHANGED <<document, pending, work, flags, ghosts, spent>>

\* The edit is applied, then its author recorded, unless another one is
\* pending: markPendingContributor throws.
Apply(m) ==
    LET position == Len(edits) + 1 IN
    /\ edits' = Append(edits, [author |-> m, credit |-> NoMember])
    /\ change' = change \cup {position}
    /\ owed' = owed \cup {m}
    /\ IF Pending \subseteq {m}
       THEN pending' = [pending EXCEPT ![m] = position] /\ session' = Recorded(m)
       ELSE UNCHANGED <<pending, session>>

\* persistWith, queued: the contributor is captured by the call.
CallPersist(caller) ==
    /\ Writable
    /\ \E m \in Pending :
          queue' = Append(queue, [caller |-> caller, by |-> m, sequence |-> pending[m],
                                  position |-> Len(edits), contributors |-> {},
                                  ignoreConnections |-> FALSE])

\* applyAcceptedMutation
Frame(m) ==
    /\ Quiet /\ lane = FreeLane
    /\ Writable /\ m \in connected
    /\ Len(edits) < MaxEdits
    /\ IF Pending \subseteq {m}
       THEN Apply(m) /\ UNCHANGED <<queue, lane>>
       ELSE /\ CallPersist("lane")
            /\ lane' = [member |-> m, ready |-> FALSE]
            /\ UNCHANGED <<edits, change, owed, pending, session>>
    /\ UNCHANGED <<batch, running, connected, flags, gaveUp, acked, spent>>

\* The save that the frame waited for is done; what is still pending, or a
\* room that is no longer writable, rejects the frame.
LaneResumes ==
    /\ ~ QueueReady /\ lane.ready
    /\ lane' = FreeLane
    /\ IF Pending = {} /\ Writable /\ Len(edits) < MaxEdits
       THEN Apply(lane.member)
       ELSE UNCHANGED <<edits, change, owed, pending, session>>
    /\ UNCHANGED <<batch, queue, running, connected, flags, gaveUp, acked, spent>>

\* A metadata update is stored by its own call and recorded for the checkpoint
\* (recordAcceptedStatelessChange).
MetadataAccepted(m) ==
    /\ Quiet /\ Writable /\ m \in connected
    /\ Len(edits) < MaxEdits
    /\ edits' = Append(edits, [author |-> m, credit |-> m])
    /\ owed' = owed \cup {m}
    /\ session' = Recorded(m)
    /\ UNCHANGED <<change, batch, pending, work, connected, flags, gaveUp, acked, spent>>

Queued(caller) ==
    \/ running # NoOperation /\ running.operation.caller = caller
    \/ \E i \in 1 .. Len(queue) : queue[i].caller = caller

\* onStoreDocument; Hocuspocus runs one at a time.
StoreHook ==
    /\ Quiet /\ ~ Queued("store")
    /\ CallPersist("store")
    /\ UNCHANGED <<document, tracker, running, lane, connected, flags, ghosts, spent>>

\* persist.now: with nothing pending, persistWith returns at once.
PersistNow(m) ==
    /\ Quiet /\ Writable /\ m \in connected
    /\ Spend("now")
    /\ IF Pending = {}
       THEN acked' = Len(edits) /\ UNCHANGED queue
       ELSE CallPersist("now") /\ UNCHANGED acked
    /\ UNCHANGED <<document, tracker, running, lane, connected, flags, owed, gaveUp>>

-----------------------------------------------------------------------------
(* Finalization.                                                           *)

\* A timer that fires while an editor is connected only ends an active window.
TimerFires ==
    /\ Quiet
    /\ session # NoSession /\ session.timer # "none"
    /\ LET ignore == session.timer = "active-window"
           s == [session EXCEPT !.timer = "none"]
       IN IF ~ ignore /\ connected # {}
          THEN session' = Schedule(s, "active-window") /\ UNCHANGED queue
          ELSE /\ session' = [s EXCEPT !.finalizing = TRUE]
               /\ queue' = Append(queue,
                      [caller |-> "finalize", by |-> NoMember, sequence |-> 0,
                       position |-> Len(edits), contributors |-> session.contributors,
                       ignoreConnections |-> ignore])
    /\ UNCHANGED <<document, pending, running, lane, connected, flags, ghosts, spent>>

\* Variant with a bug: an active window never ends while an editor is connected.
CanContinueAlone(op) ==
    /\ session # NoSession
    /\ Len(edits) = op.position /\ session.next = {} /\ connected = {}

\* The session is still there, nothing was edited, and nobody came back, since
\* the finalization began.
CanContinue(op) ==
    /\ session # NoSession
    /\ Len(edits) = op.position /\ session.next = {}
    /\ op.ignoreConnections \/ connected = {}

\* settleExhaustedFinalization
GiveUp ==
    /\ session' = NoSession
    /\ pending' = NothingPending
    /\ gaveUp' = TRUE
    /\ owed' = {}

\* Variant with a bug: a conflict is retried like any failure.
ConflictRetried ==
    /\ fenced' = TRUE
    /\ session' = Reschedule(Merged(session))
    /\ UNCHANGED <<pending, gaveUp, owed>>
    /\ running' = NoOperation
    /\ UNCHANGED discarded

\* settleConflict fences the room first.
ConflictSettled ==
    /\ fenced' = TRUE
    /\ GiveUp
    /\ running' = NoOperation
    /\ UNCHANGED discarded

\* handleFailure, of a session that is still there
FinalizeFailed ==
    /\ LET s == [Merged(session) EXCEPT !.retries = @ + 1]
       IN IF s.retries > MaxRetries THEN GiveUp
          ELSE session' = Reschedule(s) /\ UNCHANGED <<pending, gaveUp, owed>>
    /\ running' = NoOperation
    /\ UNCHANGED flags

\* Any failed operation of another caller, or of a session that is gone.
OperationFailed ==
    /\ running' = NoOperation
    /\ UNCHANGED <<tracker, discarded, gaveUp, owed>>

OfSession == running.operation.caller = "finalize" /\ session # NoSession

\* The version checkpoint, after the save, which leaves `left` pending; a
\* changed session starts over.
Checkpoint(op, left) ==
    \/ /\ ~ CanContinue(op)
       /\ session' = IF session = NoSession THEN session
                     ELSE Reschedule(Merged(session))
       /\ pending' = left
       /\ running' = NoOperation
       /\ UNCHANGED <<flags, gaveUp, owed>>
    \/ /\ CanContinue(op) /\ fenced
       /\ ConflictSettled
    \/ /\ CanContinue(op) /\ ~ fenced
       /\ running' = [operation |-> op, stage |-> "checkpoint"]
       /\ pending' = left
       /\ UNCHANGED <<session, flags, gaveUp, owed>>

\* Variant with a bug: also clears a member who edited since the call.
AdvancedPastNewEdits(op) ==
    IF op.by # NoMember THEN [pending EXCEPT ![op.by] = 0] ELSE pending

\* advancePendingContributors: unless the member edited since the call.
Advanced(op) ==
    IF op.by # NoMember /\ pending[op.by] = op.sequence
    THEN [pending EXCEPT ![op.by] = 0] ELSE pending

\* persist() of the room is done: its caller continues.
Saved(op) ==
    IF op.caller = "finalize"
    THEN /\ Checkpoint(op, Advanced(op))
         /\ UNCHANGED <<lane, acked>>
    ELSE /\ pending' = Advanced(op)
         /\ lane' = IF op.caller = "lane" THEN [lane EXCEPT !.ready = TRUE] ELSE lane
         /\ acked' = IF op.caller = "now" /\ op.position > acked
                     THEN op.position ELSE acked
         /\ running' = NoOperation
         /\ UNCHANGED <<session, flags, gaveUp, owed>>

\* persist() of the room, past its retry.
TakeChange(op) ==
    IF change = {}
    THEN Saved(op) /\ batch' = NoBatch /\ UNCHANGED change
    ELSE /\ batch' = [edits |-> change, by |-> op.by]
         /\ change' = {}
         /\ running' = [operation |-> op, stage |-> "saving"]
         /\ UNCHANGED <<tracker, lane, flags, ghosts>>

RunPersist(op) ==
    IF batch # NoBatch
    THEN /\ running' = [operation |-> op, stage |-> "retrying"]
         /\ UNCHANGED <<change, batch, tracker, lane, flags, ghosts>>
    ELSE TakeChange(op)

\* The contributor of a finalization's save is captured when it starts.
ForPending(op, m) == [op EXCEPT !.by = m, !.sequence = pending[m]]

StartOperation ==
    /\ QueueReady
    /\ queue' = Tail(queue)
    /\ LET op == Head(queue) IN
       IF op.caller = "finalize"
       THEN IF CanContinue(op) /\ ~ fenced /\ Pending # {}
            THEN \E m \in Pending : RunPersist(ForPending(op, m))
            ELSE /\ Checkpoint(op, pending)
                 /\ UNCHANGED <<change, batch, lane, acked>>
       ELSE RunPersist(op)
    /\ UNCHANGED <<edits, connected, spent>>

-----------------------------------------------------------------------------
(* Answers of the API.                                                     *)

Credited ==
    [i \in 1 .. Len(edits) |->
        IF i \in batch.edits THEN [edits[i] EXCEPT !.credit = batch.by] ELSE edits[i]]

\* Variant with a bug: a retried batch is all that a persist saves.
BatchSavedAlone ==
    /\ Quiet /\ running # NoOperation
    /\ running.stage \in {"retrying", "saving"}
    /\ edits' = Credited
    /\ Saved(running.operation) /\ batch' = NoBatch
    /\ UNCHANGED <<change, queue, connected, spent>>

BatchSaved ==
    /\ Quiet /\ running # NoOperation
    /\ running.stage \in {"retrying", "saving"}
    /\ edits' = Credited
    /\ IF running.stage = "retrying"
       THEN TakeChange(running.operation)
       ELSE Saved(running.operation) /\ batch' = NoBatch /\ UNCHANGED change
    /\ UNCHANGED <<queue, connected, spent>>

\* Variant with a bug: the session ends although somebody edited meanwhile.
CheckpointEndsSession ==
    /\ Quiet /\ running # NoOperation /\ running.stage = "checkpoint"
    /\ owed' = owed \ running.operation.contributors
    /\ session' = NoSession
    /\ running' = NoOperation
    /\ UNCHANGED <<document, pending, queue, lane, connected, flags, gaveUp, acked, spent>>

\* complete(): the session ends, or goes on for those who edited meanwhile.
CheckpointTaken ==
    /\ Quiet /\ running # NoOperation /\ running.stage = "checkpoint"
    /\ LET op == running.operation IN
       /\ owed' = {m \in owed :
                     \/ m \notin op.contributors
                     \/ \E i \in op.position + 1 .. Len(edits) : edits[i].author = m}
       /\ session' = IF session = NoSession \/ session.next = {} THEN NoSession
                     ELSE Reschedule([session EXCEPT !.contributors = session.next,
                                                     !.next = {}, !.finalizing = FALSE])
    /\ running' = NoOperation
    /\ UNCHANGED <<document, pending, queue, lane, connected, flags, gaveUp, acked, spent>>

\* A failed persist rejects the frame that waits for it.
LaneFailed == lane' = IF running.operation.caller = "lane" THEN FreeLane ELSE lane

CallFailed ==
    /\ Quiet /\ running # NoOperation
    /\ Spend("failure")
    /\ LaneFailed
    /\ IF OfSession THEN FinalizeFailed ELSE OperationFailed /\ UNCHANGED fenced
    /\ UNCHANGED <<document, queue, connected, acked>>

\* Only the store hook, persist.now and a finalization fence the room.
CallConflicted ==
    /\ Quiet /\ running # NoOperation
    /\ Spend("conflict")
    /\ LaneFailed
    /\ IF OfSession THEN ConflictSettled
       ELSE /\ OperationFailed
            /\ fenced' = (fenced \/ running.operation.caller \in {"store", "now"})
    /\ UNCHANGED <<document, queue, connected, acked>>

\* discardNow: the session and the contributors are dropped.
Discard ==
    /\ discarded' = TRUE
    /\ GiveUp

\* The API does not know the resource any more (isEntityDeleted).
ResourceGone ==
    /\ Quiet /\ running # NoOperation
    /\ Spend("conflict")
    /\ LaneFailed
    /\ Discard
    /\ running' = NoOperation
    /\ UNCHANGED <<document, queue, connected, fenced, acked>>

\* resourceInvalidated: the document was changed behind the room, which is
\* fenced first.
Invalidated ==
    /\ Quiet /\ Writable /\ edits # << >>
    /\ Spend("conflict")
    /\ fenced' = TRUE
    /\ Discard
    /\ UNCHANGED <<document, work, connected, acked>>

\* beforeUnloadDocument refuses while a session exists; afterUnloadDocument.
Unload ==
    /\ Quiet /\ running = NoOperation /\ lane = FreeLane
    /\ connected = {} /\ session = NoSession
    /\ ~ Writable \/ gaveUp \/ edits # << >>
    /\ edits' = << >> /\ change' = {} /\ batch' = NoBatch
    /\ pending' = NothingPending
    /\ fenced' = FALSE /\ discarded' = FALSE
    /\ gaveUp' = FALSE /\ owed' = {} /\ acked' = 0
    /\ UNCHANGED <<session, work, connected, spent>>

-----------------------------------------------------------------------------
(* The system.                                                             *)

Init ==
    /\ edits = << >> /\ change = {} /\ batch = NoBatch
    /\ pending = NothingPending
    /\ session = NoSession
    /\ queue = << >>
    /\ running = NoOperation
    /\ lane = FreeLane
    /\ connected = {}
    /\ fenced = FALSE /\ discarded = FALSE
    /\ owed = {} /\ gaveUp = FALSE /\ acked = 0
    /\ spent = [kind \in Kinds |-> 0]

Answers ==
    \/ BatchSaved
    \/ CheckpointTaken
    \/ CallFailed
    \/ CallConflicted
    \/ ResourceGone

Next ==
    \/ \E m \in Members : Connect(m)
    \/ \E m \in Members : Disconnect(m)
    \/ \E m \in Members : Frame(m)
    \/ \E m \in Members : MetadataAccepted(m)
    \/ \E m \in Members : PersistNow(m)
    \/ LaneResumes
    \/ StoreHook
    \/ TimerFires
    \/ StartOperation
    \/ Answers
    \/ Invalidated
    \/ Unload

Spec == Init /\ [][Next]_vars

\* The event loop runs what is ready, timers fire, calls end (fetch gives up by
\* its own limits), a room that is fenced or gone loses its connections, and
\* Hocuspocus unloads a room that nothing keeps.
FairSpec ==
    /\ Spec
    /\ WF_vars(StartOperation) /\ WF_vars(LaneResumes)
    /\ WF_vars(Answers)
    /\ WF_vars(TimerFires)
    /\ WF_vars(~ Writable /\ \E m \in Members : Disconnect(m))
    /\ WF_vars(Unload)

-----------------------------------------------------------------------------
(* Properties.                                                             *)

Unsaved == change \cup (IF batch = NoBatch THEN {} ELSE batch.edits)

\* Every edit that is not stored still has its author among the pending
\* contributors, without whom no persist would save it, however saves, newer
\* edits and finalizations overlap; unless a finalization was given up.
UnsavedKeepsContributor ==
    ~ gaveUp => \A i \in Unsaved : pending[edits[i].author] >= i

\* A member whose edit no version checkpoint has credited yet is still a
\* contributor of the session, whether it edited before or during a
\* finalization that continued, failed or was overtaken.
CreditsRemembered ==
    owed \subseteq (IF session = NoSession THEN {}
                    ELSE session.contributors \cup session.next)

\* A session always has what ends it: a timer, or one finalization that is
\* queued or runs (a second one would take its checkpoint twice).
NeverStranded ==
    session # NoSession =>
        IF session.finalizing THEN session.timer = "none" /\ Queued("finalize")
        ELSE session.timer # "none" /\ ~ Queued("finalize")

\* A room is unloaded with unsaved edits only if it was fenced or given up:
\* preventsUnload holds it exactly as long as it matters.
NothingLostOnUnload ==
    [][(edits # << >> /\ edits' = << >>) => (Unsaved = {} \/ gaveUp \/ fenced)]_vars

\* persist.now.ack ok:true covers every change accepted before the request
\* (README: "An explicit persistence acknowledgement covers newer accepted
\* room changes as well as any retried batch from a previous failed save").
PersistNowCovers == \A i \in Unsaved : i > acked

\* So it is as long as no finalization was given up.
PersistNowCoversTracked == ~ gaveUp => PersistNowCovers

\* A save credits an edit to its author (edit-session-contributors.ts: "A
\* single lane covers the previous actor's durable save, validation, apply
\* and attribution").
AttributionExact ==
    \A i \in 1 .. Len(edits) : edits[i].credit \in {NoMember, edits[i].author}

\* A save credits another's edit only when it is late: its contributor, captured
\* when the save was asked for, has been saved since; or when a finalization was
\* given up, which forgets who is pending.
MiscreditIsLate ==
    [][batch' \notin {batch, NoBatch} =>
          \A i \in batch'.edits :
             edits[i].author = batch'.by \/ pending[batch'.by] = 0 \/ gaveUp]_vars

\* A session ends: by its checkpoint, or given up after its retries.
SessionSettles == session # NoSession ~> session = NoSession

\* A room that is fenced, whose clients must reload, or gone is unloaded.
FencedIsReleased == ~ Writable ~> Writable
=============================================================================
