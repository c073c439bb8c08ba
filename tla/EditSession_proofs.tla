--------------------------- MODULE EditSession_proofs ---------------------------
(***************************************************************************)
(* Theorems about EditSession, for every set of members and every bound.   *)
(***************************************************************************)
EXTENDS EditSession, TLAPS

USE BoundsAssumption, NoMemberAssumption, SentinelsAssumption

-----------------------------------------------------------------------------
(* The inductive invariant.                                                *)

\* What is known of an operation that is queued or runs, among edits `es`, with
\* lane `l` and session `s`: its contributor and position; the frame that waits
\* for it; and, of a finalization, that whoever edited since it began is one of
\* the session's next contributors.
OperationOk(op, es, l, s, writable) ==
    /\ op \in Operation
    /\ op.caller # "finalize" => op.by \in Members
    /\ op.position <= Len(es) /\ op.sequence <= Len(es)
    /\ op.caller = "lane" => l.member \in Members /\ ~l.ready
    /\ op.caller = "finalize" /\ s = NoSession => ~writable
    /\ op.caller = "finalize" /\ s # NoSession =>
          /\ s.finalizing
          /\ s.contributors = op.contributors
          /\ \A i \in op.position + 1 .. Len(es) : es[i].author \in s.next

\* Callers that have one operation at a time.
Single == {"lane", "finalize"}

QueueOk(q, es, l, s, writable) ==
    /\ q \in Seq(Operation)
    /\ \A i \in 1 .. Len(q) : OperationOk(q[i], es, l, s, writable)
    /\ \A i, j \in 1 .. Len(q) : i # j /\ q[i].caller \in Single => q[j].caller # q[i].caller

\* An operation that holds the queue, and those that wait behind it.
Holds(op, q, es, l, s, writable) ==
    /\ OperationOk(op, es, l, s, writable)
    /\ QueueOk(q, es, l, s, writable)
    /\ \A i \in 1 .. Len(q) : q[i].caller \in Single => q[i].caller # op.caller

\* What was not taken into the batch that is being saved came after the save was
\* asked for; at the checkpoint the same holds of all that is unsaved.
StageOk(run, new, unsaved) ==
    /\ run.stage \in {"retrying", "saving"} => run.operation.by \in Members
    /\ run.stage = "saving" =>
          \A i \in new : i > run.operation.position /\ i > run.operation.sequence
    /\ run.stage = "checkpoint" =>
          /\ run.operation.caller = "finalize"
          /\ \A i \in unsaved : i > run.operation.position

\* Edits without which a room may not be unloaded.
Kept == IF gaveUp THEN {} ELSE Unsaved

WorkOk ==
    /\ running = NoOperation => QueueOk(queue, edits, lane, session, Writable)
    /\ running # NoOperation =>
          /\ running \in Running
          /\ Holds(running.operation, queue, edits, lane, session, Writable)
          /\ StageOk(running, change, Kept)
          /\ running.stage # "checkpoint" => batch # NoBatch

DataOk ==
    /\ edits \in Seq(Edit) /\ Len(edits) <= MaxEdits
    /\ change \subseteq 1 .. Len(edits)
    /\ batch \in Batch \cup {NoBatch}
    /\ batch # NoBatch => batch.edits \subseteq 1 .. Len(edits)
    /\ pending \in [Members -> 0 .. MaxEdits]
    /\ \A m \in Members : pending[m] <= Len(edits)
    /\ acked \in 0 .. Len(edits)

ControlOk ==
    /\ lane \in [member : Members \cup {NoMember}, ready : BOOLEAN]
    /\ lane.ready => lane.member \in Members
    /\ connected \subseteq Members
    /\ fenced \in BOOLEAN /\ discarded \in BOOLEAN
    /\ owed \subseteq Members
    /\ gaveUp \in BOOLEAN
    /\ spent \in [Kinds -> Nat]

\* A session has its timer or its finalization.
Driven(s, queued) ==
    /\ s \in Session
    /\ IF s.finalizing THEN s.timer = "none" /\ queued ELSE s.timer # "none"

SessionOk == session # NoSession => Driven(session, Queued("finalize"))

\* The edits that are not saved, unless they were given up: their authors are
\* pending, no acknowledgement covers them and their session goes on.
KeptOk ==
    /\ \A i \in Kept : pending[edits[i].author] >= i /\ i > acked
    /\ Kept # {} => session # NoSession

IInv == DataOk /\ ControlOk /\ WorkOk /\ SessionOk /\ KeptOk /\ CreditsRemembered

-----------------------------------------------------------------------------
(* The session's operators.                                                *)

USE DEF Kinds, Timers, Session, Batch, Edit, Operation, Running, Single, FreeLane

LEMMA SpendType ==
    ASSUME spent \in [Kinds -> Nat], NEW kind \in Kinds, Spend(kind)
    PROVE  spent' \in [Kinds -> Nat]
BY DEF Spend

LEMMA ScheduleIs ==
    ASSUME NEW s \in Session, NEW timer \in Timers
    PROVE  /\ Schedule(s, timer) \in Session
           /\ Schedule(s, timer).contributors = s.contributors
           /\ Schedule(s, timer).next = s.next
           /\ Schedule(s, timer).finalizing = s.finalizing
           /\ Schedule(s, timer).timer = IF s.timer = "none" THEN timer ELSE s.timer
BY DEF Schedule

LEMMA CancelIs ==
    ASSUME NEW s \in Session, NEW timer \in Timers
    PROVE  /\ Cancel(s, timer) \in Session
           /\ Cancel(s, timer).contributors = s.contributors
           /\ Cancel(s, timer).next = s.next
           /\ Cancel(s, timer).finalizing = s.finalizing
           /\ Cancel(s, timer).timer = IF s.timer = timer THEN "none" ELSE s.timer
BY DEF Cancel

LEMMA RescheduleIs ==
    ASSUME NEW s \in Session
    PROVE  /\ Reschedule(s) \in Session
           /\ Reschedule(s).contributors = s.contributors
           /\ Reschedule(s).next = s.next
           /\ Reschedule(s).finalizing = s.finalizing
           /\ Reschedule(s).timer # "none"
BY ScheduleIs DEF Reschedule

LEMMA MergedIs ==
    ASSUME NEW s \in Session
    PROVE  /\ Merged(s) \in Session
           /\ Merged(s).contributors = s.contributors \cup s.next
           /\ Merged(s).next = {}
           /\ Merged(s).finalizing = FALSE
BY DEF Merged

\* Who is recorded during a finalization is one of the session's next
\* contributors.
LEMMA RecordedIs ==
    ASSUME SessionOk, NEW m \in Members
    PROVE  /\ Recorded(m) \in Session
           /\ session # NoSession /\ session.finalizing =>
                 /\ Recorded(m).finalizing
                 /\ Recorded(m).timer = "none"
                 /\ Recorded(m).contributors = session.contributors
                 /\ Recorded(m).next = session.next \cup {m}
           /\ session = NoSession \/ ~session.finalizing =>
                 /\ ~Recorded(m).finalizing
                 /\ Recorded(m).timer # "none"
           /\ m \in Recorded(m).contributors \cup Recorded(m).next
           /\ session # NoSession =>
                 session.contributors \cup session.next
                    \subseteq Recorded(m).contributors \cup Recorded(m).next
<1> DEFINE s == IF session # NoSession THEN session
                ELSE [contributors |-> {}, next |-> {}, finalizing |-> FALSE,
                      retries |-> 0, timer |-> "none"]
           t == [Cancel(s, "room-close") EXCEPT !.retries = 0]
           u == [t EXCEPT !.contributors = @ \cup {m}]
<1>1. s \in Session
  BY DEF SessionOk, Driven
<1>2. /\ t \in Session
      /\ t.contributors = s.contributors /\ t.next = s.next
      /\ t.finalizing = s.finalizing
      /\ s.timer = "none" => t.timer = "none"
  <2> HIDE DEF s
  <2> QED
    BY <1>1, CancelIs
<1>3. /\ s.finalizing => Recorded(m) = [t EXCEPT !.next = @ \cup {m}]
      /\ ~s.finalizing => Recorded(m) = Schedule(u, "active-window")
  BY DEF Recorded
<1>4. session # NoSession => s = session /\ (s.finalizing => s.timer = "none")
  BY DEF SessionOk, Driven
<1>5. session = NoSession => ~s.finalizing
  OBVIOUS
<1> HIDE DEF s, t
<1>6. CASE s.finalizing
  <2> DEFINE v == [t EXCEPT !.next = @ \cup {m}]
  <2>1. /\ v \in Session
        /\ v.contributors = t.contributors /\ v.next = t.next \cup {m}
        /\ v.finalizing = t.finalizing /\ v.timer = t.timer
    BY <1>2
  <2>2. session # NoSession /\ s = session /\ s.timer = "none"
    BY <1>4, <1>5, <1>6
  <2> HIDE DEF v
  <2> QED
    BY <1>2, <1>3, <1>6, <2>1, <2>2 DEF v
<1>7. CASE ~s.finalizing
  <2>1. /\ u \in Session
        /\ u.contributors = t.contributors \cup {m} /\ u.next = t.next
        /\ ~u.finalizing
    BY <1>1, <1>2, <1>7
  <2> HIDE DEF u
  <2> QED
    BY <1>1, <1>2, <1>3, <1>4, <1>5, <1>7, <2>1, ScheduleIs
<1> QED
  BY <1>6, <1>7

-----------------------------------------------------------------------------
(* The queue.                                                              *)

HIDE DEF Kinds, Timers, Session, Batch, Edit, Operation, Running, Single, FreeLane

LEMMA KeptOperations ==
    ASSUME NEW es, NEW l, NEW s, NEW w, NEW es2, NEW l2, NEW s2, NEW w2,
           \A op : OperationOk(op, es, l, s, w) => OperationOk(op, es2, l2, s2, w2),
           NEW q
    PROVE  /\ QueueOk(q, es, l, s, w) => QueueOk(q, es2, l2, s2, w2)
           /\ \A op : Holds(op, q, es, l, s, w) => Holds(op, q, es2, l2, s2, w2)
BY DEF QueueOk, Holds

\* An operation may join the queue if it may be one of several or has no other of
\* its caller before it.
LEMMA Joined ==
    ASSUME NEW es, NEW l, NEW s, NEW w, NEW q, NEW op,
           OperationOk(op, es, l, s, w),
           op.caller \in Single => \A i \in 1 .. Len(q) : q[i].caller # op.caller
    PROVE  /\ QueueOk(q, es, l, s, w) => QueueOk(Append(q, op), es, l, s, w)
           /\ \A h : /\ Holds(h, q, es, l, s, w)
                     /\ op.caller \in Single => h.caller # op.caller
                     => Holds(h, Append(q, op), es, l, s, w)
<1>1. ASSUME QueueOk(q, es, l, s, w)
      PROVE  /\ QueueOk(Append(q, op), es, l, s, w)
             /\ Len(Append(q, op)) = Len(q) + 1
             /\ \A i \in 1 .. Len(q) : Append(q, op)[i] = q[i]
             /\ Append(q, op)[Len(q) + 1] = op
  <2>1. /\ q \in Seq(Operation) /\ op \in Operation
        /\ \A i \in 1 .. Len(q) : OperationOk(q[i], es, l, s, w)
        /\ \A i, j \in 1 .. Len(q) :
              i # j /\ q[i].caller \in Single => q[j].caller # q[i].caller
    BY <1>1 DEF QueueOk, OperationOk
  <2> DEFINE r == Append(q, op)
  <2>2. /\ r \in Seq(Operation) /\ Len(r) = Len(q) + 1
        /\ \A i \in 1 .. Len(q) : r[i] = q[i]
        /\ r[Len(q) + 1] = op
    BY <2>1
  <2> HIDE DEF r
  <2>3. \A i \in 1 .. Len(r) : OperationOk(r[i], es, l, s, w)
    BY <2>1, <2>2
  <2>4. \A i, j \in 1 .. Len(r) :
           i # j /\ r[i].caller \in Single => r[j].caller # r[i].caller
    BY <2>1, <2>2, SMTT(30)
  <2>5. QueueOk(r, es, l, s, w)
    BY <2>2, <2>3, <2>4 DEF QueueOk
  <2> QED
    BY <2>2, <2>5 DEF r
<1>2. ASSUME NEW h, Holds(h, q, es, l, s, w), op.caller \in Single => h.caller # op.caller
      PROVE  Holds(h, Append(q, op), es, l, s, w)
  <2> DEFINE r == Append(q, op)
  <2>1. /\ QueueOk(r, es, l, s, w)
        /\ Len(r) = Len(q) + 1
        /\ \A i \in 1 .. Len(q) : r[i] = q[i]
        /\ r[Len(q) + 1] = op
    BY <1>1, <1>2 DEF Holds
  <2>2. q \in Seq(Operation)
    BY <1>2 DEF Holds, QueueOk
  <2> HIDE DEF r
  <2>3. \A i \in 1 .. Len(r) : r[i].caller \in Single => r[i].caller # h.caller
    BY <1>2, <2>1, <2>2 DEF Holds
  <2>4. Holds(h, r, es, l, s, w)
    BY <1>2, <2>1, <2>3 DEF Holds
  <2> QED
    BY <2>4 DEF r
<1> QED
  BY <1>1, <1>2

LEMMA Started ==
    ASSUME NEW es, NEW l, NEW s, NEW w, NEW q, QueueOk(q, es, l, s, w), q # << >>
    PROVE  Holds(Head(q), Tail(q), es, l, s, w)
<1> DEFINE h == Head(q)
           r == Tail(q)
<1>1. q \in Seq(Operation)
  BY DEF QueueOk
<1>2. /\ r \in Seq(Operation) /\ Len(r) = Len(q) - 1 /\ Len(q) \in Nat \ {0}
      /\ \A i \in 1 .. Len(r) : r[i] = q[i + 1]
      /\ h = q[1]
  BY <1>1
<1> HIDE DEF h, r
<1>0. \A i \in 1 .. Len(r) : i + 1 \in 1 .. Len(q)
  BY <1>2
<1>3. \A i \in 1 .. Len(r) : OperationOk(r[i], es, l, s, w)
  BY <1>0, <1>2 DEF QueueOk
<1>4. \A i, j \in 1 .. Len(r) :
         i # j /\ r[i].caller \in Single => r[j].caller # r[i].caller
  <2> TAKE i, j \in 1 .. Len(r)
  <2>1. /\ i \in Nat /\ j \in Nat /\ i + 1 \in 1 .. Len(q) /\ j + 1 \in 1 .. Len(q)
        /\ i # j => i + 1 # j + 1
    BY <1>0, <1>2
  <2> QED
    BY <1>2, <2>1 DEF QueueOk
<1>5. \A i \in 1 .. Len(r) : r[i].caller \in Single => r[i].caller # h.caller
  BY <1>2, SMTT(30) DEF QueueOk
<1>6. OperationOk(h, es, l, s, w)
  BY <1>2 DEF QueueOk
<1>7. Holds(h, r, es, l, s, w)
  BY <1>2, <1>3, <1>4, <1>5, <1>6 DEF Holds, QueueOk
<1> QED
  BY <1>7 DEF h, r

\* Saves credit edits and change nothing else of them.
SameAuthors(es, es2) ==
    /\ es2 \in Seq(Edit)
    /\ Len(es2) = Len(es)
    /\ \A i \in 1 .. Len(es) : es2[i].author = es[i].author

LEMMA HoldsStill ==
    ASSUME NEW es, NEW l, NEW s, NEW w, NEW es2, NEW op, NEW q,
           Holds(op, q, es, l, s, w), SameAuthors(es, es2), es \in Seq(Edit)
    PROVE  Holds(op, q, es2, l, s, w)
<1>1. ASSUME NEW o, OperationOk(o, es, l, s, w)
      PROVE  OperationOk(o, es2, l, s, w)
  <2>1. o.position \in Nat /\ Len(es) \in Nat /\ Len(es2) = Len(es)
    BY <1>1 DEF OperationOk, Operation, SameAuthors
  <2>2. \A i \in o.position + 1 .. Len(es) : es2[i].author = es[i].author
    BY <2>1 DEF SameAuthors
  <2> QED
    BY <1>1, <2>1, <2>2 DEF OperationOk
<1> QED
  BY <1>1, KeptOperations

\* Behind an operation that is done: only its own frame, or the session of a
\* finalization, may have changed, or the session is gone with the room.
LEMMA Behind ==
    ASSUME NEW es, NEW l, NEW s, NEW w, NEW es2, NEW l2, NEW s2, NEW w2,
           NEW op, NEW q, Holds(op, q, es, l, s, w), SameAuthors(es, es2), es \in Seq(Edit),
           op.caller = "lane" \/ l2 = l,
           \/ op.caller = "finalize"
           \/ s2 = s /\ (w2 => w)
           \/ s2 = NoSession /\ ~w2
    PROVE  QueueOk(q, es2, l2, s2, w2)
<1>1. ASSUME NEW i \in 1 .. Len(q)
      PROVE  OperationOk(q[i], es2, l2, s2, w2)
  <2>1. /\ OperationOk(q[i], es, l, s, w)
        /\ q[i].caller \in Single => q[i].caller # op.caller
    BY <1>1 DEF Holds, QueueOk
  <2>2. q[i].position \in Nat /\ Len(es) \in Nat /\ Len(es2) = Len(es)
    BY <2>1 DEF OperationOk, Operation, SameAuthors
  <2>3. \A k \in q[i].position + 1 .. Len(es) : es2[k].author = es[k].author
    BY <2>2 DEF SameAuthors
  <2>4. q[i].caller = "lane" => l2 = l
    BY <2>1 DEF Single
  <2>5. q[i].caller = "finalize" =>
              (s2 = s /\ (w2 => w)) \/ (s2 = NoSession /\ ~w2)
    <3>1. q[i].caller = "finalize" => op.caller # "finalize"
      BY <2>1 DEF Single
    <3> QED
      BY <3>1, Zenon
  <2>6. CASE q[i].caller # "finalize"
    BY <2>1, <2>2, <2>4, <2>6 DEF OperationOk
  <2>7. CASE q[i].caller = "finalize" /\ s2 = NoSession
    <3>1. s = NoSession => ~w
      BY <2>1, <2>7 DEF OperationOk
    <3>2. ~w2
      BY <2>5, <2>7, <3>1
    <3> QED
      BY <2>1, <2>2, <2>7, <3>2 DEF OperationOk
  <2>8. CASE q[i].caller = "finalize" /\ s2 # NoSession
    BY <2>1, <2>2, <2>3, <2>5, <2>8 DEF OperationOk
  <2> QED
    BY <2>6, <2>7, <2>8
<1> QED
  BY <1>1 DEF Holds, QueueOk

-----------------------------------------------------------------------------
(* Actions that leave the queue and the room's data alone.                 *)

LEMMA TypeCorrectState == IInv => TypeOK
<1> SUFFICES ASSUME IInv PROVE TypeOK
  OBVIOUS
<1>1. queue \in Seq(Operation) /\ running \in Running \cup {NoOperation}
  BY DEF IInv, WorkOk, Holds, QueueOk
<1>2. Len(edits) \in Nat
  BY DEF IInv, DataOk
<1> QED
  BY <1>1, <1>2 DEF IInv, DataOk, ControlOk, SessionOk, Driven, TypeOK, Positions

LEMMA InitKeeps == Init => IInv
<1> SUFFICES ASSUME Init PROVE IInv
  OBVIOUS
<1>1. DataOk
  BY DEF Init, DataOk, NothingPending
<1>2. ControlOk
  BY DEF Init, ControlOk, FreeLane, Kinds
<1>3. WorkOk
  BY DEF Init, WorkOk, QueueOk
<1>4. SessionOk /\ CreditsRemembered
  BY DEF Init, SessionOk, CreditsRemembered
<1>5. KeptOk
  BY DEF Init, KeptOk, Kept, Unsaved
<1> QED
  BY <1>1, <1>2, <1>3, <1>4, <1>5 DEF IInv

\* Another timer for the session, of which nothing else changes.
LEMMA SessionTouched ==
    ASSUME IInv,
           session = NoSession => session' = NoSession,
           session # NoSession =>
              /\ session' \in Session
              /\ session'.contributors = session.contributors
              /\ session'.next = session.next
              /\ session'.finalizing = session.finalizing
              /\ IF session'.finalizing THEN session'.timer = "none"
                                        ELSE session'.timer # "none",
           connected' \subseteq Members,
           UNCHANGED <<document, pending, work, flags, ghosts, spent>>
    PROVE  IInv'
<1> USE DEF document, work, flags, ghosts
<1>1. DataOk'
  BY DEF IInv, DataOk
<1>2. ControlOk'
  BY DEF IInv, ControlOk
<1>3. session # NoSession => session' # NoSession
  BY DEF SentinelsAssumption
<1>4. WorkOk'
  <2>1. \A op : OperationOk(op, edits, lane, session, Writable)
                  => OperationOk(op, edits, lane, session', Writable)
    BY <1>3 DEF OperationOk
  <2>2. /\ QueueOk(queue, edits, lane, session, Writable)
              => QueueOk(queue, edits, lane, session', Writable)
        /\ \A op : Holds(op, queue, edits, lane, session, Writable)
              => Holds(op, queue, edits, lane, session', Writable)
    BY <2>1, KeptOperations
  <2>3. Writable' = Writable /\ Kept' = Kept
    BY DEF Writable, Kept, Unsaved
  <2> QED
    BY <2>2, <2>3 DEF IInv, WorkOk
<1>5. SessionOk'
  BY <1>3 DEF IInv, SessionOk, Driven, Queued
<1>6. KeptOk'
  BY <1>3 DEF IInv, KeptOk, Kept, Unsaved
<1>7. CreditsRemembered'
  BY <1>3 DEF IInv, CreditsRemembered
<1> QED
  BY <1>1, <1>2, <1>4, <1>5, <1>6, <1>7 DEF IInv

LEMMA ConnectKeeps == ASSUME IInv, NEW m \in Members, Connect(m) PROVE IInv'
<1>1. CASE session = NoSession
  BY <1>1, SessionTouched DEF Connect, IInv, ControlOk
<1>2. CASE session # NoSession
  <2> DEFINE s == [Cancel(session, "room-close") EXCEPT !.retries = 0]
  <2>1. session \in Session /\ (session.finalizing => session.timer = "none")
    BY <1>2 DEF IInv, SessionOk, Driven
  <2>2. /\ s \in Session
        /\ s.contributors = session.contributors /\ s.next = session.next
        /\ s.finalizing = session.finalizing
        /\ session.timer = "none" => s.timer = "none"
    BY <2>1, CancelIs DEF Session, Timers
  <2>3. session' = IF s.finalizing THEN s ELSE Schedule(s, "active-window")
    BY <1>2 DEF Connect
  <2> HIDE DEF s
  <2>4. session.finalizing => session' = s
    BY <2>2, <2>3
  <2>5. ~session.finalizing => session' = Schedule(s, "active-window")
    BY <2>2, <2>3
  <2>6. "active-window" \in Timers
    BY DEF Timers
  <2>7. /\ session' \in Session
        /\ session'.contributors = session.contributors
        /\ session'.next = session.next
        /\ session'.finalizing = session.finalizing
        /\ IF session'.finalizing THEN session'.timer = "none"
                                  ELSE session'.timer # "none"
    BY <2>1, <2>2, <2>4, <2>5, <2>6, ScheduleIs
  <2> QED
    BY <1>2, <2>7, SessionTouched DEF Connect, IInv, ControlOk
<1> QED
  BY <1>1, <1>2

LEMMA DisconnectKeeps == ASSUME IInv, NEW m \in Members, Disconnect(m) PROVE IInv'
<1>1. connected' \subseteq Members /\ UNCHANGED <<document, pending, work, flags, ghosts, spent>>
  BY DEF Disconnect, IInv, ControlOk
<1>2. CASE session' = session
  BY <1>1, <1>2, SessionTouched DEF IInv, SessionOk, Driven
<1>3. CASE session' # session
  <2>1. session # NoSession /\ ~session.finalizing
    BY <1>3 DEF Disconnect
  <2>2. session' = [session EXCEPT !.timer = "room-close"]
    BY <1>3 DEF Disconnect
  <2>3. session \in Session
    BY <2>1 DEF IInv, SessionOk, Driven
  <2>4. /\ session' \in Session
        /\ session'.contributors = session.contributors
        /\ session'.next = session.next
        /\ session'.finalizing = session.finalizing
        /\ session'.timer # "none"
    BY <2>2, <2>3 DEF Session, Timers
  <2> QED
    BY <1>1, <2>1, <2>4, SessionTouched
<1> QED
  BY <1>2, <1>3

\* The room is given up and no longer written.
LEMMA InvalidatedKeeps == ASSUME IInv, Invalidated PROVE IInv'
<1> USE DEF Invalidated, Discard, GiveUp, document, work
<1>1. DataOk'
  BY DEF IInv, DataOk, NothingPending
<1>2. ControlOk'
  BY SpendType DEF IInv, ControlOk, Kinds
<1>3. WorkOk'
  <2>1. \A op : OperationOk(op, edits, lane, session, Writable)
                  => OperationOk(op, edits, lane, NoSession, FALSE)
    BY DEF OperationOk
  <2>2. /\ QueueOk(queue, edits, lane, session, Writable)
              => QueueOk(queue, edits, lane, NoSession, FALSE)
        /\ \A op : Holds(op, queue, edits, lane, session, Writable)
              => Holds(op, queue, edits, lane, NoSession, FALSE)
    BY <2>1, KeptOperations
  <2>3. Writable' = FALSE /\ Kept' = {} /\ session' = NoSession
    BY DEF Writable, Kept
  <2> QED
    BY <2>2, <2>3 DEF IInv, WorkOk, StageOk
<1>4. SessionOk' /\ CreditsRemembered'
  BY DEF SessionOk, CreditsRemembered
<1>5. KeptOk'
  BY DEF KeptOk, Kept
<1> QED
  BY <1>1, <1>2, <1>3, <1>4, <1>5 DEF IInv

\* Unloading starts all over.
LEMMA UnloadKeeps == ASSUME IInv, Unload PROVE IInv'
<1> USE DEF Unload, work
<1>1. DataOk'
  BY DEF IInv, DataOk, NothingPending
<1>2. ControlOk'
  BY DEF IInv, ControlOk
<1>3. WorkOk'
  <2>1. queue' = << >> /\ running' = NoOperation
    BY DEF Quiet, QueueReady
  <2> QED
    BY <2>1 DEF WorkOk, QueueOk
<1>4. SessionOk' /\ CreditsRemembered'
  BY DEF SessionOk, CreditsRemembered
<1>5. KeptOk'
  BY DEF KeptOk, Kept, Unsaved
<1> QED
  BY <1>1, <1>2, <1>3, <1>4, <1>5 DEF IInv

-----------------------------------------------------------------------------
(* Edits.                                                                  *)

\* An accepted edit and its recording, whether it goes through the room's change
\* set or was stored by its own call.
LEMMA EditKeeps ==
    ASSUME IInv, NEW m \in Members, NEW credit \in Members \cup {NoMember},
           Len(edits) < MaxEdits, Writable,
           edits' = Append(edits, [author |-> m, credit |-> credit]),
           owed' = owed \cup {m}, session' = Recorded(m),
           \/ /\ change' = change \cup {Len(edits) + 1}
              /\ pending' = [pending EXCEPT ![m] = Len(edits) + 1]
           \/ UNCHANGED <<change, pending>>,
           lane' = lane \/ (lane.ready /\ lane' = FreeLane),
           UNCHANGED <<batch, queue, running, connected, flags, gaveUp, acked, spent>>
    PROVE  IInv'
<1> USE DEF flags
<1>1. /\ edits \in Seq(Edit) /\ Len(edits) \in Nat
      /\ [author |-> m, credit |-> credit] \in Edit
  BY DEF IInv, DataOk, Edit
<1>2. /\ edits' \in Seq(Edit) /\ Len(edits') = Len(edits) + 1
      /\ \A i \in 1 .. Len(edits) : edits'[i] = edits[i]
      /\ edits'[Len(edits) + 1].author = m
  BY <1>1
<1>3. DataOk'
  <2> USE <1>1, <1>2
  <2>0. MaxEdits \in Nat
    OBVIOUS
  <2>1. change' \subseteq 1 .. Len(edits')
    <3>1. change \subseteq 1 .. Len(edits)
      BY DEF IInv, DataOk
    <3>2. change' \subseteq change \cup {Len(edits) + 1}
      OBVIOUS
    <3> QED
      BY <3>1, <3>2
  <2>2. /\ pending' \in [Members -> 0 .. MaxEdits]
        /\ \A n \in Members : pending'[n] <= Len(edits')
    <3>1. /\ pending \in [Members -> 0 .. MaxEdits]
          /\ \A n \in Members : pending[n] <= Len(edits)
      BY DEF IInv, DataOk
    <3>2. CASE pending' = [pending EXCEPT ![m] = Len(edits) + 1]
      BY <2>0, <3>1, <3>2
    <3>3. CASE pending' = pending
      BY <2>0, <3>1, <3>3
    <3> QED
      BY <3>2, <3>3
  <2>3. batch' # NoBatch => batch'.edits \subseteq 1 .. Len(edits')
    BY <1>1, <1>2 DEF IInv, DataOk
  <2>4. /\ batch' \in Batch \cup {NoBatch}
        /\ acked' \in 0 .. Len(edits')
    BY DEF IInv, DataOk
  <2>5. Len(edits') <= MaxEdits
    BY <2>0
  <2> QED
    BY <2>1, <2>2, <2>3, <2>4, <2>5 DEF DataOk
<1>4. ControlOk'
  <2>1. /\ lane' \in [member : Members \cup {NoMember}, ready : BOOLEAN]
        /\ lane'.ready => lane'.member \in Members
    <3>1. CASE lane' = lane
      BY <3>1 DEF IInv, ControlOk
    <3>2. CASE lane' = FreeLane
      BY <3>2 DEF FreeLane
    <3> QED
      BY <3>1, <3>2
  <2>2. owed' \subseteq Members
    BY DEF IInv, ControlOk
  <2> QED
    BY <2>1, <2>2 DEF IInv, ControlOk
<1>5. /\ session' \in Session /\ session' # NoSession
      /\ session # NoSession /\ session.finalizing =>
            /\ session'.finalizing /\ session'.timer = "none"
            /\ session'.contributors = session.contributors
            /\ session'.next = session.next \cup {m}
      /\ session = NoSession \/ ~session.finalizing =>
            ~session'.finalizing /\ session'.timer # "none"
      /\ m \in session'.contributors \cup session'.next
      /\ session # NoSession =>
            session.contributors \cup session.next
               \subseteq session'.contributors \cup session'.next
  BY RecordedIs, SentinelsAssumption DEF IInv
<1> DEFINE position == Len(edits) + 1
<1>6. /\ Kept' \subseteq Kept \cup (IF change' = change THEN {} ELSE {position})
      /\ Kept \subseteq 1 .. Len(edits)
  BY DEF IInv, DataOk, Kept, Unsaved
<1>7. WorkOk'
  <2>1. ASSUME NEW op, OperationOk(op, edits, lane, session, Writable)
        PROVE  OperationOk(op, edits', lane', session', Writable)
    <3>1. op.position \in Nat /\ op.sequence \in Nat
      BY <2>1 DEF OperationOk, Operation
    <3>2. op.caller = "lane" => lane' = lane
      BY <2>1 DEF OperationOk
    <3>3. op.caller = "finalize" => session # NoSession /\ session.finalizing
      BY <2>1 DEF OperationOk
    <3>4. op.caller = "finalize" =>
             /\ session'.finalizing /\ session'.contributors = op.contributors
             /\ \A i \in op.position + 1 .. Len(edits') : edits'[i].author \in session'.next
      <4> SUFFICES ASSUME op.caller = "finalize"
                   PROVE  /\ session'.finalizing /\ session'.contributors = op.contributors
                          /\ \A i \in op.position + 1 .. Len(edits') :
                                edits'[i].author \in session'.next
        OBVIOUS
      <4>1. session.contributors = op.contributors
        BY <2>1, <3>3 DEF OperationOk
      <4>2. ASSUME NEW i \in op.position + 1 .. Len(edits')
            PROVE  edits'[i].author \in session'.next
        <5>1. CASE i = position
          BY <1>2, <1>5, <3>3, <5>1
        <5>2. CASE i # position
          <6>1. i \in op.position + 1 .. Len(edits) /\ i \in 1 .. Len(edits)
            BY <1>1, <1>2, <3>1, <4>2, <5>2
          <6>2. edits[i].author \in session.next
            BY <2>1, <3>3, <6>1 DEF OperationOk
          <6> QED
            BY <1>2, <1>5, <3>3, <6>1, <6>2
        <5> QED
          BY <5>1, <5>2
      <4> QED
        BY <1>5, <3>3, <4>1, <4>2
    <3> QED
      BY <1>1, <1>2, <1>5, <2>1, <3>1, <3>2, <3>4, SMTT(30) DEF OperationOk
  <2>2. /\ QueueOk(queue, edits, lane, session, Writable)
              => QueueOk(queue, edits', lane', session', Writable)
        /\ \A op : Holds(op, queue, edits, lane, session, Writable)
              => Holds(op, queue, edits', lane', session', Writable)
    BY <2>1 DEF QueueOk, Holds
  <2>3. running # NoOperation => StageOk(running, change', Kept')
    <3> SUFFICES ASSUME running # NoOperation PROVE StageOk(running, change', Kept')
      OBVIOUS
    <3>1. /\ running.operation.position \in Nat /\ running.operation.sequence \in Nat
          /\ running.operation.position <= Len(edits)
          /\ running.operation.sequence <= Len(edits)
          /\ StageOk(running, change, Kept)
      BY DEF IInv, WorkOk, Holds, OperationOk, Operation
    <3>2. change \subseteq 1 .. Len(edits)
      BY DEF IInv, DataOk
    <3> QED
      BY <1>1, <1>6, <3>1, <3>2, SMTT(30) DEF StageOk
  <2>4. Writable' = Writable
    BY DEF Writable
  <2> QED
    BY <2>2, <2>3, <2>4 DEF IInv, WorkOk
<1>8. SessionOk'
  BY <1>5 DEF IInv, SessionOk, Driven, Queued
<1>9. KeptOk'
  <2>1. ASSUME NEW i \in Kept' PROVE pending'[edits'[i].author] >= i /\ i > acked'
    <3>1. /\ acked \in Nat /\ acked <= Len(edits) /\ pending \in [Members -> Nat]
          /\ \/ pending' = [pending EXCEPT ![m] = position]
             \/ pending' = pending
          /\ acked' = acked
      BY <1>1 DEF IInv, DataOk
    <3>2. CASE i \in Kept
      <4>0. i \in 1 .. Len(edits)
        BY <1>6, <3>2
      <4>1. edits'[i] = edits[i] /\ edits[i].author \in Members
        <5>1. edits[i] \in Edit
          BY <1>1, <4>0
        <5> QED
          BY <1>2, <4>0, <5>1 DEF Edit
      <4>2. pending[edits[i].author] >= i /\ i > acked
        BY <3>2 DEF IInv, KeptOk
      <4>3. pending'[edits[i].author] >= pending[edits[i].author]
        <5>1. edits[i].author = m => pending[m] <= Len(edits)
          BY DEF IInv, DataOk
        <5> QED
          BY <1>1, <3>1, <4>1, <5>1
      <4>4. i \in Nat /\ pending[edits[i].author] \in Nat
        BY <1>1, <3>1, <4>0, <4>1
      <4>5. pending'[edits[i].author] \in Nat
        <5>1. pending' \in [Members -> Nat]
          BY <1>1, <3>1
        <5> QED
          BY <4>1, <5>1
      <4>6. pending'[edits[i].author] >= i
        BY <4>2, <4>3, <4>4, <4>5, SMTT(30)
      <4> QED
        BY <3>1, <4>1, <4>2, <4>6
    <3>3. CASE i \notin Kept
      <4>1. i = position /\ change' # change
        BY <1>6, <2>1, <3>3
      <4>2. pending' = [pending EXCEPT ![m] = position]
        BY <4>1
      <4> QED
        BY <1>1, <1>2, <3>1, <4>1, <4>2
    <3> QED
      BY <3>2, <3>3
  <2> QED
    BY <1>5, <2>1 DEF KeptOk
<1>10. CreditsRemembered'
  BY <1>5 DEF IInv, CreditsRemembered
<1> QED
  BY <1>3, <1>4, <1>7, <1>8, <1>9, <1>10 DEF IInv

\* With nobody else pending, an applied edit is recorded.
LEMMA ApplyIs ==
    ASSUME NEW m \in Members, Apply(m), Pending \subseteq {m}
    PROVE  /\ edits' = Append(edits, [author |-> m, credit |-> NoMember])
           /\ change' = change \cup {Len(edits) + 1}
           /\ owed' = owed \cup {m}
           /\ pending' = [pending EXCEPT ![m] = Len(edits) + 1]
           /\ session' = Recorded(m)
BY DEF Apply

LEMMA LaneResumesKeeps == ASSUME IInv, LaneResumes PROVE IInv'
<1>1. CASE Pending = {} /\ Writable /\ Len(edits) < MaxEdits
  <2>1. lane.member \in Members
    BY DEF LaneResumes, IInv, ControlOk
  <2>2. Apply(lane.member) /\ lane.ready /\ lane' = FreeLane
    BY <1>1 DEF LaneResumes
  <2>3. UNCHANGED <<batch, queue, running, connected, flags, gaveUp, acked, spent>>
    BY DEF LaneResumes
  <2> QED
    BY <1>1, <2>1, <2>2, <2>3, ApplyIs, EditKeeps
<1>2. CASE ~(Pending = {} /\ Writable /\ Len(edits) < MaxEdits)
  <2>1. /\ lane.ready /\ lane' = FreeLane
        /\ UNCHANGED <<edits, change, owed, pending, session, batch, queue, running,
                       connected, flags, gaveUp, acked, spent>>
    BY <1>2 DEF LaneResumes
  <2> USE DEF flags
  <2>2. DataOk'
    BY <2>1 DEF IInv, DataOk
  <2>3. ControlOk'
    BY <2>1 DEF IInv, ControlOk, FreeLane
  <2>4. WorkOk'
    <3>1. \A op : OperationOk(op, edits, lane, session, Writable)
                    => OperationOk(op, edits, lane', session, Writable)
      BY <2>1 DEF OperationOk
    <3>2. /\ QueueOk(queue, edits, lane, session, Writable)
                => QueueOk(queue, edits, lane', session, Writable)
          /\ \A op : Holds(op, queue, edits, lane, session, Writable)
                => Holds(op, queue, edits, lane', session, Writable)
      BY <3>1, KeptOperations
    <3>3. Writable' = Writable /\ Kept' = Kept
      BY <2>1 DEF Writable, Kept, Unsaved
    <3> QED
      BY <2>1, <3>2, <3>3 DEF IInv, WorkOk
  <2>5. SessionOk' /\ KeptOk' /\ CreditsRemembered'
    BY <2>1 DEF IInv, SessionOk, Driven, Queued, KeptOk, Kept, Unsaved, CreditsRemembered
  <2> QED
    BY <2>2, <2>3, <2>4, <2>5 DEF IInv
<1> QED
  BY <1>1, <1>2

LEMMA MetadataKeeps == ASSUME IInv, NEW m \in Members, MetadataAccepted(m) PROVE IInv'
<1>1. /\ Len(edits) < MaxEdits /\ Writable
      /\ edits' = Append(edits, [author |-> m, credit |-> m])
      /\ owed' = owed \cup {m} /\ session' = Recorded(m)
      /\ UNCHANGED <<change, pending>>
      /\ lane' = lane
      /\ UNCHANGED <<batch, queue, running, connected, flags, gaveUp, acked, spent>>
  BY DEF MetadataAccepted, work
<1> QED
  BY <1>1, EditKeeps

-----------------------------------------------------------------------------
(* Calls that join the queue.                                              *)

\* Nothing changes but the queue, which an operation of one member joins.
LEMMA CallKeeps ==
    ASSUME IInv, NEW caller \in {"store", "now", "lane"}, CallPersist(caller),
           caller = "lane" =>
              lane = FreeLane /\ lane'.member \in Members /\ lane'.ready = FALSE,
           lane' \in [member : Members \cup {NoMember}, ready : BOOLEAN],
           caller # "lane" => lane' = lane,
           spent' \in [Kinds -> Nat],
           UNCHANGED <<document, tracker, running, connected, flags, ghosts>>
    PROVE  IInv'
<1> USE DEF document, tracker, flags, ghosts
<1>1. DataOk'
  BY DEF IInv, DataOk
<1>2. ControlOk'
  BY DEF IInv, ControlOk
<1>3. PICK m \in Pending :
         queue' = Append(queue, [caller |-> caller, by |-> m, sequence |-> pending[m],
                                 position |-> Len(edits), contributors |-> {},
                                 ignoreConnections |-> FALSE])
  BY DEF CallPersist
<1> DEFINE new == [caller |-> caller, by |-> m, sequence |-> pending[m],
                   position |-> Len(edits), contributors |-> {},
                   ignoreConnections |-> FALSE]
<1>4. OperationOk(new, edits, lane', session, Writable)
  <2>1. new \in Operation
    BY DEF IInv, DataOk, Operation, Pending
  <2> QED
    BY <2>1 DEF IInv, DataOk, OperationOk, Pending
<1>5. \A op : OperationOk(op, edits, lane, session, Writable)
        => /\ OperationOk(op, edits, lane', session, Writable)
           /\ caller = "lane" => op.caller # "lane"
  BY NoMemberAssumption DEF OperationOk, FreeLane
<1> HIDE DEF new
<1>6. new.caller = caller
  BY DEF new
<1>7. /\ QueueOk(queue, edits, lane, session, Writable)
            => QueueOk(queue, edits, lane', session, Writable)
      /\ \A op : Holds(op, queue, edits, lane, session, Writable)
            => Holds(op, queue, edits, lane', session, Writable)
  BY <1>5, KeptOperations
<1>8. QueueOk(queue, edits, lane, session, Writable)
  BY DEF IInv, WorkOk, Holds
<1>9. new.caller \in Single => \A i \in 1 .. Len(queue) : queue[i].caller # new.caller
  BY <1>5, <1>6, <1>8 DEF QueueOk, Single
<1>10. WorkOk'
  <2>1. Writable' = Writable /\ Kept' = Kept
    BY DEF Writable, Kept, Unsaved
  <2>2. CASE running = NoOperation
    <3>1. QueueOk(queue', edits, lane', session, Writable)
      BY <1>3, <1>4, <1>7, <1>8, <1>9, Joined DEF new
    <3> QED
      BY <2>1, <2>2, <3>1 DEF WorkOk
  <2>3. CASE running # NoOperation
    <3>1. Holds(running.operation, queue, edits, lane, session, Writable)
      BY <2>3 DEF IInv, WorkOk
    <3>2. new.caller \in Single => running.operation.caller # new.caller
      BY <1>5, <1>6, <3>1 DEF Holds, Single
    <3>3. Holds(running.operation, queue', edits, lane', session, Writable)
      BY <1>3, <1>4, <1>7, <1>9, <3>1, <3>2, Joined DEF new
    <3> QED
      BY <2>1, <2>3, <3>3 DEF IInv, WorkOk
  <2> QED
    BY <2>2, <2>3
<1>11. SessionOk'
  <2>1. Queued("finalize") => Queued("finalize")'
    <3>1. /\ queue \in Seq(Operation) /\ new \in Operation /\ queue' = Append(queue, new)
      BY <1>3, <1>4, <1>8 DEF QueueOk, OperationOk, new
    <3>2. /\ Len(queue') = Len(queue) + 1
          /\ \A i \in 1 .. Len(queue) : queue'[i] = queue[i]
      BY <3>1
    <3>3. 1 .. Len(queue) \subseteq 1 .. Len(queue')
      BY <3>1, <3>2
    <3> QED
      BY <3>2, <3>3 DEF Queued
  <2> QED
    BY <2>1 DEF IInv, SessionOk, Driven
<1>12. KeptOk' /\ CreditsRemembered'
  BY DEF IInv, KeptOk, Kept, Unsaved, CreditsRemembered
<1> QED
  BY <1>1, <1>2, <1>10, <1>11, <1>12 DEF IInv

LEMMA FrameKeeps == ASSUME IInv, NEW m \in Members, Frame(m) PROVE IInv'
<1>1. CASE Pending \subseteq {m}
  <2>1. Apply(m) /\ Writable /\ Len(edits) < MaxEdits /\ lane' = lane
    BY <1>1 DEF Frame
  <2>2. UNCHANGED <<batch, queue, running, connected, flags, gaveUp, acked, spent>>
    BY <1>1 DEF Frame
  <2> QED
    BY <1>1, <2>1, <2>2, ApplyIs, EditKeeps
<1>2. CASE ~(Pending \subseteq {m})
  <2>1. /\ CallPersist("lane") /\ lane = FreeLane
        /\ lane' = [member |-> m, ready |-> FALSE]
        /\ UNCHANGED <<document, tracker, running, connected, flags, ghosts, spent>>
    BY <1>2 DEF Frame, document, tracker, ghosts
  <2>2. spent' \in [Kinds -> Nat]
    BY <2>1 DEF IInv, ControlOk
  <2> QED
    BY <2>1, <2>2, CallKeeps
<1> QED
  BY <1>1, <1>2

LEMMA StoreHookKeeps == ASSUME IInv, StoreHook PROVE IInv'
<1>1. /\ lane' \in [member : Members \cup {NoMember}, ready : BOOLEAN]
      /\ spent' \in [Kinds -> Nat]
  BY DEF StoreHook, IInv, ControlOk
<1> QED
  BY <1>1, CallKeeps DEF StoreHook

\* Edits whose authors are not pending are saved.
LEMMA NobodyPending == ASSUME IInv, Pending = {} PROVE Kept = {}
<1>1. SUFFICES ASSUME NEW i \in Kept PROVE FALSE
  OBVIOUS
<1>2. i \in 1 .. Len(edits) /\ edits \in Seq(Edit)
  BY <1>1 DEF IInv, DataOk, Kept, Unsaved
<1>3. edits[i] \in Edit
  BY <1>2
<1>4. edits[i].author \in Members
  <2>1. edits[i] \in Edit
    BY <1>3
  <2> QED
    BY <2>1 DEF Edit
<1>5. pending[edits[i].author] >= i /\ i > 0
  BY <1>1, <1>2 DEF IInv, KeptOk
<1>6. pending[edits[i].author] \in Nat
  BY <1>4 DEF IInv, DataOk
<1> QED
  BY <1>2, <1>4, <1>5, <1>6 DEF Pending

LEMMA PersistNowKeeps == ASSUME IInv, NEW m \in Members, PersistNow(m) PROVE IInv'
<1>1. spent' \in [Kinds -> Nat]
  <2>1. Spend("now") /\ "now" \in Kinds
    BY DEF PersistNow, Kinds
  <2> QED
    BY <2>1, SpendType DEF IInv, ControlOk
<1>2. CASE Pending = {}
  <2> USE DEF document, tracker, flags
  <2>1. /\ acked' = Len(edits)
        /\ UNCHANGED <<document, tracker, queue, running, lane, connected, flags, owed, gaveUp>>
    BY <1>2 DEF PersistNow
  <2>2. Kept = {} /\ Kept' = {}
    BY <1>2, <2>1, NobodyPending DEF Kept, Unsaved
  <2>3. DataOk'
    BY <2>1 DEF IInv, DataOk
  <2>4. ControlOk'
    BY <1>1, <2>1 DEF IInv, ControlOk
  <2>5. WorkOk'
    BY <2>1, <2>2 DEF IInv, WorkOk, Writable
  <2>6. SessionOk' /\ KeptOk' /\ CreditsRemembered'
    BY <2>1, <2>2 DEF IInv, SessionOk, Queued, KeptOk, CreditsRemembered
  <2> QED
    BY <2>3, <2>4, <2>5, <2>6 DEF IInv
<1>3. CASE Pending # {}
  <2>1. /\ CallPersist("now") /\ lane' = lane
        /\ UNCHANGED <<document, tracker, running, connected, flags, ghosts>>
    BY <1>3 DEF PersistNow, ghosts
  <2>2. lane' \in [member : Members \cup {NoMember}, ready : BOOLEAN]
    BY <2>1 DEF IInv, ControlOk
  <2> QED
    BY <1>1, <2>1, <2>2, CallKeeps
<1> QED
  BY <1>2, <1>3

\* The timer of an active window, or of a room that closes, begins the one
\* finalization; or a new active window.
LEMMA TimerFiresKeeps == ASSUME IInv, TimerFires PROVE IInv'
<1> DEFINE ignore == session.timer = "active-window"
           s == [session EXCEPT !.timer = "none"]
           new == [caller |-> "finalize", by |-> NoMember, sequence |-> 0,
                   position |-> Len(edits), contributors |-> session.contributors,
                   ignoreConnections |-> ignore]
<1>1. /\ session \in Session /\ session # NoSession
      /\ session.timer # "none" /\ ~session.finalizing
  BY DEF TimerFires, IInv, SessionOk, Driven
<1>2. UNCHANGED <<document, pending, running, lane, connected, flags, ghosts, spent>>
  BY DEF TimerFires
<1>3. /\ s \in Session /\ s.timer = "none"
      /\ s.contributors = session.contributors /\ s.next = session.next
      /\ s.finalizing = session.finalizing
  BY <1>1 DEF Session, Timers
<1>4. CASE ~ignore /\ connected # {}
  <2>1. session' = Schedule(s, "active-window") /\ queue' = queue
    BY <1>4 DEF TimerFires
  <2> HIDE DEF s
  <2>2. /\ session' \in Session
        /\ session'.contributors = session.contributors
        /\ session'.next = session.next
        /\ session'.finalizing = session.finalizing
        /\ session'.timer # "none"
    <3>1. "active-window" \in Timers
      BY DEF Timers
    <3> QED
      BY <1>3, <2>1, <3>1, ScheduleIs
  <2>3. connected' \subseteq Members /\ UNCHANGED work
    BY <1>2, <2>1 DEF work, IInv, ControlOk
  <2> QED
    BY <1>1, <1>2, <2>2, <2>3, SessionTouched
<1>5. CASE ~(~ignore /\ connected # {})
  <2>1. session' = [s EXCEPT !.finalizing = TRUE] /\ queue' = Append(queue, new)
    BY <1>5 DEF TimerFires
  <2> HIDE DEF s
  <2>2. /\ session' \in Session /\ session' # NoSession
        /\ session'.contributors = session.contributors
        /\ session'.next = session.next
        /\ session'.finalizing /\ session'.timer = "none"
    BY <1>3, <2>1, SentinelsAssumption DEF Session
  <2> USE DEF document, flags, ghosts
  <2>3. DataOk'
    BY <1>2 DEF IInv, DataOk
  <2>4. ControlOk'
    BY <1>2 DEF IInv, ControlOk
  <2>5. OperationOk(new, edits, lane, session', Writable)
    <3>1. /\ Len(edits) \in 0 .. MaxEdits /\ session.contributors \in SUBSET Members
          /\ ignore \in BOOLEAN
      BY <1>1 DEF IInv, DataOk, Session
    <3>2. new \in Operation /\ new.position = Len(edits) /\ new.sequence = 0
          /\ new.caller = "finalize" /\ new.contributors = session.contributors
      BY <3>1 DEF Operation
    <3> HIDE DEF new
    <3> QED
      BY <2>2, <3>1, <3>2 DEF OperationOk
  <2>6. new.caller = "finalize"
    OBVIOUS
  <2> HIDE DEF new
  <2>7. \A op : OperationOk(op, edits, lane, session, Writable)
                  => /\ OperationOk(op, edits, lane, session', Writable)
                     /\ op.caller # "finalize"
    BY <1>1 DEF OperationOk
  <2>8. /\ QueueOk(queue, edits, lane, session, Writable)
              => QueueOk(queue, edits, lane, session', Writable)
        /\ \A op : Holds(op, queue, edits, lane, session, Writable)
              => Holds(op, queue, edits, lane, session', Writable)
    BY <2>7, KeptOperations
  <2>9. QueueOk(queue, edits, lane, session, Writable)
    BY DEF IInv, WorkOk, Holds
  <2>10. \A i \in 1 .. Len(queue) : queue[i].caller # new.caller
    BY <2>6, <2>7, <2>9 DEF QueueOk
  <2>11. WorkOk'
    <3>1. Writable' = Writable /\ Kept' = Kept
      BY <1>2 DEF Writable, Kept, Unsaved
    <3>2. CASE running = NoOperation
      <4>1. QueueOk(queue', edits, lane, session', Writable)
        BY <2>1, <2>5, <2>8, <2>9, <2>10, Joined
      <4> QED
        BY <1>2, <3>1, <3>2, <4>1 DEF WorkOk
    <3>3. CASE running # NoOperation
      <4>1. Holds(running.operation, queue, edits, lane, session, Writable)
        BY <3>3 DEF IInv, WorkOk
      <4>2. running.operation.caller # new.caller
        BY <2>6, <2>7, <4>1 DEF Holds
      <4>3. Holds(running.operation, queue', edits, lane, session', Writable)
        BY <2>1, <2>5, <2>8, <2>10, <4>1, <4>2, Joined
      <4> QED
        BY <1>2, <3>1, <3>3, <4>3 DEF IInv, WorkOk
    <3> QED
      BY <3>2, <3>3
  <2>12. SessionOk'
    <3>1. queue \in Seq(Operation) /\ new \in Operation
      BY <2>5, <2>9 DEF QueueOk, OperationOk
    <3>2. /\ Len(queue') = Len(queue) + 1 /\ Len(queue) \in Nat
          /\ queue'[Len(queue) + 1] = new
      BY <2>1, <3>1
    <3>3. Queued("finalize")'
      BY <2>6, <3>2 DEF Queued
    <3> QED
      BY <2>2, <3>3 DEF SessionOk, Driven
  <2>13. KeptOk' /\ CreditsRemembered'
    BY <1>1, <1>2, <2>2 DEF IInv, KeptOk, Kept, Unsaved, CreditsRemembered
  <2> QED
    BY <2>3, <2>4, <2>11, <2>12, <2>13 DEF IInv
<1> QED
  BY <1>4, <1>5

-----------------------------------------------------------------------------
(* The operation that holds the queue.                                     *)

\* A finalization holds the queue, or waits in it.
Finalizes(op, q) ==
    op.caller = "finalize" \/ \E i \in 1 .. Len(q) : q[i].caller = "finalize"

\* The invariant, when `op` holds the queue and `q` waits.
Holding(op, q) ==
    /\ DataOk /\ ControlOk /\ KeptOk /\ CreditsRemembered
    /\ Holds(op, q, edits, lane, session, Writable)
    /\ session # NoSession => Driven(session, Finalizes(op, q))

LEMMA RunningHolds == ASSUME IInv, running # NoOperation PROVE Holding(running.operation, queue)
BY DEF IInv, WorkOk, Holding, SessionOk, Queued, Finalizes

LEMMA HeadHolds == ASSUME IInv, QueueReady PROVE Holding(Head(queue), Tail(queue))
<1>1. QueueOk(queue, edits, lane, session, Writable) /\ queue # << >> /\ running = NoOperation
  BY DEF QueueReady, IInv, WorkOk
<1>2. Holds(Head(queue), Tail(queue), edits, lane, session, Writable)
  BY <1>1, Started
<1>3. ASSUME NEW i \in 1 .. Len(queue), queue[i].caller = "finalize"
      PROVE  Finalizes(Head(queue), Tail(queue))
  <2>1. queue \in Seq(Operation)
    BY <1>1 DEF QueueOk
  <2>2. CASE i = 1
    BY <1>3, <2>1, <2>2 DEF Finalizes
  <2>3. CASE i # 1
    <3>1. i - 1 \in 1 .. Len(Tail(queue)) /\ Tail(queue)[i - 1] = queue[i]
      BY <1>1, <1>3, <2>1, <2>3
    <3> QED
      BY <1>3, <3>1 DEF Finalizes
  <2> QED
    BY <2>2, <2>3
<1>4. session # NoSession => Driven(session, Finalizes(Head(queue), Tail(queue)))
  BY <1>1, <1>3 DEF IInv, SessionOk, Driven, Queued
<1> QED
  BY <1>2, <1>4 DEF IInv, Holding

\* What is done when an operation is over, or goes on, whatever it was.
LEMMA DataKept ==
    ASSUME DataOk, SameAuthors(edits, edits'),
           change' \in {change, {}},
           batch' \in {batch, NoBatch} \/ \E m \in Members : batch' = [edits |-> change, by |-> m],
           pending' \in [Members -> 0 .. MaxEdits],
           \A m \in Members : pending'[m] <= Len(edits),
           acked' \in 0 .. Len(edits)
    PROVE  DataOk'
<1>1. edits' \in Seq(Edit) /\ Len(edits') = Len(edits) /\ Len(edits) \in Nat
  BY DEF DataOk, SameAuthors
<1>2. /\ batch' \in Batch \cup {NoBatch}
      /\ batch' # NoBatch => batch'.edits \subseteq 1 .. Len(edits)
  <2>1. CASE batch' \in {batch, NoBatch}
    BY <2>1 DEF DataOk
  <2>2. ASSUME NEW m \in Members, batch' = [edits |-> change, by |-> m]
        PROVE  /\ batch' \in Batch \cup {NoBatch}
               /\ batch' # NoBatch => batch'.edits \subseteq 1 .. Len(edits)
    <3>1. change \subseteq Positions /\ change \subseteq 1 .. Len(edits)
      BY <1>1 DEF DataOk, Positions
    <3> QED
      BY <2>2, <3>1 DEF Batch
  <2> QED
    BY <2>1, <2>2
<1>3. change' \subseteq 1 .. Len(edits)
  BY DEF DataOk
<1> QED
  BY <1>1, <1>2, <1>3 DEF DataOk

\* What is kept stays covered while its authors stay pending.
LEMMA KeptStays ==
    ASSUME KeptOk, DataOk, SameAuthors(edits, edits'), gaveUp' = gaveUp,
           NEW rest, Unsaved' \subseteq rest, ~gaveUp => rest \subseteq Kept,
           \A i \in rest : ~gaveUp => pending'[edits[i].author] >= i /\ i > acked',
           session # NoSession => session' # NoSession
    PROVE  KeptOk'
<1>1. Kept' = IF gaveUp THEN {} ELSE Unsaved'
  BY DEF Kept
<1>2. CASE gaveUp
  BY <1>1, <1>2 DEF KeptOk
<1>3. CASE ~gaveUp
  <2>1. \A i \in Kept' : i \in rest /\ i \in Kept /\ i \in 1 .. Len(edits)
    BY <1>1, <1>3 DEF Kept, Unsaved, DataOk
  <2>2. \A i \in Kept' : edits'[i].author = edits[i].author
    BY <2>1 DEF SameAuthors
  <2>3. \A i \in Kept' : pending'[edits'[i].author] >= i /\ i > acked'
    BY <1>3, <2>1, <2>2
  <2>4. Kept' # {} => session' # NoSession
    BY <2>1 DEF KeptOk
  <2> QED
    BY <2>3, <2>4 DEF KeptOk
<1> QED
  BY <1>2, <1>3

\* The operation is over.
LEMMA WorkDone ==
    ASSUME NEW op, NEW q, Holding(op, q), SameAuthors(edits, edits'),
           queue' = q, running' = NoOperation,
           op.caller = "lane" \/ lane' = lane,
           \/ op.caller = "finalize"
           \/ session' = session /\ (Writable' => Writable)
           \/ session' = NoSession /\ ~Writable'
    PROVE  WorkOk'
<1>1. edits \in Seq(Edit)
  BY DEF Holding, DataOk
<1>2. QueueOk(q, edits', lane', session', Writable')
  BY <1>1, Behind DEF Holding
<1> QED
  BY <1>2 DEF WorkOk

\* After the save of a finalization, or instead of it: the session starts over,
\* is settled, or takes its checkpoint.  `rest` is what may still be unsaved.
LEMMA CheckpointKeeps ==
    ASSUME NEW op, NEW q, Holding(op, q), op.caller = "finalize",
           NEW left \in [Members -> 0 .. MaxEdits], Checkpoint(op, left),
           \A m \in Members : left[m] <= Len(edits),
           SameAuthors(edits, edits'), change' = change, batch' \in {batch, NoBatch},
           NEW rest, Unsaved' \subseteq rest, ~gaveUp => rest \subseteq Kept,
           \A i \in rest : ~gaveUp => left[edits[i].author] >= i,
           CanContinue(op) /\ ~fenced /\ ~gaveUp => \A i \in rest : i > op.position,
           lane' = lane, acked' = acked, queue' = q, connected' = connected,
           spent' \in [Kinds -> Nat]
    PROVE  IInv'
<1> USE DEF flags
<1>1. edits \in Seq(Edit) /\ acked' \in 0 .. Len(edits)
  BY DEF Holding, DataOk
<1>2. CASE ~CanContinue(op)
  <2>1. /\ session' = IF session = NoSession THEN session ELSE Reschedule(Merged(session))
        /\ pending' = left /\ running' = NoOperation
        /\ UNCHANGED <<fenced, discarded, gaveUp, owed>>
    BY <1>2 DEF Checkpoint
  <2>2. session # NoSession =>
           /\ session' \in Session /\ session' # NoSession
           /\ session'.contributors = session.contributors \cup session.next
           /\ session'.next = {}
           /\ ~session'.finalizing /\ session'.timer # "none"
    <3> SUFFICES ASSUME session # NoSession
                 PROVE  /\ session' \in Session /\ session' # NoSession
                        /\ session'.contributors = session.contributors \cup session.next
                        /\ session'.next = {}
                        /\ ~session'.finalizing /\ session'.timer # "none"
      OBVIOUS
    <3>1. session \in Session /\ session' = Reschedule(Merged(session))
      BY <2>1 DEF Holding, Driven
    <3>2. /\ Merged(session) \in Session
          /\ Merged(session).contributors = session.contributors \cup session.next
          /\ Merged(session).next = {}
          /\ Merged(session).finalizing = FALSE
      BY <3>1, MergedIs
    <3>3. /\ session' \in Session
          /\ session'.contributors = Merged(session).contributors
          /\ session'.next = Merged(session).next
          /\ session'.finalizing = Merged(session).finalizing
          /\ session'.timer # "none"
      BY <3>1, <3>2, RescheduleIs
    <3> QED
      BY <3>2, <3>3, SentinelsAssumption
  <2>3. DataOk'
    BY <1>1, <2>1, DataKept DEF Holding
  <2>4. ControlOk'
    BY <2>1 DEF Holding, ControlOk
  <2>5. WorkOk'
    BY <2>1, WorkDone
  <2>6. SessionOk'
    BY <2>1, <2>2 DEF SessionOk, Driven
  <2>7. KeptOk'
    <3>1. \A i \in rest : ~gaveUp => i > acked
      BY DEF Holding, KeptOk
    <3> QED
      BY <2>1, <2>2, <3>1, KeptStays DEF Holding
  <2>8. CreditsRemembered'
    BY <2>1, <2>2 DEF Holding, CreditsRemembered
  <2> QED
    BY <2>3, <2>4, <2>5, <2>6, <2>7, <2>8 DEF IInv
<1>3. CASE CanContinue(op) /\ fenced
  <2>1. /\ fenced' = TRUE /\ discarded' = discarded
        /\ session' = NoSession /\ pending' = NothingPending
        /\ gaveUp' = TRUE /\ owed' = {} /\ running' = NoOperation
    BY <1>3 DEF Checkpoint, ConflictSettled, GiveUp
  <2>2. DataOk'
    <3>1. /\ pending' \in [Members -> 0 .. MaxEdits]
          /\ \A m \in Members : pending'[m] <= Len(edits)
      BY <1>1, <2>1 DEF NothingPending
    <3> QED
      BY <1>1, <3>1, DataKept DEF Holding
  <2>3. ControlOk'
    BY <2>1 DEF Holding, ControlOk
  <2>4. WorkOk'
    BY <2>1, WorkDone
  <2>5. SessionOk' /\ KeptOk' /\ CreditsRemembered'
    BY <2>1 DEF SessionOk, KeptOk, Kept, CreditsRemembered
  <2> QED
    BY <2>2, <2>3, <2>4, <2>5 DEF IInv
<1>4. CASE CanContinue(op) /\ ~fenced
  <2>1. /\ running' = [operation |-> op, stage |-> "checkpoint"]
        /\ pending' = left
        /\ UNCHANGED <<session, fenced, discarded, gaveUp, owed>>
    BY <1>4 DEF Checkpoint
  <2>2. DataOk'
    BY <1>1, <2>1, DataKept DEF Holding
  <2>3. ControlOk'
    BY <2>1 DEF Holding, ControlOk
  <2>4. WorkOk'
    <3>1. running' \in Running /\ running' # NoOperation
      <4>1. op \in Operation
        BY DEF Holding, Holds, OperationOk
      <4> QED
        BY <2>1, <4>1, SentinelsAssumption DEF Running
    <3>2. Holds(op, q, edits', lane, session, Writable)
      BY <1>1, HoldsStill DEF Holding
    <3>3. StageOk(running', change', Kept')
      <4>1. Kept' \subseteq rest /\ (gaveUp => Kept' = {})
        BY <2>1 DEF Kept
      <4> QED
        BY <1>4, <2>1, <4>1 DEF StageOk
    <3>4. Writable' = Writable
      BY <2>1 DEF Writable
    <3>5. running'.operation = op /\ running'.stage = "checkpoint"
      BY <2>1
    <3> QED
      BY <2>1, <3>1, <3>2, <3>3, <3>4, <3>5 DEF WorkOk
  <2>5. SessionOk'
    <3>1. running' # NoOperation /\ running'.operation.caller = "finalize"
      <4>1. op \in Operation
        BY DEF Holding, Holds, OperationOk
      <4> QED
        BY <2>1, <4>1, SentinelsAssumption DEF Running
    <3>2. Queued("finalize")'
      BY <3>1 DEF Queued
    <3>3. Finalizes(op, q)
      BY DEF Finalizes
    <3> QED
      BY <2>1, <3>2, <3>3 DEF Holding, SessionOk, Driven
  <2>6. KeptOk'
    <3>1. \A i \in rest : ~gaveUp => i > acked
      BY DEF Holding, KeptOk
    <3> QED
      BY <2>1, <3>1, KeptStays DEF Holding
  <2>7. CreditsRemembered'
    BY <2>1 DEF Holding, CreditsRemembered
  <2> QED
    BY <2>2, <2>3, <2>4, <2>5, <2>6, <2>7 DEF IInv
<1> QED
  BY <1>2, <1>3, <1>4

\* Nobody who edited since the save was asked for is cleared.
LEMMA AdvancedIs ==
    ASSUME NEW op, NEW q, Holding(op, q), op.by \in Members,
           \A i \in change : i > op.sequence
    PROVE  /\ Advanced(op) \in [Members -> 0 .. MaxEdits]
           /\ \A m \in Members : Advanced(op)[m] <= Len(edits)
           /\ ~gaveUp => \A i \in change : Advanced(op)[edits[i].author] >= i
<1>1. /\ pending \in [Members -> 0 .. MaxEdits]
      /\ \A m \in Members : pending[m] <= Len(edits)
      /\ edits \in Seq(Edit) /\ change \subseteq 1 .. Len(edits) /\ Len(edits) \in Nat
  BY DEF Holding, DataOk
<1>2. op.sequence \in Nat /\ MaxEdits \in Nat
  BY DEF Holding, Holds, OperationOk, Operation
<1>3. ASSUME ~gaveUp, NEW i \in change PROVE Advanced(op)[edits[i].author] >= i
  <2>1. i \in 1 .. Len(edits)
    BY <1>1
  <2>2. edits[i] \in Edit
    BY <1>1, <2>1
  <2>3. edits[i].author \in Members
    BY <2>2 DEF Edit
  <2>4. i \in Kept
    BY <1>3 DEF Kept, Unsaved
  <2>5. pending[edits[i].author] >= i /\ i > op.sequence
    BY <2>4 DEF Holding, KeptOk
  <2>6. pending[edits[i].author] \in Nat
    BY <1>1, <1>2, <2>3
  <2>7. edits[i].author = op.by => pending[op.by] # op.sequence
    BY <1>2, <2>1, <2>5, <2>6
  <2> QED
    BY <1>1, <2>3, <2>5, <2>7 DEF Advanced
<1> QED
  BY <1>1, <1>2, <1>3 DEF Advanced

\* A persist is done; what is still unsaved came after it was asked for.
LEMMA SavedKeeps ==
    ASSUME NEW op, NEW q, Holding(op, q), op.by \in Members, Saved(op),
           SameAuthors(edits, edits'), change' = change, batch' = NoBatch,
           \A i \in change : i > op.position /\ i > op.sequence,
           queue' = q, connected' = connected, spent' \in [Kinds -> Nat]
    PROVE  IInv'
<1> USE DEF flags
<1>1. /\ Unsaved' \subseteq change
      /\ ~gaveUp => change \subseteq Kept
  BY DEF Unsaved, Kept
<1>2. /\ Advanced(op) \in [Members -> 0 .. MaxEdits]
      /\ \A m \in Members : Advanced(op)[m] <= Len(edits)
      /\ ~gaveUp => \A i \in change : Advanced(op)[edits[i].author] >= i
  BY AdvancedIs
<1>3. CASE op.caller = "finalize"
  <2>1. Checkpoint(op, Advanced(op)) /\ lane' = lane /\ acked' = acked
    BY <1>3 DEF Saved
  <2> QED
    BY <1>1, <1>2, <1>3, <2>1, CheckpointKeeps
<1>4. CASE op.caller # "finalize"
  <2>1. /\ pending' = Advanced(op)
        /\ lane' = IF op.caller = "lane" THEN [lane EXCEPT !.ready = TRUE] ELSE lane
        /\ acked' = IF op.caller = "now" /\ op.position > acked THEN op.position ELSE acked
        /\ running' = NoOperation
        /\ UNCHANGED <<session, fenced, discarded, gaveUp, owed>>
    BY <1>4 DEF Saved
  <2>2. OperationOk(op, edits, lane, session, Writable)
    BY DEF Holding, Holds
  <2>3. acked' \in 0 .. Len(edits) /\ acked' \in {acked, op.position}
    BY <2>1, <2>2 DEF Holding, DataOk, OperationOk, Operation
  <2>4. DataOk'
    BY <1>2, <2>1, <2>3, DataKept DEF Holding
  <2>5. ControlOk'
    <3>1. /\ lane' \in [member : Members \cup {NoMember}, ready : BOOLEAN]
          /\ lane'.ready => lane'.member \in Members
      BY <2>1, <2>2 DEF Holding, ControlOk, OperationOk
    <3> QED
      BY <2>1, <3>1 DEF Holding, ControlOk
  <2>6. WorkOk'
    <3>1. Writable' = Writable
      BY <2>1 DEF Writable
    <3>2. op.caller = "lane" \/ lane' = lane
      BY <2>1
    <3> QED
      BY <2>1, <3>1, <3>2, WorkDone
  <2>7. SessionOk'
    <3>1. Finalizes(op, q) => Queued("finalize")'
      BY <1>4 DEF Finalizes, Queued
    <3> QED
      BY <2>1, <3>1 DEF Holding, SessionOk, Driven
  <2>8. KeptOk'
    <3>1. \A i \in change : ~gaveUp => i > acked'
      <4>1. \A i \in change : ~gaveUp => i > acked
        BY <1>1 DEF Holding, KeptOk
      <4> QED
        BY <2>3, <4>1
    <3> QED
      BY <1>1, <1>2, <2>1, <3>1, KeptStays DEF Holding
  <2>9. CreditsRemembered'
    BY <2>1 DEF Holding, CreditsRemembered
  <2> QED
    BY <2>4, <2>5, <2>6, <2>7, <2>8, <2>9 DEF IInv
<1> QED
  BY <1>3, <1>4

\* The change set becomes the batch that is saved next.
LEMMA TakeChangeKeeps ==
    ASSUME NEW op, NEW q, Holding(op, q), op.by \in Members, TakeChange(op),
           SameAuthors(edits, edits'),
           queue' = q, connected' = connected, spent' = spent
    PROVE  IInv'
<1> USE DEF flags, tracker, ghosts
<1>0. spent' \in [Kinds -> Nat]
  BY DEF Holding, ControlOk
<1>1. CASE change = {}
  <2>1. Saved(op) /\ batch' = NoBatch /\ change' = change
    BY <1>1 DEF TakeChange
  <2> QED
    BY <1>0, <1>1, <2>1, SavedKeeps
<1>2. CASE change # {}
  <2>1. /\ batch' = [edits |-> change, by |-> op.by]
        /\ change' = {}
        /\ running' = [operation |-> op, stage |-> "saving"]
        /\ UNCHANGED <<pending, session, lane, fenced, discarded, owed, gaveUp, acked>>
    BY <1>2 DEF TakeChange
  <2>2. DataOk'
    <3>1. /\ pending' \in [Members -> 0 .. MaxEdits]
          /\ \A m \in Members : pending'[m] <= Len(edits)
          /\ acked' \in 0 .. Len(edits)
      BY <2>1 DEF Holding, DataOk
    <3> QED
      BY <2>1, <3>1, DataKept DEF Holding
  <2>3. ControlOk'
    BY <1>0, <2>1 DEF Holding, ControlOk
  <2>4. op \in Operation
    BY DEF Holding, Holds, OperationOk
  <2>5. /\ running' \in Running /\ running' # NoOperation
        /\ running'.operation = op /\ running'.stage = "saving"
    BY <2>1, <2>4, SentinelsAssumption DEF Running
  <2>6. batch' # NoBatch
    <3>1. change \subseteq Positions
      BY DEF Holding, DataOk, Positions
    <3>2. batch' \in Batch
      BY <2>1, <3>1 DEF Batch
    <3> QED
      BY <3>2, SentinelsAssumption
  <2>7. WorkOk'
    <3>1. Holds(op, q, edits', lane, session, Writable)
      BY HoldsStill DEF Holding, DataOk
    <3>2. StageOk(running', change', Kept')
      BY <2>1, <2>5 DEF StageOk
    <3>3. Writable' = Writable
      BY <2>1 DEF Writable
    <3> QED
      BY <2>1, <2>5, <2>6, <3>1, <3>2, <3>3 DEF WorkOk
  <2>8. SessionOk'
    <3>1. Finalizes(op, q) => Queued("finalize")'
      BY <2>5 DEF Finalizes, Queued
    <3> QED
      BY <2>1, <3>1 DEF Holding, SessionOk, Driven
  <2>9. KeptOk'
    <3>1. Unsaved' = change /\ (~gaveUp => change \subseteq Kept)
      BY <2>1, <2>6 DEF Unsaved, Kept
    <3>2. \A i \in change : ~gaveUp => pending'[edits[i].author] >= i /\ i > acked'
      BY <2>1, <3>1 DEF Holding, KeptOk
    <3> QED
      BY <2>1, <3>1, <3>2, KeptStays DEF Holding
  <2>10. CreditsRemembered'
    BY <2>1 DEF Holding, CreditsRemembered
  <2> QED
    BY <2>2, <2>3, <2>7, <2>8, <2>9, <2>10 DEF IInv
<1> QED
  BY <1>1, <1>2

\* A pending batch is saved first.
LEMMA RunPersistKeeps ==
    ASSUME NEW op, NEW q, Holding(op, q), op.by \in Members, RunPersist(op),
           edits' = edits, queue' = q, connected' = connected, spent' = spent
    PROVE  IInv'
<1> USE DEF flags, tracker, ghosts
<1>1. edits \in Seq(Edit) /\ SameAuthors(edits, edits')
  BY DEF Holding, DataOk, SameAuthors
<1>2. CASE batch = NoBatch
  BY <1>1, <1>2, TakeChangeKeeps DEF RunPersist
<1>3. CASE batch # NoBatch
  <2>1. /\ running' = [operation |-> op, stage |-> "retrying"]
        /\ UNCHANGED <<change, batch, pending, session, lane, fenced, discarded,
                       owed, gaveUp, acked>>
    BY <1>3 DEF RunPersist
  <2>2. DataOk'
    BY <2>1 DEF Holding, DataOk
  <2>3. ControlOk'
    BY <2>1 DEF Holding, ControlOk
  <2>4. op \in Operation
    BY DEF Holding, Holds, OperationOk
  <2>5. /\ running' \in Running /\ running' # NoOperation
        /\ running'.operation = op /\ running'.stage = "retrying"
    BY <2>1, <2>4, SentinelsAssumption DEF Running
  <2>6. WorkOk'
    <3>1. Holds(op, q, edits', lane, session, Writable)
      BY <1>1, HoldsStill DEF Holding
    <3>2. StageOk(running', change', Kept')
      BY <2>1, <2>5 DEF StageOk
    <3>3. Writable' = Writable
      BY <2>1 DEF Writable
    <3> QED
      BY <1>3, <2>1, <2>5, <3>1, <3>2, <3>3 DEF WorkOk
  <2>7. SessionOk'
    <3>1. Finalizes(op, q) => Queued("finalize")'
      BY <2>5 DEF Finalizes, Queued
    <3> QED
      BY <2>1, <3>1 DEF Holding, SessionOk, Driven
  <2>8. KeptOk' /\ CreditsRemembered'
    BY <2>1 DEF Holding, KeptOk, Kept, Unsaved, CreditsRemembered
  <2> QED
    BY <2>2, <2>3, <2>6, <2>7, <2>8 DEF IInv
<1> QED
  BY <1>2, <1>3

LEMMA StartOperationKeeps == ASSUME IInv, StartOperation PROVE IInv'
<1> DEFINE op == Head(queue)
           q == Tail(queue)
<1>1. /\ Holding(op, q)
      /\ queue' = q /\ edits' = edits /\ connected' = connected /\ spent' = spent
  BY HeadHolds DEF StartOperation
<1>2. /\ op.caller # "finalize" => RunPersist(op)
      /\ op.caller = "finalize" =>
            \/ \E m \in Pending : RunPersist(ForPending(op, m))
            \/ /\ ~(CanContinue(op) /\ ~fenced /\ Pending # {})
               /\ Checkpoint(op, pending)
               /\ UNCHANGED <<change, batch, lane, acked>>
  BY DEF StartOperation
<1> HIDE DEF op, q
<1>3. OperationOk(op, edits, lane, session, Writable) /\ op \in Operation
  BY <1>1 DEF Holding, Holds, OperationOk
<1>4. CASE op.caller # "finalize"
  BY <1>1, <1>2, <1>3, <1>4, RunPersistKeeps DEF OperationOk
<1>5. ASSUME op.caller = "finalize", NEW m \in Pending, RunPersist(ForPending(op, m))
      PROVE  IInv'
  <2> DEFINE op2 == ForPending(op, m)
  <2>1. /\ m \in Members /\ pending[m] \in 0 .. MaxEdits /\ pending[m] <= Len(edits)
    BY <1>1, <1>5 DEF Pending, Holding, DataOk
  <2>2. /\ op2 \in Operation /\ op2.caller = op.caller /\ op2.position = op.position
        /\ op2.contributors = op.contributors
        /\ op2.by = m /\ op2.sequence = pending[m]
    BY <1>3, <2>1 DEF ForPending, Operation
  <2> HIDE DEF op2
  <2>3. OperationOk(op2, edits, lane, session, Writable)
    BY <1>3, <1>5, <2>1, <2>2 DEF OperationOk
  <2>4. Holding(op2, q)
    BY <1>1, <2>2, <2>3 DEF Holding, Holds, Finalizes
  <2> QED
    BY <1>1, <1>5, <2>1, <2>2, <2>4, RunPersistKeeps DEF op2
<1>6. ASSUME op.caller = "finalize", Checkpoint(op, pending),
             ~(CanContinue(op) /\ ~fenced /\ Pending # {}),
             UNCHANGED <<change, batch, lane, acked>>
      PROVE  IInv'
  <2>1. SameAuthors(edits, edits')
    BY <1>1 DEF SameAuthors, Holding, DataOk
  <2>2. /\ pending \in [Members -> 0 .. MaxEdits]
        /\ \A m \in Members : pending[m] <= Len(edits)
        /\ spent' \in [Kinds -> Nat]
    BY <1>1 DEF Holding, DataOk, ControlOk
  <2>3. Unsaved' = Unsaved /\ (~gaveUp => Unsaved = Kept)
    BY <1>6 DEF Unsaved, Kept
  <2>4. \A i \in Unsaved : ~gaveUp => pending[edits[i].author] >= i
    BY <1>1, <2>3 DEF Holding, KeptOk
  <2>5. CanContinue(op) /\ ~fenced /\ ~gaveUp => \A i \in Unsaved : i > op.position
    BY <1>6, <2>3, NobodyPending
  <2> QED
    BY <1>1, <1>6, <2>1, <2>2, <2>3, <2>4, <2>5, CheckpointKeeps
<1> QED
  BY <1>2, <1>4, <1>5, <1>6

-----------------------------------------------------------------------------
(* Answers.                                                                *)

LEMMA BatchSavedKeeps == ASSUME IInv, BatchSaved PROVE IInv'
<1> DEFINE op == running.operation
<1>1. /\ running # NoOperation /\ running.stage \in {"retrying", "saving"}
      /\ edits' = Credited
      /\ queue' = queue /\ connected' = connected /\ spent' = spent
  BY DEF BatchSaved
<1>2. Holding(op, queue) /\ op.by \in Members /\ StageOk(running, change, Kept)
  BY <1>1, RunningHolds DEF IInv, WorkOk, StageOk
<1>3. SameAuthors(edits, edits')
  <2>1. edits \in Seq(Edit) /\ batch \in Batch
    BY <1>1 DEF IInv, DataOk, WorkOk
  <2>2. \A i \in 1 .. Len(edits) : edits[i] \in Edit
    BY <2>1
  <2>3. ASSUME NEW i \in 1 .. Len(edits)
        PROVE  /\ Credited[i] \in Edit
               /\ Credited[i].author = edits[i].author
    BY <2>1, <2>2 DEF Credited, Edit, Batch
  <2>4. Credited \in [1 .. Len(edits) -> Edit]
    BY <2>3 DEF Credited
  <2>5. Credited \in Seq(Edit) /\ Len(Credited) = Len(edits)
    <3>1. Len(edits) \in Nat
      BY <2>1
    <3> HIDE DEF Credited
    <3> QED
      BY <2>4, <3>1
  <2> QED
    BY <1>1, <2>3, <2>5 DEF SameAuthors
<1>4. CASE running.stage = "retrying"
  BY <1>1, <1>2, <1>3, <1>4, TakeChangeKeeps DEF BatchSaved
<1>5. CASE running.stage = "saving"
  <2>1. Saved(op) /\ batch' = NoBatch /\ change' = change
    BY <1>5 DEF BatchSaved
  <2>2. \A i \in change : i > op.position /\ i > op.sequence
    BY <1>2, <1>5 DEF StageOk
  <2>3. spent' \in [Kinds -> Nat]
    BY <1>1 DEF IInv, ControlOk
  <2> QED
    BY <1>1, <1>2, <1>3, <2>1, <2>2, <2>3, SavedKeeps
<1> QED
  BY <1>1, <1>4, <1>5

\* A merged session goes on with all its contributors.
LEMMA MergedGoesOn ==
    ASSUME NEW s, s \in Session
    PROVE  /\ Reschedule(s) \in Session /\ Reschedule(s) # NoSession
           /\ Reschedule(s).contributors = s.contributors
           /\ Reschedule(s).finalizing = s.finalizing
           /\ Reschedule(s).timer # "none"
BY RescheduleIs, SentinelsAssumption

\* The operation failed: its session is as before (or not there), is settled, or
\* goes on for all its contributors.
LEMMA FailedKeeps ==
    ASSUME IInv, running # NoOperation, running' = NoOperation, LaneFailed,
           UNCHANGED <<document, queue, connected, acked>>,
           spent' \in [Kinds -> Nat],
           fenced' \in {fenced, TRUE}, discarded' \in {discarded, TRUE},
           \/ /\ UNCHANGED <<pending, session, owed, gaveUp>>
              /\ running.operation.caller # "finalize" \/ session = NoSession
           \/ /\ pending' = NothingPending /\ session' = NoSession
              /\ gaveUp' = TRUE /\ owed' = {}
              /\ running.operation.caller = "finalize" \/ ~Writable'
           \/ /\ UNCHANGED <<pending, owed, gaveUp>>
              /\ running.operation.caller = "finalize" /\ session # NoSession
              /\ session' \in Session
              /\ session'.contributors = session.contributors \cup session.next
              /\ ~session'.finalizing /\ session'.timer # "none"
    PROVE  IInv'
<1> USE DEF document
<1> DEFINE op == running.operation
<1>1. Holding(op, queue) /\ edits \in Seq(Edit) /\ SameAuthors(edits, edits')
  BY RunningHolds DEF IInv, DataOk, SameAuthors
<1>2. OperationOk(op, edits, lane, session, Writable)
  BY <1>1 DEF Holding, Holds
<1>3. DataOk'
  BY DEF IInv, DataOk, NothingPending
<1>4. ControlOk'
  <2>1. /\ lane' \in [member : Members \cup {NoMember}, ready : BOOLEAN]
        /\ lane'.ready => lane'.member \in Members
    BY DEF LaneFailed, FreeLane, IInv, ControlOk
  <2>2. owed' \subseteq Members /\ gaveUp' \in BOOLEAN
    BY DEF IInv, ControlOk
  <2> QED
    BY <2>1, <2>2 DEF IInv, ControlOk
<1>5. WorkOk'
  <2>1. op.caller = "lane" \/ lane' = lane
    BY DEF LaneFailed
  <2>2. Writable' => Writable
    BY DEF Writable
  <2>3. \/ op.caller = "finalize"
        \/ session' = session /\ (Writable' => Writable)
        \/ session' = NoSession /\ ~Writable'
    BY <2>2
  <2> HIDE DEF op
  <2> QED
    BY <1>1, <2>1, <2>3, WorkDone
<1>6. SessionOk'
  <2>1. CASE UNCHANGED session /\ op.caller # "finalize"
    <3>1. Finalizes(op, queue) => Queued("finalize")'
      BY <2>1 DEF Finalizes, Queued
    <3> QED
      BY <1>1, <2>1, <3>1 DEF Holding, SessionOk, Driven
  <2>2. CASE session' = NoSession
    BY <2>2 DEF SessionOk
  <2>3. CASE session' \in Session /\ ~session'.finalizing /\ session'.timer # "none"
    BY <2>3 DEF SessionOk, Driven
  <2> QED
    BY <2>1, <2>2, <2>3
<1>7. KeptOk'
  <2>1. CASE gaveUp' = TRUE
    BY <2>1 DEF KeptOk, Kept
  <2>2. CASE UNCHANGED <<pending, gaveUp>> /\ (session # NoSession => session' # NoSession)
    BY <2>2 DEF IInv, KeptOk, Kept, Unsaved
  <2> QED
    BY <2>1, <2>2, SentinelsAssumption
<1>8. CreditsRemembered'
  <2>1. CASE owed' = {}
    BY <2>1 DEF CreditsRemembered
  <2>2. CASE UNCHANGED <<session, owed>>
    BY <2>2 DEF IInv, CreditsRemembered
  <2>3. CASE /\ owed' = owed /\ session # NoSession /\ session' \in Session
             /\ session'.contributors = session.contributors \cup session.next
    BY <2>3, SentinelsAssumption DEF IInv, CreditsRemembered
  <2> QED
    BY <2>1, <2>2, <2>3
<1> QED
  BY <1>3, <1>4, <1>5, <1>6, <1>7, <1>8 DEF IInv

LEMMA CallFailedKeeps == ASSUME IInv, CallFailed PROVE IInv'
<1> USE DEF flags, tracker
<1>1. /\ running # NoOperation /\ LaneFailed
      /\ UNCHANGED <<document, queue, connected, acked>>
  BY DEF CallFailed
<1>2. spent' \in [Kinds -> Nat]
  <2>1. Spend("failure") /\ "failure" \in Kinds
    BY DEF CallFailed, Kinds
  <2> QED
    BY <2>1, SpendType DEF IInv, ControlOk
<1>3. CASE ~OfSession
  <2>1. /\ running' = NoOperation
        /\ UNCHANGED <<pending, session, fenced, discarded, gaveUp, owed>>
        /\ running.operation.caller # "finalize" \/ session = NoSession
    BY <1>3 DEF CallFailed, OperationFailed, OfSession
  <2> QED
    BY <1>1, <1>2, <2>1, FailedKeeps
<1>4. CASE OfSession
  <2> DEFINE s == [Merged(session) EXCEPT !.retries = @ + 1]
  <2>1. /\ running' = NoOperation /\ UNCHANGED <<fenced, discarded>>
        /\ IF s.retries > MaxRetries THEN GiveUp
           ELSE session' = Reschedule(s) /\ UNCHANGED <<pending, gaveUp, owed>>
    BY <1>4 DEF CallFailed, FinalizeFailed
  <2>2. /\ running.operation.caller = "finalize" /\ session # NoSession
        /\ session \in Session
    BY <1>4 DEF OfSession, IInv, SessionOk, Driven
  <2>3. /\ s \in Session /\ s.contributors = session.contributors \cup session.next
        /\ s.finalizing = FALSE
    <3>1. /\ Merged(session) \in Session
          /\ Merged(session).contributors = session.contributors \cup session.next
          /\ Merged(session).finalizing = FALSE
      BY <2>2, MergedIs
    <3> QED
      BY <3>1 DEF Session
  <2> HIDE DEF s
  <2>4. CASE s.retries > MaxRetries
    <3>1. GiveUp
      BY <2>1, <2>4
    <3> QED
      BY <1>1, <1>2, <2>1, <2>2, <3>1, FailedKeeps DEF GiveUp
  <2>5. CASE ~(s.retries > MaxRetries)
    <3>1. session' = Reschedule(s) /\ UNCHANGED <<pending, gaveUp, owed>>
      BY <2>1, <2>5
    <3>2. /\ session' \in Session
          /\ session'.contributors = session.contributors \cup session.next
          /\ ~session'.finalizing /\ session'.timer # "none"
      BY <2>3, <3>1, MergedGoesOn
    <3> QED
      BY <1>1, <1>2, <2>1, <2>2, <3>1, <3>2, FailedKeeps
  <2> QED
    BY <2>4, <2>5
<1> QED
  BY <1>3, <1>4

LEMMA CallConflictedKeeps == ASSUME IInv, CallConflicted PROVE IInv'
<1> USE DEF tracker
<1>1. /\ running # NoOperation /\ LaneFailed
      /\ UNCHANGED <<document, queue, connected, acked>>
  BY DEF CallConflicted
<1>2. spent' \in [Kinds -> Nat] /\ fenced \in BOOLEAN
  <2>1. Spend("conflict") /\ "conflict" \in Kinds
    BY DEF CallConflicted, Kinds
  <2> QED
    BY <2>1, SpendType DEF IInv, ControlOk
<1>3. CASE ~OfSession
  <2>1. /\ running' = NoOperation
        /\ UNCHANGED <<pending, session, discarded, gaveUp, owed>>
        /\ running.operation.caller # "finalize" \/ session = NoSession
        /\ fenced' = (fenced \/ running.operation.caller \in {"store", "now"})
    BY <1>3 DEF CallConflicted, OperationFailed, OfSession
  <2>2. fenced' \in {fenced, TRUE}
    BY <1>2, <2>1
  <2> QED
    BY <1>1, <1>2, <2>1, <2>2, FailedKeeps
<1>4. CASE OfSession
  <2>1. /\ running' = NoOperation /\ fenced' = TRUE /\ discarded' = discarded
        /\ GiveUp
        /\ running.operation.caller = "finalize"
    BY <1>4 DEF CallConflicted, ConflictSettled, OfSession
  <2> QED
    BY <1>1, <1>2, <2>1, FailedKeeps DEF GiveUp
<1> QED
  BY <1>3, <1>4

LEMMA ResourceGoneKeeps == ASSUME IInv, ResourceGone PROVE IInv'
<1>1. /\ running # NoOperation /\ LaneFailed /\ running' = NoOperation
      /\ UNCHANGED <<document, queue, connected, fenced, acked>>
      /\ discarded' = TRUE /\ GiveUp
  BY DEF ResourceGone, Discard
<1>2. spent' \in [Kinds -> Nat]
  <2>1. Spend("conflict") /\ "conflict" \in Kinds
    BY DEF ResourceGone, Kinds
  <2> QED
    BY <2>1, SpendType DEF IInv, ControlOk
<1>3. ~Writable'
  BY <1>1 DEF Writable
<1> QED
  BY <1>1, <1>2, <1>3, FailedKeeps DEF GiveUp

\* The session ends for those the checkpoint names, and goes on for the others.
LEMMA CheckpointTakenKeeps == ASSUME IInv, CheckpointTaken PROVE IInv'
<1> USE DEF document, flags
<1> DEFINE op == running.operation
           s == [session EXCEPT !.contributors = session.next,
                                !.next = {}, !.finalizing = FALSE]
<1>1. /\ running # NoOperation /\ running.stage = "checkpoint" /\ running' = NoOperation
      /\ owed' = {m \in owed : \/ m \notin op.contributors
                               \/ \E i \in op.position + 1 .. Len(edits) : edits[i].author = m}
      /\ session' = IF session = NoSession \/ session.next = {} THEN NoSession
                    ELSE Reschedule(s)
      /\ UNCHANGED <<edits, change, batch, pending, queue, lane, connected, fenced,
                     discarded, gaveUp, acked, spent>>
  BY DEF CheckpointTaken
<1>2. /\ Holding(op, queue) /\ op.caller = "finalize"
      /\ \A i \in Kept : i > op.position
      /\ SameAuthors(edits, edits')
  BY <1>1, RunningHolds DEF IInv, WorkOk, StageOk, SameAuthors, DataOk
<1> HIDE DEF op, s
<1>3. session # NoSession =>
         /\ session \in Session /\ session.contributors = op.contributors
         /\ \A i \in op.position + 1 .. Len(edits) : edits[i].author \in session.next
  BY <1>2 DEF Holding, Holds, OperationOk, Driven
<1>4. session # NoSession /\ session.next # {} =>
         /\ session' \in Session /\ session' # NoSession
         /\ session'.contributors = session.next
         /\ ~session'.finalizing /\ session'.timer # "none"
  <2> SUFFICES ASSUME session # NoSession, session.next # {}
               PROVE  /\ session' \in Session /\ session' # NoSession
                      /\ session'.contributors = session.next
                      /\ ~session'.finalizing /\ session'.timer # "none"
    OBVIOUS
  <2>1. session' = Reschedule(s)
    BY <1>1
  <2>2. s \in Session /\ s.contributors = session.next /\ s.finalizing = FALSE
    BY <1>3 DEF Session, s
  <2> QED
    BY <2>1, <2>2, MergedGoesOn
<1>5. DataOk'
  BY <1>1 DEF IInv, DataOk
<1>6. ControlOk'
  BY <1>1 DEF IInv, ControlOk
<1>7. WorkOk'
  BY <1>1, <1>2, WorkDone
<1>8. SessionOk'
  BY <1>1, <1>4 DEF SessionOk, Driven
<1>9. KeptOk'
  <2>1. Kept' = Kept
    BY <1>1 DEF Kept, Unsaved
  <2>2. Kept # {} => session' # NoSession
    <3>1. ASSUME NEW i \in Kept, session.next = {} PROVE FALSE
      <4>1. session # NoSession
        BY <3>1 DEF IInv, KeptOk
      <4>2. i \in 1 .. Len(edits)
        BY <3>1 DEF IInv, DataOk, Kept, Unsaved, Batch
      <4>3. op.position \in Nat
        BY <1>2 DEF Holding, Holds, OperationOk, Operation
      <4>4. i > op.position
        BY <1>2, <3>1
      <4>5. i \in op.position + 1 .. Len(edits)
        <5>1. Len(edits) \in Nat
          BY DEF IInv, DataOk
        <5> QED
          BY <4>2, <4>3, <4>4, <5>1
      <4> QED
        BY <1>3, <3>1, <4>1, <4>5
    <3> QED
      BY <1>4, <3>1 DEF IInv, KeptOk
  <2> QED
    BY <1>1, <2>1, <2>2 DEF IInv, KeptOk
<1>10. CreditsRemembered'
  <2>1. ASSUME NEW m \in owed' PROVE session # NoSession /\ m \in session.next
    <3>1. m \in owed
      BY <1>1, <2>1
    <3>2. session # NoSession /\ m \in session.contributors \cup session.next
      BY <3>1 DEF IInv, CreditsRemembered
    <3> QED
      BY <1>1, <1>3, <2>1, <3>2
  <2> QED
    BY <1>4, <2>1 DEF CreditsRemembered
<1> QED
  BY <1>5, <1>6, <1>7, <1>8, <1>9, <1>10 DEF IInv

-----------------------------------------------------------------------------
(* Theorems.                                                               *)

LEMMA StutterKeeps == ASSUME IInv, UNCHANGED vars PROVE IInv'
<1> USE DEF vars, document, tracker, work, ghosts, flags
<1>1. DataOk' /\ ControlOk'
  BY DEF IInv, DataOk, ControlOk
<1>2. WorkOk'
  BY DEF IInv, WorkOk, Writable, Kept, Unsaved
<1>3. SessionOk' /\ KeptOk' /\ CreditsRemembered'
  BY DEF IInv, SessionOk, Driven, Queued, KeptOk, Kept, Unsaved, CreditsRemembered
<1> QED
  BY <1>1, <1>2, <1>3 DEF IInv

LEMMA NextKeeps == ASSUME IInv, [Next]_vars PROVE IInv'
<1>1. CASE UNCHANGED vars
  BY <1>1, StutterKeeps
<1>2. CASE Next
  BY <1>2, ConnectKeeps, DisconnectKeeps, FrameKeeps, MetadataKeeps, PersistNowKeeps,
     LaneResumesKeeps, StoreHookKeeps, TimerFiresKeeps, StartOperationKeeps,
     BatchSavedKeeps, CheckpointTakenKeeps, CallFailedKeeps, CallConflictedKeeps,
     ResourceGoneKeeps, InvalidatedKeeps, UnloadKeeps
  DEF Next, Answers
<1> QED
  BY <1>1, <1>2

\* The invariant holds in every state of every behaviour.
THEOREM InvariantHolds == Spec => []IInv
BY InitKeeps, NextKeeps, PTL DEF Spec

\* Every state is of its type.
THEOREM TypeCorrect == Spec => []TypeOK
BY InvariantHolds, TypeCorrectState, PTL

\* An edit that is not stored has its author among the pending contributors, until
\* a finalization was given up.
THEOREM UnsavedKeepsItsContributor == Spec => []UnsavedKeepsContributor
<1>1. IInv => UnsavedKeepsContributor
  BY DEF IInv, KeptOk, Kept, UnsavedKeepsContributor
<1> QED
  BY <1>1, InvariantHolds, PTL

\* Whoever no checkpoint credits yet is a contributor of the session.
THEOREM CreditsAreRemembered == Spec => []CreditsRemembered
<1>1. IInv => CreditsRemembered
  BY DEF IInv
<1> QED
  BY <1>1, InvariantHolds, PTL

\* A session has a timer, or the one finalization that is under way.
THEOREM SessionsAreDriven == Spec => []NeverStranded
<1>1. IInv => NeverStranded
  <2> SUFFICES ASSUME IInv, session # NoSession, ~session.finalizing,
                      Queued("finalize")
               PROVE  FALSE
    BY DEF NeverStranded, IInv, SessionOk, Driven
  <2>1. QueueOk(queue, edits, lane, session, Writable)
    BY DEF IInv, WorkOk, Holds
  <2>2. \A op : OperationOk(op, edits, lane, session, Writable) => op.caller # "finalize"
    BY DEF OperationOk
  <2>3. running # NoOperation => running.operation.caller # "finalize"
    BY <2>2 DEF IInv, WorkOk, Holds
  <2> QED
    BY <2>1, <2>2, <2>3 DEF Queued, QueueOk
<1> QED
  BY <1>1, InvariantHolds, PTL

\* persist.now is answered for edits that are stored, until a finalization was
\* given up.
THEOREM PersistNowCoversHolds == Spec => []PersistNowCoversTracked
<1>1. IInv => PersistNowCoversTracked
  BY DEF IInv, KeptOk, Kept, PersistNowCoversTracked, PersistNowCovers
<1> QED
  BY <1>1, InvariantHolds, PTL

\* Only unloading forgets edits; a room that holds unsaved ones has a session and
\* is not unloaded, unless it was given up.
THEOREM UnloadLosesNothing == Spec => NothingLostOnUnload
<1>1. ASSUME IInv, [Next]_vars
      PROVE  [(edits # << >> /\ edits' = << >>) => (Unsaved = {} \/ gaveUp \/ fenced)]_vars
  <2> SUFFICES ASSUME Next, edits # << >>, edits' = << >>
               PROVE  Unsaved = {} \/ gaveUp \/ fenced
    BY <1>1
  <2>1. edits \in Seq(Edit) /\ Len(edits) \in Nat \ {0}
    BY <1>1 DEF IInv, DataOk
  <2>2. \A edit \in Edit : Append(edits, edit) # << >>
    BY <2>1
  <2>3. CASE Unload
    <3>1. Kept = {}
      BY <1>1, <2>3 DEF Unload, IInv, KeptOk
    <3> QED
      BY <3>1 DEF Kept
  <2>4. ASSUME NEW m \in Members, NEW credit \in Members \cup {NoMember},
               edits' = Append(edits, [author |-> m, credit |-> credit])
        PROVE  FALSE
    BY <2>2, <2>4 DEF Edit
  <2>5. CASE BatchSaved
    <3>1. edits' = Credited
      BY <2>5 DEF BatchSaved
    <3>2. 1 \in DOMAIN Credited /\ DOMAIN << >> = {}
      BY <2>1 DEF Credited
    <3> QED
      BY <3>1, <3>2
  <2>6. CASE \E m \in Members : Frame(m)
    BY <2>4, <2>6 DEF Frame, Apply
  <2>7. CASE LaneResumes
    <3>1. lane.member \in Members
      BY <1>1, <2>7 DEF LaneResumes, IInv, ControlOk
    <3> QED
      BY <2>4, <2>7, <3>1 DEF LaneResumes, Apply
  <2>8. CASE \E m \in Members : MetadataAccepted(m)
    BY <2>4, <2>8 DEF MetadataAccepted
  <2>9. CASE edits' = edits
    BY <2>9
  <2>10. ASSUME \/ \E m \in Members : Connect(m) \/ Disconnect(m) \/ PersistNow(m)
                \/ StoreHook \/ TimerFires \/ StartOperation \/ CheckpointTaken
                \/ CallFailed \/ CallConflicted \/ ResourceGone \/ Invalidated
         PROVE  edits' = edits
    BY <2>10 DEF Connect, Disconnect, PersistNow, StoreHook, TimerFires, StartOperation,
                 CheckpointTaken, CallFailed, CallConflicted, ResourceGone, Invalidated,
                 document
  <2> QED
    BY <2>3, <2>5, <2>6, <2>7, <2>8, <2>9, <2>10 DEF Next, Answers
<1>2. IInv /\ [Next]_vars =>
         [(edits # << >> /\ edits' = << >>) => (Unsaved = {} \/ gaveUp \/ fenced)]_vars
  BY <1>1
<1> QED
  BY <1>2, InvariantHolds, PTL DEF Spec, NothingLostOnUnload

-----------------------------------------------------------------------------
(* Attribution.                                                            *)

\* Two members are never pending at once: markPendingContributor refuses it.
OneEditor == \A m, n \in Pending : m = n

\* No step makes a second member pending.
LEMMA PendingShrinks ==
    ASSUME IInv, OneEditor, pending' \in [Members -> 0 .. MaxEdits],
           \A m \in Members : pending[m] = 0 => pending'[m] = 0
    PROVE  OneEditor'
BY DEF IInv, DataOk, OneEditor, Pending

LEMMA ApplyKeepsOne ==
    ASSUME IInv, OneEditor, NEW m \in Members, Apply(m)
    PROVE  OneEditor'
<1>1. pending \in [Members -> 0 .. MaxEdits] /\ Len(edits) \in Nat
  BY DEF IInv, DataOk
<1>2. CASE Pending \subseteq {m}
  <2>1. pending' = [pending EXCEPT ![m] = Len(edits) + 1]
    BY <1>2 DEF Apply
  <2>2. \A n \in Members \ {m} : ~ pending'[n] > 0
    BY <1>1, <1>2, <2>1 DEF Pending
  <2> QED
    BY <2>2 DEF OneEditor, Pending
<1>3. CASE ~ Pending \subseteq {m}
  BY <1>3 DEF Apply, OneEditor, Pending
<1> QED
  BY <1>2, <1>3

\* A save, a conflict or a failure leaves pending what it was, or clears some.
LEMMA SavedShrinks ==
    ASSUME IInv, OneEditor, NEW op, Saved(op) PROVE OneEditor'
<1>1. pending \in [Members -> 0 .. MaxEdits] /\ 0 \in 0 .. MaxEdits
  BY DEF IInv, DataOk
<1>2. pending' \in {Advanced(op), NothingPending}
  BY DEF Saved, Checkpoint, ConflictSettled, GiveUp
<1>3. /\ Advanced(op) \in [Members -> 0 .. MaxEdits]
      /\ \A m \in Members : pending[m] = 0 => Advanced(op)[m] = 0
  BY <1>1 DEF Advanced
<1>4. /\ NothingPending \in [Members -> 0 .. MaxEdits]
      /\ \A m \in Members : NothingPending[m] = 0
  BY <1>1 DEF NothingPending
<1> QED
  BY <1>2, <1>3, <1>4, PendingShrinks

LEMMA SamePending == ASSUME OneEditor, UNCHANGED pending PROVE OneEditor'
BY DEF OneEditor, Pending

LEMMA ClearedPending == ASSUME pending' = NothingPending PROVE OneEditor'
BY DEF OneEditor, Pending, NothingPending

LEMMA RunPersistShrinks ==
    ASSUME IInv, OneEditor, NEW op, RunPersist(op) \/ TakeChange(op) PROVE OneEditor'
<1>1. Saved(op) \/ UNCHANGED pending
  BY DEF RunPersist, TakeChange, tracker
<1> QED
  BY <1>1, SavedShrinks, SamePending

LEMMA OneEditorKeeps == ASSUME IInv, OneEditor, [Next]_vars PROVE OneEditor'
<1>1. CASE UNCHANGED vars \/ StoreHook \/ TimerFires \/ CheckpointTaken
           \/ \E m \in Members : Connect(m) \/ Disconnect(m) \/ MetadataAccepted(m) \/ PersistNow(m)
  <2>1. UNCHANGED pending
    BY <1>1 DEF vars, tracker, StoreHook, TimerFires, CheckpointTaken, Connect, Disconnect,
                MetadataAccepted, PersistNow
  <2> QED
    BY <2>1, SamePending
<1>2. ASSUME NEW m \in Members, Frame(m) PROVE OneEditor'
  BY <1>2, ApplyKeepsOne, SamePending DEF Frame
<1>3. CASE LaneResumes
  <2>1. lane.member \in Members
    BY <1>3 DEF LaneResumes, IInv, ControlOk
  <2> QED
    BY <1>3, <2>1, ApplyKeepsOne, SamePending DEF LaneResumes
<1>4. CASE StartOperation
  <2>1. \/ \E op : RunPersist(op)
        \/ Checkpoint(Head(queue), pending)
    BY <1>4 DEF StartOperation
  <2>2. ASSUME Checkpoint(Head(queue), pending) PROVE OneEditor'
    BY <2>2, SamePending, ClearedPending DEF Checkpoint, ConflictSettled, GiveUp
  <2> QED
    BY <2>1, <2>2, RunPersistShrinks
<1>5. CASE BatchSaved
  <2>1. TakeChange(running.operation) \/ Saved(running.operation)
    BY <1>5 DEF BatchSaved
  <2> QED
    BY <2>1, RunPersistShrinks, SavedShrinks
<1>6. CASE CallFailed \/ CallConflicted \/ ResourceGone \/ Invalidated \/ Unload
  <2>1. UNCHANGED pending \/ pending' = NothingPending
    BY <1>6 DEF CallFailed, CallConflicted, ResourceGone, Invalidated, Unload, FinalizeFailed,
                OperationFailed, ConflictSettled, Discard, GiveUp, tracker
  <2> QED
    BY <2>1, SamePending, ClearedPending
<1> QED
  BY <1>1, <1>2, <1>3, <1>4, <1>5, <1>6 DEF Next, Answers

\* A persist takes a batch for its contributor; what it takes of others was edited
\* after that contributor was saved.
LEMMA TakenIsLate ==
    ASSUME IInv, OneEditor, NEW op, op.by \in Members, TakeChange(op), batch' # NoBatch,
           ~ gaveUp
    PROVE  \A i \in batch'.edits :
              edits[i].author = batch'.by \/ pending[batch'.by] = 0
<1>1. batch' = [edits |-> change, by |-> op.by]
  BY DEF TakeChange
<1>2. SUFFICES ASSUME NEW i \in change, pending[op.by] # 0
               PROVE  edits[i].author = op.by
  BY <1>1
<1>3. /\ i \in 1 .. Len(edits) /\ edits \in Seq(Edit)
      /\ pending \in [Members -> 0 .. MaxEdits]
  BY <1>2 DEF IInv, DataOk
<1>4. edits[i].author \in Members
  <2>1. edits[i] \in Edit
    BY <1>3
  <2> QED
    BY <2>1 DEF Edit
<1>5. pending[edits[i].author] >= i
  <2>1. i \in Kept
    BY <1>2 DEF Kept, Unsaved
  <2> QED
    BY <2>1 DEF IInv, KeptOk
<1>6. op.by \in Pending /\ edits[i].author \in Pending
  BY <1>2, <1>3, <1>4, <1>5 DEF Pending
<1> QED
  BY <1>6 DEF OneEditor

\* A batch that holds another member's edits is of a persist whose own contributor
\* was saved while it waited in the queue (persistWith captures the contributor when
\* it is called and the room its changes when it runs), or comes after a finalization
\* was given up: there is no third way to the wrong credit that the run
\* session_misattributed shows.
THEOREM MiscreditsAreLate == Spec => MiscreditIsLate
<1>1. Init => OneEditor
  BY DEF Init, OneEditor, Pending, NothingPending
<1>2. Spec => []OneEditor
  BY <1>1, OneEditorKeeps, InvariantHolds, PTL DEF Spec
<1>3. ASSUME IInv, OneEditor, Next, batch' \notin {batch, NoBatch}, ~ gaveUp
      PROVE  \A i \in batch'.edits : edits[i].author = batch'.by \/ pending[batch'.by] = 0
  <2>1. \E op : op.by \in Members /\ TakeChange(op)
    <3>1. CASE StartOperation
      <4>1. PICK op : /\ RunPersist(op)
                      /\ \/ op = Head(queue) /\ Head(queue).caller # "finalize"
                         \/ \E m \in Pending : op = ForPending(Head(queue), m)
        BY <1>3, <3>1 DEF StartOperation
      <4>2. TakeChange(op)
        BY <1>3, <4>1 DEF RunPersist
      <4>3. /\ Head(queue) \in Operation
            /\ Head(queue).caller # "finalize" => Head(queue).by \in Members
        BY <1>3, <3>1 DEF StartOperation, QueueReady, IInv, WorkOk, QueueOk, OperationOk
      <4>4. \A m \in Pending : m \in Members /\ ForPending(Head(queue), m).by = m
        BY <4>3 DEF ForPending, Pending, Operation
      <4> QED
        BY <4>1, <4>2, <4>3, <4>4
    <3>2. CASE BatchSaved
      <4>1. TakeChange(running.operation)
        BY <1>3, <3>2 DEF BatchSaved
      <4>2. running.operation.by \in Members
        BY <1>3, <3>2 DEF BatchSaved, IInv, WorkOk, StageOk
      <4> QED
        BY <4>1, <4>2
    <3>3. CASE ~ StartOperation /\ ~ BatchSaved
      <4>1. batch' \in {batch, NoBatch}
        BY <1>3, <3>3 DEF Next, Answers, Connect, Disconnect, Frame, MetadataAccepted, PersistNow,
          LaneResumes, StoreHook, TimerFires, CheckpointTaken, CallFailed, CallConflicted,
          ResourceGone, Invalidated, Unload, document
      <4> QED
        BY <1>3, <4>1
    <3> QED
      BY <3>1, <3>2, <3>3
  <2> QED
    BY <1>3, <2>1, TakenIsLate
<1>4. IInv /\ OneEditor /\ [Next]_vars =>
        [batch' \notin {batch, NoBatch} =>
          \A i \in batch'.edits :
             edits[i].author = batch'.by \/ pending[batch'.by] = 0 \/ gaveUp]_vars
  BY <1>3
<1> QED
  BY <1>2, <1>4, InvariantHolds, PTL DEF Spec, MiscreditIsLate
=============================================================================
