----------------------------- MODULE CollabService -----------------------------
(***************************************************************************)
(* The life of one process of the service (lib/collaboration/runtime.ts,   *)
(* shutdownCollabServer of server.ts, lib/postgresql/messaging-runtime.ts) *)
(* with what it starts and has to bring to rest: the queue consumer, the   *)
(* subscribers of signals, the clients' connections and their presences.   *)
(*                                                                         *)
(* The process accepts clients first and subscribes then, one subscriber   *)
(* after the other.  It dies of the first error of a subscriber's          *)
(* connection.  Asked to stop, it stops messaging, waits for the clients'  *)
(* frames, then for the edit sessions, unloads the rooms, and closes what  *)
(* is left; every wait has a deadline, after which the next step is taken  *)
(* all the same.  It is started again when it died.                        *)
(*                                                                         *)
(* Abstractions.  The edit sessions are in EditSession, the rooms' locks   *)
(* in RoomLifecycle: here their drain and their release are steps.         *)
(* Budgets says how often events may happen: an initial state picks one of *)
(* them, so that one run covers several scenarios.                         *)
(***************************************************************************)
EXTENDS PgmqConsumer, SignalRelay, RoomPresence

CONSTANT Budgets   \* scenarios: how often each kind of event may happen

Kinds == {"start", "die", "stop", "send", "fault", "dial", "early", "load", "write", "signal",
          "ask", "announce", "fence", "tick"}

ASSUME BudgetsAssumption == Budgets \subseteq [Kinds -> Nat]

VARIABLES
    phase,    \* where the process is between start and exit
    started,  \* how many subscribers startSubscribers has started
    left      \* the events of each kind that may still happen

process == <<phase, started>>
clientVars == <<drainVars, presenceVars>>
vars == <<queueVars, signalVars, clientVars, process, left>>

Phases == {"down", "starting", "ready", "stopMessaging", "drainFrames",
           "drainSessions", "unload", "destroy", "close"}

\* startSubscribers' signals; the projection's queue comes last.
Subscribers == <<"og", "content", "media", "translation">>

TypeOK ==
    /\ QueueTypeOK
    /\ SignalTypeOK
    /\ DrainTypeOK
    /\ PresenceTypeOK
    /\ phase \in Phases
    /\ started \in 0 .. Len(Subscribers)
    /\ left \in [Kinds -> Nat]

Spend(kind) ==
    /\ left[kind] > 0
    /\ left' = [left EXCEPT ![kind] = @ - 1]

Init ==
    /\ InitQueue
    /\ InitSignals
    /\ InitDrain
    /\ InitPresence
    /\ phase = "down"
    /\ started = 0
    /\ left \in Budgets

Stopping == phase \in Phases \ {"down", "starting", "ready"}

-----------------------------------------------------------------------------
(* Start, failure and exit.                                                *)

\* The process starts, and its server listens.
Start ==
    /\ phase = "down"
    /\ Spend("start")
    /\ phase' = "starting"
    /\ started' = 0
    /\ UNCHANGED <<queueVars, signalVars, clientVars>>

Subscribe ==
    /\ phase = "starting"
    /\ started < Len(Subscribers)
    /\ Listen(Subscribers[started + 1])
    /\ started' = started + 1
    /\ UNCHANGED <<queueVars, clientVars, phase, left>>

Ready ==
    /\ phase = "starting"
    /\ started = Len(Subscribers)
    /\ StartQueueConsumer
    /\ phase' = "ready"
    /\ UNCHANGED <<signalVars, clientVars, started, left>>

\* What the process has in memory is gone.
Exit ==
    /\ WorkersLost
    /\ SignalsLost
    /\ PresenceLost
    /\ phase' = "down"
    /\ started' = 0

\* It crashes; or a subscriber could not start (fatalStartupError), lost its
\* connection or could not read its queue while nothing asked it to stop, which
\* is an uncaught exception.
Die ==
    /\ phase # "down"
    /\ Spend("die")
    /\ Exit

-----------------------------------------------------------------------------
(* Shutdown.  Each wait ends well or at its deadline.                      *)

\* SIGTERM: the consumers are told to stop and the listeners ended.
Shutdown ==
    /\ phase = "ready"
    /\ Spend("stop")
    /\ phase' = "stopMessaging"
    /\ StopListening
    /\ UNCHANGED <<queueVars, clientVars, started>>

\* stopMessagingConsumers has settled (WorkersDone and SignalsDone) or timed
\* out; shutdownCollabServer begins to drain the clients.
MessagingStopped ==
    /\ phase = "stopMessaging"
    /\ phase' = "drainFrames"
    /\ PresenceStops
    /\ UNCHANGED <<queueVars, signalVars, started, left>>

FramesDrained ==
    /\ phase = "drainFrames"
    /\ drained
    /\ phase' = "drainSessions"
    /\ UNCHANGED <<queueVars, signalVars, clientVars, started, left>>

\* The deadline of the frames is over, or the sessions' drain has ended.
Unload ==
    /\ phase \in {"drainFrames", "drainSessions"}
    /\ phase' = "unload"
    /\ UNCHANGED <<queueVars, signalVars, clientVars, started, left>>

\* The sessions are released, and the rooms without clients unloaded.
Unloaded ==
    /\ phase = "unload"
    /\ phase' = "destroy"
    /\ rooms' = [r \in Rooms |-> IF rooms[r].clients THEN rooms[r] ELSE Absent]
    /\ UNCHANGED <<queueVars, listening, inbox, clientVars, started, left>>

\* Hocuspocus and the rooms' locks are closed; the pool closes next.
Destroyed ==
    /\ phase = "destroy"
    /\ phase' = "close"
    /\ UNCHANGED <<queueVars, signalVars, clientVars, started, left>>

Closed ==
    /\ phase = "close"
    /\ Exit
    /\ UNCHANGED left

-----------------------------------------------------------------------------
(* The parts, while the process runs.                                      *)

Runs == phase # "down"

\* A worker's step of its own: its pool answers until it is closed.
WorkerStep(w) ==
    \/ phase # "close" /\ \E m \in Messages : ReadMessage(w, m)
    \/ Stopping /\ WorkerStops(w)
    \/ HandlerSucceeds(w)
    \/ HandlerThrows(w)
    \/ phase # "close" /\ (Completes(w) \/ Retries(w) \/ Archives(w))
    \/ phase = "close" /\ HandoffFails(w)

WorkerMoves(w) ==
    /\ Runs
    /\ WorkerStep(w)
    /\ UNCHANGED <<signalVars, clientVars, process, left>>

HandoffFault(w) ==
    /\ Runs
    /\ Spend("fault")
    /\ HandoffFails(w)
    /\ UNCHANGED <<signalVars, clientVars, process>>

Attaches(w) ==
    /\ AttachTrackOriginalAudio(w)
    /\ UNCHANGED <<signalVars, clientVars, process, left>>

Sent(m) ==
    /\ Spend("send")
    /\ \E shape \in Shapes : Sends(m, shape)
    /\ UNCHANGED <<signalVars, clientVars, process>>

Visible(m) ==
    /\ BecomesVisible(m)
    /\ UNCHANGED <<signalVars, clientVars, process, left>>

\* Rooms are loaded for clients that were admitted.
RoomMoves ==
    /\ Runs
    /\ \/ /\ phase \in {"starting", "ready", "stopMessaging"}
          /\ Spend("load")
          /\ \E r \in Rooms : RoomLoads(r)
       \/ UNCHANGED left /\ \E r \in Rooms : ClientsLeave(r) \/ RoomUnloads(r)
    /\ UNCHANGED <<queueVars, clientVars, process>>

ContentChanges ==
    /\ Spend("write")
    /\ \E r \in Rooms : \E given \in BOOLEAN :
          DocumentChanges(r, given) \/ TranslationChanges(r, given)
    /\ UNCHANGED <<queueVars, clientVars, process>>

\* Any other notification, well formed or not.
Signalled ==
    /\ Spend("signal")
    /\ \E signal \in Signals : \E notification \in Notifications[signal] :
          Notify(signal, notification)
    /\ UNCHANGED <<queueVars, clientVars, process>>

SignalMoves ==
    /\ Runs
    /\ HandleSignal
    /\ UNCHANGED <<queueVars, clientVars, process, left>>

\* What the drain hears of and the presences do not.
ClientStep(c) ==
    /\ \/ document = "absent" /\ \E waiting \in SUBSET Clients : LoadFails(c, waiting)
       \/ Refuse(c) \/ Dropped(c) \/ CloseConnection(c)
       \/ FrameArrives(c) \/ FrameHandled(c)
    /\ UNCHANGED presenceVars

ClientMoves(c) ==
    /\ Runs
    /\ \/ Spend(IF phase = "starting" THEN "early" ELSE "dial")
          /\ BeginAdmission(c) /\ UNCHANGED presenceVars
       \/ Spend("ask") /\ Asks(c)
       \/ Spend("announce") /\ \E id \in AwarenessIds : Announces(c, id)
       \/ UNCHANGED left /\ \E id \in AwarenessIds : Withdraws(c, id)
       \/ /\ ClientStep(c) \/ Joins(c) \/ Finishes(c)
             \/ MemberConnected(c) \/ MemberDisconnected(c)
          /\ UNCHANGED left
    /\ UNCHANGED <<queueVars, signalVars, process>>

SocketMoves ==
    /\ Runs
    /\ \/ \E s \in Sockets : SocketCloses(s)
       \/ EmptyCheck
    /\ UNCHANGED <<queueVars, signalVars, presenceVars, process, left>>

\* Their document is fenced or unloaded, and time passes.
DocumentMoves ==
    /\ Runs
    /\ \/ Spend("fence") /\ \E invalidated \in BOOLEAN : Fenced(invalidated)
       \/ Spend("tick") /\ ClockTicks
       \/ UNCHANGED left /\ (TimerFires \/ DocumentUnloads)
    /\ UNCHANGED <<queueVars, signalVars, process>>

Next ==
    \/ Start \/ Subscribe \/ Ready \/ Die
    \/ Shutdown \/ MessagingStopped \/ FramesDrained \/ Unload \/ Unloaded
    \/ Destroyed \/ Closed
    \/ \E w \in Workers : WorkerMoves(w) \/ HandoffFault(w) \/ Attaches(w)
    \/ \E m \in Messages : Sent(m) \/ Visible(m)
    \/ RoomMoves \/ ContentChanges \/ Signalled \/ SignalMoves
    \/ \E c \in Clients : ClientMoves(c)
    \/ SocketMoves \/ DocumentMoves

Spec == Init /\ [][Next]_vars

\* Workers await answers that come (the API's within undici's own deadlines),
\* and poll every 250 ms; a visibility timeout ends.  Nothing else need happen.
FairSpec ==
    /\ Spec
    /\ \A w \in Workers : WF_vars(WorkerMoves(w))
    /\ \A m \in Messages : WF_vars(Visible(m))

-----------------------------------------------------------------------------
(* Properties.                                                             *)

\* Once the service stays up, every message that is queued is completed or
\* archived, whatever crashes, overlapping deliveries and failed completions
\* it went through.
MessageSettles ==
    <>[](phase = "ready") => \A m \in Messages : Queued(m) ~> Settled(m)

\* ClearedAfterGrace, of every step.
ClearedForCause == [][ClearedAfterGrace]_vars
=============================================================================
