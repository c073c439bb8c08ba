----------------------------- MODULE RoomPresence -----------------------------
(***************************************************************************)
(* What a room remembers about who is there                                *)
(* (lib/collaboration/metadata-ai-reconnect-grace.ts,                      *)
(* awareness-ownership.ts, and their callers in                            *)
(* connection-handler-helpers.ts, room-invalidation.ts, document-hooks.ts  *)
(* and server.ts): the deadline of an AI request whose requester has left, *)
(* and the connections that own the awareness ids.                         *)
(*                                                                         *)
(* A member who asks for AI metadata and leaves has a grace period to come *)
(* back; then the request is cleared.  The members who are there are the   *)
(* ones of the document's connections, which change before the hooks of    *)
(* ConnectionDrain hear of it, and the hooks may come out of order.        *)
(*                                                                         *)
(* Abstractions.  All clients open one resident document, which is loaded  *)
(* with no request.  The shared state of a request is its requester and    *)
(* its deadline; members write it, once admitted, by ordinary frames.  The *)
(* clock is `now`.                                                         *)
(***************************************************************************)
EXTENDS ConnectionDrain, Naturals

CONSTANTS
    Members, MemberOf,   \* the member behind each client
    AwarenessIds,        \* ids of Yjs documents in browsers
    Nobody,
    Grace                \* METADATA_AI_GRACE_PERIOD_MS

ASSUME PresenceAssumption ==
    /\ MemberOf \in [Clients -> Members]
    /\ Nobody \notin Members \cup Clients
    /\ Grace \in Nat \ {0}

VARIABLES
    document,    \* the document's life: "absent", "open" or "fenced"
    request,     \* the map of the AI request, as far as it is shared state
    timer,       \* timers: the document's, with what its callback captured
    now,         \* Date.now()
    seen,        \* when the requester was last there, with its hook run (history)
    awarenessConnections,  \* under each key, the connection to release
    owners,      \* the owner of each awareness id
    shared       \* keys whose connections overlapped (history)

grace == <<request, timer, now, seen>>
awareness == <<awarenessConnections, owners, shared>>
presenceVars == <<document, grace, awareness>>

-----------------------------------------------------------------------------
(* Data.                                                                   *)

\* A deadline of 0 is null.
Deadlines == [requester : Members \cup {Nobody}, autoClearAt : Nat]

NoRequest == [requester |-> Nobody, autoClearAt |-> 0]

PresenceTypeOK ==
    /\ document \in {"absent", "open", "fenced"}
    /\ request \in Deadlines
    /\ timer \in Deadlines
    /\ now \in Nat
    /\ seen \in Nat
    /\ awarenessConnections \in [Sockets -> Clients \cup {Nobody}]
    /\ owners \in [AwarenessIds -> Clients \cup {Nobody}]
    /\ shared \subseteq Sockets

InitPresence ==
    /\ document = "absent"
    /\ request = NoRequest
    /\ timer = NoRequest
    /\ now = 0
    /\ seen = 0
    /\ awarenessConnections = [s \in Sockets |-> Nobody]
    /\ owners = [id \in AwarenessIds |-> Nobody]
    /\ shared = {}

Active == request # NoRequest

\* listConnectedMemberIds(document).includes(member)
IsConnected(member) == \E c \in Clients : conn[c] = "open" /\ MemberOf[c] = member

Cancel == timer' = NoRequest

\* resetState
Reset == request' = NoRequest

\* clearOrphanedState
ClearOrphaned == request' = [request EXCEPT !.autoClearAt = 0]

\* The requester is away; the deadline that is set already stands.
StartOrResume ==
    LET at == IF request.autoClearAt = 0 THEN now + Grace ELSE request.autoClearAt
    IN  /\ request' = [request EXCEPT !.autoClearAt = at]
        /\ timer' = [requester |-> request.requester, autoClearAt |-> at]

-----------------------------------------------------------------------------
(* Connections.                                                            *)

\* The first connection finds the document loaded.
Joins(c) ==
    /\ Establish(c)
    /\ document' = IF document = "absent" THEN "open" ELSE document
    /\ UNCHANGED <<grace, awareness>>

\* Variant with a bug: the deadline outlives the requester's return.
ReturnsOrphaned(member) ==
    IF ~Active \/ member = request.requester \/ IsConnected(request.requester)
    THEN Cancel /\ UNCHANGED request
    ELSE /\ UNCHANGED request
         /\ timer' = IF request.autoClearAt # 0 THEN request ELSE timer

\* MetadataAiReconnectGrace.connected
Returns(member) ==
    IF ~Active THEN Cancel /\ UNCHANGED request
    ELSE IF member = request.requester \/ IsConnected(request.requester)
    THEN Cancel /\ ClearOrphaned
    ELSE /\ UNCHANGED request
         /\ timer' = IF request.autoClearAt # 0 THEN request ELSE timer

\* The `connected` hook: a connection that is refused, by the drain or because
\* the document is fenced, is not a presence.
MemberConnected(c) ==
    /\ Connected(c, document = "fenced")
    /\ IF c \in admissions /\ ~stopping /\ document # "fenced"
       THEN /\ awarenessConnections' = [awarenessConnections EXCEPT ![SocketOf[c]] = c]
            /\ shared' = IF awarenessConnections[SocketOf[c]] = Nobody THEN shared
                         ELSE shared \cup {SocketOf[c]}
            /\ Returns(MemberOf[c])
            /\ seen' = IF MemberOf[c] = request.requester THEN now ELSE seen
       ELSE UNCHANGED <<awarenessConnections, shared, request, timer, seen>>
    /\ UNCHANGED <<document, now, owners>>

\* Variant with a bug: a deadline that is set is taken to have its timer.
LeavesUntimed ==
    IF ~Active THEN Cancel /\ UNCHANGED request
    ELSE IF stopping THEN Cancel /\ Reset
    ELSE IF IsConnected(request.requester) THEN Cancel /\ UNCHANGED request
    ELSE IF request.autoClearAt # 0 THEN UNCHANGED <<request, timer>>
    ELSE StartOrResume

\* MetadataAiReconnectGrace.disconnected
Leaves ==
    IF ~Active THEN Cancel /\ UNCHANGED request
    ELSE IF stopping THEN Cancel /\ Reset
    ELSE IF IsConnected(request.requester) THEN Cancel /\ UNCHANGED request
    ELSE StartOrResume

\* Variant with a bug: the connection is forgotten with the ids it owns.
ReleaseForgotten(c) ==
    LET key == SocketOf[c]
        connection == awarenessConnections[key]
    IN  /\ awarenessConnections' = [awarenessConnections EXCEPT ![key] = Nobody]
        /\ shared' = IF connection \in {c, Nobody} THEN shared ELSE shared \cup {key}
        /\ UNCHANGED owners

\* AwarenessConnectionOwnership.disconnected, for the connection under c's key.
Release(c) ==
    LET key == SocketOf[c]
        connection == awarenessConnections[key]
    IN  /\ awarenessConnections' = [awarenessConnections EXCEPT ![key] = Nobody]
        /\ owners' = [id \in AwarenessIds |->
                        IF owners[id] = connection THEN Nobody ELSE owners[id]]
        /\ shared' = IF connection \in {c, Nobody} THEN shared ELSE shared \cup {key}

MemberDisconnected(c) ==
    /\ Disconnected(c)
    /\ Leaves
    /\ Release(c)
    /\ UNCHANGED <<document, now, seen>>

-----------------------------------------------------------------------------
(* Frames.                                                                 *)

\* prepareInboundMessage refuses an id of another connection, and Hocuspocus
\* closes a connection whose frame is refused.
Announces(c, id) ==
    /\ IF owners[id] \in {c, Nobody}
       THEN /\ FrameHandled(c)
            /\ owners' = [owners EXCEPT ![id] = c]
       ELSE /\ FrameRefused(c)
            /\ UNCHANGED owners
    /\ UNCHANGED <<document, grace, awarenessConnections, shared>>

\* A null state: of a peer's id it is ignored.
Withdraws(c, id) ==
    /\ FrameHandled(c)
    /\ owners' = [owners EXCEPT ![id] = IF @ = c THEN Nobody ELSE @]
    /\ UNCHANGED <<document, grace, awarenessConnections, shared>>

\* The member asks, or takes over; with no deadline.
Asks(c) ==
    /\ document = "open"
    /\ FrameHandled(c)
    /\ request' = [requester |-> MemberOf[c], autoClearAt |-> 0]
    /\ seen' = now
    /\ UNCHANGED <<document, timer, now, awareness>>

\* The request was answered, or given up by a member.
Finishes(c) ==
    /\ document = "open"
    /\ Active
    /\ FrameHandled(c)
    /\ Reset
    /\ UNCHANGED <<document, timer, now, seen, awareness>>

-----------------------------------------------------------------------------
(* Time, and the room.                                                     *)

ClockTicks ==
    /\ now' = now + 1
    /\ seen' = IF \E c \in hooked : conn[c] = "open" /\ MemberOf[c] = request.requester
               THEN now' ELSE seen
    /\ UNCHANGED <<drainVars, document, request, timer, awareness>>

\* The callback looks again, and does nothing for a request that is another.
TimerFires ==
    /\ timer # NoRequest
    /\ now >= timer.autoClearAt
    /\ Cancel
    /\ IF request # timer THEN UNCHANGED request
       ELSE IF IsConnected(request.requester) THEN ClearOrphaned
       ELSE Reset
    /\ UNCHANGED <<drainVars, document, now, seen, awareness>>

\* requireReload closes the connections; an invalidation also resets the
\* request, a save that conflicts does not.
Fenced(invalidated) ==
    /\ document = "open"
    /\ document' = "fenced"
    /\ CloseAll
    /\ IF invalidated THEN Cancel /\ Reset ELSE UNCHANGED <<request, timer>>
    /\ UNCHANGED <<now, seen, awareness>>

\* A document without connections is unloaded unless its timer is running.
DocumentUnloads ==
    /\ document # "absent"
    /\ \A c \in Clients : conn[c] \notin {"open", "closing"}
    /\ timer = NoRequest
    /\ document' = "absent"
    /\ Reset
    /\ owners' = [id \in AwarenessIds |-> Nobody]
    /\ UNCHANGED <<drainVars, timer, now, seen, awarenessConnections, shared>>

\* beginShutdown clears the requests that are timed.
PresenceStops ==
    /\ Begin
    /\ Cancel
    /\ IF timer # NoRequest THEN Reset ELSE UNCHANGED request
    /\ UNCHANGED <<document, now, seen, awareness>>

PresenceLost ==
    /\ ClientsLost
    /\ document' = "absent"
    /\ Reset
    /\ Cancel
    /\ awarenessConnections' = [s \in Sockets |-> Nobody]
    /\ owners' = [id \in AwarenessIds |-> Nobody]
    /\ shared' = {}
    /\ UNCHANGED <<now, seen>>

-----------------------------------------------------------------------------
(* Properties.                                                             *)

\* When every hook has run, a request whose requester is not there is timed, by
\* the deadline it shows: nobody waits for ever for one who has left, however
\* connections, returns of the requester and takeovers followed on each other.
AwayIsTimed ==
    /\ document # "absent"
    /\ ~stopping
    /\ \A c \in Clients : conn[c] # "closing" /\ (conn[c] = "open" => c \in hooked)
    /\ Active
    /\ ~IsConnected(request.requester)
    => timer = request /\ request.autoClearAt # 0

\* The timer clears a request only when its requester is not there, and has not
\* been for a whole grace period: since it asked, or since a connection of it
\* whose hook had run.
ClearedAfterGrace ==
    (timer # NoRequest /\ timer' = NoRequest /\ Active /\ request' = NoRequest /\ document' = "open" /\ ~stopping')
    => ~IsConnected(request.requester) /\ now >= seen + Grace

\* An awareness id is owned by a connection that has not left, so that a browser
\* that comes back is not locked out of its own id: unless a connection was made
\* under a key before the hook of the one that left under it.
PresenceIsReleased ==
    \A id \in AwarenessIds :
        owners[id] # Nobody =>
            \/ conn[owners[id]] \in {"open", "closing"}
            \/ SocketOf[owners[id]] \in shared
=============================================================================
