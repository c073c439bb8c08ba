---------------------------- MODULE ConnectionDrain ----------------------------
(***************************************************************************)
(* How shutdown waits for the clients: every authentication begun and      *)
(* every connection made is counted until its last frame was handled       *)
(* (lib/collaboration/shutdown-connection-drain.ts, with the callers in    *)
(* authentication.ts and connection-handler-helpers.ts).                   *)
(*                                                                         *)
(* Hocuspocus may call the hooks of a connection late: a socket may close  *)
(* while a client authenticates on it, a connection made after that is     *)
(* closed at once, and its `connected` hook may run when its onDisconnect  *)
(* hook already has.  The drain knows a connection by its document and     *)
(* its socket, which a client that opens a document again shares with      *)
(* its connection before, whose frames may still be handled.               *)
(*                                                                         *)
(* Abstractions.  A client authenticates once (every try is a client of    *)
(* its own).  Clients that wait for their document to load still           *)
(* authenticate; any of them may wait for the same load.  Which rooms      *)
(* clients are in, and what frames do to them, is in RoomAdmission.  The   *)
(* frames of a connection are handled after its `connected` hook, which    *)
(* Hocuspocus starts before it reads them.                                 *)
(***************************************************************************)
EXTENDS Sequences

CONSTANTS
    Clients,     \* tries to open a document
    Sockets,
    SocketOf     \* the socket (with the document, the key) each one uses

ASSUME SocketAssumption == SocketOf \in [Clients -> Sockets]

VARIABLES
    conn,        \* where each client is
    frames,      \* clients with frames that wait or are being handled
    hooked,      \* clients whose `connected` hook has run, or never will
    counted,     \* clients that were tracked and have not left (history)
    crossed,     \* keys under which a departure was miscounted (history)
    stranded,    \* clients refused as the load of another one failed (history)
    admissions,  \* pendingAdmissions: clients whose admission is pending
    closed,      \* sockets whose admission scope is closed
    tracked,     \* connections: under each key, in order of insertion
    stopping,    \* begin() was called
    emptyCheck,  \* the immediate that looks again is scheduled
    drained      \* the promise of begin() has resolved

drain == <<admissions, tracked, stopping, emptyCheck, drained>>
account == <<counted, crossed, stranded>>
drainVars == <<conn, frames, hooked, account, closed, drain>>

-----------------------------------------------------------------------------
(* Data.                                                                   *)

\* "open": in its document's getConnections().  "closing": removed from it,
\* with onDisconnect to come after its frames.
States == {"none", "authenticating", "open", "closing", "gone"}

DrainTypeOK ==
    /\ conn \in [Clients -> States]
    /\ frames \subseteq Clients
    /\ hooked \subseteq Clients
    /\ counted \subseteq Clients
    /\ crossed \subseteq Sockets
    /\ stranded \subseteq Clients
    /\ admissions \subseteq Clients
    /\ closed \subseteq Sockets
    /\ tracked \in [Sockets -> Seq(Clients)]
    /\ stopping \in BOOLEAN
    /\ emptyCheck \in BOOLEAN
    /\ drained \in BOOLEAN

InitDrain ==
    /\ conn = [c \in Clients |-> "none"]
    /\ frames = {}
    /\ hooked = {}
    /\ counted = {}
    /\ crossed = {}
    /\ stranded = {}
    /\ admissions = {}
    /\ closed = {}
    /\ tracked = [s \in Sockets |-> << >>]
    /\ stopping = FALSE
    /\ emptyCheck = FALSE
    /\ drained = FALSE

Empty(pending, connections) ==
    pending = {} /\ \A s \in Sockets : connections[s] = << >>

\* The drain holds these admissions and connections now; scheduleEmptyCheck.
Holds(pending, connections) ==
    /\ admissions' = pending
    /\ tracked' = connections
    /\ emptyCheck' = (emptyCheck \/ (stopping /\ Empty(pending, connections)))
    /\ UNCHANGED <<stopping, drained>>

\* Clients tracked under a key, with one more: a Set keeps its first place.
Add(connections, c) ==
    IF \E i \in DOMAIN connections : connections[i] = c THEN connections
    ELSE Append(connections, c)

Released(c) == Holds(admissions \ {c}, tracked)

Becomes(c, state) == conn' = [conn EXCEPT ![c] = state]

-----------------------------------------------------------------------------
(* Clients.                                                                *)

\* onAuthenticate begins; it throws when the service stops or the socket has
\* closed.  A socket opens a document again only after it has left it.
BeginAdmission(c) ==
    /\ conn[c] = "none"
    /\ \A d \in Clients :
          SocketOf[d] = SocketOf[c] => conn[d] \notin {"authenticating", "open"}
    /\ IF stopping \/ SocketOf[c] \in closed
       THEN Becomes(c, "gone") /\ hooked' = hooked \cup {c} /\ UNCHANGED drain
       ELSE /\ Becomes(c, "authenticating")
            /\ Holds(admissions \cup {c}, tracked)
            /\ UNCHANGED hooked
    /\ UNCHANGED <<frames, account, closed>>

\* The client is refused, or the API failed to answer: reject().
Refuse(c) ==
    /\ conn[c] = "authenticating"
    /\ Becomes(c, "gone")
    /\ hooked' = hooked \cup {c}
    /\ Released(c)
    /\ UNCHANGED <<frames, account, closed>>

\* The document that c had loaded fails to load.  Its admission is released;
\* those of the clients that wait for the same load are not.
LoadFails(c, waiting) ==
    /\ conn[c] = "authenticating"
    /\ waiting \subseteq {d \in Clients \ {c} : conn[d] = "authenticating"}
    /\ conn' = [d \in Clients |-> IF d \in waiting \cup {c} THEN "gone" ELSE conn[d]]
    /\ hooked' = hooked \cup waiting \cup {c}
    /\ stranded' = stranded \cup waiting
    /\ Released(c)
    /\ UNCHANGED <<frames, counted, crossed, closed>>

\* Hocuspocus makes the connection, and closes it at once on a closed socket.
Establish(c) ==
    /\ conn[c] = "authenticating"
    /\ Becomes(c, IF SocketOf[c] \in closed THEN "closing" ELSE "open")
    /\ UNCHANGED <<frames, hooked, account, closed, drain>>

\* registerConnection: a connection whose admission is not pending any more is
\* not tracked and closed; otherwise it is tracked before the admission is
\* released, and closed when the service stops or its document is fenced.
Connected(c, fenced) ==
    /\ conn[c] \in {"open", "closing", "gone"}
    /\ c \notin hooked
    /\ hooked' = hooked \cup {c}
    /\ IF c \notin admissions THEN Released(c) /\ UNCHANGED counted
       ELSE /\ Holds(admissions \ {c}, [tracked EXCEPT ![SocketOf[c]] = Add(@, c)])
            /\ counted' = counted \cup {c}
    /\ IF conn[c] = "open" /\ (c \notin admissions \/ stopping \/ fenced)
       THEN Becomes(c, "closing") ELSE UNCHANGED conn
    /\ UNCHANGED <<frames, crossed, stranded, closed>>

FrameArrives(c) ==
    /\ conn[c] = "open"
    /\ c \in hooked
    /\ c \notin frames
    /\ frames' = frames \cup {c}
    /\ UNCHANGED <<conn, hooked, account, closed, drain>>

FrameHandled(c) ==
    /\ c \in frames
    /\ frames' = frames \ {c}
    /\ UNCHANGED <<conn, hooked, account, closed, drain>>

\* A hook throws, and Hocuspocus closes the connection.
FrameRefused(c) ==
    /\ c \in frames
    /\ frames' = frames \ {c}
    /\ Becomes(c, IF conn[c] = "open" THEN "closing" ELSE conn[c])
    /\ UNCHANGED <<hooked, account, closed, drain>>

\* The client leaves the document, or the server closes the connection.
CloseConnection(c) ==
    /\ conn[c] = "open"
    /\ Becomes(c, "closing")
    /\ UNCHANGED <<frames, hooked, account, closed, drain>>

\* A document is fenced.
CloseAll ==
    /\ conn' = [c \in Clients |-> IF conn[c] = "open" THEN "closing" ELSE conn[c]]
    /\ UNCHANGED <<frames, hooked, account, closed, drain>>

\* Variant with a bug: admissions outlive their socket.
SocketClosesUnscoped(s) ==
    /\ s \notin closed
    /\ \E c \in Clients :
          SocketOf[c] = s /\ (conn[c] \in {"authenticating", "open"} \/ c \in admissions)
    /\ closed' = closed \cup {s}
    /\ conn' = [c \in Clients |->
                  IF SocketOf[c] = s /\ conn[c] = "open" THEN "closing" ELSE conn[c]]
    /\ UNCHANGED <<frames, hooked, account, drain>>

\* handleClose: the scope gives the socket's admissions up, then Hocuspocus
\* closes its connections.
SocketCloses(s) ==
    /\ s \notin closed
    /\ \E c \in Clients :
          SocketOf[c] = s /\ (conn[c] \in {"authenticating", "open"} \/ c \in admissions)
    /\ closed' = closed \cup {s}
    /\ conn' = [c \in Clients |->
                  IF SocketOf[c] = s /\ conn[c] = "open" THEN "closing" ELSE conn[c]]
    /\ Holds({c \in admissions : SocketOf[c] # s}, tracked)
    /\ UNCHANGED <<frames, hooked, account>>

\* On a closed socket Hocuspocus may also drop the client before it has made a
\* connection, without a hook.
Dropped(c) ==
    /\ conn[c] = "authenticating"
    /\ SocketOf[c] \in closed
    /\ Becomes(c, "gone")
    /\ hooked' = hooked \cup {c}
    /\ UNCHANGED <<frames, account, closed, drain>>

\* The connection forgotten for c will be tracked once more, by begin() or by
\* its late hook; or c was never tracked, and another one goes in its place.
Crosses(c) ==
    LET same == tracked[SocketOf[c]]
    IN  /\ same # << >>
        /\ \/ c \notin counted
           \/ /\ Head(same) # c
              /\ \/ conn[Head(same)] = "open" /\ ~stopping
                 \/ Head(same) \in admissions \ hooked

\* onDisconnect, after the frames: the admission is released and the connection
\* of the key that was tracked first forgotten, whichever it is.
Disconnected(c) ==
    /\ conn[c] = "closing"
    /\ c \notin frames
    /\ Becomes(c, "gone")
    /\ crossed' = IF Crosses(c) THEN crossed \cup {SocketOf[c]} ELSE crossed
    /\ counted' = counted \ {c}
    /\ Holds(admissions \ {c},
             [tracked EXCEPT ![SocketOf[c]] = IF @ = << >> THEN @ ELSE Tail(@)])
    /\ UNCHANGED <<frames, hooked, stranded, closed>>

-----------------------------------------------------------------------------
(* Shutdown.                                                               *)

\* begin(): the connections of the resident documents are tracked too.
Begin ==
    /\ ~stopping
    /\ stopping' = TRUE
    /\ LET opened == {c \in Clients : conn[c] = "open"}
           connections == [s \in Sockets |->
             IF \E c \in opened : SocketOf[c] = s
             THEN Add(tracked[s], CHOOSE c \in opened : SocketOf[c] = s)
             ELSE tracked[s]]
       IN  /\ tracked' = connections
           /\ emptyCheck' = Empty(admissions, connections)
           /\ counted' = counted \cup opened
    /\ UNCHANGED <<conn, frames, hooked, crossed, stranded, closed, admissions, drained>>

\* The immediate runs.
EmptyCheck ==
    /\ emptyCheck
    /\ emptyCheck' = FALSE
    /\ drained' = (drained \/ Empty(admissions, tracked))
    /\ UNCHANGED <<conn, frames, hooked, account, closed, admissions, tracked,
                   stopping>>

ClientsLost ==
    /\ conn' = [c \in Clients |-> IF conn[c] = "none" THEN "none" ELSE "gone"]
    /\ frames' = {}
    /\ hooked' = {c \in Clients : conn[c] # "none"}
    /\ counted' = {}
    /\ crossed' = {}
    /\ stranded' = {}
    /\ admissions' = {}
    /\ closed' = {}
    /\ tracked' = [s \in Sockets |-> << >>]
    /\ stopping' = FALSE
    /\ emptyCheck' = FALSE
    /\ drained' = FALSE

-----------------------------------------------------------------------------
(* Properties.                                                             *)

Left(c) == conn[c] \in {"none", "gone"}

\* The drain counts exactly those it has to wait for.  When it has resolved, no
\* authentication is pending and no frame left to be handled; nobody who is
\* gone is waited for; and when nobody is waited for, it has resolved or is
\* about to look.  Excepted are clients that were refused because the load of
\* another one failed: they are waited for until their socket closes.  So are
\* keys that several connections shared when one of them left before the
\* `connected` hook of one of them, or out of their order.
DrainIsExact ==
    /\ drained => admissions = {} /\ \A c \in frames : SocketOf[c] \in crossed
    /\ \A c \in admissions : Left(c) => c \in stranded /\ SocketOf[c] \notin closed
    /\ \A s \in Sockets \ crossed :
          (\A c \in Clients : SocketOf[c] = s => Left(c)) => tracked[s] = << >>
    /\ stopping /\ Empty(admissions, tracked) => drained \/ emptyCheck
=============================================================================
