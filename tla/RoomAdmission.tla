---------------------------- MODULE RoomAdmission ----------------------------
(***************************************************************************)
(* Who may write to the room of a block document: authentication           *)
(* (lib/collaboration/authentication.ts), the epochs and tokens of a room  *)
(* (room-epoch.ts), the bootstrap a client acknowledges and the frames it  *)
(* may send afterwards (block-room-protocol.ts), and the permission asked  *)
(* for each frame (permission-guard.ts, connection-hooks.ts).              *)
(*                                                                         *)
(* The content of a client comes from one load of the room.  Merged into   *)
(* the document of another load it would double the whole text, so that    *)
(* nothing of it may ever reach one.                                       *)
(*                                                                         *)
(* Abstractions.  One process and one document.  A Yjs document is the     *)
(* load its content comes from, 0 being an empty one; an edit is that and  *)
(* whether the API allowed its author to edit.  A client dials again when  *)
(* the frames of its last connection have been handled; Hocuspocus handles *)
(* them one at a time and runs onDisconnect after the last of them.  Which *)
(* process has the room, and what keeps it from unloading, are in          *)
(* RoomLifecycle and EditSession.                                          *)
(***************************************************************************)
EXTENDS Naturals, FiniteSets

CONSTANTS
    Clients,
    MaxTokens,   \* ROOM_EPOCH_MAX_TOKENS_PER_ROOM
    TokenTtl,    \* ROOM_EPOCH_TOKEN_TTL_MS, in ticks of the clock
    Max          \* how often each kind of event may happen (bounds the model)

\* The kinds of event that Max bounds.
\* An "event" is a tick, a change of permission or document, a lost connection
\* or a restart.
Kinds == {"dial", "frame", "load", "event"}

ASSUME LimitAssumption == MaxTokens \in Nat \ {0} /\ TokenTtl \in Nat \ {0}
ASSUME MaxAssumption == Max \in [Kinds -> Nat]

VARIABLES
    now,      \* the clock of the registry
    room,     \* the document: its stage, which load it is, if its name is fenced
    content,  \* the edits merged into the document
    epoch,    \* roomEpochs of the document, 0 if it has none
    epochs,   \* how many epochs were created
    tokens,   \* tokensByRoom of the document
    issued,   \* how many tokens were created
    accesses, \* nextTokenAccessOrder
    recent,   \* history: every token of the epoch and its last use
    perm,     \* the API: what the member of each client may do
    conn,     \* the connection of each client and its context
    frame,    \* the frame of each connection that is being handled
    client,   \* the content and the token the client holds
    spent     \* how many events of each kind have happened

registry == <<epoch, epochs, tokens, issued, accesses, recent>>
sides == <<conn, frame, client>>
vars == <<now, room, content, registry, perm, sides, spent>>

-----------------------------------------------------------------------------
(* Data.                                                                   *)

Token == [id : Nat, epoch : Nat, load : Nat, synced : BOOLEAN, used : Nat,
          order : Nat]
Use == [id : Nat, used : Nat, order : Nat]
Edit == [base : Nat, load : Nat, allowed : BOOLEAN]
Room == [stage : {"none", "loading", "open", "leaving"}, load : Nat,
         fenced : BOOLEAN, left : BOOLEAN]
Connection == [at : {"off", "viewing", "editing", "opening", "open", "closing"},
               adm : {"none", "pending", "issued", "accepted"},
               epoch : Nat, challenge : Nat, resume : Nat,
               canEdit : BOOLEAN, load : Nat]
Frame == [kind : {"none", "update", "metadata", "ack", "snapshot"},
          step : {"none", "asking", "allowed", "saving"},
          base : Nat, allowed : BOOLEAN]

Off == [at |-> "off", adm |-> "none", epoch |-> 0, challenge |-> 0,
        resume |-> 0, canEdit |-> FALSE, load |-> 0]
NoFrame == [kind |-> "none", step |-> "none", base |-> 0, allowed |-> FALSE]

TypeOK ==
    /\ now \in Nat /\ room \in Room /\ content \subseteq Edit
    /\ epoch \in Nat /\ epochs \in Nat /\ issued \in Nat /\ accesses \in Nat
    /\ tokens \subseteq Token /\ Cardinality(tokens) <= MaxTokens
    /\ recent \subseteq Use
    /\ perm \in [Clients -> {"edit", "view", "none"}]
    /\ conn \in [Clients -> Connection]
    /\ frame \in [Clients -> Frame]
    /\ client \in [Clients -> [doc : Nat, token : Nat]]
    /\ spent \in [Kinds -> Nat]

Spend(kind) ==
    /\ spent[kind] < Max[kind]
    /\ spent' = [spent EXCEPT ![kind] = @ + 1]

-----------------------------------------------------------------------------
(* The registry of epochs and tokens.                                      *)

Fresh(t) == now - t.used < TokenTtl
Known(id) == \E t \in tokens : t.id = id
TokenOf(id) == CHOOSE t \in tokens : t.id = id

\* What was used after t.
UsedAfter(t, ts) == {u \in ts : u.order > t.order}

\* pruneTokens: the expired go first, then those used longest ago.
Prune(ts) ==
    LET kept == {t \in ts : Fresh(t)}
    IN  {t \in kept : Cardinality(UsedAfter(t, kept)) < MaxTokens}

\* Variant with a bug: a use prolongs a token, and does not make it recent.
ProlongedOnly(t) == [t EXCEPT !.used = now]

\* A use of the token, which makes it the one accessed last.
Touched(t) == [t EXCEPT !.used = now, !.order = accesses]

\* validate finds the token in the epoch of the room.
Validates(id) ==
    /\ Known(id)
    /\ Fresh(TokenOf(id))
    /\ epoch # 0 /\ TokenOf(id).epoch = epoch

\* What validate leaves of the registry; `synced` is markSynchronized after it.
Validated(id, synced) ==
    /\ IF Validates(id)
       THEN LET t == TokenOf(id)
                u == [Touched(t) EXCEPT !.synced = @ \/ synced]
            IN  /\ tokens' = (Prune(tokens) \ {t}) \cup {u}
                /\ recent' = {r \in recent : r.id # id}
                                \cup {[id |-> id, used |-> now, order |-> accesses]}
                /\ accesses' = accesses + 1
       ELSE tokens' = Prune(tokens) /\ UNCHANGED <<recent, accesses>>
    /\ UNCHANGED <<epoch, epochs, issued>>

\* issue: the room gets an epoch if it has none.
NextEpoch == IF epoch = 0 THEN epochs + 1 ELSE epoch
NextEpochs == IF epoch = 0 THEN epochs + 1 ELSE epochs

\* The token of a bootstrap of this load: nobody has acknowledged it yet.
NewToken(load) ==
    [id |-> issued + 1, epoch |-> NextEpoch, load |-> load, synced |-> FALSE,
     used |-> now, order |-> accesses]

\* Variant with a bug: what was issued last is over the limit.
IssuedUnpruned(load) == Prune(tokens) \cup {NewToken(load)}

\* The tokens after issueToken.
Issued(load) == Prune(Prune(tokens) \cup {NewToken(load)})

\* issueToken, with the validate of that token.
IssueToken(load) ==
    /\ epoch' = NextEpoch /\ epochs' = NextEpochs
    /\ issued' = issued + 1 /\ accesses' = accesses + 1
    /\ tokens' = Issued(load)
    /\ recent' = recent \cup {[id |-> issued + 1, used |-> now, order |-> accesses]}

\* retire
Retire ==
    /\ epoch' = 0 /\ tokens' = {} /\ recent' = {}
    /\ UNCHANGED <<epochs, issued, accesses>>

-----------------------------------------------------------------------------
(* The gate of every frame after the bootstrap.                            *)

\* Variant with a bug: the epoch of a former room passes.
CurrentOfAnyEpoch(c) == conn[c].adm = "accepted" /\ ~ room.fenced

\* currentAdmission
Current(c) ==
    /\ conn[c].adm = "accepted"
    /\ ~ room.fenced
    /\ epoch # 0 /\ conn[c].epoch = epoch

\* sendReload, or another close of the connection by the server.
Closed(c) ==
    [conn EXCEPT ![c].at = IF conn[c].at = "open" THEN "closing" ELSE @]

FrameDone(c) == frame' = [frame EXCEPT ![c] = NoFrame]

\* RevisionConflictGuard.fence of the document of one load: closes what it has.
Fence(load) ==
    /\ room' = [room EXCEPT !.fenced = TRUE]
    /\ conn' = [c \in Clients |->
                  IF ~ room.fenced /\ conn[c].at = "open" /\ conn[c].load = load
                  THEN [conn[c] EXCEPT !.at = "closing"] ELSE conn[c]]

-----------------------------------------------------------------------------
(* The surroundings.                                                       *)

Init ==
    /\ now = 0 /\ content = {}
    /\ room = [stage |-> "none", load |-> 0, fenced |-> FALSE, left |-> FALSE]
    /\ epoch = 0 /\ epochs = 0 /\ tokens = {} /\ recent = {}
    /\ issued = 0 /\ accesses = 0
    /\ perm = [c \in Clients |-> "edit"]
    /\ conn = [c \in Clients |-> Off]
    /\ frame = [c \in Clients |-> NoFrame]
    /\ client = [c \in Clients |-> [doc |-> 0, token |-> 0]]
    /\ spent = [kind \in Kinds |-> 0]

Tick ==
    /\ Spend("event")
    /\ now' = now + 1
    /\ UNCHANGED <<room, content, registry, perm, sides>>

PermissionChanges(c, p) ==
    /\ p # perm[c] /\ Spend("event")
    /\ perm' = [perm EXCEPT ![c] = p]
    /\ UNCHANGED <<now, room, content, registry, sides>>

\* The process dies and starts again: its registry and its rooms are gone.
Restart ==
    /\ Spend("event")
    /\ Retire
    /\ room' = [room EXCEPT !.stage = "none", !.fenced = FALSE, !.left = FALSE]
    /\ content' = {}
    /\ conn' = [c \in Clients |-> Off]
    /\ frame' = [c \in Clients |-> NoFrame]
    /\ UNCHANGED <<now, perm, client>>

\* authorizeCollaboration: what the API answers for the member of c.
Authorized(c, permission) ==
    perm[c] = "edit" \/ (permission = "view" /\ perm[c] = "view")

-----------------------------------------------------------------------------
(* Authentication: VIEW is asked of the API, then EDIT, then the token.    *)

\* A client opens a connection, afresh or to resume what it has.
Dial(c, resume) ==
    /\ conn[c].at = "off" /\ frame[c] = NoFrame
    /\ ~ room.fenced
    /\ resume \in {0, client[c].token}
    /\ Spend("dial")
    /\ conn' = [conn EXCEPT ![c] = [Off EXCEPT !.at = "viewing", !.resume = resume]]
    /\ client' = IF resume = 0
                 THEN [client EXCEPT ![c] = [doc |-> 0, token |-> 0]] ELSE client
    /\ UNCHANGED <<now, room, content, registry, perm, frame>>

ViewAnswered(c) ==
    /\ conn[c].at = "viewing"
    /\ conn' = IF Authorized(c, "view") /\ ~ room.fenced
               THEN [conn EXCEPT ![c].at = "editing"]
               ELSE [conn EXCEPT ![c] = Off]
    /\ UNCHANGED <<now, room, content, registry, perm, frame, client, spent>>

\* blockRoomAdmission resumes what is known and synchronised.
Resumes(id) == Validates(id) /\ TokenOf(id).synced

\* The EDIT answer; with it blockRoomAdmission.
EditAnswered(c) ==
    LET id == conn[c].resume
        context == [conn[c] EXCEPT !.at = "opening", !.canEdit = Authorized(c, "edit")]
    IN  /\ conn[c].at = "editing"
        /\ IF id = 0
           THEN /\ tokens' = Prune(tokens)
                /\ epoch' = NextEpoch /\ epochs' = NextEpochs
                /\ conn' = [conn EXCEPT ![c] =
                              [context EXCEPT !.adm = "pending", !.epoch = NextEpoch]]
                /\ UNCHANGED <<issued, accesses, recent>>
           ELSE /\ Validated(id, FALSE)
                /\ conn' = [conn EXCEPT ![c] =
                              IF Resumes(id)
                              THEN [context EXCEPT !.adm = "accepted",
                                                   !.epoch = epoch, !.challenge = id]
                              ELSE Off]
        /\ UNCHANGED <<now, room, content, perm, frame, client, spent>>

\* The API fails to answer, or the socket closes.
Disconnects(c) ==
    /\ conn[c].at \notin {"off", "closing"}
    /\ Spend("event")
    /\ conn' = IF conn[c].at = "open"
               THEN [conn EXCEPT ![c].at = "closing"]
               ELSE [conn EXCEPT ![c] = Off]
    /\ UNCHANGED <<now, room, content, registry, perm, frame, client>>

-----------------------------------------------------------------------------
(* The room.                                                               *)

BeginLoad(c) ==
    /\ conn[c].at = "opening" /\ room.stage = "none"
    /\ Spend("load")
    /\ room' = [room EXCEPT !.stage = "loading", !.load = @ + 1]
    /\ UNCHANGED <<now, content, registry, perm, sides>>

Loaded ==
    /\ room.stage = "loading" /\ ~ room.fenced
    /\ room' = [room EXCEPT !.stage = "open", !.left = FALSE]
    /\ UNCHANGED <<now, content, registry, perm, sides, spent>>

\* handleLoad fails, always when the name was fenced meanwhile.
LoadFails ==
    /\ room.stage = "loading"
    /\ Retire
    /\ room' = [room EXCEPT !.stage = "none", !.fenced = FALSE]
    /\ conn' = [c \in Clients |-> IF conn[c].at = "opening" THEN Off ELSE conn[c]]
    /\ UNCHANGED <<now, content, perm, frame, client, spent>>

\* The bootstrap of a pending client, with the token it can resume by.
Bootstrap(c) ==
    /\ IssueToken(room.load)
    /\ conn' = [conn EXCEPT ![c].at = "open", ![c].load = room.load,
                            ![c].adm = "issued", ![c].epoch = NextEpoch,
                            ![c].challenge = issued + 1]
    /\ client' = [client EXCEPT ![c].token = issued + 1]

\* `connected`: a fenced room is left at once, a pending client bootstrapped.
Connected(c) ==
    /\ conn[c].at = "opening" /\ room.stage = "open"
    /\ \/ /\ room.fenced
          /\ conn' = [conn EXCEPT ![c].at = "closing", ![c].load = room.load]
          /\ UNCHANGED <<registry, client>>
       \/ /\ ~ room.fenced /\ conn[c].adm = "accepted"
          /\ conn' = [conn EXCEPT ![c].at = "open", ![c].load = room.load]
          /\ UNCHANGED <<registry, client>>
       \/ /\ ~ room.fenced /\ conn[c].adm = "pending"
          /\ Bootstrap(c)
    /\ UNCHANGED <<now, room, content, perm, frame, spent>>

\* onDisconnect, after the frames of the connection.
Left(c) ==
    /\ conn[c].at = "closing" /\ frame[c] = NoFrame
    /\ conn' = [conn EXCEPT ![c] = Off]
    /\ room' = [room EXCEPT !.left = @ \/ conn[c].load = room.load]
    /\ UNCHANGED <<now, content, registry, perm, frame, client, spent>>

\* Hocuspocus unloads what has no connection and was left by one.
BeginUnload ==
    /\ room.stage = "open" /\ room.left
    /\ \A c \in Clients : conn[c].at # "open"
    /\ room' = [room EXCEPT !.stage = "leaving"]
    /\ UNCHANGED <<now, content, registry, perm, sides, spent>>

\* handleAfterUnload
Unloaded ==
    /\ room.stage = "leaving"
    /\ Retire
    /\ room' = [room EXCEPT !.stage = "none", !.fenced = FALSE]
    /\ content' = {}
    /\ UNCHANGED <<now, perm, sides, spent>>

\* The document was changed behind the room: fenced, loading or loaded.
Invalidated ==
    /\ room.stage # "none" /\ Spend("event")
    /\ IF room.stage = "loading"
       THEN room' = [room EXCEPT !.fenced = TRUE] /\ UNCHANGED conn
       ELSE Fence(room.load)
    /\ UNCHANGED <<now, content, registry, perm, frame, client>>

-----------------------------------------------------------------------------
(* Frames.                                                                 *)

\* The client takes the bootstrap into its empty document.
TakeBootstrap(c) ==
    /\ conn[c].at = "open" /\ conn[c].adm = "issued"
    /\ client[c].doc = 0
    /\ client' = [client EXCEPT ![c].doc = conn[c].load]
    /\ UNCHANGED <<now, room, content, registry, perm, conn, frame, spent>>

\* A frame arrives and beforeHandleMessage asks the API.
FrameArrives(c, kind) ==
    /\ conn[c].at = "open" /\ frame[c] = NoFrame
    /\ Spend("frame")
    /\ frame' = [frame EXCEPT ![c] = [kind |-> kind, step |-> "asking",
                                      base |-> client[c].doc, allowed |-> FALSE]]
    /\ UNCHANGED <<now, room, content, registry, perm, conn, client>>

\* Variant with a bug: a permission to view lets any frame pass.
MayAsViewer(c) == Authorized(c, "view")

\* authorizeFrame asks for EDIT, or for VIEW on a connection that only reads.
May(c) == Authorized(c, IF conn[c].canEdit THEN "edit" ELSE "view")

FrameAuthorized(c) ==
    /\ frame[c].step = "asking"
    /\ May(c)
    /\ frame' = [frame EXCEPT ![c].step = "allowed",
                              ![c].allowed = perm[c] = "edit"]
    /\ UNCHANGED <<now, room, content, registry, perm, conn, client, spent>>

\* The answer denies it, and the connection is closed.
FrameDenied(c) ==
    /\ frame[c].step = "asking"
    /\ ~ May(c)
    /\ conn' = Closed(c)
    /\ FrameDone(c)
    /\ UNCHANGED <<now, room, content, registry, perm, client, spent>>

\* An allowed frame of a kind, which handleStateless or beforeSync gets.
Handles(c, kind) == frame[c].kind = kind /\ frame[c].step = "allowed"

\* stateVectorIncludes: what the client had covers the bootstrap of the token.
Includes(c, id) == frame[c].base = TokenOf(id).load

\* acceptBootstrap
HandleAck(c) ==
    LET id == client[c].token
        accepted == /\ conn[c].adm = "issued" /\ id = conn[c].challenge
                    /\ Validates(id) /\ Includes(c, id)
    IN  /\ Handles(c, "ack")
        /\ Validated(id, accepted)
        /\ conn' = IF accepted THEN [conn EXCEPT ![c].adm = "accepted"] ELSE Closed(c)
        /\ FrameDone(c)
        /\ UNCHANGED <<now, room, content, perm, client, spent>>

\* assertPreAdmissionSync: before the acknowledgement only the empty document
\* of the handshake passes.
PreAdmissionSync(c) ==
    /\ conn[c].adm # "accepted"
    /\ conn' = IF client[c].doc = 0 /\ frame[c].base = 0 THEN conn ELSE Closed(c)
    /\ UNCHANGED content

\* assertBlockRoomSyncAllowed: a change the locale of the room may not make.
LocaleRefuses(c) == conn' = Closed(c) /\ UNCHANGED content

\* applyInboundMutation; what only reads has its changes ignored.
Merge(c) ==
    /\ content' = IF conn[c].canEdit
                  THEN content \cup {[base |-> frame[c].base, load |-> conn[c].load,
                                      allowed |-> frame[c].allowed]}
                  ELSE content
    /\ UNCHANGED conn

\* beforeSync of the block room, in the lane of the room.
Sync(c) ==
    \/ PreAdmissionSync(c)
    \/ conn[c].adm = "accepted" /\ Current(c) /\ (Merge(c) \/ LocaleRefuses(c))
    \/ /\ conn[c].adm = "accepted" /\ ~ Current(c)
       /\ conn' = Closed(c) /\ UNCHANGED content

\* A change of the document.
HandleUpdate(c) ==
    /\ Handles(c, "update")
    /\ Sync(c)
    /\ FrameDone(c)
    /\ UNCHANGED <<now, room, registry, perm, client, spent>>

\* sendSnapshot
HandleSnapshot(c) ==
    /\ Handles(c, "snapshot")
    /\ conn' = IF Current(c) THEN conn ELSE Closed(c)
    /\ FrameDone(c)
    /\ UNCHANGED <<now, room, content, registry, perm, client, spent>>

\* updateMetadata: what may not edit is answered, what is not current reloads.
HandleMetadata(c) ==
    /\ Handles(c, "metadata")
    /\ IF conn[c].canEdit /\ Current(c)
       THEN frame' = [frame EXCEPT ![c].step = "saving"] /\ UNCHANGED conn
       ELSE /\ FrameDone(c)
            /\ conn' = IF conn[c].canEdit THEN Closed(c) ELSE conn
    /\ UNCHANGED <<now, room, content, registry, perm, client, spent>>

\* The request is not one for the kind of document: the client is answered.
InvalidMetadata(c) ==
    /\ Handles(c, "metadata") /\ conn[c].canEdit /\ Current(c)
    /\ FrameDone(c)
    /\ UNCHANGED <<now, room, content, registry, perm, conn, client, spent>>

\* The API took the metadata, or failed: the client is answered.
MetadataAnswered(c) ==
    /\ frame[c].step = "saving"
    /\ FrameDone(c)
    /\ UNCHANGED <<now, room, content, registry, perm, conn, client, spent>>

\* The API found another revision: the document of the request is fenced.
MetadataConflicts(c) ==
    /\ frame[c].step = "saving"
    /\ Spend("event")
    /\ Fence(conn[c].load)
    /\ FrameDone(c)
    /\ UNCHANGED <<now, content, registry, perm, client>>

-----------------------------------------------------------------------------

Next ==
    \/ Tick \/ Restart \/ Loaded \/ LoadFails \/ BeginUnload \/ Unloaded
    \/ Invalidated
    \/ \E c \in Clients :
          \/ \E p \in {"edit", "view", "none"} : PermissionChanges(c, p)
          \/ Dial(c, 0) \/ (client[c].token # 0 /\ Dial(c, client[c].token))
          \/ ViewAnswered(c) \/ EditAnswered(c) \/ Disconnects(c)
          \/ BeginLoad(c) \/ Connected(c) \/ Left(c) \/ TakeBootstrap(c)
          \/ \E kind \in {"update", "metadata", "ack", "snapshot"} :
                FrameArrives(c, kind)
          \/ FrameAuthorized(c) \/ FrameDenied(c)
          \/ HandleAck(c) \/ HandleUpdate(c) \/ HandleSnapshot(c)
          \/ HandleMetadata(c) \/ InvalidMetadata(c) \/ MetadataAnswered(c)
          \/ MetadataConflicts(c)

Spec == Init /\ [][Next]_vars

-----------------------------------------------------------------------------
(* Properties.                                                             *)

\* No content of another load of the room, and none of a client that had not
\* taken the bootstrap, is merged into its document: neither by resuming a token
\* while the room unloads, nor by a frame that waits while it is loaded again,
\* nor by an early acknowledgement (room-epoch.ts:42, currentAdmission).
EditsOfThisLoad ==
    \A e \in content : e.base = room.load /\ e.load = room.load

\* Every edit merged was allowed by the API between its arrival and its merge,
\* whatever the permission was when its connection was made (authorizeFrame).
FrameWasAllowed == \A e \in content : e.allowed

\* A token that is not expired and is among the last MaxTokens that were used is
\* known: pruning takes only what expired or was used longest ago, even when older
\* tokens are used again between the issues (pruneTokens).
RecentTokenKept ==
    \A r \in recent :
        (Fresh(r) /\ Cardinality(UsedAfter(r, recent)) < MaxTokens) => Known(r.id)

=============================================================================
