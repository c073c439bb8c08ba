------------------------ MODULE RoomAdmission_proofs ------------------------
(***************************************************************************)
(* Theorems about RoomAdmission, for every set of clients, every limit of  *)
(* tokens, every lifetime and every bound.                                 *)
(*                                                                         *)
(* Inv carries what may be merged: tokens and current admissions are of    *)
(* the load that is open.  RegistryOk carries what is remembered: a token  *)
(* remembers a use of the epoch, and no two uses have one order.           *)
(***************************************************************************)
EXTENDS RoomAdmission, FiniteSetTheorems, TLAPS

USE LimitAssumption, MaxAssumption
    DEF Authorized, Bootstrap, Handles, Sync, PreAdmissionSync, LocaleRefuses, Merge

\* TypeOK without the bound of the tokens.
TypeInv ==
    /\ now \in Nat /\ room \in Room /\ content \subseteq Edit
    /\ epoch \in Nat /\ epochs \in Nat /\ issued \in Nat /\ accesses \in Nat
    /\ tokens \subseteq Token
    /\ recent \subseteq Use
    /\ perm \in [Clients -> {"edit", "view", "none"}]
    /\ conn \in [Clients -> Connection]
    /\ frame \in [Clients -> Frame]
    /\ client \in [Clients -> [doc : Nat, token : Nat]]
    /\ spent \in [Kinds -> Nat]

\* A room that is, or was, loaded has a load; content only while it is open.
RoomInv ==
    /\ room.stage # "none" => room.load # 0
    /\ room.stage \in {"none", "loading"} => content = {}

\* Tokens are of the epoch and of the load that is open.
TokensInv ==
    /\ epoch <= epochs
    /\ tokens # {} => epoch # 0 /\ room.stage \in {"open", "leaving"}
    /\ \A t \in tokens : t.epoch = epoch /\ t.load = room.load
    /\ \A t \in tokens : t.id # 0 /\ t.id <= issued

\* The admission of a connection is of the epoch of the room.
IsCurrent(c) ==
    /\ conn[c].adm \in {"issued", "accepted"}
    /\ epoch # 0 /\ conn[c].epoch = epoch

\* What a connection, its frame and its client have.
ClientInv(c) ==
    /\ conn[c].epoch <= epochs /\ client[c].token <= issued
    /\ conn[c].at \in {"off", "viewing", "editing"} => conn[c].adm = "none"
    /\ conn[c].adm = "pending" => conn[c].at = "opening" \/ conn[c].at = "closing"
    /\ conn[c].at \in {"viewing", "editing", "opening"} => conn[c].resume \in {0, client[c].token}
    /\ frame[c].kind = "none" <=> frame[c].step = "none"
    /\ frame[c].kind # "none" => conn[c].at \in {"open", "closing"}

\* The content of the client a token was acknowledged by is of its load.
SyncedInv(c) ==
    \A t \in tokens : t.synced /\ t.id = client[c].token => client[c].doc = t.load

\* No two clients have one token.
DistinctTokens ==
    \A c, d \in Clients :
        c # d => client[c].token = 0 \/ client[c].token # client[d].token

\* A connection whose admission is current is of this load, and so is the
\* content of its client once it is accepted.
CurrentInv(c) ==
    IsCurrent(c) =>
        /\ room.stage \in {"open", "leaving"}
        /\ conn[c].at \in {"open", "closing"} => conn[c].load = room.load
        /\ conn[c].adm = "accepted" => client[c].doc = room.load

\* A frame carries what its client had, unless that was nothing.
FrameInv(c) ==
    /\ frame[c].kind # "none" /\ frame[c].base # 0 => frame[c].base = client[c].doc
    /\ frame[c].kind # "none" /\ conn[c].adm = "accepted" => frame[c].base = client[c].doc
    /\ frame[c].step = "allowed" /\ conn[c].canEdit => frame[c].allowed

Inv ==
    /\ TypeInv /\ RoomInv /\ TokensInv /\ DistinctTokens
    /\ \A c \in Clients : ClientInv(c) /\ SyncedInv(c) /\ CurrentInv(c) /\ FrameInv(c)
    /\ EditsOfThisLoad /\ FrameWasAllowed


\* Pruning only removes.
LEMMA PruneSubset == ASSUME NEW ts PROVE Prune(ts) \subseteq ts
BY DEF Prune

\* The token found for a known id is a token with that id.
LEMMA TokenFound ==
    ASSUME NEW id, Known(id) PROVE TokenOf(id) \in tokens /\ TokenOf(id).id = id
BY DEF Known, TokenOf

\* What validate leaves are tokens that were there, but for the last use of one and
\* that it is synchronised.
LEMMA ValidatedTokens ==
    ASSUME TypeInv, NEW id \in Nat, NEW synced \in BOOLEAN, Validated(id, synced)
    PROVE  /\ tokens' \subseteq Token /\ recent' \subseteq Use
           /\ accesses' \in Nat
           /\ epoch' = epoch /\ epochs' = epochs /\ issued' = issued
           /\ \A t \in tokens' : \E u \in tokens :
                  /\ t.id = u.id /\ t.epoch = u.epoch /\ t.load = u.load
                  /\ t.synced => u.synced \/ (synced /\ t.id = id)
<1>1. CASE Validates(id)
  <2> DEFINE t == TokenOf(id)
             u == [Touched(t) EXCEPT !.synced = @ \/ synced]
  <2>1. t \in tokens /\ t.id = id
    BY <1>1, TokenFound DEF Validates
  <2>2. t \in Token
    BY <2>1 DEF TypeInv
  <2>3. /\ u \in Token /\ u.id = t.id /\ u.epoch = t.epoch /\ u.load = t.load
        /\ u.synced => t.synced \/ synced
    BY <2>2 DEF Touched, Token, TypeInv
  <2>4. tokens' = (Prune(tokens) \ {t}) \cup {u}
    BY <1>1 DEF Validated
  <2>5. /\ recent' = {r \in recent : r.id # id}
                        \cup {[id |-> id, used |-> now, order |-> accesses]}
        /\ accesses' = accesses + 1
    BY <1>1 DEF Validated
  <2>7. [id |-> id, used |-> now, order |-> accesses] \in Use
    BY DEF Use, TypeInv
  <2> HIDE DEF t, u
  <2>6. Prune(tokens) \subseteq tokens
    BY PruneSubset
  <2> QED
    BY <2>1, <2>2, <2>3, <2>4, <2>5, <2>6, <2>7 DEF Validated, TypeInv
<1>2. CASE ~ Validates(id)
  <2>1. Prune(tokens) \subseteq tokens
    BY PruneSubset
  <2> QED
    BY <1>2, <2>1 DEF Validated, TypeInv
<1> QED
  BY <1>1, <1>2

\* Issuing adds one token, of the epoch the room then has.
LEMMA IssuedTokens ==
    ASSUME TypeInv, NEW load \in Nat, IssueToken(load)
    PROVE  /\ tokens' \subseteq Token
           /\ tokens' \subseteq tokens \cup {NewToken(load)}
           /\ recent' \subseteq Use
           /\ epoch' \in Nat /\ epochs' \in Nat /\ issued' \in Nat /\ accesses' \in Nat
<1>1. NewToken(load) \in Token
  BY DEF NewToken, Token, TypeInv, NextEpoch
<1>2. /\ Prune(tokens) \subseteq tokens
      /\ Prune(Prune(tokens) \cup {NewToken(load)}) \subseteq
             Prune(tokens) \cup {NewToken(load)}
  BY PruneSubset
<1>3. [id |-> issued + 1, used |-> now, order |-> accesses] \in Use
  BY DEF Use, TypeInv
<1>4. tokens' = Issued(load)
  BY DEF IssueToken
<1>5. tokens' \subseteq tokens \cup {NewToken(load)}
  BY <1>2, <1>4 DEF Issued
<1>6. tokens' \subseteq Token
  BY <1>1, <1>5 DEF TypeInv
<1>7. recent' \subseteq Use
  BY <1>3 DEF IssueToken, TypeInv
<1>8. epoch' \in Nat /\ epochs' \in Nat /\ issued' \in Nat /\ accesses' \in Nat
  BY DEF IssueToken, TypeInv, NextEpoch, NextEpochs
<1> QED
  BY <1>5, <1>6, <1>7, <1>8

\* A process that starts has no rooms.
LEMMA InitInv == Init => Inv
BY DEF Init, Inv, TypeInv, RoomInv, TokensInv, DistinctTokens, ClientInv, SyncedInv,
       CurrentInv, FrameInv, EditsOfThisLoad, FrameWasAllowed, Room, Connection, Frame,
       Off, NoFrame, Token, Use, Edit, IsCurrent

\* A connection stays one whichever part of it changes.
LEMMA ConnectionTypes ==
    ASSUME NEW r \in Connection
    PROVE  /\ \A at \in {"off", "viewing", "editing", "opening", "open", "closing"} :
                 [r EXCEPT !.at = at] \in Connection
           /\ \A adm \in {"none", "pending", "issued", "accepted"} :
                 [r EXCEPT !.adm = adm] \in Connection
           /\ \A n \in Nat : [r EXCEPT !.epoch = n] \in Connection
           /\ \A n \in Nat : [r EXCEPT !.challenge = n] \in Connection
           /\ \A n \in Nat : [r EXCEPT !.resume = n] \in Connection
           /\ \A n \in Nat : [r EXCEPT !.load = n] \in Connection
           /\ \A b \in BOOLEAN : [r EXCEPT !.canEdit = b] \in Connection
<1>1. \A at \in {"off", "viewing", "editing", "opening", "open", "closing"} :
         [r EXCEPT !.at = at] \in Connection
  BY DEF Connection
<1>2. \A adm \in {"none", "pending", "issued", "accepted"} :
         [r EXCEPT !.adm = adm] \in Connection
  BY DEF Connection
<1>3. \A n \in Nat : [r EXCEPT !.epoch = n] \in Connection
  BY DEF Connection
<1>4. \A n \in Nat : [r EXCEPT !.challenge = n] \in Connection
  BY DEF Connection
<1>5. \A n \in Nat : [r EXCEPT !.resume = n] \in Connection
  BY DEF Connection
<1>6. \A n \in Nat : [r EXCEPT !.load = n] \in Connection
  BY DEF Connection
<1>7. \A b \in BOOLEAN : [r EXCEPT !.canEdit = b] \in Connection
  BY DEF Connection
<1> QED
  BY <1>1, <1>2, <1>3, <1>4, <1>5, <1>6, <1>7

\* So does a frame.
LEMMA FrameTypes ==
    ASSUME NEW f \in Frame
    PROVE  /\ \A step \in {"none", "asking", "allowed", "saving"} :
                 [f EXCEPT !.step = step] \in Frame
           /\ \A b \in BOOLEAN : [f EXCEPT !.allowed = b] \in Frame
<1>1. \A step \in {"none", "asking", "allowed", "saving"} : [f EXCEPT !.step = step] \in Frame
  BY DEF Frame
<1>2. \A b \in BOOLEAN : [f EXCEPT !.allowed = b] \in Frame
  BY DEF Frame
<1> QED
  BY <1>1, <1>2

\* The connections and frames of all clients stay ones when one of them changes.
LEMMA ContextTypes ==
    ASSUME TypeInv, NEW c \in Clients
    PROVE  /\ conn[c] \in Connection /\ frame[c] \in Frame
           /\ Off \in Connection /\ NoFrame \in Frame
           /\ \A r \in Connection : [conn EXCEPT ![c] = r] \in [Clients -> Connection]
           /\ \A f \in Frame : [frame EXCEPT ![c] = f] \in [Clients -> Frame]
           /\ Closed(c) \in [Clients -> Connection]
<1>1. conn[c] \in Connection /\ frame[c] \in Frame
  BY DEF TypeInv
<1>2. Off \in Connection /\ NoFrame \in Frame
  BY DEF Off, NoFrame, Connection, Frame
<1>3. \A r \in Connection : [conn EXCEPT ![c] = r] \in [Clients -> Connection]
  BY DEF TypeInv
<1>4. \A f \in Frame : [frame EXCEPT ![c] = f] \in [Clients -> Frame]
  BY DEF TypeInv
<1>5. conn[c].at \in {"off", "viewing", "editing", "opening", "open", "closing"}
  BY <1>1 DEF Connection
<1>6. [conn[c] EXCEPT !.at = IF conn[c].at = "open" THEN "closing" ELSE @] \in Connection
  BY <1>1, <1>5, ConnectionTypes
<1>7. Closed(c) \in [Clients -> Connection]
  BY <1>3, <1>6 DEF Closed
<1> QED
  BY <1>1, <1>2, <1>3, <1>4, <1>7

\* Events are counted.
LEMMA SpendType ==
    ASSUME TypeInv, NEW kind \in Kinds, Spend(kind) PROVE spent' \in [Kinds -> Nat]
BY DEF TypeInv, Spend

\* A fence closes connections and does nothing else.
LEMMA FenceType ==
    ASSUME TypeInv, NEW load, Fence(load)
    PROVE  room' \in Room /\ conn' \in [Clients -> Connection]
<1>1. room' \in Room
  BY DEF Fence, TypeInv, Room
<1>2. ASSUME NEW c \in Clients
      PROVE  [conn[c] EXCEPT !.at = "closing"] \in Connection /\ conn[c] \in Connection
  BY <1>2, ContextTypes, ConnectionTypes
<1> QED
  BY <1>1, <1>2 DEF Fence

\* Every step keeps the types.
LEMMA TypeStep == TypeInv /\ [Next]_vars => TypeInv'
<1> SUFFICES ASSUME TypeInv, [Next]_vars PROVE TypeInv'
  OBVIOUS
<1> USE DEF TypeInv, registry, sides
<1>0. "event" \in Kinds /\ "dial" \in Kinds /\ "frame" \in Kinds /\ "load" \in Kinds
  BY DEF Kinds
<1>1. CASE UNCHANGED vars
  BY <1>1 DEF vars
<1>2. CASE Tick
  BY <1>0, <1>2, SpendType DEF Tick
<1>3. CASE Restart
  BY <1>0, <1>3, SpendType DEF Restart, Retire, Room, Connection, Frame, Off, NoFrame
<1>4. CASE Loaded \/ BeginUnload
  BY <1>4 DEF Loaded, BeginUnload, Room
<1>5. CASE LoadFails
  <2>1. Off \in Connection
    BY DEF Off, Connection
  <2> QED
    BY <1>5, <2>1 DEF LoadFails, Retire, Room
<1>6. CASE Unloaded
  BY <1>6 DEF Unloaded, Retire, Room
<1>7. CASE Invalidated
  <2>1. room' \in Room /\ conn' \in [Clients -> Connection]
    <3>1. CASE room.stage = "loading"
      BY <1>7, <3>1, ZenonT(40) DEF Invalidated, Room
    <3>2. CASE room.stage # "loading"
      BY <1>7, <3>2, FenceType DEF Invalidated
    <3> QED
      BY <3>1, <3>2
  <2> QED
    BY <1>0, <1>7, <2>1, SpendType DEF Invalidated
<1>8. ASSUME NEW c \in Clients, NEW p \in {"edit", "view", "none"}, PermissionChanges(c, p)
      PROVE  TypeInv'
  BY <1>0, <1>8, SpendType DEF PermissionChanges
<1>9. ASSUME NEW c \in Clients, NEW resume \in {0, client[c].token}, Dial(c, resume)
      PROVE  TypeInv'
  <2>1. [Off EXCEPT !.at = "viewing", !.resume = resume] \in Connection
    <3>1. resume \in Nat
      BY <1>9
    <3>2. Off \in Connection
      BY ContextTypes
    <3>3. [Off EXCEPT !.at = "viewing"] \in Connection
      BY <3>2, ConnectionTypes
    <3> QED
      BY <3>1, <3>3, ConnectionTypes
  <2>2. conn' \in [Clients -> Connection]
    BY <1>9, <2>1, ContextTypes DEF Dial
  <2>3. client' \in [Clients -> [doc : Nat, token : Nat]]
    BY <1>9 DEF Dial
  <2> QED
    BY <1>0, <1>9, <2>2, <2>3, SpendType DEF Dial
<1>10. ASSUME NEW c \in Clients, ViewAnswered(c)
       PROVE  TypeInv'
  <2>1. conn' \in [Clients -> Connection]
    BY <1>10, ContextTypes, ConnectionTypes DEF ViewAnswered
  <2> QED
    BY <1>10, <2>1 DEF ViewAnswered
<1>11. ASSUME NEW c \in Clients, Disconnects(c)
       PROVE  TypeInv'
  <2>1. conn' \in [Clients -> Connection]
    BY <1>11, ContextTypes, ConnectionTypes DEF Disconnects
  <2> QED
    BY <1>0, <1>11, <2>1, SpendType DEF Disconnects
<1>12. ASSUME NEW c \in Clients, BeginLoad(c)
       PROVE  TypeInv'
  <2>1. room' \in Room
    <3>1. room.load + 1 \in Nat /\ room \in Room
      BY DEF Room
    <3>2. [room EXCEPT !.stage = "loading", !.load = room.load + 1] \in Room
      BY <3>1 DEF Room
    <3> QED
      BY <1>12, <3>2 DEF BeginLoad
  <2> QED
    BY <1>0, <1>12, <2>1, SpendType DEF BeginLoad
<1>13. ASSUME NEW c \in Clients, Left(c)
       PROVE  TypeInv'
  <2>1. conn' \in [Clients -> Connection]
    BY <1>13, ContextTypes DEF Left
  <2>2. room' \in Room
    BY <1>13 DEF Left, Room
  <2> QED
    BY <1>13, <2>1, <2>2 DEF Left
<1>14. ASSUME NEW c \in Clients, TakeBootstrap(c)
       PROVE  TypeInv'
  BY <1>14 DEF TakeBootstrap, Connection
<1>15. ASSUME NEW c \in Clients, EditAnswered(c)
       PROVE  TypeInv'
  <2> DEFINE context == [conn[c] EXCEPT !.at = "opening", !.canEdit = Authorized(c, "edit")]
             id == conn[c].resume
  <2>0. conn[c] \in Connection /\ (perm[c] = "edit") \in BOOLEAN
    BY ContextTypes
  <2>1. context \in Connection /\ id \in Nat
    <3>1. [conn[c] EXCEPT !.at = "opening"] \in Connection
      BY <2>0, ConnectionTypes
    <3>2. context \in Connection
      BY <2>0, <3>1, ConnectionTypes
    <3>3. id \in Nat
      BY <2>0 DEF Connection
    <3> QED
      BY <3>2, <3>3
  <2>2. NextEpoch \in Nat /\ NextEpochs \in Nat
    BY DEF NextEpoch, NextEpochs
  <2>3. /\ [context EXCEPT !.adm = "pending", !.epoch = NextEpoch] \in Connection
        /\ [context EXCEPT !.adm = "accepted", !.epoch = epoch, !.challenge = id]
              \in Connection
    <3>1. /\ [context EXCEPT !.adm = "pending"] \in Connection
          /\ [context EXCEPT !.adm = "accepted"] \in Connection
      BY <2>1, ConnectionTypes
    <3>2. /\ [context EXCEPT !.adm = "pending", !.epoch = NextEpoch] \in Connection
          /\ [context EXCEPT !.adm = "accepted", !.epoch = epoch] \in Connection
      BY <2>2, <3>1, ConnectionTypes
    <3> QED
      BY <2>1, <3>2, ConnectionTypes
  <2>4. CASE id = 0
    <3>1. conn' \in [Clients -> Connection]
      BY <1>15, <2>3, <2>4, ContextTypes, ZenonT(40) DEF EditAnswered
    <3>2. tokens' \subseteq Token
      BY <1>15, <2>4, PruneSubset DEF EditAnswered
    <3> QED
      BY <1>15, <2>2, <2>4, <3>1, <3>2 DEF EditAnswered
  <2>5. CASE id # 0
    <3>1. Validated(id, FALSE)
      BY <1>15, <2>5 DEF EditAnswered
    <3>2. /\ tokens' \subseteq Token /\ recent' \subseteq Use /\ accesses' \in Nat
          /\ epoch' = epoch /\ epochs' = epochs /\ issued' = issued
      BY <2>1, <3>1, ValidatedTokens
    <3>3. conn' \in [Clients -> Connection]
      BY <1>15, <2>3, <2>5, ContextTypes, ZenonT(40) DEF EditAnswered
    <3> QED
      BY <1>15, <3>2, <3>3 DEF EditAnswered
  <2> QED
    BY <2>4, <2>5
<1>16. ASSUME NEW c \in Clients, Connected(c)
       PROVE  TypeInv'
  <2>1. conn' \in [Clients -> Connection]
    <3>1. room.load \in Nat /\ NextEpoch \in Nat
      BY DEF Room, NextEpoch
    <3>2. /\ [conn[c] EXCEPT !.at = "open", !.load = room.load] \in Connection
          /\ [conn[c] EXCEPT !.at = "closing", !.load = room.load] \in Connection
          /\ [conn[c] EXCEPT !.at = "open", !.load = room.load, !.adm = "issued",
                             !.epoch = NextEpoch, !.challenge = issued + 1] \in Connection
      <4>1. conn[c] \in Connection /\ issued + 1 \in Nat
        BY ContextTypes
      <4>2. /\ [conn[c] EXCEPT !.at = "open"] \in Connection
            /\ [conn[c] EXCEPT !.at = "closing"] \in Connection
        BY <4>1, ConnectionTypes
      <4>3. /\ [conn[c] EXCEPT !.at = "open", !.load = room.load] \in Connection
            /\ [conn[c] EXCEPT !.at = "closing", !.load = room.load] \in Connection
        BY <3>1, <4>2, ConnectionTypes
      <4>4. [conn[c] EXCEPT !.at = "open", !.load = room.load, !.adm = "issued"] \in Connection
        BY <4>3, ConnectionTypes
      <4>5. [conn[c] EXCEPT !.at = "open", !.load = room.load, !.adm = "issued",
                            !.epoch = NextEpoch] \in Connection
        BY <3>1, <4>4, ConnectionTypes
      <4> QED
        BY <4>1, <4>3, <4>5, ConnectionTypes
    <3>3. \/ conn' = [conn EXCEPT ![c] =
                        [conn[c] EXCEPT !.at = "open", !.load = room.load]]
          \/ conn' = [conn EXCEPT ![c] =
                        [conn[c] EXCEPT !.at = "closing", !.load = room.load]]
          \/ conn' = [conn EXCEPT ![c] =
                        [conn[c] EXCEPT !.at = "open", !.load = room.load, !.adm = "issued",
                                        !.epoch = NextEpoch, !.challenge = issued + 1]]
      BY <1>16 DEF Connected
    <3> QED
      BY <3>2, <3>3, ContextTypes
  <2>2. CASE IssueToken(room.load) /\ client' = [client EXCEPT ![c].token = issued + 1]
    <3>1. room.load \in Nat
      BY DEF Room
    <3>2. /\ tokens' \subseteq Token /\ recent' \subseteq Use
          /\ epoch' \in Nat /\ epochs' \in Nat /\ issued' \in Nat /\ accesses' \in Nat
      BY <2>2, <3>1, IssuedTokens
    <3>3. client' \in [Clients -> [doc : Nat, token : Nat]]
      BY <2>2
    <3> QED
      BY <1>16, <2>1, <3>2, <3>3 DEF Connected
  <2>3. CASE UNCHANGED <<registry, client>>
    BY <1>16, <2>1, <2>3 DEF Connected
  <2> QED
    BY <1>16, <2>2, <2>3 DEF Connected
<1>17. ASSUME NEW c \in Clients, NEW kind \in {"update", "metadata", "ack", "snapshot"},
              FrameArrives(c, kind)
       PROVE  TypeInv'
  <2>1. [kind |-> kind, step |-> "asking", base |-> client[c].doc, allowed |-> FALSE] \in Frame
    BY DEF Frame
  <2> QED
    BY <1>0, <1>17, <2>1, ContextTypes, SpendType DEF FrameArrives
<1>18. ASSUME NEW c \in Clients, FrameAuthorized(c)
       PROVE  TypeInv'
  <2>1. [frame[c] EXCEPT !.step = "allowed", !.allowed = perm[c] = "edit"] \in Frame
    <3>1. frame[c] \in Frame /\ (perm[c] = "edit") \in BOOLEAN
      BY ContextTypes
    <3>2. [frame[c] EXCEPT !.step = "allowed"] \in Frame
      BY <3>1, FrameTypes
    <3> QED
      BY <3>1, <3>2, FrameTypes
  <2> QED
    BY <1>18, <2>1, ContextTypes DEF FrameAuthorized
<1>19. ASSUME NEW c \in Clients, FrameDenied(c) \/ HandleSnapshot(c)
       PROVE  TypeInv'
  <2>1. conn' \in {conn, Closed(c)} /\ frame' = [frame EXCEPT ![c] = NoFrame]
    BY <1>19 DEF FrameDenied, HandleSnapshot, FrameDone
  <2>2. conn' \in [Clients -> Connection] /\ frame' \in [Clients -> Frame]
    BY <2>1, ContextTypes
  <2> QED
    BY <1>19, <2>2 DEF FrameDenied, HandleSnapshot
<1>20. ASSUME NEW c \in Clients, HandleMetadata(c) \/ InvalidMetadata(c) \/ MetadataAnswered(c)
       PROVE  TypeInv'
  <2>1. [frame[c] EXCEPT !.step = "saving"] \in Frame
    BY FrameTypes, ContextTypes
  <2>2. conn' \in [Clients -> Connection] /\ frame' \in [Clients -> Frame]
    <3>1. conn' = conn \/ conn' = Closed(c)
      BY <1>20 DEF HandleMetadata, InvalidMetadata, MetadataAnswered
    <3>2. \/ frame' = [frame EXCEPT ![c] = NoFrame]
          \/ frame' = [frame EXCEPT ![c] = [frame[c] EXCEPT !.step = "saving"]]
      BY <1>20 DEF HandleMetadata, InvalidMetadata, MetadataAnswered, FrameDone
    <3>3. conn' \in [Clients -> Connection]
      BY <3>1, ContextTypes
    <3>4. frame' \in [Clients -> Frame]
      BY <2>1, <3>2, ContextTypes
    <3> QED
      BY <3>3, <3>4
  <2> QED
    BY <1>20, <2>2 DEF HandleMetadata, InvalidMetadata, MetadataAnswered
<1>21. ASSUME NEW c \in Clients, HandleAck(c)
       PROVE  TypeInv'
  <2>1. PICK synced \in BOOLEAN : Validated(client[c].token, synced)
    BY <1>21 DEF HandleAck
  <2>2. /\ tokens' \subseteq Token /\ recent' \subseteq Use /\ accesses' \in Nat
        /\ epoch' = epoch /\ epochs' = epochs /\ issued' = issued
    <3>1. client[c].token \in Nat
      OBVIOUS
    <3> QED
      BY <2>1, <3>1, ValidatedTokens
  <2>3. [conn[c] EXCEPT !.adm = "accepted"] \in Connection
    BY ConnectionTypes, ContextTypes
  <2>4. conn' \in [Clients -> Connection] /\ frame' \in [Clients -> Frame]
    BY <1>21, <2>3, ContextTypes DEF HandleAck, FrameDone
  <2> QED
    BY <1>21, <2>2, <2>4 DEF HandleAck
<1>22. ASSUME NEW c \in Clients, HandleUpdate(c)
       PROVE  TypeInv'
  <2>1. [base |-> frame[c].base, load |-> conn[c].load, allowed |-> frame[c].allowed] \in Edit
    BY DEF Edit, Frame, Connection
  <2>2. conn' \in [Clients -> Connection] /\ frame' \in [Clients -> Frame]
    BY <1>22, ContextTypes DEF HandleUpdate, FrameDone
  <2> QED
    BY <1>22, <2>1, <2>2 DEF HandleUpdate
<1>23. ASSUME NEW c \in Clients, MetadataConflicts(c)
       PROVE  TypeInv'
  <2>1. room' \in Room /\ conn' \in [Clients -> Connection]
    BY <1>23, FenceType DEF MetadataConflicts
  <2>2. frame' \in [Clients -> Frame]
    BY <1>23, ContextTypes DEF MetadataConflicts, FrameDone
  <2> QED
    BY <1>0, <1>23, <2>1, <2>2, SpendType DEF MetadataConflicts
<1> QED
  BY <1>1, <1>2, <1>3, <1>4, <1>5, <1>6, <1>7, <1>8, <1>9, <1>10, <1>11, <1>12, <1>13,
     <1>14, <1>15, <1>16, <1>17, <1>18, <1>19, <1>20, <1>21, <1>22, <1>23 DEF Next

\* What a step has to keep besides the types.
ClientLinked(c) == ClientInv(c) /\ SyncedInv(c) /\ CurrentInv(c) /\ FrameInv(c)
RoomLinked == RoomInv /\ TokensInv /\ EditsOfThisLoad /\ FrameWasAllowed
Linked == RoomLinked /\ DistinctTokens /\ \A c \in Clients : ClientLinked(c)

\* The room of a current admission stays what it is.
RoomKept ==
    /\ room.stage \in {"open", "leaving"} /\ epoch' # 0 =>
           room'.stage \in {"open", "leaving"} /\ room'.load = room.load
    /\ epoch' \in {0, epoch} \/ (epoch = 0 /\ epoch' > epochs)
    /\ epochs' >= epochs /\ issued' >= issued

\* A token that stays is not changed, but for its last use and, unless it is the token
\* of d, that it is synchronised.
TokensKept(d) ==
    \A t \in tokens' :
        t.synced /\ t.id = client[d].token =>
            \E u \in tokens : u.synced /\ u.id = t.id /\ u.load = t.load

\* The connection of d is at most closed, and its frame at most carried on or done.
ConnectionKept(d) ==
    /\ conn'[d] = conn[d]
       \/ (conn[d].at = "open" /\ conn'[d] = [conn[d] EXCEPT !.at = "closing"])
    /\ \/ frame'[d] = frame[d] \/ frame'[d] = NoFrame
       \/ (frame[d].step = "allowed" /\ frame'[d] = [frame[d] EXCEPT !.step = "saving"])
    /\ client'[d] = client[d]

\* Whoever keeps all this stays linked.
LEMMA KeptLinked ==
    ASSUME TypeInv, TypeInv', NEW d \in Clients, ClientLinked(d),
           RoomKept, TokensKept(d), ConnectionKept(d)
    PROVE  ClientLinked(d)'
<1> DEFINE r == conn[d]
           s == conn'[d]
           f == frame[d]
           g == frame'[d]
<1>1. /\ s.adm = r.adm /\ s.epoch = r.epoch /\ s.resume = r.resume /\ s.load = r.load
      /\ s.canEdit = r.canEdit
      /\ s.at = r.at \/ (r.at = "open" /\ s.at = "closing")
  BY DEF ConnectionKept, TypeInv, Connection
<1>2. \/ g.kind = f.kind /\ g.base = f.base /\ g.allowed = f.allowed /\ g.step = f.step
      \/ g.kind = "none" /\ g.step = "none"
      \/ /\ g.kind = f.kind /\ g.base = f.base /\ g.allowed = f.allowed
         /\ f.step = "allowed" /\ g.step = "saving"
  BY DEF ConnectionKept, TypeInv, Frame, NoFrame
<1>3. client'[d] = client[d]
  BY DEF ConnectionKept
<1>4. r.epoch \in Nat /\ epoch \in Nat /\ epochs \in Nat /\ issued \in Nat
      /\ client[d].token \in Nat /\ s.epoch \in Nat
  BY <1>1 DEF TypeInv, Connection
<1>5. ClientInv(d)'
  <2>1. r.epoch <= epochs' /\ client[d].token <= issued'
    BY <1>4 DEF RoomKept, ClientLinked, ClientInv, TypeInv
  <2> QED
    BY <1>1, <1>2, <1>3, <2>1 DEF ClientLinked, ClientInv
<1>6. SyncedInv(d)'
  BY <1>3 DEF TokensKept, ClientLinked, SyncedInv
<1>7. CurrentInv(d)'
  <2> SUFFICES ASSUME IsCurrent(d)' PROVE CurrentInv(d)'
    BY DEF CurrentInv
  <2>1. epoch' = epoch /\ IsCurrent(d)
    BY <1>1, <1>4 DEF RoomKept, IsCurrent, ClientLinked, ClientInv
  <2>2. room.stage \in {"open", "leaving"}
    BY <2>1 DEF ClientLinked, CurrentInv
  <2>3. room'.stage \in {"open", "leaving"} /\ room'.load = room.load
    BY <2>1, <2>2 DEF RoomKept, IsCurrent
  <2> QED
    BY <1>1, <1>3, <2>1, <2>3 DEF ClientLinked, CurrentInv
<1>8. FrameInv(d)'
  BY <1>1, <1>2, <1>3 DEF ClientLinked, FrameInv
<1> QED
  BY <1>5, <1>6, <1>7, <1>8 DEF ClientLinked

\* A client without a connection is linked by its token alone.
LEMMA OffLinked ==
    ASSUME TypeInv, TypeInv', NEW d \in Clients, ClientLinked(d), RoomKept,
           TokensKept(d), conn'[d] = Off, frame'[d] = NoFrame, client'[d] = client[d]
    PROVE  ClientLinked(d)'
<1>1. epochs' >= 0 /\ client[d].token <= issued'
  BY DEF TypeInv, RoomKept, ClientLinked, ClientInv
<1>2. ClientInv(d)'
  BY <1>1 DEF ClientInv, Off, NoFrame
<1>3. SyncedInv(d)'
  BY DEF TokensKept, ClientLinked, SyncedInv
<1>4. CurrentInv(d)' /\ FrameInv(d)'
  BY DEF CurrentInv, FrameInv, IsCurrent, Off, NoFrame
<1> QED
  BY <1>2, <1>3, <1>4 DEF ClientLinked

\* What keeps the room and its registry keeps the links of both.
LEMMA SameRoom ==
    ASSUME TypeInv, UNCHANGED <<room, registry>>
    PROVE  RoomKept /\ \A d \in Clients : TokensKept(d)
BY DEF RoomKept, TokensKept, registry, TypeInv

\* Nothing about the room changes, but perhaps that it is fenced or left.
LEMMA SameRoomLinked ==
    ASSUME TypeInv, RoomLinked, UNCHANGED <<registry, content>>,
           room'.stage = room.stage /\ room'.load = room.load
    PROVE  RoomLinked'
BY DEF RoomLinked, RoomInv, TokensInv, EditsOfThisLoad, FrameWasAllowed, registry

\* A fence keeps the connections.
LEMMA FenceKept ==
    ASSUME TypeInv, NEW load, Fence(load), NEW d \in Clients
    PROVE  /\ room'.stage = room.stage /\ room'.load = room.load
           /\ conn'[d] = conn[d]
              \/ (conn[d].at = "open" /\ conn'[d] = [conn[d] EXCEPT !.at = "closing"])
BY DEF Fence, TypeInv, Room

\* A closed connection is one that is kept.
LEMMA ClosedKept ==
    ASSUME TypeInv, NEW c \in Clients, NEW d \in Clients
    PROVE  \/ Closed(c)[d] = conn[d]
           \/ conn[d].at = "open" /\ Closed(c)[d] = [conn[d] EXCEPT !.at = "closing"]
<1>1. conn[d].at # "open" => [conn[d] EXCEPT !.at = conn[d].at] = conn[d]
  BY DEF TypeInv, Connection
<1>2. CASE c = d /\ conn[d].at = "open"
  BY <1>2 DEF Closed, TypeInv
<1>3. CASE c = d /\ conn[d].at # "open"
  BY <1>1, <1>3 DEF Closed, TypeInv
<1>4. CASE c # d
  BY <1>4 DEF Closed, TypeInv
<1> QED
  BY <1>2, <1>3, <1>4

\* Authentication and the connection: what changes about c alone.
LEMMA DialStep ==
    ASSUME TypeInv, TypeInv', Linked, NEW c \in Clients,
           NEW resume \in {0, client[c].token}, Dial(c, resume)
    PROVE  Linked'
<1>1. UNCHANGED <<room, content, registry>> /\ frame' = frame /\ conn[c].at = "off"
      /\ frame[c] = NoFrame
  BY DEF Dial
<1>2. RoomLinked'
  BY <1>1, SameRoomLinked DEF Linked
<1>3. RoomKept /\ \A d \in Clients : TokensKept(d)
  BY <1>1, SameRoom
<1>4. \A d \in Clients : d # c => conn'[d] = conn[d] /\ client'[d] = client[d]
  BY DEF Dial, TypeInv
<1>5. client'[c] = client[c] \/ client'[c] = [doc |-> 0, token |-> 0]
  BY DEF Dial, TypeInv
<1>6. client'[c].token \in {0, client[c].token} /\ resume \in {0, client'[c].token}
  BY <1>5 DEF Dial, TypeInv
<1>7. DistinctTokens'
  BY <1>4, <1>6 DEF DistinctTokens, Linked
<1>8. ASSUME NEW d \in Clients, d # c PROVE ClientLinked(d)'
  BY <1>1, <1>3, <1>4, <1>8, KeptLinked DEF Linked, ConnectionKept
<1>9. ClientLinked(c)'
  <2>1. conn'[c] = [Off EXCEPT !.at = "viewing", !.resume = resume]
    BY DEF Dial, TypeInv
  <2>2. /\ conn'[c].at = "viewing" /\ conn'[c].adm = "none" /\ conn'[c].epoch = 0
        /\ conn'[c].resume = resume
    BY <2>1 DEF Off
  <2>3. client'[c].token <= issued'
    BY <1>1, <1>6 DEF Linked, ClientLinked, ClientInv, TypeInv, registry
  <2>4. ClientInv(c)'
    BY <1>1, <1>6, <2>2, <2>3 DEF ClientInv, NoFrame, TypeInv
  <2>5. SyncedInv(c)'
    <3>1. CASE client'[c] = client[c]
      BY <1>1, <3>1 DEF SyncedInv, Linked, ClientLinked, registry
    <3>2. CASE client'[c] = [doc |-> 0, token |-> 0]
      BY <1>1, <3>2 DEF SyncedInv, Linked, RoomLinked, TokensInv, registry
    <3> QED
      BY <1>5, <3>1, <3>2
  <2>6. CurrentInv(c)' /\ FrameInv(c)'
    BY <1>1, <2>2 DEF CurrentInv, IsCurrent, FrameInv, NoFrame
  <2> QED
    BY <2>4, <2>5, <2>6 DEF ClientLinked
<1> QED
  BY <1>2, <1>7, <1>8, <1>9 DEF Linked

\* The answer about VIEW.
LEMMA ViewStep ==
    ASSUME TypeInv, TypeInv', Linked, NEW c \in Clients, ViewAnswered(c)
    PROVE  Linked'
<1>1. UNCHANGED <<room, content, registry>> /\ frame' = frame /\ client' = client
      /\ conn[c].at = "viewing"
  BY DEF ViewAnswered
<1>2. RoomLinked' /\ DistinctTokens'
  BY <1>1, SameRoomLinked DEF Linked, DistinctTokens
<1>3. RoomKept /\ \A d \in Clients : TokensKept(d)
  BY <1>1, SameRoom
<1>4. \A d \in Clients : d # c => conn'[d] = conn[d]
  BY DEF ViewAnswered, TypeInv
<1>5. ASSUME NEW d \in Clients, d # c PROVE ClientLinked(d)'
  BY <1>1, <1>3, <1>4, <1>5, KeptLinked DEF Linked, ConnectionKept
<1>6. frame[c].kind = "none" /\ frame[c].step = "none"
  BY <1>1 DEF Linked, ClientLinked, ClientInv
<1>7. \/ conn'[c] = Off
      \/ conn'[c] = [conn[c] EXCEPT !.at = "editing"]
  BY DEF ViewAnswered, TypeInv
<1>8. /\ conn'[c].at \in {"off", "editing"} /\ conn'[c].adm = "none"
      /\ conn'[c].epoch \in {0, conn[c].epoch}
      /\ conn'[c].at = "editing" => conn'[c].resume = conn[c].resume
  BY <1>1, <1>7 DEF Off, TypeInv, Connection, Linked, ClientLinked, ClientInv
<1>9. ClientInv(c)'
  BY <1>1, <1>6, <1>8 DEF Linked, ClientLinked, ClientInv, TypeInv, registry
<1>10. SyncedInv(c)' /\ CurrentInv(c)' /\ FrameInv(c)'
  BY <1>1, <1>6, <1>8 DEF Linked, ClientLinked, SyncedInv, CurrentInv, FrameInv, IsCurrent,
                          registry
<1> QED
  BY <1>2, <1>5, <1>9, <1>10 DEF Linked, ClientLinked

\* The end of a connection.
LEMMA DisconnectStep ==
    ASSUME TypeInv, TypeInv', Linked, NEW c \in Clients, Disconnects(c) \/ Left(c)
    PROVE  Linked'
<1>1. /\ UNCHANGED <<content, registry>> /\ frame' = frame /\ client' = client
      /\ room'.stage = room.stage /\ room'.load = room.load
  BY DEF Disconnects, Left, TypeInv, Room
<1>2. RoomLinked' /\ DistinctTokens'
  BY <1>1, SameRoomLinked DEF Linked, DistinctTokens
<1>3. RoomKept /\ \A d \in Clients : TokensKept(d)
  BY <1>1 DEF RoomKept, TokensKept, registry, TypeInv
<1>4. \A d \in Clients : d # c => conn'[d] = conn[d]
  BY DEF Disconnects, Left, TypeInv
<1>5. \/ conn[c].at = "open" /\ conn'[c] = [conn[c] EXCEPT !.at = "closing"]
      \/ conn'[c] = Off /\ frame[c].kind = "none" /\ frame[c].step = "none"
  BY DEF Disconnects, Left, TypeInv, Linked, ClientLinked, ClientInv, NoFrame
<1>6. frame[c].kind = "none" => frame[c].step = "none"
  BY DEF Linked, ClientLinked, ClientInv
<1>7. ASSUME NEW d \in Clients, d # c PROVE ClientLinked(d)'
  BY <1>1, <1>3, <1>4, <1>7, KeptLinked DEF Linked, ConnectionKept
<1>8. ClientLinked(c)'
  <2>1. CASE conn[c].at = "open" /\ conn'[c] = [conn[c] EXCEPT !.at = "closing"]
    BY <1>1, <1>3, <2>1, KeptLinked DEF Linked, ConnectionKept
  <2>2. CASE conn'[c] = Off /\ frame[c].kind = "none" /\ frame[c].step = "none"
    BY <1>1, <2>2 DEF Linked, ClientLinked, ClientInv, SyncedInv, CurrentInv, FrameInv,
                      IsCurrent, Off, TypeInv, registry
  <2> QED
    BY <1>5, <2>1, <2>2
<1> QED
  BY <1>2, <1>7, <1>8 DEF Linked

\* A resumed admission is current, and its client has the content of this load.
LEMMA EditStep ==
    ASSUME TypeInv, TypeInv', Linked, NEW c \in Clients, EditAnswered(c)
    PROVE  Linked'
<1> DEFINE id == conn[c].resume
<1>1. /\ UNCHANGED <<room, content>> /\ frame' = frame /\ client' = client
      /\ conn[c].at = "editing"
  BY DEF EditAnswered
<1>2. id \in Nat /\ id \in {0, client[c].token} /\ conn[c] \in Connection
  BY <1>1 DEF Linked, ClientLinked, ClientInv, TypeInv, Connection
<1>3. DistinctTokens'
  BY <1>1 DEF Linked, DistinctTokens
<1>4. \A d \in Clients : d # c => conn'[d] = conn[d]
  BY DEF EditAnswered, TypeInv
<1>5. frame[c].kind = "none" /\ frame[c].step = "none"
  BY <1>1 DEF Linked, ClientLinked, ClientInv
<1>6. CASE id = 0
  <2>1. /\ tokens' = Prune(tokens) /\ epoch' = NextEpoch /\ epochs' = NextEpochs
        /\ issued' = issued
    BY <1>6 DEF EditAnswered
  <2>2. tokens' \subseteq tokens
    BY <2>1, PruneSubset
  <2>3. /\ epochs' \in Nat /\ epochs' >= epochs /\ epoch' <= epochs' /\ epoch' # 0
        /\ epoch' = epoch \/ (epoch = 0 /\ epoch' > epochs)
    BY <2>1 DEF NextEpoch, NextEpochs, TypeInv, Linked, RoomLinked, TokensInv
  <2>4. RoomLinked'
    BY <1>1, <2>1, <2>2, <2>3 DEF Linked, RoomLinked, RoomInv, TokensInv, EditsOfThisLoad,
                                  FrameWasAllowed, TypeInv
  <2>5. RoomKept /\ \A d \in Clients : TokensKept(d)
    BY <1>1, <2>1, <2>2, <2>3 DEF RoomKept, TokensKept, TypeInv
  <2>6. ASSUME NEW d \in Clients, d # c PROVE ClientLinked(d)'
    BY <1>1, <1>4, <2>5, <2>6, KeptLinked DEF Linked, ConnectionKept
  <2>7. /\ conn'[c].at = "opening" /\ conn'[c].adm = "pending" /\ conn'[c].resume = id
        /\ conn'[c].epoch = epoch'
    <3> DEFINE q == [conn[c] EXCEPT !.at = "opening", !.canEdit = Authorized(c, "edit")]
    <3>1. q.at = "opening" /\ q.resume = id /\ q = [q EXCEPT !.at = "opening"]
      BY <1>2 DEF Connection
    <3>2. conn' = [conn EXCEPT ![c] = [q EXCEPT !.adm = "pending", !.epoch = NextEpoch]]
      BY <1>6 DEF EditAnswered
    <3>3. q \in Connection
      BY <1>2, ConnectionTypes
    <3>4. conn'[c] = [q EXCEPT !.adm = "pending", !.epoch = NextEpoch]
      BY <3>2 DEF TypeInv
    <3> HIDE DEF q
    <3> QED
      BY <2>1, <3>1, <3>3, <3>4 DEF Connection
  <2>8. ClientInv(c)'
    BY <1>1, <1>2, <1>5, <2>1, <2>3, <2>7 DEF Linked, ClientLinked, ClientInv
  <2>9. SyncedInv(c)' /\ CurrentInv(c)' /\ FrameInv(c)'
    BY <1>1, <1>5, <2>2, <2>7 DEF Linked, ClientLinked, SyncedInv, CurrentInv, FrameInv,
                                  IsCurrent
  <2> QED
    BY <1>3, <2>4, <2>6, <2>8, <2>9 DEF Linked, ClientLinked
<1>7. CASE id # 0
  <2>1. Validated(id, FALSE) /\ id = client[c].token
    BY <1>2, <1>7 DEF EditAnswered
  <2>2. /\ epoch' = epoch /\ epochs' = epochs /\ issued' = issued
        /\ \A t \in tokens' : \E u \in tokens :
              /\ t.id = u.id /\ t.epoch = u.epoch /\ t.load = u.load
              /\ t.synced => u.synced
    <3> DEFINE Was(b, t) == \E u \in tokens :
                               /\ t.id = u.id /\ t.epoch = u.epoch /\ t.load = u.load
                               /\ t.synced => u.synced \/ (b /\ t.id = id)
    <3>1. /\ epoch' = epoch /\ epochs' = epochs /\ issued' = issued
          /\ \A t \in tokens' : Was(FALSE, t)
      <4>1. FALSE \in BOOLEAN
        OBVIOUS
      <4> QED
        BY <1>2, <2>1, <4>1, ValidatedTokens
    <3> QED
      BY <3>1
  <2>3. RoomLinked'
    <3>1. TokensInv'
      BY <1>1, <2>2 DEF Linked, RoomLinked, TokensInv
    <3> QED
      BY <1>1, <3>1 DEF Linked, RoomLinked, RoomInv, EditsOfThisLoad, FrameWasAllowed
  <2>4. RoomKept /\ \A d \in Clients : TokensKept(d)
    BY <1>1, <2>2 DEF RoomKept, TokensKept, TypeInv
  <2>5. ASSUME NEW d \in Clients, d # c PROVE ClientLinked(d)'
    BY <1>1, <1>4, <2>4, <2>5, KeptLinked DEF Linked, ConnectionKept
  <2>6. CASE Resumes(id)
    <3>1. TokenOf(id) \in tokens /\ TokenOf(id).id = client[c].token /\ TokenOf(id).synced
          /\ epoch # 0
      BY <2>1, <2>6, TokenFound DEF Resumes, Validates
    <3>2. client[c].doc = room.load /\ room.stage \in {"open", "leaving"}
      BY <3>1 DEF Linked, ClientLinked, SyncedInv, RoomLinked, TokensInv
    <3>3. /\ conn'[c].at = "opening" /\ conn'[c].adm = "accepted" /\ conn'[c].resume = id
          /\ conn'[c].epoch = epoch
      <4> DEFINE q == [conn[c] EXCEPT !.at = "opening", !.canEdit = Authorized(c, "edit")]
      <4>1. q.at = "opening" /\ q.resume = id
        BY <1>2 DEF Connection
      <4>2. conn' = [conn EXCEPT ![c] = [q EXCEPT !.adm = "accepted", !.epoch = epoch,
                                                  !.challenge = id]]
        BY <1>7, <2>6 DEF EditAnswered
      <4>3. q \in Connection
        BY <1>2, ConnectionTypes
      <4>4. conn'[c] = [q EXCEPT !.adm = "accepted", !.epoch = epoch, !.challenge = id]
        BY <4>2 DEF TypeInv
      <4> HIDE DEF q
      <4> QED
        BY <4>1, <4>3, <4>4 DEF Connection
    <3>4. ClientInv(c)'
      BY <1>1, <1>2, <1>5, <2>2, <3>3 DEF Linked, ClientLinked, ClientInv, RoomLinked, TokensInv
    <3>5. SyncedInv(c)'
      BY <1>1, <2>4 DEF Linked, ClientLinked, SyncedInv, TokensKept
    <3>6. CurrentInv(c)' /\ FrameInv(c)'
      BY <1>1, <1>5, <2>2, <3>2, <3>3 DEF CurrentInv, FrameInv, IsCurrent
    <3> QED
      BY <1>3, <2>3, <2>5, <3>4, <3>5, <3>6 DEF Linked, ClientLinked
  <2>7. CASE ~ Resumes(id)
    <3>1. conn'[c] = Off
      BY <1>7, <2>7 DEF EditAnswered, TypeInv
    <3>2. ClientInv(c)'
      BY <1>1, <1>5, <2>2, <3>1 DEF Linked, ClientLinked, ClientInv, Off, TypeInv
    <3>3. SyncedInv(c)'
      BY <1>1, <2>4 DEF Linked, ClientLinked, SyncedInv, TokensKept
    <3>4. CurrentInv(c)' /\ FrameInv(c)'
      BY <1>1, <1>5, <3>1 DEF CurrentInv, FrameInv, IsCurrent, Off
    <3> QED
      BY <1>3, <2>3, <2>5, <3>2, <3>3, <3>4 DEF Linked, ClientLinked
  <2> QED
    BY <2>6, <2>7
<1> QED
  BY <1>6, <1>7

\* The token of a bootstrap is new, so that it is nobody else's.
LEMMA ConnectedStep ==
    ASSUME TypeInv, TypeInv', Linked, NEW c \in Clients, Connected(c)
    PROVE  Linked'
<1>1. /\ UNCHANGED <<room, content>> /\ frame' = frame
      /\ conn[c].at = "opening" /\ room.stage = "open"
  BY DEF Connected
<1>2. conn[c] \in Connection /\ room.load \in Nat
  BY DEF TypeInv, Room
<1>3. \A d \in Clients : d # c => conn'[d] = conn[d]
  BY DEF Connected, TypeInv
<1>4. frame[c].kind = "none" /\ frame[c].step = "none"
  BY <1>1 DEF Linked, ClientLinked, ClientInv
<1>5. CASE UNCHANGED <<registry, client>> /\ (room.fenced \/ conn[c].adm = "accepted")
  <2>1. RoomLinked' /\ DistinctTokens'
    BY <1>1, <1>5, SameRoomLinked DEF Linked, DistinctTokens
  <2>2. RoomKept /\ \A d \in Clients : TokensKept(d)
    BY <1>1, <1>5, SameRoom
  <2>3. ASSUME NEW d \in Clients, d # c PROVE ClientLinked(d)'
    BY <1>1, <1>3, <1>5, <2>2, <2>3, KeptLinked DEF Linked, ConnectionKept
  <2>4. /\ conn'[c].at \in {"open", "closing"} /\ conn'[c].load = room.load
        /\ conn'[c].adm = conn[c].adm /\ conn'[c].epoch = conn[c].epoch
        /\ conn'[c].adm = "pending" => conn'[c].at = "closing"
    <3>1. \/ /\ conn'[c] = [conn[c] EXCEPT !.at = "open", !.load = room.load]
             /\ conn[c].adm = "accepted"
          \/ conn'[c] = [conn[c] EXCEPT !.at = "closing", !.load = room.load]
      <4>1. \/ /\ conn' = [conn EXCEPT ![c].at = "open", ![c].load = room.load]
               /\ conn[c].adm = "accepted"
            \/ conn' = [conn EXCEPT ![c].at = "closing", ![c].load = room.load]
        BY <1>5 DEF Connected
      <4> QED
        BY <4>1 DEF TypeInv
    <3> QED
      BY <1>2, <3>1 DEF Connection
  <2>5. ClientLinked(c)'
    BY <1>1, <1>2, <1>4, <1>5, <2>4 DEF Linked, ClientLinked, ClientInv, SyncedInv,
         CurrentInv, FrameInv, IsCurrent, TypeInv, registry
  <2> QED
    BY <2>1, <2>3, <2>5 DEF Linked
<1>6. CASE ~ room.fenced /\ conn[c].adm = "pending"
  <2>1. IssueToken(room.load)
    BY <1>6 DEF Connected
  <2>2. /\ tokens' \subseteq tokens \cup {NewToken(room.load)}
        /\ epoch' = NextEpoch /\ epochs' = NextEpochs /\ issued' = issued + 1
    BY <1>2, <2>1, IssuedTokens DEF IssueToken
  <2>3. /\ epochs' \in Nat /\ epochs' >= epochs /\ epoch' <= epochs' /\ epoch' # 0
        /\ epoch' = epoch \/ (epoch = 0 /\ epoch' > epochs /\ tokens = {})
        /\ issued' >= issued /\ issued' <= issued'
        /\ issued' > issued /\ issued' # 0 /\ issued \in Nat /\ issued' \in Nat
    BY <2>2 DEF NextEpoch, NextEpochs, TypeInv, Linked, RoomLinked, TokensInv
  <2>4. /\ NewToken(room.load).id = issued' /\ NewToken(room.load).epoch = epoch'
        /\ NewToken(room.load).load = room.load /\ ~ NewToken(room.load).synced
    BY <2>2 DEF NewToken
  <2>5. \A t \in tokens' : t \in tokens \/ t = NewToken(room.load)
    BY <2>2
  <2>6. RoomLinked'
    <3>1. \A t \in tokens' : /\ t.epoch = epoch' /\ t.load = room'.load
                             /\ t.id # 0 /\ t.id <= issued'
      <4>1. ASSUME NEW t \in tokens
            PROVE  t.epoch = epoch' /\ t.load = room'.load /\ t.id # 0 /\ t.id <= issued'
        <5>1. t.id \in Nat /\ t.id <= issued /\ t.id # 0 /\ t.load = room.load /\ t.epoch = epoch
          BY DEF TypeInv, Token, Linked, RoomLinked, TokensInv
        <5> QED
          BY <1>1, <2>2, <2>3, <5>1
      <4> QED
        BY <1>1, <2>3, <2>4, <2>5, <4>1
    <3>2. TokensInv'
      BY <1>1, <2>3, <3>1 DEF TokensInv
    <3> QED
      BY <1>1, <3>2 DEF Linked, RoomLinked, RoomInv, EditsOfThisLoad, FrameWasAllowed
  <2>7. RoomKept
    BY <1>1, <2>3 DEF RoomKept
  <2>8. client' = [client EXCEPT ![c].token = issued + 1]
    BY <1>6 DEF Connected
  <2>9. /\ client'[c].token = issued' /\ client'[c].doc = client[c].doc
        /\ \A d \in Clients : d # c => client'[d] = client[d]
    BY <2>2, <2>8 DEF TypeInv
  <2>10. \A d \in Clients : client[d].token \in Nat /\ client[d].token <= issued
    BY DEF TypeInv, Linked, ClientLinked, ClientInv
  <2>11. DistinctTokens'
    BY <2>3, <2>9, <2>10 DEF Linked, DistinctTokens
  <2>12. ASSUME NEW d \in Clients, d # c PROVE ClientLinked(d)'
    <3>1. TokensKept(d)
      BY <2>4, <2>5 DEF TokensKept
    <3> QED
      BY <1>1, <1>3, <2>7, <2>9, <2>12, <3>1, KeptLinked DEF Linked, ConnectionKept
  <2>13. /\ conn'[c].at = "open" /\ conn'[c].load = room.load /\ conn'[c].adm = "issued"
         /\ conn'[c].epoch = epoch'
    <3>1. conn' = [conn EXCEPT ![c].at = "open", ![c].load = room.load,
                               ![c].adm = "issued", ![c].epoch = NextEpoch,
                               ![c].challenge = issued + 1]
      BY <1>6 DEF Connected
    <3>2. conn'[c] = [conn[c] EXCEPT !.at = "open", !.load = room.load, !.adm = "issued",
                                     !.epoch = NextEpoch, !.challenge = issued + 1]
      BY <3>1 DEF TypeInv
    <3> QED
      BY <1>2, <2>2, <3>2 DEF Connection
  <2>14. ClientInv(c)'
    BY <1>1, <1>4, <2>3, <2>9, <2>13 DEF ClientInv
  <2>15. SyncedInv(c)'
    <3> SUFFICES ASSUME NEW t \in tokens', t.synced, t.id = issued' PROVE FALSE
      BY <2>9 DEF SyncedInv
    <3>1. t \in tokens
      BY <2>4, <2>5
    <3>2. t.id \in Nat /\ t.id <= issued
      BY <3>1 DEF Linked, RoomLinked, TokensInv, TypeInv, Token
    <3> QED
      BY <2>3, <3>2 DEF TypeInv
  <2>16. CurrentInv(c)' /\ FrameInv(c)'
    BY <1>1, <1>4, <2>13 DEF CurrentInv, FrameInv
  <2> QED
    BY <2>6, <2>11, <2>12, <2>14, <2>15, <2>16 DEF Linked, ClientLinked
<1> QED
  BY <1>5, <1>6 DEF Connected

\* The client takes the bootstrap of a load it is connected to.
LEMMA BootstrapStep ==
    ASSUME TypeInv, TypeInv', Linked, NEW c \in Clients, TakeBootstrap(c)
    PROVE  Linked'
<1>1. /\ UNCHANGED <<room, content, registry>> /\ frame' = frame /\ conn' = conn
      /\ conn[c].at = "open" /\ conn[c].adm = "issued" /\ client[c].doc = 0
  BY DEF TakeBootstrap
<1>2. /\ client'[c].token = client[c].token
      /\ \A d \in Clients : d # c => client'[d] = client[d]
  BY DEF TakeBootstrap, TypeInv
<1>3. RoomLinked' /\ DistinctTokens'
  BY <1>1, <1>2, SameRoomLinked DEF Linked, DistinctTokens
<1>4. RoomKept /\ \A d \in Clients : TokensKept(d)
  BY <1>1, SameRoom
<1>5. ASSUME NEW d \in Clients, d # c PROVE ClientLinked(d)'
  BY <1>1, <1>2, <1>4, <1>5, KeptLinked DEF Linked, ConnectionKept
<1>6. ClientInv(c)'
  BY <1>1, <1>2 DEF Linked, ClientLinked, ClientInv, registry
<1>7. SyncedInv(c)'
  <2> SUFFICES ASSUME NEW t \in tokens, t.synced, t.id = client[c].token PROVE FALSE
    BY <1>1, <1>2 DEF SyncedInv, registry
  <2>1. t.load = room.load /\ client[c].doc = t.load /\ room.stage \in {"open", "leaving"}
    BY DEF Linked, ClientLinked, SyncedInv, RoomLinked, TokensInv
  <2> QED
    BY <1>1, <2>1 DEF Linked, RoomLinked, RoomInv
<1>8. CurrentInv(c)' /\ FrameInv(c)'
  BY <1>1 DEF Linked, ClientLinked, CurrentInv, FrameInv, IsCurrent, registry
<1> QED
  BY <1>3, <1>5, <1>6, <1>7, <1>8 DEF Linked, ClientLinked

\* A frame carries what its client has, and is allowed only while its author may edit
\* or nothing it carries can be merged.
LEMMA FrameStep ==
    ASSUME TypeInv, TypeInv', Linked, NEW c \in Clients,
           (\E kind \in {"update", "metadata", "ack", "snapshot"} : FrameArrives(c, kind))
           \/ FrameAuthorized(c)
    PROVE  Linked'
<1>1. UNCHANGED <<room, content, registry>> /\ client' = client /\ conn' = conn
  BY DEF FrameArrives, FrameAuthorized
<1>2. RoomLinked' /\ DistinctTokens'
  BY <1>1, SameRoomLinked DEF Linked, DistinctTokens
<1>3. RoomKept /\ \A d \in Clients : TokensKept(d)
  BY <1>1, SameRoom
<1>4. \A d \in Clients : d # c => frame'[d] = frame[d]
  BY DEF FrameArrives, FrameAuthorized, TypeInv
<1>5. ASSUME NEW d \in Clients, d # c PROVE ClientLinked(d)'
  BY <1>1, <1>3, <1>4, <1>5, KeptLinked DEF Linked, ConnectionKept
<1>6. SyncedInv(c)' /\ CurrentInv(c)'
  BY <1>1 DEF Linked, ClientLinked, SyncedInv, CurrentInv, IsCurrent, registry
<1>7. frame[c] \in Frame
  BY DEF TypeInv
<1>8. CASE \E kind \in {"update", "metadata", "ack", "snapshot"} : FrameArrives(c, kind)
  <2>1. PICK kind \in {"update", "metadata", "ack", "snapshot"} : FrameArrives(c, kind)
    BY <1>8
  <2>2. frame'[c] = [kind |-> kind, step |-> "asking", base |-> client[c].doc,
                     allowed |-> FALSE] /\ conn[c].at = "open"
    BY <2>1 DEF FrameArrives, TypeInv
  <2>3. ClientInv(c)' /\ FrameInv(c)'
    BY <1>1, <2>2 DEF Linked, ClientLinked, ClientInv, FrameInv, registry
  <2> QED
    BY <1>2, <1>5, <1>6, <2>3 DEF Linked, ClientLinked
<1>9. CASE FrameAuthorized(c)
  <2>1. /\ frame'[c] = [frame[c] EXCEPT !.step = "allowed", !.allowed = perm[c] = "edit"]
        /\ May(c) /\ frame[c].step = "asking"
    BY <1>9 DEF FrameAuthorized, TypeInv
  <2>2. /\ frame'[c].kind = frame[c].kind /\ frame'[c].base = frame[c].base
        /\ frame'[c].step = "allowed" /\ frame'[c].allowed = (perm[c] = "edit")
    BY <1>7, <2>1 DEF Frame
  <2>3. conn[c].canEdit => perm[c] = "edit"
    BY <2>1 DEF May
  <2>4. ClientInv(c)' /\ FrameInv(c)'
    BY <1>1, <2>1, <2>2, <2>3, ZenonT(40) DEF Linked, ClientLinked, ClientInv, FrameInv, registry
  <2> QED
    BY <1>2, <1>5, <1>6, <2>4 DEF Linked, ClientLinked
<1> QED
  BY <1>8, <1>9

\* Frames that change neither the document nor a token close connections at most.
LEMMA AnswerStep ==
    ASSUME TypeInv, TypeInv', Linked, NEW c \in Clients,
           FrameDenied(c) \/ HandleSnapshot(c) \/ HandleMetadata(c) \/ InvalidMetadata(c)
           \/ MetadataAnswered(c) \/ MetadataConflicts(c)
    PROVE  Linked'
<1>1. /\ UNCHANGED <<content, registry>> /\ client' = client
      /\ room'.stage = room.stage /\ room'.load = room.load
  BY FenceKept DEF FrameDenied, HandleSnapshot, HandleMetadata, InvalidMetadata, MetadataAnswered,
                   MetadataConflicts
<1>2. RoomLinked' /\ DistinctTokens'
  BY <1>1, SameRoomLinked DEF Linked, DistinctTokens
<1>3. RoomKept /\ \A d \in Clients : TokensKept(d)
  BY <1>1 DEF RoomKept, TokensKept, registry, TypeInv
<1>4. ASSUME NEW d \in Clients
      PROVE  \/ conn'[d] = conn[d]
             \/ conn[d].at = "open" /\ conn'[d] = [conn[d] EXCEPT !.at = "closing"]
  <2>1. CASE MetadataConflicts(c)
    BY <2>1, FenceKept DEF MetadataConflicts
  <2>2. CASE ~ MetadataConflicts(c)
    <3>1. conn' = conn \/ conn' = Closed(c)
      BY <2>2 DEF FrameDenied, HandleSnapshot, HandleMetadata, InvalidMetadata, MetadataAnswered
    <3> QED
      BY <3>1, ClosedKept
  <2> QED
    BY <2>1, <2>2
<1>5. ASSUME NEW d \in Clients
      PROVE  \/ frame'[d] = frame[d] \/ frame'[d] = NoFrame
             \/ frame[d].step = "allowed" /\ frame'[d] = [frame[d] EXCEPT !.step = "saving"]
  <2>1. \/ frame' = [frame EXCEPT ![c] = NoFrame]
        \/ frame[c].step = "allowed" /\ frame' = [frame EXCEPT ![c].step = "saving"]
    BY DEF FrameDenied, HandleSnapshot, HandleMetadata, InvalidMetadata, MetadataAnswered,
           MetadataConflicts, FrameDone
  <2> QED
    BY <2>1 DEF TypeInv
<1>6. ASSUME NEW d \in Clients PROVE ClientLinked(d)'
  <2>1. ConnectionKept(d)
    BY <1>1, <1>4, <1>5 DEF ConnectionKept
  <2> QED
    BY <1>3, <2>1, KeptLinked DEF Linked
<1> QED
  BY <1>2, <1>6 DEF Linked

\* An acknowledgement is accepted of what the client took from this load.
LEMMA AckStep ==
    ASSUME TypeInv, TypeInv', Linked, NEW c \in Clients, HandleAck(c)
    PROVE  Linked'
<1> DEFINE id == client[c].token
           accepted == /\ conn[c].adm = "issued" /\ id = conn[c].challenge
                       /\ Validates(id) /\ Includes(c, id)
           Was(t) == \E u \in tokens :
                        /\ t.id = u.id /\ t.epoch = u.epoch /\ t.load = u.load
                        /\ t.synced => u.synced \/ (accepted /\ t.id = id)
<1>1. /\ UNCHANGED <<room, content>> /\ client' = client
      /\ frame' = [frame EXCEPT ![c] = NoFrame]
      /\ frame[c].kind = "ack" /\ frame[c].step = "allowed"
      /\ conn' = IF accepted THEN [conn EXCEPT ![c].adm = "accepted"] ELSE Closed(c)
      /\ Validated(id, accepted)
  BY DEF HandleAck, FrameDone
<1>2. accepted \in BOOLEAN /\ id \in Nat
  BY DEF TypeInv
<1>3. /\ epoch' = epoch /\ epochs' = epochs /\ issued' = issued
      /\ \A t \in tokens' : Was(t)
  <2> HIDE DEF accepted
  <2> QED
    BY <1>1, <1>2, ValidatedTokens
<1>4. ASSUME accepted
      PROVE  /\ client[c].doc = room.load /\ frame[c].base = room.load
             /\ room.stage \in {"open", "leaving"} /\ room.load # 0 /\ id # 0
             /\ conn[c].adm = "issued"
  <2>1. TokenOf(id) \in tokens /\ TokenOf(id).id = id
    BY <1>4, TokenFound DEF Validates
  <2>2. frame[c].base = room.load /\ room.stage \in {"open", "leaving"} /\ id # 0
    BY <1>4, <2>1 DEF Includes, Linked, RoomLinked, TokensInv
  <2>3. room.load # 0
    BY <2>2 DEF Linked, RoomLinked, RoomInv
  <2>4. client[c].doc = room.load
    BY <1>1, <2>2, <2>3 DEF Linked, ClientLinked, FrameInv
  <2> QED
    BY <1>4, <2>2, <2>3, <2>4
<1> HIDE DEF accepted
<1>5. RoomLinked'
  <2>1. TokensInv'
    BY <1>1, <1>3 DEF Linked, RoomLinked, TokensInv
  <2> QED
    BY <1>1, <2>1 DEF Linked, RoomLinked, RoomInv, EditsOfThisLoad, FrameWasAllowed
<1>6. DistinctTokens'
  BY <1>1 DEF Linked, DistinctTokens
<1>7. RoomKept
  BY <1>1, <1>3 DEF RoomKept, TypeInv
<1>8. ASSUME NEW d \in Clients, d # c \/ ~ accepted PROVE ClientLinked(d)'
  <2>1. TokensKept(d)
    <3> SUFFICES ASSUME NEW t \in tokens', t.synced, t.id = client[d].token
                 PROVE  \E u \in tokens : u.synced /\ u.id = t.id /\ u.load = t.load
      BY DEF TokensKept
    <3>1. PICK u \in tokens : /\ t.id = u.id /\ t.load = u.load
                              /\ u.synced \/ (accepted /\ t.id = id)
      BY <1>3
    <3>2. ~ (accepted /\ t.id = id)
      BY <1>4, <1>8 DEF Linked, DistinctTokens
    <3> QED
      BY <3>1, <3>2
  <2>2. \/ conn'[d] = conn[d]
        \/ conn[d].at = "open" /\ conn'[d] = [conn[d] EXCEPT !.at = "closing"]
    <3>1. CASE accepted
      BY <1>1, <1>8, <3>1 DEF TypeInv
    <3>2. CASE ~ accepted
      BY <1>1, <3>2, ClosedKept
    <3> QED
      BY <3>1, <3>2
  <2>3. frame'[d] = frame[d] \/ frame'[d] = NoFrame
    BY <1>1 DEF TypeInv
  <2>4. ConnectionKept(d)
    BY <1>1, <2>2, <2>3 DEF ConnectionKept
  <2> QED
    BY <1>7, <2>1, <2>4, KeptLinked DEF Linked
<1>9. CASE accepted
  <2>1. conn'[c] = [conn[c] EXCEPT !.adm = "accepted"] /\ frame'[c] = NoFrame
    BY <1>1, <1>9 DEF TypeInv
  <2>2. /\ conn'[c].adm = "accepted" /\ conn'[c].at = conn[c].at
        /\ conn'[c].epoch = conn[c].epoch /\ conn'[c].load = conn[c].load
        /\ conn'[c].resume = conn[c].resume
    BY <2>1 DEF TypeInv, Connection
  <2>3. conn[c].at \in {"open", "closing"}
    BY <1>1 DEF Linked, ClientLinked, ClientInv
  <2>4. ClientInv(c)' /\ FrameInv(c)'
    BY <1>1, <1>3, <2>1, <2>2, <2>3 DEF Linked, ClientLinked, ClientInv, FrameInv, NoFrame
  <2>5. SyncedInv(c)'
    <3>1. \A t \in tokens' : t.load = room.load
      BY <1>3 DEF Linked, RoomLinked, TokensInv
    <3> QED
      BY <1>1, <1>4, <1>9, <3>1 DEF SyncedInv
  <2>6. CurrentInv(c)'
    BY <1>1, <1>3, <1>4, <1>9, <2>2 DEF Linked, ClientLinked, CurrentInv, IsCurrent
  <2> QED
    BY <1>5, <1>6, <1>8, <2>4, <2>5, <2>6 DEF Linked, ClientLinked
<1>10. CASE ~ accepted
  BY <1>5, <1>6, <1>8, <1>10 DEF Linked
<1> QED
  BY <1>9, <1>10

\* What is merged is what a current admission brings.
LEMMA UpdateStep ==
    ASSUME TypeInv, TypeInv', Linked, NEW c \in Clients, HandleUpdate(c)
    PROVE  Linked'
<1> DEFINE e == [base |-> frame[c].base, load |-> conn[c].load, allowed |-> frame[c].allowed]
<1>1. /\ UNCHANGED <<room, registry>> /\ client' = client
      /\ frame' = [frame EXCEPT ![c] = NoFrame]
      /\ frame[c].kind = "update" /\ frame[c].step = "allowed"
      /\ conn' = conn \/ conn' = Closed(c)
      /\ content' = content \/ (Current(c) /\ conn[c].canEdit /\ content' = content \cup {e})
  BY DEF HandleUpdate, FrameDone
<1>2. RoomKept /\ \A d \in Clients : TokensKept(d)
  BY <1>1, SameRoom
<1>3. ASSUME Current(c), conn[c].canEdit
      PROVE  /\ e.base = room.load /\ e.load = room.load /\ e.allowed
             /\ room.stage \in {"open", "leaving"}
  <2>1. IsCurrent(c) /\ conn[c].adm = "accepted" /\ conn[c].at \in {"open", "closing"}
    BY <1>1, <1>3 DEF Current, IsCurrent, Linked, ClientLinked, ClientInv
  <2>2. /\ conn[c].load = room.load /\ client[c].doc = room.load
        /\ room.stage \in {"open", "leaving"}
    BY <2>1 DEF Linked, ClientLinked, CurrentInv
  <2> QED
    BY <1>1, <1>3, <2>1, <2>2 DEF Linked, ClientLinked, FrameInv
<1>4. RoomLinked'
  <2>1. TokensInv'
    BY <1>1 DEF Linked, RoomLinked, TokensInv, registry
  <2>2. CASE content' = content
    BY <1>1, <2>1, <2>2 DEF Linked, RoomLinked, RoomInv, EditsOfThisLoad, FrameWasAllowed
  <2>3. CASE Current(c) /\ conn[c].canEdit /\ content' = content \cup {e}
    <3> HIDE DEF e
    <3> QED
      BY <1>1, <1>3, <2>1, <2>3 DEF Linked, RoomLinked, RoomInv, EditsOfThisLoad,
                                    FrameWasAllowed
  <2> QED
    BY <1>1, <2>2, <2>3
<1>5. DistinctTokens'
  BY <1>1 DEF Linked, DistinctTokens
<1>6. ASSUME NEW d \in Clients PROVE ClientLinked(d)'
  <2>1. \/ conn'[d] = conn[d]
        \/ conn[d].at = "open" /\ conn'[d] = [conn[d] EXCEPT !.at = "closing"]
    BY <1>1, ClosedKept
  <2>2. frame'[d] = frame[d] \/ frame'[d] = NoFrame
    BY <1>1 DEF TypeInv
  <2>3. ConnectionKept(d)
    BY <1>1, <2>1, <2>2 DEF ConnectionKept
  <2> QED
    BY <1>2, <2>3, KeptLinked DEF Linked
<1> QED
  BY <1>4, <1>5, <1>6 DEF Linked

\* A load of the room begins where there is none.
LEMMA LoadStep ==
    ASSUME TypeInv, TypeInv', Linked,
           Tick \/ Loaded \/ BeginUnload \/ Invalidated
           \/ (\E c \in Clients : BeginLoad(c))
           \/ (\E c \in Clients : \E p \in {"edit", "view", "none"} : PermissionChanges(c, p))
    PROVE  Linked'
<1>1. UNCHANGED <<content, registry>> /\ client' = client /\ frame' = frame
  BY DEF Tick, Loaded, BeginUnload, Invalidated, BeginLoad, PermissionChanges, sides
<1>2. \/ room'.stage = room.stage /\ room'.load = room.load
      \/ room.stage = "none" /\ room'.stage = "loading" /\ room'.load = room.load + 1
      \/ /\ room'.load = room.load /\ room.stage \in {"loading", "open"}
         /\ room'.stage \in {"open", "leaving"}
  <2>1. CASE Invalidated
    <3>1. CASE room.stage = "loading"
      BY <2>1, <3>1 DEF Invalidated, TypeInv, Room
    <3>2. CASE room.stage # "loading"
      BY <2>1, <3>2 DEF Invalidated, Fence, TypeInv, Room
    <3> QED
      BY <3>1, <3>2
  <2>2. CASE \E c \in Clients : BeginLoad(c)
    BY <2>2 DEF BeginLoad, TypeInv, Room
  <2>3. CASE Loaded
    BY <2>3 DEF Loaded, TypeInv, Room
  <2>4. CASE BeginUnload
    BY <2>4 DEF BeginUnload, TypeInv, Room
  <2>5. CASE Tick
    BY <2>5 DEF Tick
  <2>6. CASE \E c \in Clients : \E p \in {"edit", "view", "none"} : PermissionChanges(c, p)
    BY <2>6 DEF PermissionChanges
  <2> QED
    BY <2>1, <2>2, <2>3, <2>4, <2>5, <2>6
<1>3. room.load \in Nat /\ room.load + 1 # 0
  BY DEF TypeInv, Room
<1>4. RoomInv'
  BY <1>1, <1>2, <1>3 DEF Linked, RoomLinked, RoomInv
<1>5. TokensInv'
  <2>1. tokens # {} => room'.stage \in {"open", "leaving"} /\ room'.load = room.load
    BY <1>2 DEF Linked, RoomLinked, TokensInv
  <2> QED
    BY <1>1, <2>1 DEF Linked, RoomLinked, TokensInv, registry
<1>6. RoomLinked' /\ DistinctTokens'
  <2>1. content # {} => room'.load = room.load
    BY <1>2 DEF Linked, RoomLinked, RoomInv
  <2> QED
    BY <1>1, <1>4, <1>5, <2>1 DEF Linked, RoomLinked, EditsOfThisLoad, FrameWasAllowed,
                                  DistinctTokens
<1>7. RoomKept /\ \A d \in Clients : TokensKept(d)
  BY <1>1, <1>2 DEF RoomKept, TokensKept, registry, TypeInv
<1>8. ASSUME NEW d \in Clients PROVE ClientLinked(d)'
  <2>1. \/ conn'[d] = conn[d]
        \/ conn[d].at = "open" /\ conn'[d] = [conn[d] EXCEPT !.at = "closing"]
    <3>1. CASE Invalidated
      BY <3>1, FenceKept DEF Invalidated
    <3>2. CASE ~ Invalidated
      BY <3>2 DEF Tick, Loaded, BeginUnload, BeginLoad, PermissionChanges, sides
    <3> QED
      BY <3>1, <3>2
  <2>2. ConnectionKept(d)
    BY <1>1, <2>1 DEF ConnectionKept
  <2> QED
    BY <1>7, <2>2, KeptLinked DEF Linked
<1> QED
  BY <1>6, <1>8 DEF Linked

\* A room that ends takes its epoch and its tokens with it.
LEMMA EndStep ==
    ASSUME TypeInv, TypeInv', Linked, Restart \/ LoadFails \/ Unloaded
    PROVE  Linked'
<1>1. /\ Retire /\ client' = client
      /\ room'.stage = "none" /\ room'.load = room.load
  BY DEF Restart, LoadFails, Unloaded, sides, TypeInv, Room
<1>2. content' = {}
  BY DEF Restart, LoadFails, Unloaded, Linked, RoomLinked, RoomInv
<1>3. epoch' = 0 /\ epochs' = epochs /\ issued' = issued /\ tokens' = {}
  BY <1>1 DEF Retire
<1>4. RoomLinked' /\ DistinctTokens'
  BY <1>1, <1>2, <1>3 DEF Linked, RoomLinked, RoomInv, TokensInv, EditsOfThisLoad,
                          FrameWasAllowed, DistinctTokens, TypeInv
<1>5. RoomKept /\ \A d \in Clients : TokensKept(d)
  BY <1>1, <1>3 DEF RoomKept, TokensKept, TypeInv
<1>6. ASSUME NEW d \in Clients PROVE ClientLinked(d)'
  <2>1. CASE conn'[d] = conn[d] /\ frame'[d] = frame[d]
    BY <1>1, <1>5, <2>1, KeptLinked DEF Linked, ConnectionKept
  <2>2. CASE conn'[d] = Off /\ frame'[d] = NoFrame
    BY <1>1, <1>5, <2>2, OffLinked DEF Linked
  <2>3. CASE conn'[d] = Off /\ frame'[d] = frame[d] /\ conn[d].at = "opening"
    <3>1. frame[d].kind = "none" /\ frame[d].step = "none"
      BY <2>3 DEF Linked, ClientLinked, ClientInv
    <3>2. ClientInv(d)'
      BY <1>1, <1>3, <2>3, <3>1 DEF Linked, ClientLinked, ClientInv, Off, TypeInv
    <3>3. SyncedInv(d)' /\ CurrentInv(d)' /\ FrameInv(d)'
      BY <1>3, <2>3, <3>1 DEF SyncedInv, CurrentInv, FrameInv, IsCurrent
    <3> QED
      BY <3>2, <3>3 DEF ClientLinked
  <2> QED
    BY <2>1, <2>2, <2>3 DEF Restart, LoadFails, Unloaded, sides
<1> QED
  BY <1>4, <1>6 DEF Linked

\* Every step keeps the invariant.
LEMMA InvStep == Inv /\ [Next]_vars => Inv'
<1> SUFFICES ASSUME Inv, [Next]_vars PROVE Inv'
  OBVIOUS
<1>1. TypeInv /\ TypeInv' /\ Linked
  BY TypeStep DEF Inv, Linked, RoomLinked, ClientLinked
<1>2. Linked'
  <2>1. CASE UNCHANGED vars
    <3>1. UNCHANGED <<room, content, registry, conn, frame, client>>
      BY <2>1 DEF vars, sides
    <3> QED
      BY <1>1, <3>1 DEF Linked, RoomLinked, ClientLinked, RoomInv, TokensInv, DistinctTokens,
         EditsOfThisLoad, FrameWasAllowed, ClientInv, SyncedInv, CurrentInv, FrameInv,
         IsCurrent, registry
  <2>2. CASE Restart \/ LoadFails \/ Unloaded
    BY <1>1, <2>2, EndStep
  <2>3. CASE \/ Tick \/ Loaded \/ BeginUnload \/ Invalidated
             \/ (\E c \in Clients : BeginLoad(c))
             \/ (\E c \in Clients :
                   \E p \in {"edit", "view", "none"} : PermissionChanges(c, p))
    BY <1>1, <2>3, LoadStep
  <2>4. ASSUME NEW c \in Clients,
               \/ Dial(c, 0) \/ Dial(c, client[c].token)
               \/ ViewAnswered(c) \/ EditAnswered(c)
        PROVE  Linked'
    BY <1>1, <2>4, DialStep, ViewStep, EditStep
  <2>5. ASSUME NEW c \in Clients,
               Disconnects(c) \/ Connected(c) \/ Left(c) \/ TakeBootstrap(c)
        PROVE  Linked'
    BY <1>1, <2>5, DisconnectStep, ConnectedStep, BootstrapStep
  <2>6. ASSUME NEW c \in Clients,
               \/ \E kind \in {"update", "metadata", "ack", "snapshot"} : FrameArrives(c, kind)
               \/ FrameAuthorized(c)
        PROVE  Linked'
    BY <1>1, <2>6, FrameStep
  <2>7. ASSUME NEW c \in Clients,
               \/ FrameDenied(c) \/ HandleSnapshot(c) \/ HandleMetadata(c)
               \/ InvalidMetadata(c) \/ MetadataAnswered(c) \/ MetadataConflicts(c)
        PROVE  Linked'
    BY <1>1, <2>7, AnswerStep
  <2>8. ASSUME NEW c \in Clients, HandleAck(c) \/ HandleUpdate(c)
        PROVE  Linked'
    BY <1>1, <2>8, AckStep, UpdateStep
  <2> QED
    BY <2>1, <2>2, <2>3, <2>4, <2>5, <2>6, <2>7, <2>8 DEF Next
<1> QED
  BY <1>1, <1>2 DEF Inv, Linked, RoomLinked, ClientLinked

\* The inductive invariant holds always.
LEMMA InvAlways == Spec => []Inv
BY InitInv, InvStep, PTL DEF Spec

-----------------------------------------------------------------------------
(* The limit of the registry.                                              *)

\* The use that a token remembers.
UseOf(t) == [id |-> t.id, used |-> t.used, order |-> t.order]

\* Tokens remember uses of the epoch; no two have one id, nor uses one order.
UsesOk(ts, rs) ==
    /\ ts \subseteq Token /\ IsFiniteSet(ts)
    /\ rs \subseteq Use /\ IsFiniteSet(rs)
    /\ \A t \in ts : UseOf(t) \in rs
    /\ \A q, r \in rs : q.id = r.id \/ q.order = r.order => q = r
    /\ \A t, u \in ts : t.id = u.id => t = u

\* RecentTokenKept of any tokens and uses.
KeptOf(ts, rs) ==
    \A r \in rs : (Fresh(r) /\ Cardinality(UsedAfter(r, rs)) < MaxTokens)
                    => \E t \in ts : t.id = r.id

RegistryOk ==
    /\ UsesOk(tokens, recent)
    /\ \A r \in recent : r.order < accesses /\ r.id <= issued
    /\ Cardinality(tokens) <= MaxTokens
    /\ KeptOf(tokens, recent)

\* The tokens used after one are at most as many as the uses after its use.
LEMMA FewerTokensAfter ==
    ASSUME NEW ts, NEW rs, UsesOk(ts, rs), NEW t \in ts, NEW some \in SUBSET ts
    PROVE  /\ Cardinality(UsedAfter(t, some)) <= Cardinality(UsedAfter(UseOf(t), rs))
           /\ Cardinality(UsedAfter(t, some)) \in Nat
           /\ Cardinality(UsedAfter(UseOf(t), rs)) \in Nat
<1> DEFINE A == UsedAfter(t, some)
           B == UsedAfter(UseOf(t), rs)
           f == [u \in A |-> UseOf(u)]
<1>1. B \in SUBSET rs /\ A \in SUBSET ts
  BY DEF UsedAfter
<1>2. IsFiniteSet(B) /\ IsFiniteSet(A)
  BY <1>1, FS_Subset DEF UsesOk
<1>3. \A u \in A : UseOf(u) \in B
  <2>1. ASSUME NEW u \in A PROVE UseOf(u) \in B
    <3>1. UseOf(u) \in rs /\ u.order > t.order
      BY DEF UsesOk, UsedAfter
    <3>2. UseOf(u).order = u.order /\ UseOf(t).order = t.order
      BY DEF UseOf
    <3> QED
      BY <3>1, <3>2 DEF UsedAfter
  <2> QED
    BY <2>1
<1>4. \A u, v \in A : UseOf(u) = UseOf(v) => u = v
  <2>1. \A u, v \in A : UseOf(u) = UseOf(v) => u.id = v.id
    BY DEF UseOf
  <2> QED
    BY <1>1, <2>1 DEF UsesOk
<1> HIDE DEF A, B
<1>5. f \in Injection(A, B)
  BY <1>3, <1>4 DEF Injection, IsInjective
<1>6. Cardinality(A) <= Cardinality(B)
  BY <1>2, <1>5, FS_Injection
<1>7. Cardinality(A) \in Nat /\ Cardinality(B) \in Nat
  BY <1>2, FS_CardinalityType
<1> QED
  BY <1>6, <1>7 DEF A, B

\* Pruning leaves no more tokens than the limit.
LEMMA PruneLimit ==
    ASSUME NEW ts, ts \subseteq Token, IsFiniteSet(ts), \A t, u \in ts : t.order = u.order => t = u
    PROVE  Cardinality(Prune(ts)) <= MaxTokens /\ IsFiniteSet(Prune(ts))
<1> DEFINE kept == {t \in ts : Fresh(t)}
           S == Prune(ts)
           n(t) == Cardinality(UsedAfter(t, kept))
           f == [t \in S |-> n(t)]
<1>1. kept \in SUBSET ts /\ S \in SUBSET kept /\ \A t \in S : n(t) < MaxTokens
  BY DEF Prune
<1>2. IsFiniteSet(kept) /\ IsFiniteSet(S)
  BY <1>1, FS_Subset
<1>3. \A t \in kept : UsedAfter(t, kept) \in SUBSET kept
  BY DEF UsedAfter
<1>4. \A t \in kept : IsFiniteSet(UsedAfter(t, kept))
  BY <1>2, <1>3, FS_Subset
<1>5. \A t \in kept : n(t) \in Nat
  BY <1>4, FS_CardinalityType
<1>6. ASSUME NEW t \in kept, NEW u \in kept, t.order < u.order PROVE n(u) < n(t)
  <2>1. t.order \in Nat /\ u.order \in Nat /\ \A v \in kept : v.order \in Nat
    BY <1>1 DEF Token
  <2> HIDE DEF kept
  <2>2. UsedAfter(u, kept) \in SUBSET UsedAfter(t, kept)
    BY <1>6, <2>1 DEF UsedAfter
  <2>3. u \in UsedAfter(t, kept) /\ u \notin UsedAfter(u, kept)
    BY <1>6, <2>1 DEF UsedAfter
  <2>4. /\ Cardinality(UsedAfter(u, kept)) <= Cardinality(UsedAfter(t, kept))
        /\ Cardinality(UsedAfter(t, kept)) = Cardinality(UsedAfter(u, kept))
             => UsedAfter(t, kept) = UsedAfter(u, kept)
    BY <1>4, <2>2, FS_Subset
  <2> QED
    BY <1>5, <2>3, <2>4
<1>7. \A t, u \in S : n(t) = n(u) => t = u
  <2>1. SUFFICES ASSUME NEW t \in S, NEW u \in S, n(t) = n(u) PROVE t.order = u.order
    BY <1>1
  <2>2. t.order \in Nat /\ u.order \in Nat /\ t \in kept /\ u \in kept
    BY <1>1 DEF Token
  <2>3. n(t) \in Nat /\ n(u) \in Nat
    BY <1>5, <2>2
  <2>4. ~ (t.order < u.order) /\ ~ (u.order < t.order)
    BY <1>6, <2>1, <2>2, <2>3
  <2> QED
    BY <2>2, <2>4
<1>8. MaxTokens \in Nat /\ MaxTokens - 1 \in Int
  OBVIOUS
<1>9. \A t \in S : n(t) \in 0 .. (MaxTokens - 1)
  BY <1>1, <1>5, <1>8
<1> HIDE DEF kept, S, n
<1>10. f \in Injection(S, 0 .. (MaxTokens - 1))
  BY <1>7, <1>9 DEF Injection, IsInjective
<1>11. IsFiniteSet(0 .. (MaxTokens - 1)) /\ Cardinality(0 .. (MaxTokens - 1)) = MaxTokens
  BY <1>8, FS_Interval
<1>12. Cardinality(S) <= MaxTokens
  BY <1>10, <1>11, FS_Injection
<1> QED
  BY <1>2, <1>12 DEF S

\* The orders of tokens are those of their uses.
LEMMA TokenOrders ==
    ASSUME NEW ts, NEW rs, UsesOk(ts, rs)
    PROVE  \A t, u \in ts : t.order = u.order => t = u
<1>1. ASSUME NEW t \in ts, NEW u \in ts, t.order = u.order PROVE t = u
  <2>1. UseOf(t) \in rs /\ UseOf(u) \in rs
    BY DEF UsesOk
  <2>2. UseOf(t).order = UseOf(u).order /\ UseOf(t).id = t.id /\ UseOf(u).id = u.id
    BY <1>1 DEF UseOf
  <2>3. UseOf(t) = UseOf(u)
    BY <2>1, <2>2 DEF UsesOk
  <2> QED
    BY <2>2, <2>3 DEF UsesOk
<1> QED
  BY <1>1

\* A token whose use is recent survives the pruning of any of the tokens.
LEMMA RecentSurvives ==
    ASSUME NEW ts, NEW rs, UsesOk(ts, rs), NEW r \in rs, Fresh(r),
           Cardinality(UsedAfter(r, rs)) < MaxTokens, NEW t \in ts, t.id = r.id
    PROVE  t \in Prune(ts)
<1> DEFINE kept == {u \in ts : Fresh(u)}
<1>1. UseOf(t) = r
  BY DEF UsesOk, UseOf
<1>2. t.used = r.used
  BY <1>1 DEF UseOf
<1>3. t \in kept
  BY <1>2 DEF Fresh
<1>4. kept \in SUBSET ts
  OBVIOUS
<1>5. /\ Cardinality(UsedAfter(t, kept)) <= Cardinality(UsedAfter(r, rs))
      /\ Cardinality(UsedAfter(t, kept)) \in Nat /\ Cardinality(UsedAfter(r, rs)) \in Nat
  BY <1>1, <1>4, FewerTokensAfter
<1>6. Cardinality(UsedAfter(t, kept)) < MaxTokens
  BY <1>5
<1> QED
  BY <1>3, <1>6 DEF Prune

\* Pruning keeps the registry.
LEMMA PruneKeeps ==
    ASSUME NEW ts, NEW rs, UsesOk(ts, rs), KeptOf(ts, rs)
    PROVE  /\ UsesOk(Prune(ts), rs) /\ KeptOf(Prune(ts), rs)
           /\ Cardinality(Prune(ts)) <= MaxTokens
<1>1. Prune(ts) \subseteq ts
  BY PruneSubset
<1>2. Cardinality(Prune(ts)) <= MaxTokens /\ IsFiniteSet(Prune(ts))
  BY TokenOrders, PruneLimit DEF UsesOk
<1>3. UsesOk(Prune(ts), rs)
  BY <1>1, <1>2 DEF UsesOk
<1>4. KeptOf(Prune(ts), rs)
  <2>1. ASSUME NEW r \in rs, Fresh(r), Cardinality(UsedAfter(r, rs)) < MaxTokens
        PROVE  \E t \in Prune(ts) : t.id = r.id
    <3>1. PICK t \in ts : t.id = r.id
      BY <2>1 DEF KeptOf
    <3> QED
      BY <2>1, <3>1, RecentSurvives
  <2> QED
    BY <2>1 DEF KeptOf
<1> QED
  BY <1>2, <1>3, <1>4

\* A token that is used again remembers the new use, which is the last.
LEMMA TouchKeeps ==
    ASSUME TypeInv, RegistryOk, NEW id \in Nat, NEW synced \in BOOLEAN, Validates(id),
           Validated(id, synced)
    PROVE  /\ UsesOk(tokens', recent') /\ KeptOf(tokens', recent')
           /\ Cardinality(tokens') <= MaxTokens
           /\ \A r \in recent' : r.order < accesses' /\ r.id <= issued'
<1> DEFINE t == TokenOf(id)
           u == [Touched(t) EXCEPT !.synced = @ \/ synced]
           r0 == UseOf(t)
           r1 == [id |-> id, used |-> now, order |-> accesses]
           P == Prune(tokens)
<1>1. /\ t \in tokens /\ t.id = id /\ t \in Token /\ Fresh(t)
  BY TokenFound DEF Validates, TypeInv
<1>2. /\ u \in Token /\ u.id = id /\ u.used = now /\ u.order = accesses
  BY <1>1 DEF Touched, Token, TypeInv
<1>3. /\ tokens' = (P \ {t}) \cup {u}
      /\ recent' = {r \in recent : r.id # id} \cup {r1}
      /\ accesses' = accesses + 1 /\ issued' = issued
  BY DEF Validated
<1>4. r1 \in Use /\ r1.id = id /\ r1.order = accesses /\ UseOf(u) = r1
  BY <1>2 DEF Use, TypeInv, UseOf
<1>5. /\ UsesOk(tokens, recent) /\ KeptOf(tokens, recent) /\ Cardinality(tokens) <= MaxTokens
      /\ \A r \in recent : r.order < accesses /\ r.id <= issued
      /\ r0 \in recent /\ r0.id = id /\ accesses \in Nat
      /\ \A r \in recent : r.order \in Nat
  BY <1>1 DEF RegistryOk, UsesOk, UseOf, TypeInv, Use
<1>6. /\ P \subseteq tokens /\ UsesOk(P, recent) /\ KeptOf(P, recent)
      /\ IsFiniteSet(P) /\ Cardinality(P) <= MaxTokens /\ Cardinality(P) \in Nat
  BY <1>5, PruneKeeps, PruneSubset, FS_CardinalityType DEF UsesOk
<1>7. id <= issued
  BY <1>5
<1> HIDE DEF u, r0, r1, P
<1>8. t \in P
  <2> DEFINE kept == {v \in tokens : Fresh(v)}
  <2>1. UsedAfter(t, kept) \in SUBSET (tokens \ {t})
    <3>1. t.order \in Nat
      BY <1>1 DEF Token
    <3> QED
      BY <3>1 DEF UsedAfter
  <2>2. /\ IsFiniteSet(tokens \ {t}) /\ Cardinality(tokens \ {t}) = Cardinality(tokens) - 1
        /\ Cardinality(tokens) \in Nat
    BY <1>1, <1>5, FS_RemoveElement, FS_CardinalityType DEF UsesOk
  <2>3. /\ Cardinality(UsedAfter(t, kept)) <= Cardinality(tokens \ {t})
        /\ IsFiniteSet(UsedAfter(t, kept))
    BY <2>1, <2>2, FS_Subset
  <2>4. Cardinality(UsedAfter(t, kept)) \in Nat
    BY <2>3, FS_CardinalityType
  <2>5. Cardinality(UsedAfter(t, kept)) < MaxTokens
    BY <1>5, <2>2, <2>3, <2>4
  <2> QED
    BY <1>1, <2>5 DEF Prune, P
<1>9. /\ IsFiniteSet(tokens') /\ Cardinality(tokens') <= MaxTokens
  <2>1. IsFiniteSet(P \ {t}) /\ Cardinality(P \ {t}) = Cardinality(P) - 1
    BY <1>6, <1>8, FS_RemoveElement
  <2>2. /\ IsFiniteSet((P \ {t}) \cup {u})
        /\ Cardinality((P \ {t}) \cup {u}) <= Cardinality(P \ {t}) + 1
    <3> DEFINE Q == P \ {t}
    <3> HIDE DEF Q
    <3>1. IsFiniteSet(Q) /\ Cardinality(Q) \in Nat
      BY <2>1, FS_CardinalityType DEF Q
    <3>2. /\ IsFiniteSet(Q \cup {u})
          /\ Cardinality(Q \cup {u}) = Cardinality(Q) \/ Cardinality(Q \cup {u}) = Cardinality(Q) + 1
      BY <3>1, FS_AddElement
    <3>3. Cardinality(Q \cup {u}) <= Cardinality(Q) + 1
      BY <3>1, <3>2
    <3> QED
      BY <3>2, <3>3 DEF Q
  <2>3. Cardinality((P \ {t}) \cup {u}) \in Nat
    BY <2>2, FS_CardinalityType
  <2>4. Cardinality((P \ {t}) \cup {u}) <= MaxTokens
    BY <1>6, <2>1, <2>2, <2>3
  <2> QED
    BY <1>3, <2>2, <2>4
<1>10. /\ recent' \subseteq Use /\ IsFiniteSet(recent')
       /\ \A r \in recent' : r = r1 \/ (r \in recent /\ r.id # id)
  <2>1. IsFiniteSet({r \in recent : r.id # id})
    BY <1>5, FS_Subset DEF UsesOk
  <2>2. IsFiniteSet(recent')
    BY <1>3, <2>1, FS_AddElement
  <2> QED
    BY <1>3, <1>4, <2>2 DEF TypeInv
<1>11. UsesOk(tokens', recent')
  <2>1. tokens' \subseteq Token
    BY <1>2, <1>3, <1>6 DEF TypeInv
  <2>2. \A v \in tokens' : v = u \/ (v \in tokens /\ v.id # id)
    BY <1>1, <1>3, <1>5, <1>6 DEF UsesOk
  <2>3. ASSUME NEW v \in tokens' PROVE UseOf(v) \in recent'
    <3>1. CASE v = u
      BY <1>3, <1>4, <3>1
    <3>2. CASE v \in tokens /\ v.id # id
      <4>1. UseOf(v) \in recent /\ UseOf(v).id # id
        BY <1>5, <3>2 DEF UsesOk, UseOf
      <4> QED
        BY <1>3, <4>1
    <3> QED
      BY <2>2, <3>1, <3>2
  <2>4. \A q, r \in recent' : q.id = r.id \/ q.order = r.order => q = r
    <3>1. \A r \in recent : r.order # accesses
      BY <1>5
    <3> QED
      BY <1>4, <1>5, <1>10, <3>1 DEF UsesOk
  <2>5. \A v, w \in tokens' : v.id = w.id => v = w
    BY <1>2, <1>5, <2>2 DEF UsesOk
  <2> QED
    BY <1>9, <1>10, <2>1, <2>3, <2>4, <2>5 DEF UsesOk
<1>12. \A r \in recent' : r.order < accesses' /\ r.id <= issued'
  BY <1>3, <1>4, <1>5, <1>7, <1>10
<1>13. ASSUME NEW r \in recent', Fresh(r), Cardinality(UsedAfter(r, recent')) < MaxTokens
       PROVE  \E v \in tokens' : v.id = r.id
  <2>1. CASE r = r1
    BY <1>2, <1>3, <1>4, <2>1
  <2>2. CASE r \in recent /\ r.id # id
    <3> DEFINE A == UsedAfter(r, recent)
               B == UsedAfter(r, recent')
               f == [q \in A |-> IF q.id = id THEN r1 ELSE q]
    <3>1. IsFiniteSet(A) /\ IsFiniteSet(B)
      <4>1. A \in SUBSET recent /\ B \in SUBSET recent'
        BY DEF UsedAfter
      <4> QED
        BY <1>5, <1>10, <4>1, FS_Subset DEF UsesOk
    <3>2. \A q \in A : (IF q.id = id THEN r1 ELSE q) \in B
      <4>1. r1 \in recent' /\ r1.order > r.order
        BY <1>3, <1>4, <1>5, <2>2
      <4>2. \A q \in A : q.id # id => q \in recent' /\ q.order > r.order
        BY <1>3 DEF UsedAfter
      <4> QED
        BY <4>1, <4>2 DEF UsedAfter
    <3>3. \A p, q \in A : (IF p.id = id THEN r1 ELSE p) = (IF q.id = id THEN r1 ELSE q) => p = q
      <4>1. \A p, q \in A : p.id = q.id => p = q
        BY <1>5 DEF UsesOk, UsedAfter
      <4> QED
        BY <1>4, <4>1
    <3> HIDE DEF A, B
    <3>4. f \in Injection(A, B)
      BY <3>2, <3>3 DEF Injection, IsInjective
    <3>5. Cardinality(A) <= Cardinality(B) /\ Cardinality(A) \in Nat /\ Cardinality(B) \in Nat
      BY <3>1, <3>4, FS_Injection, FS_CardinalityType
    <3>6. Cardinality(UsedAfter(r, recent)) < MaxTokens
      BY <1>13, <3>5 DEF A, B
    <3>7. PICK v \in P : v.id = r.id
      BY <1>6, <1>13, <2>2, <3>6 DEF KeptOf
    <3>8. v \in tokens'
      BY <1>1, <1>3, <2>2, <3>7
    <3> QED
      BY <3>7, <3>8
  <2> QED
    BY <1>10, <2>1, <2>2
<1>14. KeptOf(tokens', recent')
  BY <1>13 DEF KeptOf
<1> QED
  BY <1>9, <1>11, <1>12, <1>14

\* A token that is issued is the last one used, and the limit is kept.
LEMMA IssueKeeps ==
    ASSUME TypeInv, RegistryOk, NEW load \in Nat, IssueToken(load)
    PROVE  /\ UsesOk(tokens', recent') /\ KeptOf(tokens', recent')
           /\ Cardinality(tokens') <= MaxTokens
           /\ \A r \in recent' : r.order < accesses' /\ r.id <= issued'
<1> DEFINE u == NewToken(load)
           r1 == [id |-> issued + 1, used |-> now, order |-> accesses]
           P == Prune(tokens)
           ts == P \cup {u}
<1>1. /\ u \in Token /\ u.id = issued + 1 /\ u.used = now /\ u.order = accesses
      /\ r1 \in Use /\ r1.id = issued + 1 /\ r1.order = accesses /\ UseOf(u) = r1
  BY DEF NewToken, Token, TypeInv, NextEpoch, Use, UseOf
<1>2. /\ tokens' = Prune(ts) /\ recent' = recent \cup {r1}
      /\ accesses' = accesses + 1 /\ issued' = issued + 1
  BY DEF IssueToken, Issued
<1>3. /\ UsesOk(tokens, recent) /\ KeptOf(tokens, recent)
      /\ \A r \in recent : r.order < accesses /\ r.id <= issued
      /\ accesses \in Nat /\ issued \in Nat /\ \A r \in recent : r.order \in Nat /\ r.id \in Nat
  BY DEF RegistryOk, TypeInv, Use
<1>4. UsesOk(P, recent) /\ KeptOf(P, recent)
  BY <1>3, PruneKeeps
<1> HIDE DEF u, r1, P
<1>5. \A r \in recent : r.order # accesses /\ r.id # issued + 1
  BY <1>3
<1>6. UsesOk(ts, recent')
  <2>1. ts \subseteq Token /\ IsFiniteSet(ts)
    BY <1>1, <1>4, FS_AddElement DEF UsesOk
  <2>2. recent' \subseteq Use /\ IsFiniteSet(recent')
    BY <1>1, <1>2, <1>4, FS_AddElement DEF UsesOk
  <2>3. \A t \in P : UseOf(t) \in recent
    BY <1>4 DEF UsesOk
  <2>4. \A t \in ts : UseOf(t) \in recent'
    BY <1>1, <1>2, <2>3
  <2>5. \A q, r \in recent' : q.id = r.id \/ q.order = r.order => q = r
    BY <1>1, <1>2, <1>4, <1>5 DEF UsesOk
  <2>6. \A t \in P : t.id # issued + 1
    <3>1. \A t \in P : UseOf(t).id = t.id
      BY DEF UseOf
    <3> QED
      BY <1>5, <2>3, <3>1
  <2>7. \A t, v \in ts : t.id = v.id => t = v
    BY <1>1, <1>4, <2>6 DEF UsesOk
  <2> QED
    BY <2>1, <2>2, <2>4, <2>5, <2>7 DEF UsesOk
<1>7. KeptOf(ts, recent')
  <2>1. ASSUME NEW r \in recent', Fresh(r), Cardinality(UsedAfter(r, recent')) < MaxTokens
        PROVE  \E t \in ts : t.id = r.id
    <3>1. CASE r = r1
      BY <1>1, <3>1
    <3>2. CASE r \in recent
      <4>1. UsedAfter(r, recent) \in SUBSET UsedAfter(r, recent') /\ UsedAfter(r, recent') \in SUBSET recent'
        BY <1>2 DEF UsedAfter
      <4>2. IsFiniteSet(UsedAfter(r, recent')) /\ IsFiniteSet(UsedAfter(r, recent))
        BY <1>6, <4>1, FS_Subset DEF UsesOk
      <4>3. /\ Cardinality(UsedAfter(r, recent)) <= Cardinality(UsedAfter(r, recent'))
            /\ Cardinality(UsedAfter(r, recent)) \in Nat
            /\ Cardinality(UsedAfter(r, recent')) \in Nat
        BY <4>1, <4>2, FS_Subset, FS_CardinalityType
      <4>4. Cardinality(UsedAfter(r, recent)) < MaxTokens
        BY <2>1, <4>3
      <4> QED
        BY <1>4, <2>1, <3>2, <4>4 DEF KeptOf
    <3> QED
      BY <1>2, <3>1, <3>2
  <2> QED
    BY <2>1 DEF KeptOf
<1>8. UsesOk(tokens', recent') /\ KeptOf(tokens', recent') /\ Cardinality(tokens') <= MaxTokens
  BY <1>2, <1>6, <1>7, PruneKeeps
<1>9. \A r \in recent' : r.order < accesses' /\ r.id <= issued'
  BY <1>1, <1>2, <1>3
<1> QED
  BY <1>8, <1>9

\* As time goes by, tokens expire and none becomes fresh.
LEMMA ExpiryKeeps ==
    ASSUME TypeInv, RegistryOk, Tick
    PROVE  RegistryOk'
<1>1. now' = now + 1 /\ UNCHANGED <<tokens, recent, accesses, issued>>
  BY DEF Tick, registry
<1>2. \A r \in recent : Fresh(r)' => Fresh(r)
  <2>1. now \in Nat /\ TokenTtl \in Nat /\ \A r \in recent : r.used \in Nat
    BY DEF TypeInv, Use
  <2> QED
    BY <1>1, <2>1 DEF Fresh
<1>3. KeptOf(tokens, recent)'
  BY <1>1, <1>2 DEF KeptOf, RegistryOk, UsedAfter
<1> QED
  BY <1>1, <1>3 DEF RegistryOk, UsesOk

\* A registry that is empty is in order.
LEMMA RetireKeeps ==
    ASSUME Retire PROVE RegistryOk'
<1>1. tokens' = {} /\ recent' = {}
  BY DEF Retire
<1>2. IsFiniteSet({}) /\ Cardinality({}) = 0
  BY FS_EmptySet
<1> QED
  BY <1>1, <1>2 DEF RegistryOk, UsesOk, KeptOf


\* What is pruned, is validated or stays as it is keeps the registry.
LEMMA ValidatedKeeps ==
    ASSUME TypeInv, RegistryOk, now' = now,
           \/ UNCHANGED registry
           \/ tokens' = Prune(tokens) /\ UNCHANGED <<recent, accesses, issued>>
           \/ \E id \in Nat : \E synced \in BOOLEAN : Validated(id, synced)
           \/ \E load \in Nat : IssueToken(load)
    PROVE  RegistryOk'
<1>1. CASE UNCHANGED registry
  BY <1>1 DEF registry, RegistryOk, UsesOk, KeptOf, Fresh, UsedAfter
<1>2. /\ UsesOk(tokens, recent) /\ KeptOf(tokens, recent)
      /\ \A r \in recent : r.order < accesses /\ r.id <= issued
  BY DEF RegistryOk
<1>3. SUFFICES ASSUME ~ UNCHANGED registry
               PROVE  /\ UsesOk(tokens', recent') /\ KeptOf(tokens', recent')
                      /\ Cardinality(tokens') <= MaxTokens
                      /\ \A r \in recent' : r.order < accesses' /\ r.id <= issued'
  <2>1. ASSUME UsesOk(tokens', recent'), KeptOf(tokens', recent')
        PROVE  UsesOk(tokens, recent)' /\ KeptOf(tokens, recent)'
    BY <2>1 DEF UsesOk, KeptOf, Fresh, UsedAfter
  <2> QED
    BY <1>1, <2>1 DEF RegistryOk
<1>4. CASE tokens' = Prune(tokens) /\ UNCHANGED <<recent, accesses, issued>>
  BY <1>2, <1>4, PruneKeeps
<1>5. ASSUME NEW id \in Nat, NEW synced \in BOOLEAN, Validated(id, synced)
      PROVE  /\ UsesOk(tokens', recent') /\ KeptOf(tokens', recent')
             /\ Cardinality(tokens') <= MaxTokens
             /\ \A r \in recent' : r.order < accesses' /\ r.id <= issued'
  <2>1. CASE Validates(id)
    BY <1>5, <2>1, TouchKeeps
  <2>2. CASE ~ Validates(id)
    <3>1. tokens' = Prune(tokens) /\ UNCHANGED <<recent, accesses, issued>>
      BY <1>5, <2>2 DEF Validated
    <3> QED
      BY <1>2, <3>1, PruneKeeps
  <2> QED
    BY <2>1, <2>2
<1>6. ASSUME NEW load \in Nat, IssueToken(load)
      PROVE  /\ UsesOk(tokens', recent') /\ KeptOf(tokens', recent')
             /\ Cardinality(tokens') <= MaxTokens
             /\ \A r \in recent' : r.order < accesses' /\ r.id <= issued'
  BY <1>6, IssueKeeps
<1> QED
  BY <1>3, <1>4, <1>5, <1>6

\* Every step keeps the registry in order.
LEMMA RegistryStep == TypeInv /\ RegistryOk /\ [Next]_vars => RegistryOk'
<1> SUFFICES ASSUME TypeInv, RegistryOk, [Next]_vars PROVE RegistryOk'
  OBVIOUS
<1>1. CASE Tick
  BY <1>1, ExpiryKeeps
<1>2. CASE Restart \/ LoadFails \/ Unloaded
  BY <1>2, RetireKeeps DEF Restart, LoadFails, Unloaded
<1>3. CASE UNCHANGED vars
  BY <1>3, ValidatedKeeps DEF vars
<1>4. CASE Loaded \/ BeginUnload \/ Invalidated
  BY <1>4, ValidatedKeeps DEF Loaded, BeginUnload, Invalidated
<1>5. ASSUME NEW c \in Clients, EditAnswered(c) PROVE RegistryOk'
  <2>1. now' = now /\ conn[c].resume \in Nat
    BY <1>5 DEF EditAnswered, TypeInv, Connection
  <2>2. \/ tokens' = Prune(tokens) /\ UNCHANGED <<recent, accesses, issued>>
        \/ Validated(conn[c].resume, FALSE)
    BY <1>5 DEF EditAnswered
  <2> QED
    BY <2>1, <2>2, ValidatedKeeps
<1>6. ASSUME NEW c \in Clients, HandleAck(c) PROVE RegistryOk'
  <2>1. now' = now /\ client[c].token \in Nat
    BY <1>6 DEF HandleAck, TypeInv
  <2>2. \E synced \in BOOLEAN : Validated(client[c].token, synced)
    <3> DEFINE accepted == /\ conn[c].adm = "issued" /\ client[c].token = conn[c].challenge
                           /\ Validates(client[c].token) /\ Includes(c, client[c].token)
    <3>1. accepted \in BOOLEAN /\ Validated(client[c].token, accepted)
      BY <1>6 DEF HandleAck
    <3> QED
      BY <3>1
  <2> QED
    BY <2>1, <2>2, ValidatedKeeps
<1>7. ASSUME NEW c \in Clients, Connected(c) PROVE RegistryOk'
  <2>1. now' = now /\ room.load \in Nat
    BY <1>7 DEF Connected, TypeInv, Room
  <2>2. UNCHANGED registry \/ IssueToken(room.load)
    BY <1>7 DEF Connected
  <2> QED
    BY <2>1, <2>2, ValidatedKeeps
<1>8. ASSUME NEW c \in Clients,
             \/ \E p \in {"edit", "view", "none"} : PermissionChanges(c, p)
             \/ Dial(c, 0) \/ Dial(c, client[c].token)
             \/ ViewAnswered(c) \/ Disconnects(c) \/ BeginLoad(c) \/ Left(c)
             \/ TakeBootstrap(c)
             \/ \E kind \in {"update", "metadata", "ack", "snapshot"} : FrameArrives(c, kind)
             \/ FrameAuthorized(c) \/ FrameDenied(c)
      PROVE  RegistryOk'
  <2>1. UNCHANGED <<now, registry>>
    BY <1>8 DEF PermissionChanges, Dial, ViewAnswered, Disconnects, BeginLoad, Left,
                TakeBootstrap, FrameArrives, FrameAuthorized, FrameDenied
  <2> QED
    BY <2>1, ValidatedKeeps
<1>9. ASSUME NEW c \in Clients,
             \/ HandleUpdate(c) \/ HandleSnapshot(c) \/ HandleMetadata(c)
             \/ InvalidMetadata(c) \/ MetadataAnswered(c) \/ MetadataConflicts(c)
      PROVE  RegistryOk'
  <2>1. UNCHANGED <<now, registry>>
    BY <1>9 DEF HandleUpdate, HandleSnapshot, HandleMetadata, InvalidMetadata,
                MetadataAnswered, MetadataConflicts
  <2> QED
    BY <2>1, ValidatedKeeps
<1> QED
  BY <1>1, <1>2, <1>3, <1>4, <1>5, <1>6, <1>7, <1>8, <1>9 DEF Next

\* The registry is in order always.
LEMMA RegistryAlways == Spec => []RegistryOk
<1>1. Init => RegistryOk
  <2>1. IsFiniteSet({}) /\ Cardinality({}) = 0
    BY FS_EmptySet
  <2> QED
    BY <2>1 DEF Init, RegistryOk, UsesOk, KeptOf
<1>2. Inv => TypeInv
  BY DEF Inv
<1> QED
  BY <1>1, <1>2, InvAlways, RegistryStep, PTL DEF Spec

\* Every variable has its type always, and a room never more tokens than the limit
\* (pruneTokens).
THEOREM TypeCorrect == Spec => []TypeOK
<1>1. Inv /\ RegistryOk => TypeOK
  BY DEF Inv, RegistryOk, TypeInv, TypeOK
<1> QED
  BY <1>1, InvAlways, RegistryAlways, PTL

\* However tokens are issued, used again and pruned, one that is not expired and is
\* among the last MaxTokens that were used is known (pruneTokens, validate).
THEOREM RecentTokenKeptAlways == Spec => []RecentTokenKept
<1>1. RegistryOk => RecentTokenKept
  BY DEF RegistryOk, KeptOf, RecentTokenKept, Known
<1> QED
  BY <1>1, RegistryAlways, PTL

\* Whatever the order of loads, resumptions, acknowledgements and frames, only what a
\* client took from this load of the room is merged into it (currentAdmission).
THEOREM EditsOfThisLoadAlways == Spec => []EditsOfThisLoad
<1>1. Inv => EditsOfThisLoad
  BY DEF Inv
<1> QED
  BY <1>1, InvAlways, PTL

\* Whatever becomes of permissions, every edit merged was allowed when its frame was
\* looked at (CollaborationPermissionGuard.authorizeFrame).
THEOREM FrameWasAllowedAlways == Spec => []FrameWasAllowed
<1>1. Inv => FrameWasAllowed
  BY DEF Inv
<1> QED
  BY <1>1, InvAlways, PTL

=============================================================================
