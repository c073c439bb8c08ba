-------------------------- MODULE RoomPresence_proofs --------------------------
(***************************************************************************)
(* What the connections of a service keep true: the drain's accounts, the  *)
(* AI request's timer and the owners of awareness ids.                     *)
(*                                                                         *)
(* The drain forgets the connection of a key that was tracked first,       *)
(* whichever one leaves, so that the connections tracked under a key are   *)
(* not those that are there: they are as many.  That is what the proof     *)
(* keeps (KeyOk), except under the keys that were crossed.                 *)
(***************************************************************************)
EXTENDS RoomPresence, TLAPS, FiniteSets, FiniteSetTheorems

-----------------------------------------------------------------------------
(* The invariants.                                                         *)

Present(c) == conn[c] \in {"open", "closing"}

\* A client is admitted while it is on its way in, or stranded, on a socket
\* that is open.
AdmissionsOk ==
    /\ \A c \in admissions :
          /\ conn[c] \in {"authenticating", "open", "closing"} \/ c \in stranded
          /\ SocketOf[c] \notin closed
    /\ \A c \in stranded : conn[c] = "gone" /\ c \in hooked
    /\ \A c \in Clients : conn[c] \in {"none", "authenticating"} => c \notin hooked
    /\ \A c, d \in Clients :
          SocketOf[c] = SocketOf[d]
          /\ conn[c] \in {"authenticating", "open"} /\ conn[d] \in {"authenticating", "open"}
          => c = d

\* Who was tracked has not left, and who sends frames was tracked.
CountedOk ==
    /\ \A c \in counted : Present(c)
    /\ \A c \in hooked : conn[c] = "open" => c \in counted
    /\ \A c \in frames : c \in counted \cap hooked

\* Clients that begin() or their late hook will track once more.
WillBeTracked(c) ==
    \/ conn[c] = "open" /\ ~stopping
    \/ c \in admissions \ hooked

EntriesOf(q) == {q[i] : i \in DOMAIN q}
CountedAt(s) == {c \in counted : SocketOf[c] = s}

\* As many entries as clients that were counted.
KeyOk(s) ==
    /\ IsFiniteSet(CountedAt(s))
    /\ Cardinality(CountedAt(s)) = Len(tracked[s])
    /\ \A c \in CountedAt(s) : WillBeTracked(c) => c \in EntriesOf(tracked[s])

KeysOk ==
    /\ \A s \in Sockets : \A c \in EntriesOf(tracked[s]) : c \in counted \/ conn[c] = "gone"
    /\ \A s \in Sockets \ crossed : KeyOk(s)

\* The promise of begin() resolves once there is nobody to wait for, and then
\* nobody comes.
DrainedOk ==
    /\ emptyCheck => stopping
    /\ drained => stopping /\ Empty(admissions, tracked)
    /\ stopping /\ Empty(admissions, tracked) => drained \/ emptyCheck

DrainInv == DrainTypeOK /\ AdmissionsOk /\ CountedOk /\ KeysOk /\ DrainedOk

\* A deadline belongs to a request, and a request to a document.
RequestOk ==
    /\ request.requester = Nobody => request = NoRequest
    /\ timer # NoRequest => timer.autoClearAt # 0
    /\ document = "absent" => request = NoRequest

\* AwayIsTimed, until the last connection of the requester has left.
AwayOk ==
    /\ document # "absent"
    /\ ~stopping
    /\ Active
    /\ \A c \in Clients : MemberOf[c] = request.requester => ~Present(c)
    => timer = request /\ request.autoClearAt # 0

\* A deadline is a grace period after the requester was seen, and nobody's who
\* is there.
GraceOk ==
    /\ seen <= now
    /\ request.autoClearAt # 0 =>
          /\ request.autoClearAt >= seen + Grace
          /\ \A c \in hooked : MemberOf[c] = request.requester => conn[c] # "open"

\* Under a key that is not shared, who is there, or owns an id, is the
\* connection whose ids are released.
OwnersOk ==
    /\ \A id \in AwarenessIds :
          owners[id] # Nobody /\ SocketOf[owners[id]] \notin shared =>
             Present(owners[id]) /\ awarenessConnections[SocketOf[owners[id]]] = owners[id]
    /\ \A c \in Clients :
          c \in frames \/ (c \in hooked /\ conn[c] = "open") =>
             SocketOf[c] \in shared \/ awarenessConnections[SocketOf[c]] = c

PresenceInv ==
    /\ DrainInv
    /\ PresenceTypeOK
    /\ RequestOk
    /\ AwayOk
    /\ GraceOk
    /\ OwnersOk

-----------------------------------------------------------------------------
(* Sequences of clients.                                                   *)

LEMMA AddType ==
    ASSUME NEW q \in Seq(Clients), NEW c \in Clients
    PROVE  /\ Add(q, c) \in Seq(Clients)
           /\ EntriesOf(Add(q, c)) = EntriesOf(q) \cup {c}
           /\ Len(Add(q, c)) = IF c \in EntriesOf(q) THEN Len(q) ELSE Len(q) + 1
<1>1. CASE c \in EntriesOf(q)
  BY <1>1 DEF Add, EntriesOf
<1>2. CASE c \notin EntriesOf(q)
  <2>1. Add(q, c) = Append(q, c)
    BY <1>2 DEF Add, EntriesOf
  <2>2. /\ Append(q, c) \in Seq(Clients) /\ Len(Append(q, c)) = Len(q) + 1
        /\ DOMAIN q = 1 .. Len(q) /\ DOMAIN Append(q, c) = 1 .. Len(q) + 1
        /\ Append(q, c)[Len(q) + 1] = c
        /\ \A i \in 1 .. Len(q) : Append(q, c)[i] = q[i]
    OBVIOUS
  <2>3. EntriesOf(Append(q, c)) = EntriesOf(q) \cup {c}
    <3>1. ASSUME NEW i \in DOMAIN Append(q, c)
          PROVE  Append(q, c)[i] \in EntriesOf(q) \cup {c}
      BY <2>2, <3>1 DEF EntriesOf
    <3>2. ASSUME NEW i \in DOMAIN q PROVE q[i] \in EntriesOf(Append(q, c))
      BY <2>2, <3>2 DEF EntriesOf
    <3>3. c \in EntriesOf(Append(q, c))
      BY <2>2 DEF EntriesOf
    <3> QED
      BY <3>1, <3>2, <3>3 DEF EntriesOf
  <2> QED
    BY <1>2, <2>1, <2>2, <2>3
<1> QED
  BY <1>1, <1>2

LEMMA TailType ==
    ASSUME NEW q \in Seq(Clients), q # << >>
    PROVE  /\ Head(q) \in EntriesOf(q)
           /\ Tail(q) \in Seq(Clients)
           /\ Len(Tail(q)) = Len(q) - 1
           /\ EntriesOf(Tail(q)) \subseteq EntriesOf(q)
           /\ EntriesOf(q) \subseteq EntriesOf(Tail(q)) \cup {Head(q)}
<1>1. /\ Tail(q) \in Seq(Clients) /\ Len(Tail(q)) = Len(q) - 1
      /\ DOMAIN q = 1 .. Len(q) /\ DOMAIN Tail(q) = 1 .. Len(q) - 1
      /\ \A i \in 1 .. Len(q) - 1 : Tail(q)[i] = q[i + 1]
      /\ Head(q) = q[1] /\ Len(q) \in Nat \ {0}
  OBVIOUS
<1>2. EntriesOf(Tail(q)) \subseteq EntriesOf(q)
  <2>1. ASSUME NEW i \in 1 .. Len(q) - 1 PROVE i + 1 \in 1 .. Len(q)
    BY <1>1
  <2> QED
    BY <1>1, <2>1 DEF EntriesOf
<1>3. ASSUME NEW i \in DOMAIN q PROVE q[i] \in EntriesOf(Tail(q)) \cup {Head(q)}
  <2>1. CASE i = 1
    BY <1>1, <2>1
  <2>2. CASE i # 1
    <3>1. i - 1 \in 1 .. Len(q) - 1 /\ (i - 1) + 1 = i
      BY <1>1, <2>2
    <3> QED
      BY <1>1, <3>1 DEF EntriesOf
  <2> QED
    BY <2>1, <2>2
<1> QED
  BY <1>1, <1>2, <1>3, SMTT(30) DEF EntriesOf

LEMMA EntriesType == ASSUME NEW q \in Seq(Clients) PROVE EntriesOf(q) \subseteq Clients
BY DEF EntriesOf

-----------------------------------------------------------------------------
(* The drain's steps.                                                      *)

\* Steps that leave the accounts alone keep them, when nobody comes to be
\* tracked once more.
LEMMA KeysKept ==
    ASSUME KeysOk, UNCHANGED <<tracked, counted, crossed>>,
           \A c \in counted : WillBeTracked(c)' => WillBeTracked(c),
           \A c \in Clients : conn[c] = "gone" => conn'[c] = "gone",
           tracked \in [Sockets -> Seq(Clients)]
    PROVE  KeysOk'
<1>1. \A s \in Sockets : EntriesOf(tracked[s]) \subseteq Clients
  BY EntriesType
<1>2. \A s : CountedAt(s)' = CountedAt(s) /\ EntriesOf(tracked[s])' = EntriesOf(tracked[s])
  BY DEF CountedAt, EntriesOf
<1>3. ASSUME NEW s \in Sockets \ crossed PROVE KeyOk(s)'
  <2>1. \A c \in CountedAt(s) : c \in counted
    BY DEF CountedAt
  <2> QED
    BY <1>2, <1>3, <2>1 DEF KeysOk, KeyOk
<1>4. ASSUME NEW s \in Sockets, NEW c \in EntriesOf(tracked[s])
      PROVE  c \in counted' \/ conn'[c] = "gone"
  BY <1>1 DEF KeysOk
<1> QED
  BY <1>2, <1>3, <1>4 DEF KeysOk

\* What the drain holds next; once it has resolved it holds nobody.
LEMMA HoldsOk ==
    ASSUME DrainTypeOK, DrainedOk, NEW pending, NEW connections,
           Holds(pending, connections),
           drained => Empty(pending, connections)
    PROVE  DrainedOk' /\ emptyCheck' \in BOOLEAN /\ stopping' = stopping
BY DEF DrainTypeOK, DrainedOk, Holds, Empty

LEMMA DrainedKept ==
    ASSUME DrainedOk, UNCHANGED drain PROVE DrainedOk'
BY DEF DrainedOk, drain, Empty

LEMMA DrainInit == InitDrain => DrainInv
<1> SUFFICES ASSUME InitDrain PROVE DrainInv
  OBVIOUS
<1>1. DrainTypeOK
  <2>1. << >> \in Seq(Clients)
    OBVIOUS
  <2> QED
    BY <2>1 DEF InitDrain, DrainTypeOK, States
<1>2. AdmissionsOk /\ CountedOk /\ DrainedOk
  BY DEF InitDrain, AdmissionsOk, CountedOk, DrainedOk, Present
<1>3. KeysOk
  <2>1. \A s \in Sockets : EntriesOf(tracked[s]) = {} /\ Len(tracked[s]) = 0
    BY DEF InitDrain, EntriesOf
  <2>2. \A s : CountedAt(s) = {}
    BY DEF InitDrain, CountedAt
  <2> QED
    BY <2>1, <2>2, FS_EmptySet DEF KeysOk, KeyOk
<1> QED
  BY <1>1, <1>2, <1>3 DEF DrainInv

LEMMA BeginAdmissionKeeps ==
    ASSUME DrainInv, NEW c \in Clients, BeginAdmission(c) PROVE DrainInv'
<1> USE DEF DrainInv
<1>1. SocketOf[c] \in Sockets /\ conn[c] = "none" /\ c \notin hooked /\ c \notin counted
  BY SocketAssumption DEF BeginAdmission, AdmissionsOk, CountedOk, Present
<1>2. CASE stopping \/ SocketOf[c] \in closed
  <2>1. /\ conn' = [conn EXCEPT ![c] = "gone"] /\ hooked' = hooked \cup {c}
        /\ UNCHANGED <<frames, account, closed, drain>>
    BY <1>2 DEF BeginAdmission, Becomes
  <2>2. DrainTypeOK' /\ DrainedOk'
    BY <2>1, DrainedKept DEF DrainTypeOK, States, account, drain
  <2>3. AdmissionsOk' /\ CountedOk'
    BY <1>1, <2>1 DEF DrainTypeOK, AdmissionsOk, CountedOk, Present, account, drain
  <2>4. KeysOk'
    BY <1>1, <2>1, KeysKept DEF DrainTypeOK, WillBeTracked, account, drain
  <2> QED
    BY <2>2, <2>3, <2>4
<1>3. CASE ~(stopping \/ SocketOf[c] \in closed)
  <2>1. /\ conn' = [conn EXCEPT ![c] = "authenticating"]
        /\ Holds(admissions \cup {c}, tracked)
        /\ UNCHANGED <<frames, hooked, account, closed>>
    BY <1>3 DEF BeginAdmission, Becomes
  <2>2. /\ admissions' = admissions \cup {c} /\ tracked' = tracked
        /\ stopping' = stopping /\ drained' = drained
    BY <2>1 DEF Holds
  <2>3. DrainedOk' /\ emptyCheck' \in BOOLEAN
    <3>1. ~drained
      BY <1>3 DEF DrainedOk
    <3> QED
      BY <2>1, <3>1, HoldsOk
  <2>4. DrainTypeOK'
    BY <2>1, <2>2, <2>3 DEF DrainTypeOK, States, account
  <2>5. AdmissionsOk' /\ CountedOk'
    <3>1. \A d \in Clients : SocketOf[d] = SocketOf[c] => conn[d] \notin {"authenticating", "open"}
      BY DEF BeginAdmission
    <3> QED
      BY <1>1, <1>3, <2>1, <2>2, <3>1 DEF DrainTypeOK, AdmissionsOk, CountedOk, Present, account
  <2>6. KeysOk'
    BY <1>1, <2>1, <2>2, KeysKept DEF DrainTypeOK, WillBeTracked, account
  <2> QED
    BY <2>3, <2>4, <2>5, <2>6
<1> QED
  BY <1>2, <1>3

\* Steps of a client that leave the drain and its accounts alone.
LEMMA RefuseKeeps ==
    ASSUME DrainInv, NEW c \in Clients, Refuse(c) PROVE DrainInv'
<1> USE DEF DrainInv
<1>1. /\ conn[c] = "authenticating" /\ c \notin hooked /\ c \notin counted
      /\ conn' = [conn EXCEPT ![c] = "gone"] /\ hooked' = hooked \cup {c}
      /\ Holds(admissions \ {c}, tracked)
      /\ UNCHANGED <<frames, account, closed>>
  BY DEF Refuse, Becomes, Released, AdmissionsOk, CountedOk, Present
<1>2. /\ admissions' = admissions \ {c} /\ tracked' = tracked
      /\ stopping' = stopping /\ drained' = drained
  BY <1>1 DEF Holds
<1>3. DrainedOk' /\ emptyCheck' \in BOOLEAN
  <2>1. drained => Empty(admissions \ {c}, tracked)
    BY DEF DrainedOk, Empty
  <2> QED
    BY <1>1, <2>1, HoldsOk
<1>4. DrainTypeOK'
  BY <1>1, <1>2, <1>3 DEF DrainTypeOK, States, account
<1>5. AdmissionsOk' /\ CountedOk'
  BY <1>1, <1>2 DEF DrainTypeOK, AdmissionsOk, CountedOk, Present, account
<1>6. KeysOk'
  BY <1>1, <1>2, KeysKept DEF DrainTypeOK, WillBeTracked, account
<1> QED
  BY <1>3, <1>4, <1>5, <1>6

\* A load that fails, with those who wait for it.
LEMMA LoadFailsKeeps ==
    ASSUME DrainInv, NEW c \in Clients, NEW waiting, LoadFails(c, waiting) PROVE DrainInv'
<1> USE DEF DrainInv
<1> DEFINE refused == waiting \cup {c}
<1>1. /\ refused \subseteq Clients /\ refused \cap hooked = {} /\ refused \cap counted = {}
      /\ \A d \in refused : conn[d] = "authenticating"
      /\ conn' = [d \in Clients |-> IF d \in refused THEN "gone" ELSE conn[d]]
      /\ hooked' = hooked \cup refused /\ stranded' = stranded \cup waiting
      /\ Holds(admissions \ {c}, tracked)
      /\ UNCHANGED <<frames, counted, crossed, closed>>
  BY DEF LoadFails, Released, AdmissionsOk, CountedOk, Present
<1>2. /\ admissions' = admissions \ {c} /\ tracked' = tracked
      /\ stopping' = stopping /\ drained' = drained
  BY <1>1 DEF Holds
<1>3. DrainedOk' /\ emptyCheck' \in BOOLEAN
  <2>1. drained => Empty(admissions \ {c}, tracked)
    BY DEF DrainedOk, Empty
  <2> QED
    BY <1>1, <2>1, HoldsOk
<1>4. DrainTypeOK'
  BY <1>1, <1>2, <1>3 DEF DrainTypeOK, States
<1>5. AdmissionsOk'
  BY <1>1, <1>2 DEF DrainTypeOK, AdmissionsOk
<1>6. CountedOk'
  BY <1>1, <1>2 DEF DrainTypeOK, CountedOk, Present
<1>7. KeysOk'
  <2>1. \A d \in counted : WillBeTracked(d)' => WillBeTracked(d)
    BY <1>1, <1>2 DEF DrainTypeOK, WillBeTracked
  <2>2. \A d \in Clients : conn[d] = "gone" => conn'[d] = "gone"
    BY <1>1
  <2> QED
    BY <1>1, <1>2, <2>1, <2>2, KeysKept DEF DrainTypeOK
<1> QED
  BY <1>3, <1>4, <1>5, <1>6, <1>7

LEMMA EstablishKeeps ==
    ASSUME DrainInv, NEW c \in Clients, Establish(c) PROVE DrainInv'
<1> USE DEF DrainInv
<1>1. /\ conn[c] = "authenticating" /\ c \notin hooked /\ c \notin counted
      /\ conn' = [conn EXCEPT ![c] = IF SocketOf[c] \in closed THEN "closing" ELSE "open"]
      /\ UNCHANGED <<frames, hooked, account, closed, drain>>
  BY DEF Establish, Becomes, AdmissionsOk, CountedOk, Present
<1>2. DrainTypeOK' /\ DrainedOk'
  BY <1>1, DrainedKept DEF DrainTypeOK, States, account, drain
<1>3. AdmissionsOk' /\ CountedOk'
  BY <1>1 DEF DrainTypeOK, AdmissionsOk, CountedOk, Present, account, drain
<1>4. KeysOk'
  BY <1>1, KeysKept DEF DrainTypeOK, WillBeTracked, account, drain
<1> QED
  BY <1>2, <1>3, <1>4

\* Steps after which a client is still there or on its way out, in an account
\* that is as it was.
LEMMA ConnectionKeeps ==
    ASSUME DrainInv, UNCHANGED <<hooked, account, closed, drain>>,
           frames' \subseteq Clients,
           \A c \in frames' : c \in frames \/ (c \in hooked /\ conn[c] = "open"),
           conn' \in [Clients -> States],
           \A c \in Clients : \/ conn'[c] = conn[c]
                              \/ conn[c] = "open" /\ conn'[c] = "closing"
    PROVE  DrainInv'
<1> USE DEF DrainInv
<1>1. DrainTypeOK' /\ DrainedOk'
  BY DrainedKept DEF DrainTypeOK, account, drain
<1>2. AdmissionsOk'
  <2>1. /\ \A c \in admissions : /\ c \in Clients
                               /\ \/ conn'[c] \in {"authenticating", "open", "closing"}
                                  \/ c \in stranded
        /\ \A c \in stranded : conn'[c] = "gone"
    BY DEF DrainTypeOK, AdmissionsOk
  <2>2. \A c \in Clients : /\ conn'[c] \in {"none", "authenticating"} => conn[c] = conn'[c]
                           /\ conn'[c] \in {"authenticating", "open"} => conn[c] = conn'[c]
    OBVIOUS
  <2> QED
    BY <2>1, <2>2 DEF AdmissionsOk, account, drain
<1>3. CountedOk'
  BY DEF DrainTypeOK, CountedOk, Present, account
<1>4. KeysOk'
  <2>1. \A c \in counted : WillBeTracked(c)' => WillBeTracked(c)
    BY DEF DrainTypeOK, WillBeTracked, drain
  <2> QED
    BY <2>1, KeysKept DEF DrainTypeOK, account, drain
<1> QED
  BY <1>1, <1>2, <1>3, <1>4

LEMMA FrameKeeps ==
    ASSUME DrainInv, NEW c \in Clients,
           FrameArrives(c) \/ FrameHandled(c) \/ FrameRefused(c) \/ CloseConnection(c)
    PROVE  DrainInv'
<1>1. conn \in [Clients -> States] /\ frames \subseteq Clients
  BY DEF DrainInv, DrainTypeOK
<1>2. /\ UNCHANGED <<hooked, account, closed, drain>>
      /\ conn' = conn \/ conn' = [conn EXCEPT ![c] = IF conn[c] = "open" THEN "closing" ELSE conn[c]]
      /\ \/ frames' \subseteq frames
         \/ frames' = frames \cup {c} /\ c \in hooked /\ conn[c] = "open"
  BY DEF FrameArrives, FrameHandled, FrameRefused, CloseConnection, Becomes
<1>3. /\ frames' \subseteq Clients
      /\ \A d \in frames' : d \in frames \/ (d \in hooked /\ conn[d] = "open")
  BY <1>1, <1>2
<1>4. /\ conn' \in [Clients -> States]
      /\ \A d \in Clients : \/ conn'[d] = conn[d]
                            \/ conn[d] = "open" /\ conn'[d] = "closing"
  BY <1>1, <1>2 DEF States
<1> QED
  BY <1>2, <1>3, <1>4, ConnectionKeeps

LEMMA CloseAllKeeps == ASSUME DrainInv, CloseAll PROVE DrainInv'
<1>1. conn \in [Clients -> States] /\ frames \subseteq Clients
  BY DEF DrainInv, DrainTypeOK
<1>2. /\ conn' \in [Clients -> States]
      /\ \A d \in Clients : \/ conn'[d] = conn[d]
                            \/ conn[d] = "open" /\ conn'[d] = "closing"
  BY <1>1 DEF CloseAll, States
<1> QED
  BY <1>1, <1>2, ConnectionKeeps DEF CloseAll

LEMMA DroppedKeeps ==
    ASSUME DrainInv, NEW c \in Clients, Dropped(c) PROVE DrainInv'
<1> USE DEF DrainInv
<1>1. /\ conn[c] = "authenticating" /\ c \notin hooked /\ c \notin counted
      /\ c \notin admissions
      /\ conn' = [conn EXCEPT ![c] = "gone"] /\ hooked' = hooked \cup {c}
      /\ UNCHANGED <<frames, account, closed, drain>>
  BY DEF Dropped, Becomes, AdmissionsOk, CountedOk, Present
<1>2. DrainTypeOK' /\ DrainedOk'
  BY <1>1, DrainedKept DEF DrainTypeOK, States, account, drain
<1>3. AdmissionsOk' /\ CountedOk'
  BY <1>1 DEF DrainTypeOK, AdmissionsOk, CountedOk, Present, account, drain
<1>4. KeysOk'
  BY <1>1, KeysKept DEF DrainTypeOK, WillBeTracked, account, drain
<1> QED
  BY <1>2, <1>3, <1>4

LEMMA SocketClosesKeeps ==
    ASSUME DrainInv, NEW s \in Sockets, SocketCloses(s) PROVE DrainInv'
<1> USE DEF DrainInv
<1> DEFINE kept == {c \in admissions : SocketOf[c] # s}
<1>1. /\ closed' = closed \cup {s}
      /\ conn' = [c \in Clients |->
                    IF SocketOf[c] = s /\ conn[c] = "open" THEN "closing" ELSE conn[c]]
      /\ Holds(kept, tracked)
      /\ UNCHANGED <<frames, hooked, account>>
  BY DEF SocketCloses
<1>2. /\ admissions' = kept /\ tracked' = tracked
      /\ stopping' = stopping /\ drained' = drained
  BY <1>1 DEF Holds
<1>3. DrainedOk' /\ emptyCheck' \in BOOLEAN
  <2>1. drained => Empty(kept, tracked)
    BY DEF DrainedOk, Empty
  <2> QED
    BY <1>1, <2>1, HoldsOk
<1>4. DrainTypeOK'
  BY <1>1, <1>2, <1>3 DEF DrainTypeOK, States, account
<1>5. AdmissionsOk'
  BY <1>1, <1>2 DEF DrainTypeOK, AdmissionsOk, account
<1>6. CountedOk'
  BY <1>1, <1>2 DEF DrainTypeOK, CountedOk, Present, account
<1>7. KeysOk'
  <2>1. \A c \in counted : WillBeTracked(c)' => WillBeTracked(c)
    BY <1>1, <1>2 DEF DrainTypeOK, WillBeTracked
  <2> QED
    BY <1>1, <1>2, <2>1, KeysKept DEF DrainTypeOK, account
<1> QED
  BY <1>3, <1>4, <1>5, <1>6, <1>7

LEMMA EmptyCheckKeeps == ASSUME DrainInv, EmptyCheck PROVE DrainInv'
<1> USE DEF DrainInv
<1>1. DrainTypeOK' /\ DrainedOk'
  BY DEF DrainTypeOK, DrainedOk, EmptyCheck, Empty, account
<1>2. AdmissionsOk' /\ CountedOk'
  BY DEF AdmissionsOk, CountedOk, Present, EmptyCheck, account
<1>3. KeysOk'
  BY KeysKept DEF DrainTypeOK, WillBeTracked, EmptyCheck, account
<1> QED
  BY <1>1, <1>2, <1>3

LEMMA ClientsLostKeeps == ASSUME DrainInv, ClientsLost PROVE DrainInv'
<1> USE DEF DrainInv
<1>1. DrainTypeOK'
  <2>1. << >> \in Seq(Clients)
    OBVIOUS
  <2> QED
    BY <2>1 DEF DrainTypeOK, States, ClientsLost
<1>2. AdmissionsOk' /\ CountedOk' /\ DrainedOk'
  BY DEF ClientsLost, AdmissionsOk, CountedOk, DrainedOk, Present
<1>3. KeysOk'
  <2>1. \A s \in Sockets : EntriesOf(tracked'[s]) = {} /\ Len(tracked'[s]) = 0
    BY DEF ClientsLost, EntriesOf
  <2>2. \A s : CountedAt(s)' = {}
    BY DEF ClientsLost, CountedAt
  <2> QED
    BY <2>1, <2>2, FS_EmptySet DEF KeysOk, KeyOk, EntriesOf
<1> QED
  BY <1>1, <1>2, <1>3

\* A connection's hook, once its connection is known.
LEMMA ConnectedKeeps ==
    ASSUME DrainInv, NEW c \in Clients, NEW fenced \in BOOLEAN, Connected(c, fenced)
    PROVE  DrainInv'
<1> USE DEF DrainInv
<1> DEFINE next == IF conn[c] = "open" /\ (c \notin admissions \/ stopping \/ fenced)
                   THEN "closing" ELSE conn[c]
           s == SocketOf[c]
<1>1. /\ conn[c] \in {"open", "closing", "gone"} /\ c \notin hooked
      /\ hooked' = hooked \cup {c}
      /\ UNCHANGED <<frames, crossed, stranded, closed>>
  BY DEF Connected
<1>2. s \in Sockets
  BY SocketAssumption
<1>3. conn' = [conn EXCEPT ![c] = next]
  BY DEF Connected, Becomes, DrainTypeOK
<1> HIDE DEF next
<1>4. next = conn[c] \/ (conn[c] = "open" /\ next = "closing")
  BY DEF next
<1>5. c \notin admissions => next # "open"
  BY DEF next
<1>6. CASE c \notin admissions
  <2>1. Holds(admissions, tracked) /\ UNCHANGED counted
    BY <1>6 DEF Connected, Released
  <2>2. UNCHANGED <<admissions, tracked, stopping, drained, account>>
    BY <1>1, <2>1 DEF Holds, account
  <2>3. DrainedOk' /\ emptyCheck' \in BOOLEAN
    BY <2>1, HoldsOk DEF DrainedOk
  <2>4. DrainTypeOK'
    BY <1>1, <1>3, <1>4, <2>2, <2>3 DEF DrainTypeOK, States, account
  <2>5. AdmissionsOk'
    BY <1>1, <1>3, <1>4, <1>6, <2>2 DEF DrainTypeOK, AdmissionsOk
  <2>6. CountedOk'
    BY <1>1, <1>3, <1>4, <1>5, <1>6, <2>2 DEF DrainTypeOK, CountedOk, Present, account
  <2>7. KeysOk'
    <3>1. \A d \in counted : WillBeTracked(d)' => WillBeTracked(d)
      BY <1>1, <1>3, <1>4, <2>2 DEF DrainTypeOK, WillBeTracked
    <3>2. \A d \in Clients : conn[d] = "gone" => conn'[d] = "gone"
      BY <1>3, <1>4 DEF DrainTypeOK
    <3> QED
      BY <2>2, <3>1, <3>2, KeysKept DEF DrainTypeOK, account
  <2> QED
    BY <2>3, <2>4, <2>5, <2>6, <2>7
<1>7. CASE c \in admissions
  <2> DEFINE connections == [tracked EXCEPT ![s] = Add(@, c)]
  <2>1. Holds(admissions \ {c}, connections) /\ counted' = counted \cup {c}
    BY <1>7 DEF Connected
  <2>2. /\ admissions' = admissions \ {c} /\ stopping' = stopping /\ drained' = drained
        /\ tracked' = connections
    BY <2>1 DEF Holds
  <2>3. connections \in [Sockets -> Seq(Clients)]
    BY <1>2, AddType DEF DrainTypeOK
  <2>4. DrainedOk' /\ emptyCheck' \in BOOLEAN
    <3>1. ~drained
      BY <1>7 DEF DrainedOk, Empty
    <3> QED
      BY <2>1, <3>1, HoldsOk
  <2>5. DrainTypeOK'
    BY <1>1, <1>3, <1>4, <2>1, <2>2, <2>3, <2>4 DEF DrainTypeOK, States
  <2>6. AdmissionsOk'
    BY <1>1, <1>3, <1>4, <2>2 DEF DrainTypeOK, AdmissionsOk
  <2>7. Present(c) /\ next \in {"open", "closing"}
    BY <1>1, <1>4, <1>7 DEF AdmissionsOk, Present
  <2>8. CountedOk'
    BY <1>1, <1>3, <1>4, <2>1, <2>7 DEF DrainTypeOK, CountedOk, Present
  <2>9. \A t \in Sockets \ {s} : tracked'[t] = tracked[t] /\ CountedAt(t)' = CountedAt(t)
    BY <2>1, <2>2 DEF DrainTypeOK, CountedAt
  <2>10. CountedAt(s)' = CountedAt(s) \cup {c}
    BY <2>1 DEF CountedAt
  <2>11. /\ EntriesOf(tracked'[s]) = EntriesOf(tracked[s]) \cup {c}
         /\ Len(tracked'[s]) = IF c \in EntriesOf(tracked[s]) THEN Len(tracked[s])
                               ELSE Len(tracked[s]) + 1
    BY <1>2, <2>2, AddType DEF DrainTypeOK
  <2>12. \A d \in counted : WillBeTracked(d)' => WillBeTracked(d)
    BY <1>1, <1>3, <1>4, <2>2 DEF DrainTypeOK, WillBeTracked
  <2>13. WillBeTracked(c)
    BY <1>1, <1>7 DEF WillBeTracked
  <2>14. ASSUME NEW t \in Sockets, NEW d \in EntriesOf(tracked'[t])
         PROVE  d \in counted' \/ conn'[d] = "gone"
    <3>1. d \in EntriesOf(tracked[t]) \/ d = c
      BY <2>9, <2>11, <2>14
    <3>2. CASE d = c
      BY <2>1, <3>2
    <3>3. CASE d \in EntriesOf(tracked[t]) /\ d # c
      <4>1. d \in Clients
        BY <3>3, EntriesType DEF DrainTypeOK
      <4> QED
        BY <1>3, <2>1, <3>3, <4>1 DEF KeysOk, DrainTypeOK
    <3> QED
      BY <3>1, <3>2, <3>3
  <2>15. ASSUME NEW t \in Sockets \ crossed PROVE KeyOk(t)'
    <3>1. KeyOk(t)
      BY DEF KeysOk
    <3>2. CASE t # s
      <4>1. \A d \in CountedAt(t) : d \in counted
        BY DEF CountedAt
      <4> QED
        BY <2>9, <2>12, <3>1, <3>2, <4>1 DEF KeyOk, EntriesOf
    <3>3. CASE t = s
      <4>1. /\ IsFiniteSet(CountedAt(s)')
            /\ Cardinality(CountedAt(s)') = IF c \in CountedAt(s) THEN Cardinality(CountedAt(s))
                                            ELSE Cardinality(CountedAt(s)) + 1
        BY <2>10, <3>1, <3>3, FS_AddElement DEF KeyOk
      <4>2. c \in CountedAt(s) <=> c \in EntriesOf(tracked[s])
        <5>1. c \in CountedAt(s) => c \in EntriesOf(tracked[s])
          BY <2>13, <3>1, <3>3 DEF KeyOk
        <5>2. c \in EntriesOf(tracked[s]) => c \in CountedAt(s)
          BY <1>2, <2>7 DEF KeysOk, CountedAt, Present
        <5> QED
          BY <5>1, <5>2
      <4>3. \A d \in CountedAt(s)' : WillBeTracked(d)' => d \in EntriesOf(tracked'[s])
        <5>1. \A d \in CountedAt(s) : d \in counted
          BY DEF CountedAt
        <5> QED
          BY <2>10, <2>11, <2>12, <3>1, <3>3, <5>1 DEF KeyOk
      <4>4. Cardinality(CountedAt(s)') = Len(tracked'[s])
        BY <2>11, <3>1, <3>3, <4>1, <4>2 DEF KeyOk
      <4> QED
        BY <3>3, <4>1, <4>3, <4>4 DEF KeyOk, EntriesOf
    <3> QED
      BY <3>2, <3>3
  <2>16. KeysOk'
    BY <1>1, <2>14, <2>15 DEF KeysOk, EntriesOf
  <2> QED
    BY <2>4, <2>5, <2>6, <2>8, <2>16
<1> QED
  BY <1>6, <1>7

\* Whoever leaves takes the entry of its key that was made first.
LEMMA DisconnectedKeeps ==
    ASSUME DrainInv, NEW c \in Clients, Disconnected(c) PROVE DrainInv'
<1> USE DEF DrainInv
<1> DEFINE s == SocketOf[c]
           same == tracked[s]
           connections == [tracked EXCEPT ![s] = IF @ = << >> THEN @ ELSE Tail(@)]
<1>1. /\ conn[c] = "closing" /\ c \notin frames
      /\ conn' = [conn EXCEPT ![c] = "gone"]
      /\ crossed' = IF Crosses(c) THEN crossed \cup {s} ELSE crossed
      /\ counted' = counted \ {c}
      /\ Holds(admissions \ {c}, connections)
      /\ UNCHANGED <<frames, hooked, stranded, closed>>
  BY DEF Disconnected, Becomes
<1>2. s \in Sockets /\ same \in Seq(Clients)
  BY SocketAssumption DEF DrainTypeOK
<1>3. /\ admissions' = admissions \ {c} /\ stopping' = stopping /\ drained' = drained
      /\ tracked' = connections
  BY <1>1 DEF Holds
<1>4. connections \in [Sockets -> Seq(Clients)]
  BY <1>2, TailType DEF DrainTypeOK
<1>5. /\ \A t \in Sockets \ {s} : tracked'[t] = tracked[t]
      /\ tracked'[s] = IF same = << >> THEN same ELSE Tail(same)
  BY <1>2, <1>3 DEF DrainTypeOK
<1>6. DrainedOk' /\ emptyCheck' \in BOOLEAN
  <2>1. drained => Empty(admissions \ {c}, connections)
    BY <1>3, <1>5 DEF DrainedOk, Empty
  <2> QED
    BY <1>1, <2>1, HoldsOk
<1>7. DrainTypeOK'
  BY <1>1, <1>2, <1>3, <1>4, <1>6 DEF DrainTypeOK, States
<1>8. AdmissionsOk' /\ CountedOk'
  BY <1>1, <1>3 DEF DrainTypeOK, AdmissionsOk, CountedOk, Present
<1>9. \A t \in Sockets : EntriesOf(tracked'[t]) \subseteq EntriesOf(tracked[t])
  BY <1>2, <1>5, TailType
<1>10. ASSUME NEW t \in Sockets, NEW d \in EntriesOf(tracked'[t])
       PROVE  d \in counted' \/ conn'[d] = "gone"
  <2>1. d \in EntriesOf(tracked[t])
    BY <1>9, <1>10
  <2>2. d \in Clients
    BY <2>1, EntriesType DEF DrainTypeOK
  <2> QED
    BY <1>1, <2>1, <2>2 DEF KeysOk, DrainTypeOK
<1>11. \A d \in counted \ {c} : WillBeTracked(d)' => WillBeTracked(d)
  BY <1>1, <1>3 DEF DrainTypeOK, WillBeTracked
<1>12. ASSUME NEW t \in Sockets \ crossed' PROVE KeyOk(t)'
  <2>1. KeyOk(t)
    BY <1>1 DEF KeysOk
  <2>2. CASE t # s
    <3>1. CountedAt(t)' = CountedAt(t) /\ c \notin CountedAt(t)
      BY <1>1, <2>2 DEF CountedAt
    <3>2. \A d \in CountedAt(t) : d \in counted \ {c}
      BY <3>1 DEF CountedAt
    <3> QED
      BY <1>5, <1>11, <2>1, <2>2, <3>1, <3>2 DEF KeyOk, EntriesOf
  <2>3. CASE t = s /\ same = << >>
    <3>1. CountedAt(s) = {}
      BY <2>1, <2>3, FS_EmptySet DEF KeyOk
    <3>2. CountedAt(s)' = {}
      BY <1>1, <3>1 DEF CountedAt
    <3> QED
      BY <1>5, <2>3, <3>2, FS_EmptySet DEF KeyOk, EntriesOf
  <2>4. CASE t = s /\ same # << >>
    <3>1. ~Crosses(c)
      BY <1>1, <1>12, <2>4
    <3>2. /\ c \in counted
          /\ Head(same) # c => ~(conn[Head(same)] = "open" /\ ~stopping)
                               /\ Head(same) \notin admissions \ hooked
      BY <2>4, <3>1 DEF Crosses
    <3>3. CountedAt(s)' = CountedAt(s) \ {c} /\ c \in CountedAt(s)
      BY <1>1, <3>2 DEF CountedAt
    <3>4. /\ IsFiniteSet(CountedAt(s)')
          /\ Cardinality(CountedAt(s)') = Cardinality(CountedAt(s)) - 1
      BY <2>1, <2>4, <3>3, FS_RemoveElement DEF KeyOk
    <3>5. /\ Len(tracked'[s]) = Len(same) - 1
          /\ EntriesOf(same) \subseteq EntriesOf(tracked'[s]) \cup {Head(same)}
      BY <1>2, <1>5, <2>4, TailType
    <3>6. ASSUME NEW d \in CountedAt(s)', WillBeTracked(d)'
          PROVE  d \in EntriesOf(tracked'[s])
      <4>1. d \in counted \ {c} /\ d \in CountedAt(s)
        BY <3>3, <3>6 DEF CountedAt
      <4>2. WillBeTracked(d)
        BY <1>11, <3>6, <4>1
      <4>3. d \in EntriesOf(same)
        BY <2>1, <2>4, <4>1, <4>2 DEF KeyOk
      <4>4. d # Head(same)
        BY <3>2, <4>1, <4>2 DEF WillBeTracked
      <4> QED
        BY <3>5, <4>3, <4>4
    <3> QED
      BY <2>1, <2>4, <3>4, <3>5, <3>6 DEF KeyOk, EntriesOf
  <2> QED
    BY <2>2, <2>3, <2>4
<1>13. KeysOk'
  BY <1>10, <1>12 DEF KeysOk, EntriesOf
<1> QED
  BY <1>6, <1>7, <1>8, <1>13

LEMMA BeginKeeps == ASSUME DrainInv, Begin PROVE DrainInv'
<1> USE DEF DrainInv
<1> DEFINE opened == {c \in Clients : conn[c] = "open"}
           OpenAt(s) == {c \in opened : SocketOf[c] = s}
           connections == [s \in Sockets |->
             IF \E c \in opened : SocketOf[c] = s
             THEN Add(tracked[s], CHOOSE c \in opened : SocketOf[c] = s)
             ELSE tracked[s]]
<1>1. /\ ~stopping /\ stopping'
      /\ tracked' = connections
      /\ emptyCheck' = Empty(admissions, connections)
      /\ counted' = counted \cup opened
      /\ UNCHANGED <<conn, frames, hooked, crossed, stranded, closed, admissions, drained>>
  BY DEF Begin
<1>2. ASSUME NEW s \in Sockets, NEW c \in opened, SocketOf[c] = s
      PROVE  tracked'[s] = Add(tracked[s], c) /\ OpenAt(s) = {c}
  <2>1. \A d \in opened : SocketOf[d] = s => d = c
    BY <1>2 DEF AdmissionsOk
  <2> QED
    BY <1>1, <1>2, <2>1
<1>3. ASSUME NEW s \in Sockets, ~ \E c \in opened : SocketOf[c] = s
      PROVE  tracked'[s] = tracked[s] /\ OpenAt(s) = {}
  BY <1>1, <1>3
<1>4. connections \in [Sockets -> Seq(Clients)]
  <2>1. ASSUME NEW s \in Sockets PROVE connections[s] \in Seq(Clients)
    <3>1. CASE \E c \in opened : SocketOf[c] = s
      <4>1. PICK c \in opened : SocketOf[c] = s
        BY <3>1
      <4> QED
        BY <1>1, <1>2, <4>1, AddType DEF DrainTypeOK
    <3>2. CASE ~ \E c \in opened : SocketOf[c] = s
      BY <1>1, <1>3, <3>2 DEF DrainTypeOK
    <3> QED
      BY <3>1, <3>2
  <2> QED
    BY <2>1
<1>5. \A s : CountedAt(s)' = CountedAt(s) \cup OpenAt(s)
  BY <1>1 DEF CountedAt
<1>6. DrainTypeOK'
  BY <1>1, <1>4 DEF DrainTypeOK, Begin, Empty
<1>7. AdmissionsOk' /\ CountedOk'
  BY <1>1 DEF DrainTypeOK, AdmissionsOk, CountedOk, Present
<1>8. DrainedOk'
  BY <1>1 DEF DrainedOk, Empty
<1> HIDE DEF connections, opened
<1>9. \A c \in counted : WillBeTracked(c)' => WillBeTracked(c)
  BY <1>1 DEF WillBeTracked
<1>10. ASSUME NEW s \in Sockets
       PROVE  /\ \A d \in EntriesOf(tracked'[s]) : d \in counted' \/ conn'[d] = "gone"
              /\ s \notin crossed => KeyOk(s)'
  <2>1. \A d \in EntriesOf(tracked[s]) : d \in counted' \/ conn'[d] = "gone"
    BY <1>1 DEF KeysOk
  <2>2. s \notin crossed => KeyOk(s)
    BY DEF KeysOk
  <2>3. \A d \in CountedAt(s) : d \in counted
    BY DEF CountedAt
  <2>4. CASE ~ \E c \in opened : SocketOf[c] = s
    <3>1. tracked'[s] = tracked[s] /\ CountedAt(s)' = CountedAt(s)
      BY <1>3, <1>5, <2>4
    <3> QED
      BY <1>9, <2>1, <2>2, <2>3, <3>1 DEF KeyOk, EntriesOf
  <2>5. CASE \E c \in opened : SocketOf[c] = s
    <3>1. PICK c \in opened : SocketOf[c] = s
      BY <2>5
    <3>2. c \in Clients /\ conn[c] = "open"
      BY DEF opened
    <3>3. /\ EntriesOf(tracked'[s]) = EntriesOf(tracked[s]) \cup {c}
          /\ Len(tracked'[s]) = IF c \in EntriesOf(tracked[s]) THEN Len(tracked[s])
                                ELSE Len(tracked[s]) + 1
      BY <1>2, <3>1, <3>2, AddType, SMTT(30) DEF DrainTypeOK
    <3>4. CountedAt(s)' = CountedAt(s) \cup {c} /\ c \in counted'
      BY <1>1, <1>2, <1>5, <3>1
    <3>5. ASSUME s \notin crossed PROVE KeyOk(s)'
      <4>1. /\ IsFiniteSet(CountedAt(s)')
            /\ Cardinality(CountedAt(s)') = IF c \in CountedAt(s) THEN Cardinality(CountedAt(s))
                                            ELSE Cardinality(CountedAt(s)) + 1
        BY <2>2, <3>4, <3>5, FS_AddElement DEF KeyOk
      <4>2. c \in CountedAt(s) => c \in EntriesOf(tracked[s])
        BY <1>1, <2>2, <3>2, <3>5 DEF KeyOk, WillBeTracked
      <4>3. c \in EntriesOf(tracked[s]) => c \in CountedAt(s)
        BY <3>1, <3>2 DEF KeysOk, CountedAt
      <4>4. \A d \in CountedAt(s)' : WillBeTracked(d)' => d \in EntriesOf(tracked'[s])
        BY <1>9, <2>2, <2>3, <3>3, <3>4, <3>5 DEF KeyOk
      <4>5. Cardinality(CountedAt(s)') = Len(tracked'[s])
        BY <2>2, <3>3, <3>5, <4>1, <4>2, <4>3 DEF KeyOk
      <4> QED
        BY <4>1, <4>4, <4>5 DEF KeyOk, EntriesOf
    <3> QED
      BY <2>1, <3>3, <3>4, <3>5
  <2> QED
    BY <2>4, <2>5
<1>11. KeysOk'
  BY <1>1, <1>10 DEF KeysOk, EntriesOf
<1> QED
  BY <1>6, <1>7, <1>8, <1>11

\* The drain's step, whoever makes it.
DrainStep ==
    \/ \E c \in Clients :
          \/ BeginAdmission(c) \/ Refuse(c) \/ Establish(c) \/ Dropped(c)
          \/ \E waiting \in SUBSET Clients : LoadFails(c, waiting)
          \/ \E fenced \in BOOLEAN : Connected(c, fenced)
          \/ FrameArrives(c) \/ FrameHandled(c) \/ FrameRefused(c) \/ CloseConnection(c)
          \/ Disconnected(c)
    \/ CloseAll \/ (\E s \in Sockets : SocketCloses(s))
    \/ Begin \/ EmptyCheck \/ ClientsLost

LEMMA DrainKeeps == ASSUME DrainInv, DrainStep \/ UNCHANGED drainVars PROVE DrainInv'
<1>1. CASE UNCHANGED drainVars
  <2>1. UNCHANGED <<hooked, account, closed, drain, frames, conn>>
    BY <1>1 DEF drainVars
  <2> QED
    BY <2>1, ConnectionKeeps DEF DrainInv, DrainTypeOK
<1>2. CASE DrainStep
  BY <1>2, BeginAdmissionKeeps, RefuseKeeps, LoadFailsKeeps, EstablishKeeps, DroppedKeeps,
     ConnectedKeeps,
     FrameKeeps, DisconnectedKeeps, CloseAllKeeps, SocketClosesKeeps, BeginKeeps,
     EmptyCheckKeeps, ClientsLostKeeps DEF DrainStep
<1> QED
  BY <1>1, <1>2

LEMMA DrainExact == DrainInv => DrainIsExact
<1> SUFFICES ASSUME DrainInv PROVE DrainIsExact
  OBVIOUS
<1> USE DEF DrainInv
<1>1. ASSUME NEW c \in frames, drained PROVE SocketOf[c] \in crossed
  <2>1. c \in Clients /\ SocketOf[c] \in Sockets /\ c \in CountedAt(SocketOf[c])
    BY SocketAssumption DEF DrainTypeOK, CountedOk, CountedAt
  <2>2. tracked[SocketOf[c]] = << >>
    BY <1>1, <2>1 DEF DrainedOk, Empty
  <2> SUFFICES ASSUME SocketOf[c] \notin crossed PROVE FALSE
    OBVIOUS
  <2>3. CountedAt(SocketOf[c]) = {}
    BY <2>1, <2>2, FS_EmptySet DEF KeysOk, KeyOk
  <2> QED
    BY <2>1, <2>3
<1>2. ASSUME NEW s \in Sockets \ crossed, \A c \in Clients : SocketOf[c] = s => Left(c)
      PROVE  tracked[s] = << >>
  <2>1. CountedAt(s) = {}
    BY <1>2 DEF DrainTypeOK, CountedOk, CountedAt, Present, Left
  <2>2. Len(tracked[s]) = 0 /\ tracked[s] \in Seq(Clients)
    BY <2>1, FS_EmptySet DEF KeysOk, KeyOk, DrainTypeOK
  <2> QED
    BY <2>2
<1>3. \A c \in admissions : Left(c) => c \in stranded /\ SocketOf[c] \notin closed
  BY DEF AdmissionsOk, Left
<1> QED
  BY <1>1, <1>2, <1>3 DEF DrainIsExact, DrainedOk, Empty

-----------------------------------------------------------------------------
(* The presences.                                                          *)

\* Steps in which nobody's hook runs and nobody is gone for the last time.
Calm ==
    /\ \A c \in Clients : Present(c) => Present(c)'
    /\ \A c \in hooked' : conn'[c] = "open" => c \in hooked /\ conn[c] = "open"
    /\ \A c \in frames' : c \in frames \/ (c \in hooked /\ conn[c] = "open")
    /\ stopping' = stopping

CalmStep ==
    \/ \E c \in Clients :
          \/ BeginAdmission(c) \/ Refuse(c) \/ Establish(c) \/ Dropped(c)
          \/ \E waiting \in SUBSET Clients : LoadFails(c, waiting)
          \/ FrameArrives(c) \/ FrameHandled(c) \/ FrameRefused(c) \/ CloseConnection(c)
    \/ CloseAll \/ (\E s \in Sockets : SocketCloses(s))
    \/ EmptyCheck

LEMMA CalmSteps == ASSUME DrainInv, CalmStep \/ UNCHANGED drainVars PROVE Calm
<1>1. conn \in [Clients -> States] /\ hooked \subseteq Clients /\ frames \subseteq Clients
  BY DEF DrainInv, DrainTypeOK
<1>2. \A c \in Clients : conn[c] \in {"none", "authenticating"} => c \notin hooked
  BY DEF DrainInv, AdmissionsOk
<1>3. ASSUME NEW c \in Clients, BeginAdmission(c) PROVE Calm
  BY <1>1, <1>2, <1>3 DEF BeginAdmission, Becomes, Holds, drain, Calm, Present
<1>4. ASSUME NEW c \in Clients, Refuse(c) \/ Dropped(c) PROVE Calm
  BY <1>1, <1>2, <1>4 DEF Refuse, Dropped, Becomes, Released, Holds, drain, Calm, Present
<1>5. ASSUME NEW c \in Clients, Establish(c) PROVE Calm
  BY <1>1, <1>2, <1>5 DEF Establish, Becomes, drain, Calm, Present
<1>6. ASSUME NEW c \in Clients,
             FrameArrives(c) \/ FrameHandled(c) \/ FrameRefused(c) \/ CloseConnection(c)
      PROVE  Calm
  BY <1>1, <1>6 DEF FrameArrives, FrameHandled, FrameRefused, CloseConnection, Becomes,
                    drain, Calm, Present
<1>7. CASE CloseAll
  BY <1>1, <1>7 DEF CloseAll, drain, Calm, Present
<1>8. ASSUME NEW s \in Sockets, SocketCloses(s) PROVE Calm
  BY <1>1, <1>8 DEF SocketCloses, Holds, Calm, Present
<1>9. CASE EmptyCheck
  BY <1>1, <1>9 DEF EmptyCheck, Calm, Present
<1>10. CASE UNCHANGED drainVars
  BY <1>1, <1>10 DEF drainVars, drain, Calm, Present
<1>11. ASSUME NEW c \in Clients, NEW waiting \in SUBSET Clients, LoadFails(c, waiting) PROVE Calm
  BY <1>1, <1>2, <1>11 DEF LoadFails, Released, Holds, Calm, Present
<1> QED
  BY <1>3, <1>4, <1>5, <1>6, <1>7, <1>8, <1>9, <1>10, <1>11 DEF CalmStep

\* A member whose connection is open is present.
LEMMA ConnectedIsPresent ==
    ASSUME NEW m, IsConnected(m)
    PROVE  \E c \in Clients : MemberOf[c] = m /\ Present(c)
BY DEF IsConnected, Present

LEMMA NobodyConnects ==
    /\ ~IsConnected(Nobody)
    /\ \A c \in Clients : MemberOf[c] \in Members /\ MemberOf[c] # Nobody
BY PresenceAssumption DEF IsConnected

\* While nothing happens to the presences, calm steps keep what is known.
LEMMA AwayCalm ==
    ASSUME AwayOk, Calm, UNCHANGED <<document, request, timer>> PROVE AwayOk'
BY DEF AwayOk, Calm, Active

LEMMA GraceCalm ==
    ASSUME GraceOk, Calm, UNCHANGED <<request, now, seen>> PROVE GraceOk'
BY DEF GraceOk, Calm

LEMMA OwnersCalm ==
    ASSUME DrainInv', PresenceTypeOK, OwnersOk, Calm, UNCHANGED awareness PROVE OwnersOk'
<1>1. ASSUME NEW id \in AwarenessIds, owners'[id] # Nobody, SocketOf[owners'[id]] \notin shared'
      PROVE  /\ conn'[owners'[id]] \in {"open", "closing"}
             /\ awarenessConnections'[SocketOf[owners'[id]]] = owners'[id]
  <2>1. owners[id] \in Clients /\ owners'[id] = owners[id]
    BY <1>1 DEF PresenceTypeOK, awareness
  <2>2. Present(owners[id]) /\ awarenessConnections'[SocketOf[owners[id]]] = owners[id]
    BY <1>1, <2>1 DEF OwnersOk, awareness
  <2> QED
    BY <2>1, <2>2 DEF Calm, Present
<1>2. ASSUME NEW c \in Clients, c \in frames' \/ (c \in hooked' /\ conn'[c] = "open")
      PROVE  SocketOf[c] \in shared' \/ awarenessConnections'[SocketOf[c]] = c
  BY <1>2 DEF OwnersOk, Calm, awareness
<1> QED
  BY <1>1, <1>2 DEF OwnersOk, Present

LEMMA PresenceInit == InitDrain /\ InitPresence => PresenceInv
<1> SUFFICES ASSUME InitDrain, InitPresence PROVE PresenceInv
  OBVIOUS
<1>1. DrainInv
  BY DrainInit
<1>2. PresenceTypeOK
  BY DEF InitPresence, PresenceTypeOK, NoRequest, Deadlines
<1>3. RequestOk /\ AwayOk /\ GraceOk /\ OwnersOk
  BY DEF InitPresence, InitDrain, RequestOk, AwayOk, GraceOk, OwnersOk, NoRequest
<1> QED
  BY <1>1, <1>2, <1>3 DEF PresenceInv

\* Steps that the presences do not notice.
LEMMA UnnoticedKeeps ==
    ASSUME PresenceInv, CalmStep \/ UNCHANGED drainVars, UNCHANGED presenceVars
    PROVE  PresenceInv'
<1> USE DEF PresenceInv
<1>1. DrainInv' /\ Calm
  BY DrainKeeps, CalmSteps DEF CalmStep, DrainStep
<1>2. PresenceTypeOK' /\ RequestOk'
  BY DEF PresenceTypeOK, RequestOk, presenceVars, grace, awareness
<1>3. AwayOk' /\ GraceOk' /\ OwnersOk'
  BY <1>1, AwayCalm, GraceCalm, OwnersCalm DEF presenceVars, grace
<1> QED
  BY <1>1, <1>2, <1>3

LEMMA JoinsKeeps == ASSUME PresenceInv, NEW c \in Clients, Joins(c) PROVE PresenceInv'
<1> USE DEF PresenceInv
<1>1. DrainInv' /\ Calm
  BY DrainKeeps, CalmSteps DEF CalmStep, DrainStep, Joins
<1>2. PresenceTypeOK' /\ RequestOk'
  BY DEF Joins, PresenceTypeOK, RequestOk, grace, awareness
<1>3. AwayOk'
  BY <1>1 DEF Joins, AwayOk, RequestOk, Calm, Active, grace
<1>4. GraceOk' /\ OwnersOk'
  BY <1>1, GraceCalm, OwnersCalm DEF Joins, grace
<1> QED
  BY <1>1, <1>2, <1>3, <1>4

\* Steps that change the conversation about a request, or a deadline, keep the
\* owners of awareness ids, and the rest is as it was.
LEMMA AnnouncesKeeps ==
    ASSUME PresenceInv, NEW c \in Clients, NEW id \in AwarenessIds, Announces(c, id)
    PROVE  PresenceInv'
<1> USE DEF PresenceInv
<1>1. FrameHandled(c) \/ FrameRefused(c)
  BY DEF Announces
<1>2. DrainInv' /\ Calm
  BY <1>1, DrainKeeps, CalmSteps DEF CalmStep, DrainStep
<1>3. c \in frames
  BY <1>1 DEF FrameHandled, FrameRefused
<1>4. /\ UNCHANGED <<document, grace, awarenessConnections, shared>>
      /\ owners' = owners \/ owners' = [owners EXCEPT ![id] = c]
  BY DEF Announces
<1>5. PresenceTypeOK' /\ RequestOk'
  BY <1>4 DEF PresenceTypeOK, RequestOk, grace
<1>6. AwayOk' /\ GraceOk'
  BY <1>2, <1>4, AwayCalm, GraceCalm DEF grace
<1>7. OwnersOk'
  <2>1. CASE owners' = owners
    BY <1>2, <1>4, <2>1, OwnersCalm DEF awareness
  <2>2. CASE owners' = [owners EXCEPT ![id] = c]
    <3>1. Present(c)
      BY <1>3 DEF DrainInv, CountedOk
    <3>2. ASSUME NEW i \in AwarenessIds, owners'[i] # Nobody,
                 SocketOf[owners'[i]] \notin shared'
          PROVE  /\ conn'[owners'[i]] \in {"open", "closing"}
                 /\ awarenessConnections'[SocketOf[owners'[i]]] = owners'[i]
      <4>1. CASE i = id
        BY <1>2, <1>3, <1>4, <2>2, <3>1, <3>2, <4>1 DEF OwnersOk, Calm, Present, PresenceTypeOK
      <4>2. CASE i # id
        <5>1. owners'[i] = owners[i] /\ owners[i] \in Clients
          BY <2>2, <3>2, <4>2 DEF PresenceTypeOK
        <5> QED
          BY <1>2, <1>4, <3>2, <5>1 DEF OwnersOk, Calm, Present
      <4> QED
        BY <4>1, <4>2
    <3>3. ASSUME NEW d \in Clients, d \in frames' \/ (d \in hooked' /\ conn'[d] = "open")
          PROVE  SocketOf[d] \in shared' \/ awarenessConnections'[SocketOf[d]] = d
      BY <1>2, <1>4, <3>3 DEF OwnersOk, Calm
    <3> QED
      BY <3>2, <3>3 DEF OwnersOk, Present
  <2> QED
    BY <1>4, <2>1, <2>2
<1> QED
  BY <1>2, <1>5, <1>6, <1>7

LEMMA WithdrawsKeeps ==
    ASSUME PresenceInv, NEW c \in Clients, NEW id \in AwarenessIds, Withdraws(c, id)
    PROVE  PresenceInv'
<1> USE DEF PresenceInv
<1>1. DrainInv' /\ Calm
  BY DrainKeeps, CalmSteps DEF CalmStep, DrainStep, Withdraws
<1>2. /\ UNCHANGED <<document, grace, awarenessConnections, shared>>
      /\ owners' = [owners EXCEPT ![id] = IF @ = c THEN Nobody ELSE @]
  BY DEF Withdraws
<1>3. PresenceTypeOK' /\ RequestOk'
  BY <1>2 DEF PresenceTypeOK, RequestOk, grace
<1>4. AwayOk' /\ GraceOk'
  BY <1>1, <1>2, AwayCalm, GraceCalm DEF grace
<1>5. OwnersOk'
  <2>1. ASSUME NEW i \in AwarenessIds, owners'[i] # Nobody,
               SocketOf[owners'[i]] \notin shared'
        PROVE  /\ conn'[owners'[i]] \in {"open", "closing"}
               /\ awarenessConnections'[SocketOf[owners'[i]]] = owners'[i]
    <3>1. owners'[i] = owners[i] /\ owners[i] \in Clients
      BY <1>2, <2>1 DEF PresenceTypeOK
    <3> QED
      BY <1>1, <1>2, <2>1, <3>1 DEF OwnersOk, Calm, Present
  <2>2. ASSUME NEW d \in Clients, d \in frames' \/ (d \in hooked' /\ conn'[d] = "open")
        PROVE  SocketOf[d] \in shared' \/ awarenessConnections'[SocketOf[d]] = d
    BY <1>1, <1>2, <2>2 DEF OwnersOk, Calm
  <2> QED
    BY <2>1, <2>2 DEF OwnersOk, Present
<1> QED
  BY <1>1, <1>3, <1>4, <1>5

\* Whoever asks is there; its last connection is still to leave.
LEMMA AsksKeeps == ASSUME PresenceInv, NEW c \in Clients, Asks(c) PROVE PresenceInv'
<1> USE DEF PresenceInv
<1>1. DrainInv' /\ Calm
  BY DrainKeeps, CalmSteps DEF CalmStep, DrainStep, Asks
<1>2. /\ document = "open" /\ c \in frames
      /\ request' = [requester |-> MemberOf[c], autoClearAt |-> 0] /\ seen' = now
      /\ UNCHANGED <<document, timer, now, awareness>>
  BY DEF Asks, FrameHandled
<1>3. Present(c) /\ Present(c)'
  BY <1>1, <1>2 DEF DrainInv, CountedOk, Calm
<1>4. PresenceTypeOK' /\ RequestOk'
  BY <1>2, NobodyConnects DEF PresenceTypeOK, RequestOk, Deadlines, awareness
<1>5. AwayOk'
  BY <1>2, <1>3 DEF AwayOk
<1>6. GraceOk'
  BY <1>2 DEF GraceOk, PresenceTypeOK
<1>7. OwnersOk'
  BY <1>1, <1>2, OwnersCalm
<1> QED
  BY <1>1, <1>4, <1>5, <1>6, <1>7

LEMMA FinishesKeeps == ASSUME PresenceInv, NEW c \in Clients, Finishes(c) PROVE PresenceInv'
<1> USE DEF PresenceInv
<1>1. DrainInv' /\ Calm
  BY DrainKeeps, CalmSteps DEF CalmStep, DrainStep, Finishes
<1>2. /\ request' = NoRequest /\ UNCHANGED <<document, timer, now, seen, awareness>>
  BY DEF Finishes, Reset
<1>3. PresenceTypeOK' /\ RequestOk'
  BY <1>2 DEF PresenceTypeOK, RequestOk, Deadlines, NoRequest, awareness
<1>4. AwayOk' /\ GraceOk'
  BY <1>2 DEF AwayOk, GraceOk, Active, NoRequest
<1>5. OwnersOk'
  BY <1>1, <1>2, OwnersCalm
<1> QED
  BY <1>1, <1>3, <1>4, <1>5

LEMMA FencedKeeps ==
    ASSUME PresenceInv, NEW invalidated \in BOOLEAN, Fenced(invalidated) PROVE PresenceInv'
<1> USE DEF PresenceInv
<1>1. DrainInv' /\ Calm
  BY DrainKeeps, CalmSteps DEF CalmStep, DrainStep, Fenced
<1>2. /\ document = "open" /\ document' = "fenced"
      /\ IF invalidated THEN timer' = NoRequest /\ request' = NoRequest
         ELSE UNCHANGED <<request, timer>>
      /\ UNCHANGED <<now, seen, awareness>>
  BY DEF Fenced, Cancel, Reset
<1>3. PresenceTypeOK' /\ RequestOk'
  BY <1>2 DEF PresenceTypeOK, RequestOk, Deadlines, NoRequest, awareness
<1>4. AwayOk'
  BY <1>1, <1>2 DEF AwayOk, Active, Calm
<1>5. GraceOk'
  BY <1>1, <1>2, GraceCalm DEF GraceOk, NoRequest
<1>6. OwnersOk'
  BY <1>1, <1>2, OwnersCalm
<1> QED
  BY <1>1, <1>3, <1>4, <1>5, <1>6

LEMMA ClockTicksKeeps == ASSUME PresenceInv, ClockTicks PROVE PresenceInv'
<1> USE DEF PresenceInv
<1>1. DrainInv' /\ Calm
  BY DrainKeeps, CalmSteps DEF ClockTicks
<1>2. /\ now' = now + 1
      /\ seen' = IF \E c \in hooked : conn[c] = "open" /\ MemberOf[c] = request.requester
                 THEN now' ELSE seen
      /\ UNCHANGED <<document, request, timer, awareness>>
  BY DEF ClockTicks
<1>3. PresenceTypeOK' /\ RequestOk'
  BY <1>2 DEF PresenceTypeOK, RequestOk, awareness
<1>4. AwayOk'
  BY <1>1, <1>2, AwayCalm
<1>5. GraceOk'
  <2>1. seen' <= now'
    BY <1>2 DEF GraceOk, PresenceTypeOK
  <2>2. request.autoClearAt # 0 => seen' = seen
    BY <1>2 DEF GraceOk
  <2> QED
    BY <1>1, <1>2, <2>1, <2>2 DEF GraceOk, Calm
<1>6. OwnersOk'
  BY <1>1, <1>2, OwnersCalm
<1> QED
  BY <1>1, <1>3, <1>4, <1>5, <1>6

LEMMA TimerFiresKeeps == ASSUME PresenceInv, TimerFires PROVE PresenceInv'
<1> USE DEF PresenceInv
<1>1. DrainInv' /\ Calm
  BY DrainKeeps, CalmSteps DEF TimerFires
<1>2. /\ timer' = NoRequest
      /\ UNCHANGED <<document, now, seen, awareness, drainVars>>
      /\ \/ request # timer /\ request' = request
         \/ IsConnected(request.requester) /\ request' = [request EXCEPT !.autoClearAt = 0]
         \/ request' = NoRequest
  BY DEF TimerFires, Cancel, Reset, ClearOrphaned
<1>3. PresenceTypeOK' /\ RequestOk'
  BY <1>2 DEF PresenceTypeOK, RequestOk, Deadlines, NoRequest, awareness
<1>4. AwayOk'
  <2>1. CASE request # timer /\ request' = request
    BY <1>1, <1>2, <2>1 DEF AwayOk, Active, Calm
  <2>2. CASE IsConnected(request.requester) /\ request' = [request EXCEPT !.autoClearAt = 0]
    <3>1. \E c \in Clients : MemberOf[c] = request'.requester /\ Present(c)'
      BY <1>1, <2>2, ConnectedIsPresent DEF PresenceTypeOK, Deadlines, Calm
    <3> QED
      BY <3>1 DEF AwayOk
  <2>3. CASE request' = NoRequest
    BY <2>3 DEF AwayOk, Active
  <2> QED
    BY <1>2, <2>1, <2>2, <2>3
<1>5. GraceOk'
  BY <1>1, <1>2 DEF GraceOk, Calm, NoRequest, PresenceTypeOK, Deadlines
<1>6. OwnersOk'
  BY <1>1, <1>2, OwnersCalm
<1> QED
  BY <1>1, <1>3, <1>4, <1>5, <1>6

\* What the hook of a connection does to the connections.
LEMMA ConnectedEffect ==
    ASSUME DrainInv, NEW c \in Clients, Connected(c, document = "fenced")
    PROVE  /\ c \notin frames /\ c \notin hooked /\ hooked' = hooked \cup {c}
           /\ frames' = frames /\ stopping' = stopping
           /\ \A d \in Clients \ {c} : conn'[d] = conn[d]
           /\ Present(c)' <=> Present(c)
           /\ conn'[c] = "open" => conn[c] = "open" /\ c \in admissions /\ ~stopping
                                   /\ document # "fenced"
           /\ c \in admissions => Present(c)
BY DEF DrainInv, DrainTypeOK, AdmissionsOk, CountedOk, Connected, Becomes, Released, Holds, Present

LEMMA MemberConnectedKeeps ==
    ASSUME PresenceInv, NEW c \in Clients, MemberConnected(c) PROVE PresenceInv'
<1> USE DEF PresenceInv
<1> DEFINE key == SocketOf[c]
           accepted == c \in admissions /\ ~stopping /\ document # "fenced"
<1>1. DrainInv'
  BY DrainKeeps DEF DrainStep, MemberConnected
<1>2. /\ c \notin frames /\ c \notin hooked /\ hooked' = hooked \cup {c}
      /\ frames' = frames /\ stopping' = stopping
      /\ \A d \in Clients \ {c} : conn'[d] = conn[d]
      /\ Present(c)' <=> Present(c)
      /\ conn'[c] = "open" => conn[c] = "open" /\ accepted
      /\ c \in admissions => Present(c)
  BY ConnectedEffect DEF MemberConnected
<1>3. UNCHANGED <<document, now, owners>>
  BY DEF MemberConnected
<1>4. \A d \in Clients : Present(d)' <=> Present(d)
  BY <1>2 DEF Present
<1>5. key \in Sockets
  BY SocketAssumption
<1>6. CASE ~accepted
  <2>1. UNCHANGED <<awarenessConnections, shared, request, timer, seen>>
    BY <1>6 DEF MemberConnected
  <2>2. PresenceTypeOK' /\ RequestOk'
    BY <1>3, <2>1 DEF PresenceTypeOK, RequestOk
  <2>3. Calm
    BY <1>2, <1>4, <1>6 DEF Calm, DrainInv, DrainTypeOK
  <2>4. AwayOk' /\ GraceOk' /\ OwnersOk'
    BY <1>1, <1>3, <2>1, <2>3, AwayCalm, GraceCalm, OwnersCalm DEF awareness
  <2> QED
    BY <1>1, <2>2, <2>4
<1>7. CASE accepted
  <2>1. /\ awarenessConnections' = [awarenessConnections EXCEPT ![key] = c]
        /\ shared' = IF awarenessConnections[key] = Nobody THEN shared ELSE shared \cup {key}
        /\ Returns(MemberOf[c])
        /\ seen' = IF MemberOf[c] = request.requester THEN now ELSE seen
    BY <1>7 DEF MemberConnected
  <2>2. \/ timer' = NoRequest /\ request' = request /\ ~Active
        \/ /\ timer' = NoRequest /\ request' = [request EXCEPT !.autoClearAt = 0]
           /\ Active /\ (MemberOf[c] = request.requester \/ IsConnected(request.requester))
        \/ /\ request' = request /\ MemberOf[c] # request.requester
           /\ Active /\ ~IsConnected(request.requester)
           /\ timer' = IF request.autoClearAt # 0 THEN request ELSE timer
    BY <2>1 DEF Returns, Cancel, ClearOrphaned
  <2>3. PresenceTypeOK'
    <3>1. request' \in Deadlines /\ timer' \in Deadlines
      BY <2>2 DEF PresenceTypeOK, Deadlines, NoRequest
    <3> QED
      BY <1>3, <1>5, <2>1, <3>1 DEF PresenceTypeOK
  <2>4. RequestOk'
    BY <1>3, <2>2 DEF RequestOk, PresenceTypeOK, Deadlines, NoRequest, Active
  <2>5. AwayOk'
    <3>1. CASE request' = request /\ ~Active
      BY <3>1 DEF AwayOk, Active
    <3>2. CASE /\ request' = [request EXCEPT !.autoClearAt = 0]
               /\ MemberOf[c] = request.requester \/ IsConnected(request.requester)
      <4>1. \E d \in Clients : MemberOf[d] = request'.requester /\ Present(d)'
        BY <1>2, <1>4, <1>7, <3>2, ConnectedIsPresent DEF PresenceTypeOK, Deadlines
      <4> QED
        BY <4>1 DEF AwayOk
    <3>3. CASE /\ request' = request /\ timer' = IF request.autoClearAt # 0 THEN request ELSE timer
               /\ Active
      BY <1>2, <1>3, <1>4, <3>3 DEF AwayOk, Active
    <3> QED
      BY <2>2, <3>1, <3>2, <3>3
  <2>6. GraceOk'
    <3>1. seen' <= now' /\ now \in Nat /\ seen \in Nat
      BY <1>3, <2>1 DEF GraceOk, PresenceTypeOK
    <3>2. CASE request'.autoClearAt = 0
      BY <3>1, <3>2 DEF GraceOk
    <3>3. CASE request'.autoClearAt # 0
      <4>1. request' = request /\ MemberOf[c] # request.requester
        BY <2>2, <3>3, NobodyConnects DEF PresenceTypeOK, Deadlines, Active, NoRequest
      <4>2. seen' = seen
        BY <2>1, <4>1
      <4> QED
        BY <1>2, <3>1, <3>3, <4>1, <4>2 DEF GraceOk, DrainInv, DrainTypeOK
    <3> QED
      BY <3>2, <3>3
  <2>7. OwnersOk'
    <3>1. ASSUME NEW i \in AwarenessIds, owners'[i] # Nobody,
                 SocketOf[owners'[i]] \notin shared'
          PROVE  /\ conn'[owners'[i]] \in {"open", "closing"}
                 /\ awarenessConnections'[SocketOf[owners'[i]]] = owners'[i]
      <4>1. owners'[i] = owners[i] /\ owners[i] \in Clients
        BY <1>3, <3>1 DEF PresenceTypeOK
      <4>2. SocketOf[owners[i]] \notin shared
        BY <2>1, <3>1, <4>1
      <4>3. /\ Present(owners[i])
            /\ awarenessConnections[SocketOf[owners[i]]] = owners[i]
        BY <3>1, <4>1, <4>2 DEF OwnersOk
      <4>4. SocketOf[owners[i]] # key
        BY <2>1, <3>1, <4>1, <4>3
      <4> QED
        BY <1>4, <1>5, <2>1, <4>1, <4>3, <4>4 DEF Present, PresenceTypeOK
    <3>2. ASSUME NEW d \in Clients, d \in frames' \/ (d \in hooked' /\ conn'[d] = "open")
          PROVE  SocketOf[d] \in shared' \/ awarenessConnections'[SocketOf[d]] = d
      <4>1. CASE d = c
        BY <1>5, <2>1, <4>1 DEF PresenceTypeOK
      <4>2. CASE d # c
        <5>1. SocketOf[d] \in shared \/ awarenessConnections[SocketOf[d]] = d
          BY <1>2, <3>2, <4>2 DEF OwnersOk
        <5>2. d # Nobody /\ SocketOf[d] \in Sockets
          BY PresenceAssumption, SocketAssumption
        <5> QED
          BY <1>5, <2>1, <5>1, <5>2 DEF PresenceTypeOK
      <4> QED
        BY <4>1, <4>2
    <3> QED
      BY <3>1, <3>2 DEF OwnersOk, Present
  <2> QED
    BY <1>1, <2>3, <2>4, <2>5, <2>6, <2>7
<1> QED
  BY <1>6, <1>7

\* What the end of a connection does to the connections.
LEMMA DisconnectedEffect ==
    ASSUME DrainInv, NEW c \in Clients, Disconnected(c)
    PROVE  /\ conn[c] = "closing" /\ c \notin frames
           /\ conn' = [conn EXCEPT ![c] = "gone"]
           /\ UNCHANGED <<frames, hooked, stopping>>
BY DEF Disconnected, Becomes, Holds

LEMMA MemberDisconnectedKeeps ==
    ASSUME PresenceInv, NEW c \in Clients, MemberDisconnected(c) PROVE PresenceInv'
<1> USE DEF PresenceInv
<1> DEFINE key == SocketOf[c]
           connection == awarenessConnections[key]
<1>1. DrainInv'
  BY DrainKeeps DEF DrainStep, MemberDisconnected
<1>2. /\ conn[c] = "closing" /\ c \notin frames
      /\ conn' = [conn EXCEPT ![c] = "gone"]
      /\ UNCHANGED <<frames, hooked, stopping>>
      /\ conn \in [Clients -> States]
  BY DisconnectedEffect DEF MemberDisconnected, DrainInv, DrainTypeOK
<1>3. /\ awarenessConnections' = [awarenessConnections EXCEPT ![key] = Nobody]
      /\ owners' = [id \in AwarenessIds |->
                      IF owners[id] = connection THEN Nobody ELSE owners[id]]
      /\ shared' = IF connection \in {c, Nobody} THEN shared ELSE shared \cup {key}
      /\ UNCHANGED <<document, now, seen>>
  BY DEF MemberDisconnected, Release
<1>4. key \in Sockets
  BY SocketAssumption
<1> DEFINE at == IF request.autoClearAt = 0 THEN now + Grace ELSE request.autoClearAt
<1>5. \/ timer' = NoRequest /\ request' = request /\ ~Active
      \/ timer' = NoRequest /\ request' = NoRequest
      \/ timer' = NoRequest /\ request' = request /\ IsConnected(request.requester)
      \/ /\ request' = [request EXCEPT !.autoClearAt = at]
         /\ timer' = [requester |-> request.requester, autoClearAt |-> at]
         /\ Active /\ ~IsConnected(request.requester)
  BY DEF MemberDisconnected, Leaves, Cancel, Reset, StartOrResume
<1>6. at \in Nat \ {0} /\ Grace \in Nat \ {0}
  BY PresenceAssumption DEF PresenceTypeOK, Deadlines
<1> HIDE DEF at
<1>7. PresenceTypeOK'
  <2>1. request' \in Deadlines /\ timer' \in Deadlines
    BY <1>5, <1>6 DEF PresenceTypeOK, Deadlines, NoRequest
  <2> QED
    BY <1>3, <1>4, <2>1 DEF PresenceTypeOK
<1>8. RequestOk'
  <2>1. request.requester = Nobody => ~Active
    BY DEF RequestOk, Active
  <2> QED
    BY <1>3, <1>5, <1>6, <2>1 DEF RequestOk, PresenceTypeOK, Deadlines, NoRequest, Active
<1>9. AwayOk'
  <2>1. CASE request' = request /\ ~Active
    BY <2>1 DEF AwayOk, Active
  <2>2. CASE request' = NoRequest
    BY <2>2 DEF AwayOk, Active
  <2>3. CASE request' = request /\ IsConnected(request.requester)
    <3>1. \E d \in Clients : MemberOf[d] = request'.requester /\ Present(d)'
      BY <1>2, <2>3 DEF IsConnected, Present
    <3> QED
      BY <3>1 DEF AwayOk
  <2>4. CASE /\ request' = [request EXCEPT !.autoClearAt = at]
             /\ timer' = [requester |-> request.requester, autoClearAt |-> at]
    BY <1>6, <2>4 DEF AwayOk, PresenceTypeOK, Deadlines
  <2> QED
    BY <1>5, <2>1, <2>2, <2>3, <2>4
<1>10. GraceOk'
  <2>1. now' = now /\ seen' = seen /\ now \in Nat /\ seen \in Nat /\ seen <= now
    BY <1>3 DEF GraceOk, PresenceTypeOK
  <2>2. \A d \in Clients : conn'[d] = "open" => conn[d] = "open"
    BY <1>2
  <2>3. CASE request' = request
    BY <1>2, <2>1, <2>2, <2>3 DEF GraceOk, DrainInv, DrainTypeOK
  <2>4. CASE request' = NoRequest
    BY <2>1, <2>4 DEF GraceOk, NoRequest
  <2>5. CASE request' = [request EXCEPT !.autoClearAt = at] /\ ~IsConnected(request.requester)
    <3>1. at >= seen + Grace
      BY <1>6, <2>1 DEF GraceOk, at, PresenceTypeOK, Deadlines
    <3>2. request'.requester = request.requester /\ request'.autoClearAt = at
      BY <2>5 DEF PresenceTypeOK, Deadlines
    <3> QED
      BY <1>2, <2>1, <2>2, <2>5, <3>1, <3>2 DEF GraceOk, IsConnected, DrainInv, DrainTypeOK
  <2> QED
    BY <1>5, <2>3, <2>4, <2>5
<1>11. OwnersOk'
  <2>1. ASSUME NEW i \in AwarenessIds, owners'[i] # Nobody,
               SocketOf[owners'[i]] \notin shared'
        PROVE  /\ conn'[owners'[i]] \in {"open", "closing"}
               /\ awarenessConnections'[SocketOf[owners'[i]]] = owners'[i]
    <3>1. owners'[i] = owners[i] /\ owners[i] \in Clients /\ owners[i] # connection
      BY <1>3, <2>1 DEF PresenceTypeOK
    <3>2. SocketOf[owners[i]] \notin shared
      BY <1>3, <2>1, <3>1
    <3>3. Present(owners[i]) /\ awarenessConnections[SocketOf[owners[i]]] = owners[i]
      BY <2>1, <3>1, <3>2 DEF OwnersOk
    <3>4. SocketOf[owners[i]] # key
      BY <3>1, <3>3
    <3> QED
      BY <1>2, <1>3, <1>4, <3>1, <3>3, <3>4 DEF Present, PresenceTypeOK
  <2>2. ASSUME NEW d \in Clients, d \in frames' \/ (d \in hooked' /\ conn'[d] = "open")
        PROVE  SocketOf[d] \in shared' \/ awarenessConnections'[SocketOf[d]] = d
    <3>1. d # c /\ (SocketOf[d] \in shared \/ awarenessConnections[SocketOf[d]] = d)
      BY <1>2, <2>2 DEF OwnersOk
    <3>2. d # Nobody /\ SocketOf[d] \in Sockets
      BY PresenceAssumption, SocketAssumption
    <3> QED
      BY <1>3, <1>4, <3>1, <3>2 DEF PresenceTypeOK
  <2> QED
    BY <2>1, <2>2 DEF OwnersOk, Present
<1> QED
  BY <1>1, <1>7, <1>8, <1>9, <1>10, <1>11

LEMMA DocumentUnloadsKeeps == ASSUME PresenceInv, DocumentUnloads PROVE PresenceInv'
<1> USE DEF PresenceInv
<1>1. DrainInv' /\ Calm
  BY DrainKeeps, CalmSteps DEF DocumentUnloads
<1>2. /\ document' = "absent" /\ request' = NoRequest /\ timer = NoRequest
      /\ owners' = [id \in AwarenessIds |-> Nobody]
      /\ UNCHANGED <<timer, now, seen, awarenessConnections, shared>>
  BY DEF DocumentUnloads, Reset
<1>3. PresenceTypeOK' /\ RequestOk'
  BY <1>2 DEF PresenceTypeOK, RequestOk, Deadlines, NoRequest
<1>4. AwayOk' /\ GraceOk'
  BY <1>2 DEF AwayOk, GraceOk, Active, NoRequest
<1>5. OwnersOk'
  BY <1>1, <1>2 DEF OwnersOk, Calm
<1> QED
  BY <1>1, <1>3, <1>4, <1>5

LEMMA PresenceStopsKeeps == ASSUME PresenceInv, PresenceStops PROVE PresenceInv'
<1> USE DEF PresenceInv
<1>1. DrainInv'
  BY DrainKeeps DEF DrainStep, PresenceStops
<1>2. UNCHANGED <<conn, frames, hooked>> /\ stopping'
  BY DEF PresenceStops, Begin
<1>3. /\ timer' = NoRequest /\ request' \in {request, NoRequest}
      /\ UNCHANGED <<document, now, seen, awareness>>
  BY DEF PresenceStops, Cancel, Reset
<1>4. PresenceTypeOK' /\ RequestOk'
  BY <1>3 DEF PresenceTypeOK, RequestOk, Deadlines, NoRequest, awareness
<1>5. AwayOk' /\ GraceOk'
  BY <1>2, <1>3 DEF AwayOk, GraceOk, NoRequest
<1>6. OwnersOk'
  BY <1>2, <1>3 DEF OwnersOk, Present, awareness
<1> QED
  BY <1>1, <1>4, <1>5, <1>6

LEMMA PresenceLostKeeps == ASSUME PresenceInv, PresenceLost PROVE PresenceInv'
<1> USE DEF PresenceInv
<1>1. DrainInv'
  BY DrainKeeps DEF DrainStep, PresenceLost
<1>2. /\ frames' = {} /\ \A c \in Clients : conn'[c] \in {"none", "gone"}
      /\ document' = "absent" /\ request' = NoRequest /\ timer' = NoRequest
      /\ awarenessConnections' = [s \in Sockets |-> Nobody]
      /\ owners' = [id \in AwarenessIds |-> Nobody]
      /\ shared' = {} /\ UNCHANGED <<now, seen>>
  BY DEF PresenceLost, ClientsLost, Reset, Cancel
<1>3. PresenceTypeOK' /\ RequestOk'
  BY <1>2 DEF PresenceTypeOK, RequestOk, Deadlines, NoRequest
<1>4. AwayOk' /\ GraceOk'
  BY <1>2 DEF AwayOk, GraceOk, NoRequest
<1>5. OwnersOk'
  BY <1>2 DEF OwnersOk
<1> QED
  BY <1>1, <1>3, <1>4, <1>5

\* The steps of clients and of their document.
PresenceStep ==
    \/ CalmStep /\ UNCHANGED presenceVars
    \/ \E c \in Clients :
          \/ Joins(c) \/ MemberConnected(c) \/ MemberDisconnected(c)
          \/ Asks(c) \/ Finishes(c)
          \/ \E id \in AwarenessIds : Announces(c, id) \/ Withdraws(c, id)
    \/ \E invalidated \in BOOLEAN : Fenced(invalidated)
    \/ ClockTicks \/ TimerFires \/ DocumentUnloads \/ PresenceStops \/ PresenceLost

LEMMA PresenceKeeps ==
    ASSUME PresenceInv, PresenceStep \/ UNCHANGED <<drainVars, presenceVars>>
    PROVE  PresenceInv'
BY UnnoticedKeeps, JoinsKeeps, MemberConnectedKeeps, MemberDisconnectedKeeps, AsksKeeps,
   FinishesKeeps, AnnouncesKeeps, WithdrawsKeeps, FencedKeeps, ClockTicksKeeps,
   TimerFiresKeeps, DocumentUnloadsKeeps, PresenceStopsKeeps, PresenceLostKeeps
DEF PresenceStep

LEMMA AwayTimed == PresenceInv => AwayIsTimed
BY DEF PresenceInv, AwayOk, AwayIsTimed, Active, IsConnected, Present

LEMMA PresenceReleased == PresenceInv => PresenceIsReleased
<1> SUFFICES ASSUME PresenceInv, NEW id \in AwarenessIds, owners[id] # Nobody
             PROVE  \/ conn[owners[id]] \in {"open", "closing"}
                    \/ SocketOf[owners[id]] \in shared
  BY DEF PresenceIsReleased
<1> QED
  BY DEF PresenceInv, OwnersOk, Present

\* Of all steps that end a timer only the timer's own one clears a request whose
\* document stays open.
LEMMA ClearedStep ==
    ASSUME PresenceInv, PresenceStep \/ UNCHANGED <<drainVars, presenceVars>>
    PROVE  ClearedAfterGrace
<1> SUFFICES ASSUME timer # NoRequest, timer' = NoRequest, Active, request' = NoRequest,
                    document' = "open", ~stopping'
             PROVE  ~IsConnected(request.requester) /\ now >= seen + Grace
  BY DEF ClearedAfterGrace
<1> USE DEF PresenceInv
<1>1. request # NoRequest /\ request.requester # Nobody
  BY DEF RequestOk, Active
<1>2. CASE TimerFires
  <2>1. request = timer /\ now >= timer.autoClearAt /\ ~IsConnected(request.requester)
    <3>1. [request EXCEPT !.autoClearAt = 0] # NoRequest
      BY <1>1 DEF PresenceTypeOK, Deadlines, NoRequest
    <3> QED
      BY <1>1, <1>2, <3>1 DEF TimerFires, ClearOrphaned
  <2> QED
    <3>1. request.autoClearAt # 0
      BY <2>1 DEF RequestOk
    <3>2. request.autoClearAt >= seen + Grace
      BY <3>1 DEF GraceOk
    <3>3. seen \in Nat /\ now \in Nat /\ Grace \in Nat /\ request.autoClearAt \in Nat
      BY PresenceAssumption DEF PresenceTypeOK, Deadlines
    <3> QED
      BY <2>1, <3>2, <3>3
<1>3. ASSUME NEW c \in Clients, MemberConnected(c) PROVE FALSE
  <2>1. request' = request \/ request' = [request EXCEPT !.autoClearAt = 0]
    BY <1>3 DEF MemberConnected, Returns, ClearOrphaned
  <2>2. [request EXCEPT !.autoClearAt = 0] # NoRequest
    BY <1>1 DEF PresenceTypeOK, Deadlines, NoRequest
  <2> QED
    BY <1>1, <2>1, <2>2
<1>4. ASSUME NEW c \in Clients, MemberDisconnected(c) PROVE FALSE
  <2>1. ~stopping
    BY <1>4, DisconnectedEffect DEF MemberDisconnected
  <2>2. \/ request' = request
        \/ request' = [request EXCEPT !.autoClearAt =
                         IF request.autoClearAt = 0 THEN now + Grace ELSE request.autoClearAt]
    BY <1>4, <2>1 DEF MemberDisconnected, Leaves, StartOrResume, Active
  <2>3. \A at : [request EXCEPT !.autoClearAt = at] # NoRequest
    BY <1>1 DEF PresenceTypeOK, Deadlines, NoRequest
  <2> QED
    BY <1>1, <2>2, <2>3
<1>5. ASSUME NEW c \in Clients, Joins(c) \/ Asks(c) \/ Finishes(c) PROVE FALSE
  BY <1>5 DEF Joins, Asks, Finishes, grace
<1>6. ASSUME NEW c \in Clients, NEW id \in AwarenessIds, Announces(c, id) \/ Withdraws(c, id)
      PROVE  FALSE
  BY <1>6 DEF Announces, Withdraws, grace
<1>7. CASE (CalmStep /\ UNCHANGED presenceVars) \/ UNCHANGED <<drainVars, presenceVars>>
  BY <1>1, <1>7 DEF presenceVars, grace
<1>8. ASSUME NEW invalidated \in BOOLEAN, Fenced(invalidated) PROVE FALSE
  BY <1>8 DEF Fenced
<1>9. CASE ClockTicks
  BY <1>9 DEF ClockTicks
<1>10. CASE DocumentUnloads \/ PresenceLost
  BY <1>10 DEF DocumentUnloads, PresenceLost
<1>11. CASE PresenceStops
  BY <1>11 DEF PresenceStops, Begin
<1> QED
  BY <1>2, <1>3, <1>4, <1>5, <1>6, <1>7, <1>8, <1>9, <1>10, <1>11 DEF PresenceStep
=============================================================================
