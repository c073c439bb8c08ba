---------------------------- MODULE RoomLifecycle ----------------------------
(***************************************************************************)
(* One document in several processes: which of them may have its room      *)
(* (lib/collaboration/room-ownership.ts), how the room is loaded, opened,  *)
(* fenced and unloaded (document-hooks.ts, connection-handler-helpers.ts,  *)
(* revision-conflict-guard.ts), and how a change made behind it is told to *)
(* it (room-invalidation.ts, events/content-updated-subscriber.ts).        *)
(*                                                                         *)
(* A process holds its rooms' advisory locks in one PostgreSQL session.    *)
(* The session may break before the process notices, or be dropped because *)
(* a query of any room failed; its locks are free again once the server    *)
(* has ended it.                                                           *)
(*                                                                         *)
(* Abstractions.  Other documents appear only as reasons for a session to  *)
(* be dropped.  Content is its revision.  A room has clients or none.  Who *)
(* keeps a room from unloading is in EditSession.  Hocuspocus loads and    *)
(* unloads one document at a time, loads after the unload has ended, and   *)
(* unloads what has no connection.                                         *)
(***************************************************************************)
EXTENDS Naturals, Sequences

CONSTANTS
    Processes,
    Nobody,
    Max        \* how often each kind of event may happen (bounds the model)

\* The kinds of event that Max bounds.
Kinds == {"join", "write", "save", "loss", "crash"}

ASSUME MaxAssumption == Max \in [Kinds -> Nat]
ASSUME NobodyAssumption ==
    Nobody \notin Processes \cup [process : Processes, current : BOOLEAN]

VARIABLES
    holder,      \* PostgreSQL: whose session has the lock, and if it is in use
    revision,    \* the API: revision of the stored document
    orphans,     \* saves on their way whose room is gone
    untold,      \* the last revision stored by a save of a process without the lock
    session,     \* PostgresRoomOwnership.client: none, connected, or broken
    owned,       \* PostgresRoomOwnership.owned has the document
    stage,       \* where the document is between load and unload
    tracked,     \* ownedDocuments has the document
    stale,       \* staleDocuments has it
    fenced,      \* fencedDocumentNames has its name
    refenced,    \* a save whose room was gone has fenced it (history)
    pendingLoad, \* pendingLoads has its name
    version,     \* revision of the room's baseline
    saving,      \* the room's save
    joining,     \* a client passed authentication and waits for its connection
    members,     \* clients are connected
    signals,     \* content updates notified to the process, not handled yet
    spent        \* how many events of each kind have happened

store == <<revision, orphans, untold>>
lock == <<holder, session, owned>>
flags == <<tracked, stale, fenced, refenced, pendingLoad>>
clients == <<joining, members>>
vars == <<store, lock, stage, flags, version, saving, clients, signals, spent>>

-----------------------------------------------------------------------------
(* Data.                                                                   *)

Stages == {"empty", "acquiring", "reading", "read", "opening", "open",
           "failing", "unloading"}

\* hocuspocus.loadingDocuments has the document.
LoadingStages == {"acquiring", "reading", "read", "opening", "failing"}
Loading(p) == stage[p] \in LoadingStages

Held(p) == [process |-> p, current |-> TRUE]
Dropped(p) == [process |-> p, current |-> FALSE]
Holders == {Nobody} \cup [process : Processes, current : BOOLEAN]

Flag == [Processes -> BOOLEAN]

\* Saves whose room is gone: who awaits the answer, if it lives, which of the
\* saves it is, what it was based on, and that the API has refused it.
Orphans == [caller : Processes \cup {Nobody}, save : Nat, expected : Nat \ {0},
            refused : BOOLEAN]

TypeOK ==
    /\ holder \in Holders
    /\ revision \in Nat \ {0} /\ orphans \subseteq Orphans /\ untold \in Nat
    /\ session \in [Processes -> {"none", "connected", "broken"}]
    /\ owned \in Flag
    /\ stage \in [Processes -> Stages]
    /\ tracked \in Flag /\ stale \in Flag /\ fenced \in Flag
    /\ refenced \in Flag /\ pendingLoad \in Flag
    /\ version \in [Processes -> Nat]
    /\ saving \in [Processes -> {"none", "sent", "saved", "conflict"}]
    /\ joining \in Flag /\ members \in Flag
    /\ signals \in [Processes -> Seq(Nat)]
    /\ spent \in [Kinds -> Nat]

Spend(kind) ==
    /\ spent[kind] < Max[kind]
    /\ spent' = [spent EXCEPT ![kind] = @ + 1]

-----------------------------------------------------------------------------
(* The fence.                                                              *)

\* RevisionConflictGuard.fence: the connections are closed by the first one.
Fence(p) ==
    /\ stale' = [stale EXCEPT ![p] = TRUE]
    /\ fenced' = [fenced EXCEPT ![p] = TRUE]
    /\ members' = [members EXCEPT ![p] = fenced[p] /\ @]

\* What is left of a room that failed to load, or is unloaded.
Forget(p) ==
    /\ stage' = [stage EXCEPT ![p] = "empty"]
    /\ tracked' = [tracked EXCEPT ![p] = FALSE]
    /\ fenced' = [fenced EXCEPT ![p] = FALSE]
    /\ refenced' = [refenced EXCEPT ![p] = FALSE]

-----------------------------------------------------------------------------
(* The lock.                                                               *)

\* Variants with a bug: no room, or only a resident one, is told of the loss.
LoseClientQuietly(p, after) ==
    /\ session' = [session EXCEPT ![p] = "none"]
    /\ owned' = [owned EXCEPT ![p] = FALSE]
    /\ holder' = after
    /\ UNCHANGED <<stale, fenced, members>>

\* loseClient: what was owned is fenced.  `after` is what the server still has.
LoseClient(p, after) ==
    /\ session' = [session EXCEPT ![p] = "none"]
    /\ owned' = [owned EXCEPT ![p] = FALSE]
    /\ holder' = after
    /\ IF owned[p] /\ (tracked[p] \/ stage[p] = "open")
       THEN Fence(p)
       ELSE UNCHANGED <<stale, fenced, members>>

\* The session breaks: the server frees its locks, the process knows nothing.
SessionBreaks(p) ==
    /\ session[p] = "connected"
    /\ Spend("loss")
    /\ session' = [session EXCEPT ![p] = "broken"]
    /\ holder' = IF holder = Held(p) THEN Nobody ELSE holder
    /\ UNCHANGED <<store, owned, stage, flags, version, saving, clients,
                   signals>>

\* The client reports an error.
SessionLost(p) ==
    /\ session[p] = "broken"
    /\ LoseClient(p, holder)
    /\ UNCHANGED <<store, stage, tracked, refenced, pendingLoad, version,
                   saving, joining, signals, spent>>

\* A query of any room fails: the session is dropped, and ended.
SessionDropped(p) ==
    /\ session[p] = "connected"
    /\ Spend("loss")
    /\ LoseClient(p, IF holder = Held(p) THEN Dropped(p) ELSE holder)
    /\ UNCHANGED <<store, stage, tracked, refenced, pendingLoad, version,
                   saving, joining, signals>>

SessionEnds(p) ==
    /\ holder = Dropped(p)
    /\ holder' = Nobody
    /\ UNCHANGED <<store, session, owned, stage, flags, version, saving,
                   clients, signals, spent>>

-----------------------------------------------------------------------------
(* Loading.                                                                *)

\* onAuthenticate, which a fenced name refuses.
Authenticate(p) ==
    /\ ~ joining[p] /\ ~ fenced[p]
    /\ Spend("join")
    /\ joining' = [joining EXCEPT ![p] = TRUE]
    /\ UNCHANGED <<store, lock, stage, flags, version, saving, members,
                   signals>>

\* onLoadDocument, of a new document.
BeginLoad(p) ==
    /\ stage[p] = "empty" /\ joining[p]
    /\ stage' = [stage EXCEPT ![p] = "acquiring"]
    /\ tracked' = [tracked EXCEPT ![p] = TRUE]
    /\ stale' = [stale EXCEPT ![p] = FALSE]
    /\ UNCHANGED <<store, lock, fenced, refenced, pendingLoad, version,
                   saving, clients, signals, spent>>

\* Variant with a bug: the name of a room that failed to load stays fenced.
LoadForgottenFenced(p) ==
    /\ stage' = [stage EXCEPT ![p] = "empty"]
    /\ tracked' = [tracked EXCEPT ![p] = FALSE]
    /\ pendingLoad' = [pendingLoad EXCEPT ![p] = FALSE]
    /\ joining' = [joining EXCEPT ![p] = FALSE]
    /\ UNCHANGED <<fenced, refenced>>

\* The catch of onLoadDocument, after the release: its client is refused.
LoadForgotten(p) ==
    /\ Forget(p)
    /\ pendingLoad' = [pendingLoad EXCEPT ![p] = FALSE]
    /\ joining' = [joining EXCEPT ![p] = FALSE]

\* Variant with a bug: the lock of a room that fails to load is kept.
LoadFailsUnreleased(p) == LoadForgotten(p) /\ UNCHANGED owned

\* The catch of onLoadDocument releases what it acquired.
LoadFails(p) ==
    IF owned[p]
    THEN /\ owned' = [owned EXCEPT ![p] = FALSE]
         /\ stage' = [stage EXCEPT ![p] = "failing"]
         /\ UNCHANGED <<tracked, refenced, fenced, pendingLoad, joining>>
    ELSE LoadForgotten(p) /\ UNCHANGED owned

\* acquire: the first one connects.
ConnectSession(p) ==
    /\ stage[p] = "acquiring" /\ session[p] = "none"
    /\ session' = [session EXCEPT ![p] = "connected"]
    /\ UNCHANGED <<store, holder, owned, stage, flags, version, saving, clients,
                   signals, spent>>

\* Variant with a bug: the load waits for the lock.
AcquireWaits(p) ==
    /\ stage[p] = "acquiring" /\ session[p] = "connected"
    /\ holder \in {Nobody, Held(p)}
    /\ holder' = Held(p)
    /\ owned' = [owned EXCEPT ![p] = TRUE]
    /\ stage' = [stage EXCEPT ![p] = "reading"]
    /\ UNCHANGED <<store, session, flags, version, saving, clients, signals,
                   spent>>

\* pg_try_advisory_lock; a session gets a lock it already has once more.
Acquire(p) ==
    /\ stage[p] = "acquiring" /\ session[p] = "connected"
    /\ IF holder \in {Nobody, Held(p)}
       THEN /\ holder' = Held(p)
            /\ owned' = [owned EXCEPT ![p] = TRUE]
            /\ stage' = [stage EXCEPT ![p] = "reading"]
            /\ UNCHANGED <<tracked, refenced, fenced, pendingLoad, joining>>
       ELSE LoadFails(p) /\ UNCHANGED holder
    /\ UNCHANGED <<store, session, stale, version, saving, members, signals,
                   spent>>

\* The query fails with its session.
AcquireFails(p) ==
    /\ stage[p] = "acquiring" /\ session[p] = "broken"
    /\ session' = [session EXCEPT ![p] = "none"]
    /\ LoadFails(p)
    /\ UNCHANGED <<store, holder, stale, version, saving, members, signals,
                   spent>>

\* The API reads the document.
Read(p) ==
    /\ stage[p] = "reading"
    /\ stage' = [stage EXCEPT ![p] = "read"]
    /\ version' = [version EXCEPT ![p] = revision]
    /\ UNCHANGED <<store, lock, flags, saving, clients, signals, spent>>

\* assertLoadedRoomOwned
LoadedRoomOwned(p) == owned[p] /\ ~ stale[p] /\ ~ fenced[p]

\* What was read arrives.
Loaded(p) ==
    /\ stage[p] = "read"
    /\ IF LoadedRoomOwned(p)
       THEN /\ stage' = [stage EXCEPT ![p] = "opening"]
            /\ UNCHANGED <<owned, tracked, refenced, fenced, pendingLoad,
                           joining>>
       ELSE LoadFails(p)
    /\ UNCHANGED <<store, holder, session, stale, version, saving, members,
                   signals, spent>>

\* Variant with a bug: a room that was fenced while it opened is joined.
AdmitFenced(p) ==
    /\ joining' = [joining EXCEPT ![p] = FALSE]
    /\ members' = [members EXCEPT ![p] = TRUE]
    /\ UNCHANGED pendingLoad

\* connected: a fenced room refuses the connection, and a change that was
\* announced during its load has the room settled.
Admit(p) ==
    /\ joining' = [joining EXCEPT ![p] = FALSE]
    /\ IF fenced[p]
       THEN /\ pendingLoad' = [pendingLoad EXCEPT ![p] = FALSE]
            /\ UNCHANGED members
       ELSE /\ members' = [members EXCEPT ![p] = TRUE]
            /\ UNCHANGED pendingLoad

\* The room is resident, with the connection it was loaded for.
Opened(p) ==
    /\ stage[p] = "opening"
    /\ stage' = [stage EXCEPT ![p] = "open"]
    /\ Admit(p)
    /\ UNCHANGED <<store, lock, tracked, refenced, stale, fenced, version,
                   saving, signals, spent>>

\* A further connection.
Connected(p) ==
    /\ stage[p] = "open" /\ joining[p]
    /\ Admit(p)
    /\ UNCHANGED <<store, lock, stage, tracked, refenced, stale, fenced,
                   version, saving, signals, spent>>

-----------------------------------------------------------------------------
(* Unloading.                                                              *)

Disconnected(p) ==
    /\ members[p]
    /\ members' = [members EXCEPT ![p] = FALSE]
    /\ UNCHANGED <<store, lock, stage, flags, version, saving, joining,
                   signals, spent>>

\* The room's save outlives it: the API may still have to answer, or its
\* refusal is on the way.
Outlives(p) ==
    IF saving[p] \in {"sent", "conflict"}
    THEN {[caller |-> p, save |-> spent["save"], expected |-> version[p],
           refused |-> saving[p] = "conflict"]}
    ELSE {}

\* Its caller goes on awaiting the answer.
Abandoned(p) ==
    /\ orphans' = orphans \cup Outlives(p)
    /\ saving' = [saving EXCEPT ![p] = "none"]

\* afterUnloadDocument of a room without connections.  An edit session holds
\* the room for its own saves until the room is fenced, but not for those of
\* metadata and patches.
BeginUnload(p) ==
    /\ stage[p] = "open" /\ ~ members[p]
    /\ Abandoned(p)
    /\ IF owned[p]
       THEN /\ owned' = [owned EXCEPT ![p] = FALSE]
            /\ stage' = [stage EXCEPT ![p] = "unloading"]
            /\ UNCHANGED <<tracked, refenced, fenced>>
       ELSE Forget(p) /\ UNCHANGED owned
    /\ UNCHANGED <<revision, untold, holder, session, stale, pendingLoad,
                   version, clients, signals, spent>>

\* The unlock has answered, or failed and dropped its session; a session that
\* is gone is not asked.
Released(p) ==
    /\ stage[p] \in {"failing", "unloading"}
    /\ \/ /\ session[p] = "connected"
          /\ holder' = IF holder = Held(p) THEN Nobody ELSE holder
          /\ UNCHANGED session
       \/ /\ session[p] = "broken"
          /\ session' = [session EXCEPT ![p] = "none"]
          /\ UNCHANGED holder
       \/ /\ session[p] = "none"
          /\ UNCHANGED <<session, holder>>
    /\ IF stage[p] = "failing"
       THEN LoadForgotten(p)
       ELSE Forget(p) /\ UNCHANGED <<pendingLoad, joining>>
    /\ UNCHANGED <<store, owned, stale, version, saving, members, signals,
                   spent>>

\* Nobody awaits what the process had sent.
Unheard(p, saves) ==
    {[o EXCEPT !.caller = IF @ = p THEN Nobody ELSE @] :
       o \in {o \in saves : o.caller = p => ~ o.refused}}

Crash(p) ==
    /\ Spend("crash")
    /\ holder' = IF holder = Held(p) THEN Dropped(p) ELSE holder
    /\ session' = [session EXCEPT ![p] = "none"]
    /\ owned' = [owned EXCEPT ![p] = FALSE]
    /\ Forget(p)
    /\ stale' = [stale EXCEPT ![p] = FALSE]
    /\ pendingLoad' = [pendingLoad EXCEPT ![p] = FALSE]
    /\ orphans' = Unheard(p, orphans \cup Outlives(p))
    /\ saving' = [saving EXCEPT ![p] = "none"]
    /\ joining' = [joining EXCEPT ![p] = FALSE]
    /\ members' = [members EXCEPT ![p] = FALSE]
    /\ signals' = [signals EXCEPT ![p] = << >>]
    /\ UNCHANGED <<revision, untold, version>>

-----------------------------------------------------------------------------
(* Storing, and being told.                                                *)

\* persistDocument, past assertWritable.
BeginSave(p) ==
    /\ stage[p] = "open" /\ saving[p] = "none"
    /\ ~ stale[p] /\ ~ fenced[p]
    /\ Spend("save")
    /\ saving' = [saving EXCEPT ![p] = "sent"]
    /\ UNCHANGED <<store, lock, stage, flags, version, clients, signals>>

\* The API stores what was based on its revision.
Stored(expected, owner) ==
    /\ expected = revision
    /\ revision' = revision + 1
    /\ untold' = IF owner THEN untold ELSE revision + 1

ApiSaves(p) ==
    /\ saving[p] = "sent"
    /\ \/ /\ Stored(version[p], holder = Held(p))
          /\ saving' = [saving EXCEPT ![p] = "saved"]
       \/ /\ version[p] # revision
          /\ saving' = [saving EXCEPT ![p] = "conflict"]
          /\ UNCHANGED <<revision, untold>>
    /\ UNCHANGED <<orphans, lock, stage, flags, version, clients, signals,
                   spent>>

\* A save that has outlived its room is stored, which nobody is told, or
\* refused, which its caller is.
OrphanLands(o) ==
    /\ ~ o.refused
    /\ \/ /\ Stored(o.expected, FALSE)
          /\ orphans' = orphans \ {o}
       \/ /\ o.expected # revision
          /\ orphans' = (orphans \ {o}) \cup
                 IF o.caller = Nobody THEN {} ELSE {[o EXCEPT !.refused = TRUE]}
          /\ UNCHANGED <<revision, untold>>
    /\ UNCHANGED <<lock, stage, flags, version, saving, clients, signals,
                   spent>>

\* Its conflict is handled: the fence is of the document that is gone, whose
\* connections are closed, but the name may be that of another room, or of none.
LateConflict(o) ==
    /\ o.refused
    /\ orphans' = orphans \ {o}
    /\ refenced' = [refenced EXCEPT ![o.caller] = @ \/ ~ fenced[o.caller]]
    /\ fenced' = [fenced EXCEPT ![o.caller] = TRUE]
    /\ UNCHANGED <<revision, untold, lock, stage, tracked, stale, pendingLoad,
                   version, saving, clients, signals, spent>>

SaveAnswered(p) ==
    /\ saving[p] = "saved"
    /\ version' = [version EXCEPT ![p] = @ + 1]
    /\ saving' = [saving EXCEPT ![p] = "none"]
    /\ UNCHANGED <<store, lock, stage, flags, clients, signals, spent>>

SaveConflicted(p) ==
    /\ saving[p] = "conflict"
    /\ Fence(p)
    /\ saving' = [saving EXCEPT ![p] = "none"]
    /\ UNCHANGED <<store, lock, stage, tracked, refenced, pendingLoad,
                   version, joining, signals, spent>>

\* The document is changed behind the rooms: every process is notified.
OthersWrite ==
    /\ Spend("write")
    /\ revision' = revision + 1
    /\ signals' = [p \in Processes |-> Append(signals[p], revision + 1)]
    /\ UNCHANGED <<orphans, untold, lock, stage, flags, version, saving,
                   clients>>

\* Variant with a bug: a room that is loading is not told.
InvalidateResident(p) ==
    IF tracked[p] /\ ~ Loading(p)
    THEN Fence(p) /\ UNCHANGED pendingLoad
    ELSE UNCHANGED <<stale, fenced, members, pendingLoad>>

\* invalidateDocument: a room that is loading is fenced by its name.
InvalidateDocument(p) ==
    IF Loading(p)
    THEN /\ pendingLoad' = [pendingLoad EXCEPT ![p] = TRUE]
         /\ fenced' = [fenced EXCEPT ![p] = TRUE]
         /\ UNCHANGED <<stale, members>>
    ELSE /\ IF tracked[p] THEN Fence(p) ELSE UNCHANGED <<stale, fenced, members>>
         /\ UNCHANGED pendingLoad

\* handleContentUpdated; saves of rooms are not announced to rooms.
Told(p) ==
    /\ signals[p] # << >>
    /\ signals' = [signals EXCEPT ![p] = Tail(@)]
    /\ InvalidateDocument(p)
    /\ UNCHANGED <<store, lock, stage, tracked, refenced, version, saving,
                   joining, spent>>

-----------------------------------------------------------------------------
(* The system.                                                             *)

Init ==
    /\ holder = Nobody
    /\ revision = 1 /\ orphans = {} /\ untold = 0
    /\ session = [p \in Processes |-> "none"]
    /\ owned = [p \in Processes |-> FALSE]
    /\ stage = [p \in Processes |-> "empty"]
    /\ tracked = [p \in Processes |-> FALSE]
    /\ stale = [p \in Processes |-> FALSE]
    /\ fenced = [p \in Processes |-> FALSE]
    /\ refenced = [p \in Processes |-> FALSE]
    /\ pendingLoad = [p \in Processes |-> FALSE]
    /\ version = [p \in Processes |-> 0]
    /\ saving = [p \in Processes |-> "none"]
    /\ joining = [p \in Processes |-> FALSE]
    /\ members = [p \in Processes |-> FALSE]
    /\ signals = [p \in Processes |-> << >>]
    /\ spent = [kind \in Kinds |-> 0]

LockStep(p) ==
    \/ SessionBreaks(p) \/ SessionLost(p) \/ SessionDropped(p) \/ SessionEnds(p)

LoadStep(p) ==
    \/ BeginLoad(p) \/ ConnectSession(p) \/ Acquire(p) \/ AcquireFails(p)
    \/ Read(p) \/ Loaded(p) \/ Opened(p) \/ Connected(p)

UnloadStep(p) == BeginUnload(p) \/ Released(p)

SaveStep(p) ==
    \/ BeginSave(p) \/ ApiSaves(p) \/ SaveAnswered(p) \/ SaveConflicted(p)

Next ==
    \/ \E p \in Processes :
          \/ LockStep(p) \/ LoadStep(p) \/ UnloadStep(p) \/ SaveStep(p)
          \/ Authenticate(p) \/ Disconnected(p) \/ Crash(p) \/ Told(p)
    \/ \E o \in orphans : OrphanLands(o) \/ LateConflict(o)
    \/ OthersWrite

Spec == Init /\ [][Next]_vars

\* PostgreSQL and the API answer, a broken session is noticed and a dropped one
\* ended, notifications arrive, and Hocuspocus opens and unloads rooms.
FairSpec ==
    /\ Spec
    /\ \A p \in Processes :
          /\ WF_vars(LoadStep(p))
          /\ WF_vars(UnloadStep(p))
          /\ WF_vars(ApiSaves(p) \/ SaveAnswered(p) \/ SaveConflicted(p))
          /\ WF_vars(SessionLost(p) \/ SessionEnds(p))
          /\ WF_vars(Told(p))

-----------------------------------------------------------------------------
(* Properties.                                                             *)

\* Clients of the room edit and the process may save it.
Working(p) == stage[p] = "open" /\ ~ fenced[p]

\* A working room is one its process owns, whenever the session was lost
\* during its load, its life or its unload.
WorkingRoomIsOwned == \A p \in Processes : Working(p) => owned[p]

\* "process/session loss releases every room so another replica can load the
\* canonical document" (room-ownership.ts:33): of two processes that both have
\* a working room, at least one has lost its session and not noticed yet.
OneWorkingRoom ==
    \A p, q \in Processes :
        p # q /\ Working(p) /\ Working(q) => "broken" \in {session[p], session[q]}

\* A lock is held only while its process loads, has or unloads the room: one
\* that is kept without a room shuts every other process out for as long as the
\* session lives.
NoLockWithoutRoom ==
    \A p \in Processes : holder = Held(p) => stage[p] \notin {"empty", "acquiring"}

\* A working room that is behind what is stored will hear of it: a notification
\* is on its way or its own save's answer is; unless its lock, or that of the
\* process whose save it missed, was lost: then only the revision can tell.
StaleRoomIsTold ==
    \A p \in Processes :
        Working(p) /\ session[p] = "connected" /\ version[p] < revision =>
            \/ \E i \in 1 .. Len(signals[p]) : signals[p][i] > version[p]
            \/ saving[p] \in {"saved", "conflict"}
            \/ untold > version[p]

\* A fenced room has no clients, and its name is fenced only while there is a
\* room to be fenced: nobody is refused for a room that is gone.  Excepted are
\* names that a conflict has fenced when the room of its save was gone.
FenceIsOfRoom ==
    \A p \in Processes :
        fenced[p] => refenced[p] \/ (stage[p] # "empty" /\ ~ members[p])

\* A fenced name is available again, unless such a conflict came when there was
\* no room that could still be unloaded or fail to load, or to a room whose
\* clients have stayed.
FencedRoomIsFreed ==
    \A p \in Processes :
        fenced[p] ~> \/ ~ fenced[p]
                     \/ refenced[p] /\ (stage[p] = "empty" \/ members[p])

\* A client that waits for a room gets it or is refused.
ClientIsAnswered == \A p \in Processes : joining[p] ~> ~ joining[p]
=============================================================================
