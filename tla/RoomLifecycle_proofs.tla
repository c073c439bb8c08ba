------------------------ MODULE RoomLifecycle_proofs ------------------------
(***************************************************************************)
(* Theorems about RoomLifecycle, for every set of processes and every      *)
(* bound.                                                                  *)
(***************************************************************************)
EXTENDS RoomLifecycle, TLAPS

USE MaxAssumption, NobodyAssumption

\* The stages in which a room has, or had, its lock; and those in which it has
\* been read.
LockedStages == {"reading", "read", "opening", "open"}
LoadedStages == {"read", "opening", "open"}

\* What a process owns it holds, until its session dies; what it holds it is
\* loading, has or unloads; and a room that has lost its lock is fenced.
LockMatches(p) ==
    /\ owned[p] => stage[p] \in LockedStages /\ session[p] # "none"
    /\ owned[p] /\ session[p] = "connected" => holder = Held(p)
    /\ holder = Held(p) =>
           session[p] = "connected" /\ (owned[p] \/ stage[p] \in {"failing", "unloading"})
    /\ stage[p] \in LockedStages /\ ~ owned[p] => fenced[p]

LockMatchesRoom == \A p \in Processes : LockMatches(p)

\* What a room has in each stage.
StageMatches(p) ==
    /\ tracked[p] <=> stage[p] # "empty"
    /\ fenced[p] => refenced[p] \/ (stage[p] # "empty" /\ ~ members[p])
    /\ members[p] => stage[p] = "open"
    /\ saving[p] # "none" => stage[p] = "open"
    /\ stage[p] \in LoadedStages => version[p] # 0

StageMatchesRoom == \A p \in Processes : StageMatches(p)

\* The revision of the room once its save, if stored, is answered.
Base(p) == IF saving[p] = "saved" THEN version[p] + 1 ELSE version[p]

\* A signal that tells of a revision after the room's is on its way.
Announced(p) == \E i \in 1 .. Len(signals[p]) : signals[p][i] > Base(p)

\* A room that has been read is behind only if it will hear of it, or nobody
\* will say so.
BehindTold(p) ==
    stage[p] \in LoadedStages =>
        /\ Base(p) <= revision
        /\ ~ fenced[p] /\ session[p] = "connected" /\ Base(p) < revision =>
               Announced(p) \/ saving[p] = "conflict" \/ untold > Base(p)

BehindIsTold == untold <= revision /\ \A p \in Processes : BehindTold(p)

Inv == TypeOK /\ LockMatchesRoom /\ StageMatchesRoom /\ BehindIsTold

\* Whoever has the lock is one of its possible holders, and they differ.
LEMMA HolderType ==
    /\ Nobody \in Holders
    /\ \A p \in Processes : Held(p) \in Holders /\ Dropped(p) \in Holders
    /\ \A p \in Processes : Held(p) # Nobody /\ Dropped(p) # Nobody
    /\ \A p, q \in Processes : Held(p) # Dropped(q) /\ (Held(p) = Held(q) => p = q)
<1> USE DEF Holders, Held, Dropped
<1>1. \A p \in Processes :
         {Held(p), Dropped(p)} \subseteq [process : Processes, current : BOOLEAN]
    OBVIOUS
<1>2. \A p \in Processes : Held(p) # Nobody /\ Dropped(p) # Nobody
    BY <1>1
<1>3. \A p, q \in Processes : Held(p).process = p /\ Held(p).current /\ ~ Dropped(q).current
    OBVIOUS
<1>4. \A p, q \in Processes : Held(p) # Dropped(q) /\ (Held(p) = Held(q) => p = q)
    <2> HIDE DEF Held, Dropped
    <2> QED BY <1>3
<1> QED BY <1>1, <1>2, <1>4

\* Counting an event keeps the counters natural numbers.
LEMMA SpendType ==
    ASSUME TypeOK, NEW kind \in Kinds, Spend(kind)
    PROVE  spent' \in [Kinds -> Nat]
BY DEF TypeOK, Spend

\* A fence is of one room, and disconnects its clients unless it stood before.
LEMMA FenceEffect ==
    ASSUME TypeOK, NEW p \in Processes, Fence(p)
    PROVE  /\ stale' \in Flag /\ fenced' \in Flag /\ members' \in Flag
           /\ fenced'[p] /\ (members'[p] => fenced[p] /\ members[p])
           /\ \A q \in Processes \ {p} : fenced'[q] = fenced[q] /\ members'[q] = members[q]
<1>1. stale' \in Flag /\ fenced' \in Flag
    BY DEF TypeOK, Fence, Flag
<1>2. members' \in Flag
    BY DEF TypeOK, Fence, Flag
<1>3. fenced'[p] /\ (members'[p] => fenced[p] /\ members[p])
    BY DEF TypeOK, Fence, Flag
<1>4. \A q \in Processes \ {p} : fenced'[q] = fenced[q] /\ members'[q] = members[q]
    BY DEF TypeOK, Fence, Flag
<1> QED BY <1>1, <1>2, <1>3, <1>4

\* The loss of a session frees what it owned and fences the room, if any.
LEMMA LoseClientEffect ==
    ASSUME TypeOK, StageMatchesRoom, LockMatchesRoom, NEW p \in Processes, NEW after \in Holders,
           LoseClient(p, after)
    PROVE  /\ session' \in [Processes -> {"none", "connected", "broken"}] /\ owned' \in Flag
           /\ stale' \in Flag /\ fenced' \in Flag /\ members' \in Flag
           /\ session'[p] = "none" /\ ~ owned'[p] /\ holder' = after
           /\ (owned[p] \/ fenced[p]) <=> fenced'[p]
           /\ members'[p] => members[p] /\ (fenced'[p] => fenced[p])
           /\ \A q \in Processes \ {p} :
                  /\ session'[q] = session[q] /\ owned'[q] = owned[q]
                  /\ fenced'[q] = fenced[q] /\ members'[q] = members[q]
<1>1. /\ session' \in [Processes -> {"none", "connected", "broken"}] /\ owned' \in Flag
      /\ session'[p] = "none" /\ ~ owned'[p] /\ holder' = after
      /\ \A q \in Processes \ {p} : session'[q] = session[q] /\ owned'[q] = owned[q]
    BY DEF TypeOK, LoseClient, Flag
<1>2. CASE owned[p]
    <2>1. tracked[p]
        BY <1>2 DEF LockMatchesRoom, LockMatches, StageMatchesRoom, StageMatches, LockedStages
    <2>2. Fence(p)
        BY <1>2, <2>1 DEF LoseClient
    <2> QED BY <1>1, <1>2, <2>2, FenceEffect
<1>3. CASE ~ owned[p]
    <2>1. UNCHANGED <<stale, fenced, members>>
        BY <1>3 DEF LoseClient
    <2> QED BY <1>1, <1>3, <2>1 DEF TypeOK
<1> QED BY <1>2, <1>3

\* A room that is forgotten is empty, and neither tracked nor fenced.
LEMMA ForgetEffect ==
    ASSUME TypeOK, NEW p \in Processes, Forget(p)
    PROVE  /\ stage' \in [Processes -> Stages] /\ tracked' \in Flag /\ fenced' \in Flag
           /\ refenced' \in Flag
           /\ stage'[p] = "empty" /\ ~ tracked'[p] /\ ~ fenced'[p]
           /\ \A q \in Processes \ {p} :
                  /\ stage'[q] = stage[q] /\ tracked'[q] = tracked[q]
                  /\ fenced'[q] = fenced[q] /\ refenced'[q] = refenced[q]
BY DEF TypeOK, Forget, Flag, Stages

\* A load that fails releases what it acquired, or leaves nothing.
LEMMA LoadFailsEffect ==
    ASSUME TypeOK, NEW p \in Processes, LoadFails(p)
    PROVE  /\ stage' \in [Processes -> Stages] /\ owned' \in Flag /\ tracked' \in Flag
           /\ fenced' \in Flag /\ refenced' \in Flag /\ pendingLoad' \in Flag
           /\ joining' \in Flag /\ ~ owned'[p]
           /\ IF owned[p] THEN stage'[p] = "failing" /\ UNCHANGED <<tracked, refenced, fenced>>
                          ELSE stage'[p] = "empty" /\ ~ tracked'[p] /\ ~ fenced'[p]
           /\ \A q \in Processes \ {p} :
                  /\ stage'[q] = stage[q] /\ owned'[q] = owned[q]
                  /\ tracked'[q] = tracked[q] /\ fenced'[q] = fenced[q]
                  /\ refenced'[q] = refenced[q]
<1>1. CASE owned[p]
    <2>1. /\ owned' = [owned EXCEPT ![p] = FALSE] /\ stage' = [stage EXCEPT ![p] = "failing"]
          /\ UNCHANGED <<tracked, refenced, fenced, pendingLoad, joining>>
        BY <1>1 DEF LoadFails
    <2>2. owned' \in Flag /\ ~ owned'[p] /\ \A q \in Processes \ {p} : owned'[q] = owned[q]
        BY <2>1 DEF TypeOK, Flag
    <2>3. /\ stage' \in [Processes -> Stages] /\ stage'[p] = "failing"
          /\ \A q \in Processes \ {p} : stage'[q] = stage[q]
        BY <2>1 DEF TypeOK, Stages
    <2> QED BY <1>1, <2>1, <2>2, <2>3 DEF TypeOK
<1>2. CASE ~ owned[p]
    <2>1. /\ Forget(p) /\ owned' = owned
          /\ pendingLoad' = [pendingLoad EXCEPT ![p] = FALSE]
          /\ joining' = [joining EXCEPT ![p] = FALSE]
        BY <1>2 DEF LoadFails, LoadForgotten
    <2>2. pendingLoad' \in Flag /\ joining' \in Flag
        BY <2>1 DEF TypeOK, Flag
    <2>3. owned' \in Flag /\ ~ owned'[p]
        BY <1>2, <2>1 DEF TypeOK
    <2> QED BY <1>2, <2>1, <2>2, <2>3, ForgetEffect
<1> QED BY <1>1, <1>2

\* A save that outlives its room was based on a revision of the room.
LEMMA OutlivesType ==
    ASSUME TypeOK, StageMatchesRoom, NEW p \in Processes
    PROVE  Outlives(p) \subseteq Orphans
<1>1. saving[p] \in {"sent", "conflict"} => version[p] \in Nat \ {0}
    BY DEF TypeOK, StageMatchesRoom, StageMatches, LoadedStages
<1>2. spent["save"] \in Nat
    BY DEF TypeOK, Kinds
<1>3. CASE saving[p] \in {"sent", "conflict"}
    <2> DEFINE o == [caller |-> p, save |-> spent["save"], expected |-> version[p],
                     refused |-> saving[p] = "conflict"]
    <2>1. (saving[p] = "conflict") \in BOOLEAN
        OBVIOUS
    <2>2. o \in Orphans
        BY <1>1, <1>2, <1>3, <2>1, Zenon DEF Orphans
    <2>3. Outlives(p) = {o}
        BY <1>3 DEF Outlives
    <2> HIDE DEF o
    <2> QED BY <2>2, <2>3
<1>4. CASE saving[p] \notin {"sent", "conflict"}
    BY <1>4 DEF Outlives
<1> QED BY <1>3, <1>4

\* A save that is abandoned leaves its room without one.
LEMMA AbandonedEffect ==
    ASSUME TypeOK, StageMatchesRoom, NEW p \in Processes, Abandoned(p)
    PROVE  /\ orphans' \subseteq Orphans
           /\ saving' \in [Processes -> {"none", "sent", "saved", "conflict"}]
           /\ saving'[p] = "none" /\ \A q \in Processes \ {p} : saving'[q] = saving[q]
<1>1. orphans' \subseteq Orphans
    BY OutlivesType DEF TypeOK, Abandoned
<1>2. /\ saving' \in [Processes -> {"none", "sent", "saved", "conflict"}]
      /\ saving'[p] = "none" /\ \A q \in Processes \ {p} : saving'[q] = saving[q]
    BY DEF TypeOK, Abandoned
<1> QED BY <1>1, <1>2

\* Nor does a crash leave one, and what it had sent stays typed.
LEMMA CrashEffect ==
    ASSUME TypeOK, StageMatchesRoom, NEW p \in Processes, Crash(p)
    PROVE  /\ orphans' \subseteq Orphans
           /\ saving' \in [Processes -> {"none", "sent", "saved", "conflict"}]
           /\ saving'[p] = "none" /\ \A q \in Processes \ {p} : saving'[q] = saving[q]
<1>1. orphans \cup Outlives(p) \subseteq Orphans
    BY OutlivesType DEF TypeOK
<1>2. ASSUME NEW o \in Orphans
      PROVE  [o EXCEPT !.caller = IF @ = p THEN Nobody ELSE @] \in Orphans
    BY DEF Orphans
<1>3. Unheard(p, orphans \cup Outlives(p)) \subseteq Orphans
    BY <1>1, <1>2 DEF Unheard
<1>4. orphans' \subseteq Orphans
    BY <1>3 DEF Crash
<1>5. /\ saving' \in [Processes -> {"none", "sent", "saved", "conflict"}]
      /\ saving'[p] = "none" /\ \A q \in Processes \ {p} : saving'[q] = saving[q]
    BY DEF TypeOK, Crash
<1> QED BY <1>4, <1>5

\* A refusal that comes late fences the name of its caller, and nothing else.
LEMMA LateConflictEffect ==
    ASSUME TypeOK, NEW o \in orphans, LateConflict(o)
    PROVE  /\ orphans' \subseteq Orphans /\ fenced' \in Flag /\ refenced' \in Flag
           /\ \A q \in Processes : /\ fenced[q] => fenced'[q]
                                   /\ refenced[q] => refenced'[q]
                                   /\ fenced'[q] => fenced[q] \/ refenced'[q]
<1>1. orphans' \subseteq Orphans /\ fenced' \in Flag /\ refenced' \in Flag
    BY DEF TypeOK, LateConflict, Flag
<1>2. ASSUME NEW q \in Processes
      PROVE  /\ fenced[q] => fenced'[q]
             /\ refenced[q] => refenced'[q]
             /\ fenced'[q] => fenced[q] \/ refenced'[q]
    <2>1. CASE q = o.caller
        BY <2>1 DEF TypeOK, LateConflict, Flag
    <2>2. CASE q # o.caller
        BY <2>2 DEF TypeOK, LateConflict, Flag
    <2> QED BY <2>1, <2>2
<1> QED BY <1>1, <1>2

\* The invariant holds at the start.
LEMMA InitInv == Init => Inv
<1> SUFFICES ASSUME Init PROVE Inv
    OBVIOUS
<1>1. TypeOK
    BY DEF Init, TypeOK, Kinds, Stages, Holders, Flag
<1>2. LockMatchesRoom
    BY HolderType DEF Init, LockMatchesRoom, LockMatches, LockedStages
<1>3. StageMatchesRoom
    BY DEF Init, StageMatchesRoom, StageMatches, LoadedStages
<1>4. BehindIsTold
    BY DEF Init, BehindIsTold, BehindTold, LoadedStages
<1> QED BY <1>1, <1>2, <1>3, <1>4 DEF Inv

\* Every step keeps the types.
LEMMA TypePreserved ==
    ASSUME TypeOK, StageMatchesRoom, LockMatchesRoom, [Next]_vars
    PROVE  TypeOK'
<1> USE HolderType DEF store, lock, flags, clients, TypeOK, Kinds, Stages, Flag
<1>1. ASSUME NEW p \in Processes, SessionBreaks(p) PROVE TypeOK'
    BY <1>1, SpendType DEF SessionBreaks
<1>2. ASSUME NEW p \in Processes, SessionLost(p) PROVE TypeOK'
    BY <1>2, LoseClientEffect, SMTT(30) DEF SessionLost
<1>3. ASSUME NEW p \in Processes, SessionDropped(p) PROVE TypeOK'
    <2>1. holder' \in Holders /\ LoseClient(p, holder')
        BY <1>3 DEF SessionDropped, LoseClient
    <2> QED BY <1>3, <2>1, LoseClientEffect, SpendType DEF SessionDropped
<1>4. ASSUME NEW p \in Processes, SessionEnds(p) PROVE TypeOK'
    BY <1>4 DEF SessionEnds
<1>5. ASSUME NEW p \in Processes, BeginLoad(p) PROVE TypeOK'
    BY <1>5 DEF BeginLoad
<1>6. ASSUME NEW p \in Processes, ConnectSession(p) PROVE TypeOK'
    BY <1>6 DEF ConnectSession
<1>7. ASSUME NEW p \in Processes, Acquire(p) PROVE TypeOK'
    <2>1. CASE holder \in {Nobody, Held(p)}
        <3>1. /\ holder' = Held(p) /\ owned' = [owned EXCEPT ![p] = TRUE]
              /\ stage' = [stage EXCEPT ![p] = "reading"]
              /\ UNCHANGED <<tracked, refenced, fenced, pendingLoad, joining>>
            BY <1>7, <2>1 DEF Acquire
        <3>2. holder' \in Holders /\ owned' \in Flag /\ stage' \in [Processes -> Stages]
            BY <3>1
        <3> QED BY <1>7, <3>1, <3>2 DEF Acquire
    <2>2. CASE holder \notin {Nobody, Held(p)}
        BY <1>7, <2>2, LoadFailsEffect DEF Acquire
    <2> QED BY <2>1, <2>2
<1>8. ASSUME NEW p \in Processes, AcquireFails(p) PROVE TypeOK'
    BY <1>8, LoadFailsEffect DEF AcquireFails
<1>9. ASSUME NEW p \in Processes, Read(p) PROVE TypeOK'
    BY <1>9 DEF Read
<1>10. ASSUME NEW p \in Processes, Loaded(p) PROVE TypeOK'
    BY <1>10, LoadFailsEffect, ZenonT(40) DEF Loaded, LoadedRoomOwned
<1>11. ASSUME NEW p \in Processes, Opened(p) PROVE TypeOK'
    BY <1>11 DEF Opened, Admit
<1>12. ASSUME NEW p \in Processes, Connected(p) PROVE TypeOK'
    BY <1>12 DEF Connected, Admit
<1>13. ASSUME NEW p \in Processes, BeginUnload(p) PROVE TypeOK'
    <2>1. CASE owned[p]
        <3>1. /\ owned' = [owned EXCEPT ![p] = FALSE]
              /\ stage' = [stage EXCEPT ![p] = "unloading"]
              /\ UNCHANGED <<tracked, refenced, fenced>>
            BY <1>13, <2>1 DEF BeginUnload
        <3>2. owned' \in Flag /\ stage' \in [Processes -> Stages]
            BY <3>1
        <3> QED BY <1>13, <3>1, <3>2, AbandonedEffect DEF BeginUnload
    <2>2. CASE ~ owned[p]
        BY <1>13, <2>2, AbandonedEffect, ForgetEffect, ZenonT(40) DEF BeginUnload
    <2> QED BY <2>1, <2>2
<1>14. ASSUME NEW p \in Processes, Released(p) PROVE TypeOK'
    BY <1>14, ForgetEffect, ZenonT(40) DEF Released, LoadForgotten
<1>15. ASSUME NEW p \in Processes, BeginSave(p) PROVE TypeOK'
    BY <1>15, SpendType DEF BeginSave
<1>16. ASSUME NEW p \in Processes, ApiSaves(p) PROVE TypeOK'
    <2>1. CASE Stored(version[p], holder = Held(p)) /\ saving' = [saving EXCEPT ![p] = "saved"]
        <3>1. revision' \in Nat \ {0} /\ untold' \in {untold, revision + 1}
            BY <2>1 DEF Stored
        <3>2. saving[p] = "sent" /\ UNCHANGED <<orphans, lock, stage, flags, version, clients, signals, spent>>
            BY <1>16 DEF ApiSaves
        <3>3. saving' \in [Processes -> {"none", "sent", "saved", "conflict"}]
            BY <2>1
        <3> HIDE DEF TypeOK
        <3>4. untold' \in Nat
            BY <3>1, SMTT(30) DEF TypeOK
        <3> QED BY <3>1, <3>2, <3>3, <3>4 DEF TypeOK
    <2>2. CASE saving' = [saving EXCEPT ![p] = "conflict"] /\ UNCHANGED <<revision, untold>>
        BY <1>16, <2>2 DEF ApiSaves
    <2> QED BY <1>16, <2>1, <2>2 DEF ApiSaves
<1>17. ASSUME NEW p \in Processes, SaveAnswered(p) PROVE TypeOK'
    BY <1>17, SMTT(30) DEF SaveAnswered
<1>18. ASSUME NEW p \in Processes, SaveConflicted(p) PROVE TypeOK'
    BY <1>18, FenceEffect DEF SaveConflicted
<1>19. ASSUME NEW p \in Processes, Authenticate(p) PROVE TypeOK'
    BY <1>19, SpendType DEF Authenticate
<1>20. ASSUME NEW p \in Processes, Disconnected(p) PROVE TypeOK'
    BY <1>20 DEF Disconnected
<1>21. ASSUME NEW p \in Processes, Crash(p) PROVE TypeOK'
    <2>1. holder' \in Holders /\ session' \in [Processes -> {"none", "connected", "broken"}]
        BY <1>21 DEF Crash
    <2>2. owned' \in Flag /\ stale' \in Flag /\ pendingLoad' \in Flag
        BY <1>21 DEF Crash
    <2>3. joining' \in Flag /\ members' \in Flag
        BY <1>21 DEF Crash
    <2>4. signals' \in [Processes -> Seq(Nat)]
        BY <1>21 DEF Crash
    <2> QED BY <1>21, <2>1, <2>2, <2>3, <2>4, ForgetEffect, CrashEffect, SpendType DEF Crash
<1>22. ASSUME NEW p \in Processes, Told(p) PROVE TypeOK'
    <2>1. signals' \in [Processes -> Seq(Nat)]
        BY <1>22 DEF Told
    <2>2. stale' \in Flag /\ fenced' \in Flag /\ members' \in Flag /\ pendingLoad' \in Flag
        <3>1. CASE Loading(p)
            BY <1>22, <3>1 DEF Told, InvalidateDocument
        <3>2. CASE ~ Loading(p) /\ tracked[p]
            BY <1>22, <3>2, FenceEffect DEF Told, InvalidateDocument
        <3>3. CASE ~ Loading(p) /\ ~ tracked[p]
            BY <1>22, <3>3 DEF Told, InvalidateDocument
        <3> QED BY <3>1, <3>2, <3>3
    <2> QED BY <1>22, <2>1, <2>2 DEF Told
<1>23. ASSUME NEW o \in orphans, OrphanLands(o) PROVE TypeOK'
    <2>1. revision' \in Nat \ {0} /\ untold' \in Nat
        BY <1>23, SMTT(30) DEF OrphanLands, Stored
    <2>2. o \in Orphans
        OBVIOUS
    <2>4. [o EXCEPT !.refused = TRUE] \in Orphans
        <3> HIDE DEF TypeOK
        <3> QED BY <2>2 DEF Orphans
    <2>3. orphans' \subseteq Orphans
        BY <1>23, <2>2, <2>4 DEF OrphanLands
    <2> QED BY <1>23, <2>1, <2>3 DEF OrphanLands
<1>24. ASSUME NEW o \in orphans, LateConflict(o) PROVE TypeOK'
    BY <1>24, LateConflictEffect DEF LateConflict
<1>25. ASSUME OthersWrite PROVE TypeOK'
    <2>1. revision' = revision + 1 /\ revision' \in Nat \ {0}
        BY <1>25 DEF OthersWrite
    <2>2. ASSUME NEW p \in Processes PROVE Append(signals[p], revision + 1) \in Seq(Nat)
        BY <2>1
    <2>3. signals' \in [Processes -> Seq(Nat)]
        <3> HIDE DEF TypeOK
        <3> QED BY <1>25, <2>2 DEF OthersWrite
    <2>4. spent' \in [Kinds -> Nat]
        BY <1>25, SpendType DEF OthersWrite
    <2> QED BY <1>25, <2>1, <2>3, <2>4 DEF OthersWrite
<1>26. CASE UNCHANGED vars
    BY <1>26 DEF vars
<1> QED
    BY <1>1, <1>2, <1>3, <1>4, <1>5, <1>6, <1>7, <1>8, <1>9, <1>10, <1>11, <1>12, <1>13,
       <1>14, <1>15, <1>16, <1>17, <1>18, <1>19, <1>20, <1>21, <1>22, <1>23, <1>24, <1>25,
       <1>26
    DEF Next, LockStep, LoadStep, UnloadStep, SaveStep

\* Every step keeps the lock and the rooms in agreement.
LEMMA LockPreserved ==
    ASSUME TypeOK, StageMatchesRoom, LockMatchesRoom, [Next]_vars
    PROVE  LockMatchesRoom'
<1> USE HolderType DEF store, lock, flags, clients, TypeOK, Stages, Flag, StageMatchesRoom,
        StageMatches, LockMatchesRoom, LockMatches, LockedStages
<1>1. ASSUME NEW p \in Processes, SessionBreaks(p) PROVE LockMatchesRoom'
    BY <1>1 DEF SessionBreaks
<1>2. ASSUME NEW p \in Processes, SessionLost(p) PROVE LockMatchesRoom'
    BY <1>2, LoseClientEffect DEF SessionLost
<1>3. ASSUME NEW p \in Processes, SessionDropped(p) PROVE LockMatchesRoom'
    <2>1. /\ holder' \in Holders /\ LoseClient(p, holder') /\ holder' # Held(p)
          /\ \A q \in Processes \ {p} : holder' = Held(q) <=> holder = Held(q)
          /\ UNCHANGED stage
        BY <1>3 DEF SessionDropped, LoseClient
    <2>2. LockMatches(p)'
        BY <2>1, LoseClientEffect
    <2>3. \A q \in Processes \ {p} : LockMatches(q)'
        BY <2>1, LoseClientEffect
    <2> QED BY <2>2, <2>3
<1>4. ASSUME NEW p \in Processes, SessionEnds(p) PROVE LockMatchesRoom'
    BY <1>4 DEF SessionEnds
<1>5. ASSUME NEW p \in Processes, BeginLoad(p) PROVE LockMatchesRoom'
    BY <1>5 DEF BeginLoad
<1>6. ASSUME NEW p \in Processes, ConnectSession(p) PROVE LockMatchesRoom'
    BY <1>6 DEF ConnectSession
<1>7. ASSUME NEW p \in Processes, Acquire(p) PROVE LockMatchesRoom'
    <2>1. CASE holder \in {Nobody, Held(p)}
        <3>1. /\ stage[p] = "acquiring" /\ session[p] = "connected" /\ holder' = Held(p)
              /\ owned' = [owned EXCEPT ![p] = TRUE]
              /\ stage' = [stage EXCEPT ![p] = "reading"]
              /\ UNCHANGED <<store, session, flags, version, saving, clients, signals>>
            BY <1>7, <2>1 DEF Acquire
        <3> QED BY <2>1, <3>1
    <2>2. CASE holder \notin {Nobody, Held(p)}
        <3>1. /\ stage[p] = "acquiring" /\ LoadFails(p)
              /\ UNCHANGED <<store, holder, session, version, saving, members, signals>>
            BY <1>7, <2>2 DEF Acquire
        <3>2. LockMatches(p)'
            BY <3>1, LoadFailsEffect, ZenonT(40)
        <3>3. \A q \in Processes \ {p} : LockMatches(q)'
            BY <3>1, LoadFailsEffect
        <3> QED BY <3>2, <3>3
    <2> QED BY <2>1, <2>2
<1>8. ASSUME NEW p \in Processes, AcquireFails(p) PROVE LockMatchesRoom'
    BY <1>8, LoadFailsEffect DEF AcquireFails
<1>9. ASSUME NEW p \in Processes, Read(p) PROVE LockMatchesRoom'
    BY <1>9 DEF Read
<1>10. ASSUME NEW p \in Processes, Loaded(p) PROVE LockMatchesRoom'
    <2>1. CASE LoadedRoomOwned(p)
        BY <1>10, <2>1 DEF Loaded
    <2>2. CASE ~ LoadedRoomOwned(p)
        <3>1. LoadFails(p) /\ UNCHANGED <<holder, session>>
            BY <1>10, <2>2 DEF Loaded
        <3>2. LockMatches(p)'
            BY <1>10, <3>1, LoadFailsEffect, ZenonT(40) DEF Loaded
        <3>3. \A q \in Processes \ {p} : LockMatches(q)'
            BY <3>1, LoadFailsEffect
        <3> QED BY <3>2, <3>3
    <2> QED BY <2>1, <2>2
<1>11. ASSUME NEW p \in Processes, Opened(p) PROVE LockMatchesRoom'
    BY <1>11 DEF Opened, Admit
<1>12. ASSUME NEW p \in Processes, Connected(p) PROVE LockMatchesRoom'
    BY <1>12 DEF Connected, Admit
<1>13. ASSUME NEW p \in Processes, BeginUnload(p) PROVE LockMatchesRoom'
    <2>1. CASE owned[p]
        <3>1. /\ owned' = [owned EXCEPT ![p] = FALSE]
              /\ stage' = [stage EXCEPT ![p] = "unloading"]
              /\ UNCHANGED <<fenced, holder, session>>
            BY <1>13, <2>1 DEF BeginUnload
        <3> QED BY <1>13, <3>1
    <2>2. CASE ~ owned[p]
        <3>1. Forget(p) /\ stage[p] = "open" /\ UNCHANGED <<owned, holder, session>>
            BY <1>13, <2>2 DEF BeginUnload
        <3>2. LockMatches(p)'
            BY <2>2, <3>1, ForgetEffect
        <3>3. \A q \in Processes \ {p} : LockMatches(q)'
            BY <3>1, ForgetEffect
        <3> QED BY <3>2, <3>3
    <2> QED BY <2>1, <2>2
<1>14. ASSUME NEW p \in Processes, Released(p) PROVE LockMatchesRoom'
    BY <1>14, ForgetEffect DEF Released, LoadForgotten
<1>15. ASSUME NEW p \in Processes, BeginSave(p) PROVE LockMatchesRoom'
    BY <1>15 DEF BeginSave
<1>16. ASSUME NEW p \in Processes, ApiSaves(p) PROVE LockMatchesRoom'
    BY <1>16 DEF ApiSaves, Stored
<1>17. ASSUME NEW p \in Processes, SaveAnswered(p) PROVE LockMatchesRoom'
    BY <1>17 DEF SaveAnswered
<1>18. ASSUME NEW p \in Processes, SaveConflicted(p) PROVE LockMatchesRoom'
    BY <1>18, FenceEffect DEF SaveConflicted
<1>19. ASSUME NEW p \in Processes, Authenticate(p) PROVE LockMatchesRoom'
    BY <1>19 DEF Authenticate
<1>20. ASSUME NEW p \in Processes, Disconnected(p) PROVE LockMatchesRoom'
    BY <1>20 DEF Disconnected
<1>21. ASSUME NEW p \in Processes, Crash(p) PROVE LockMatchesRoom'
    BY <1>21, ForgetEffect, CrashEffect, SMTT(30) DEF Crash
<1>22. ASSUME NEW p \in Processes, Told(p) PROVE LockMatchesRoom'
    BY <1>22, FenceEffect, SMTT(30) DEF Told, InvalidateDocument, Loading, LoadingStages
<1>23. ASSUME NEW o \in orphans, OrphanLands(o) PROVE LockMatchesRoom'
    BY <1>23 DEF OrphanLands, Stored
<1>24. ASSUME NEW o \in orphans, LateConflict(o) PROVE LockMatchesRoom'
    BY <1>24, LateConflictEffect DEF LateConflict
<1>25. ASSUME OthersWrite PROVE LockMatchesRoom'
    BY <1>25 DEF OthersWrite
<1>26. CASE UNCHANGED vars
    BY <1>26 DEF vars
<1> QED
    BY <1>1, <1>2, <1>3, <1>4, <1>5, <1>6, <1>7, <1>8, <1>9, <1>10, <1>11, <1>12, <1>13,
       <1>14, <1>15, <1>16, <1>17, <1>18, <1>19, <1>20, <1>21, <1>22, <1>23, <1>24, <1>25,
       <1>26
    DEF Next, LockStep, LoadStep, UnloadStep, SaveStep

\* Every step keeps the stages and what a room has in them.
LEMMA StagePreserved ==
    ASSUME TypeOK, StageMatchesRoom, LockMatchesRoom, [Next]_vars
    PROVE  StageMatchesRoom'
<1> USE HolderType DEF store, lock, flags, clients, TypeOK, Stages, Flag, StageMatchesRoom,
        StageMatches, LockMatchesRoom, LockMatches, LockedStages, LoadedStages
<1>1. ASSUME NEW p \in Processes, SessionBreaks(p) PROVE StageMatchesRoom'
    BY <1>1 DEF SessionBreaks
<1>2. ASSUME NEW p \in Processes, SessionLost(p) PROVE StageMatchesRoom'
    <2>1. LoseClient(p, holder) /\ UNCHANGED <<stage, tracked, refenced, version, saving>>
        BY <1>2 DEF SessionLost
    <2>2. owned[p] => stage[p] # "empty"
        OBVIOUS
    <2> QED BY <2>1, <2>2, LoseClientEffect
<1>3. ASSUME NEW p \in Processes, SessionDropped(p) PROVE StageMatchesRoom'
    BY <1>3, LoseClientEffect DEF SessionDropped
<1>4. ASSUME NEW p \in Processes, SessionEnds(p) PROVE StageMatchesRoom'
    BY <1>4 DEF SessionEnds
<1>5. ASSUME NEW p \in Processes, BeginLoad(p) PROVE StageMatchesRoom'
    BY <1>5 DEF BeginLoad
<1>6. ASSUME NEW p \in Processes, ConnectSession(p) PROVE StageMatchesRoom'
    BY <1>6 DEF ConnectSession
<1>7. ASSUME NEW p \in Processes, Acquire(p) PROVE StageMatchesRoom'
    BY <1>7, LoadFailsEffect DEF Acquire
<1>8. ASSUME NEW p \in Processes, AcquireFails(p) PROVE StageMatchesRoom'
    BY <1>8, LoadFailsEffect DEF AcquireFails
<1>9. ASSUME NEW p \in Processes, Read(p) PROVE StageMatchesRoom'
    BY <1>9 DEF Read
<1>10. ASSUME NEW p \in Processes, Loaded(p) PROVE StageMatchesRoom'
    BY <1>10, LoadFailsEffect DEF Loaded, LoadedRoomOwned
<1>11. ASSUME NEW p \in Processes, Opened(p) PROVE StageMatchesRoom'
    BY <1>11 DEF Opened, Admit
<1>12. ASSUME NEW p \in Processes, Connected(p) PROVE StageMatchesRoom'
    <2>1. CASE fenced[p]
        BY <1>12, <2>1 DEF Connected, Admit
    <2>2. CASE ~ fenced[p]
        <3>1. /\ members' = [members EXCEPT ![p] = TRUE] /\ stage[p] = "open"
              /\ UNCHANGED <<stage, tracked, refenced, fenced, saving, version>>
            BY <1>12, <2>2 DEF Connected, Admit
        <3> QED BY <2>2, <3>1
    <2> QED BY <2>1, <2>2
<1>13. ASSUME NEW p \in Processes, BeginUnload(p) PROVE StageMatchesRoom'
    BY <1>13, AbandonedEffect, ForgetEffect, SMTT(30) DEF BeginUnload
<1>14. ASSUME NEW p \in Processes, Released(p) PROVE StageMatchesRoom'
    BY <1>14, ForgetEffect DEF Released, LoadForgotten
<1>15. ASSUME NEW p \in Processes, BeginSave(p) PROVE StageMatchesRoom'
    BY <1>15 DEF BeginSave
<1>16. ASSUME NEW p \in Processes, ApiSaves(p) PROVE StageMatchesRoom'
    BY <1>16 DEF ApiSaves, Stored
<1>17. ASSUME NEW p \in Processes, SaveAnswered(p) PROVE StageMatchesRoom'
    BY <1>17 DEF SaveAnswered
<1>18. ASSUME NEW p \in Processes, SaveConflicted(p) PROVE StageMatchesRoom'
    BY <1>18, FenceEffect DEF SaveConflicted
<1>19. ASSUME NEW p \in Processes, Authenticate(p) PROVE StageMatchesRoom'
    BY <1>19 DEF Authenticate
<1>20. ASSUME NEW p \in Processes, Disconnected(p) PROVE StageMatchesRoom'
    BY <1>20 DEF Disconnected
<1>21. ASSUME NEW p \in Processes, Crash(p) PROVE StageMatchesRoom'
    BY <1>21, ForgetEffect, CrashEffect DEF Crash
<1>22. ASSUME NEW p \in Processes, Told(p) PROVE StageMatchesRoom'
    <2>1. UNCHANGED <<stage, tracked, refenced, version, saving>>
        BY <1>22 DEF Told
    <2>2. CASE Loading(p)
        <3>1. fenced' = [fenced EXCEPT ![p] = TRUE] /\ UNCHANGED members
            BY <1>22, <2>2 DEF Told, InvalidateDocument
        <3>2. stage[p] \notin {"empty", "open"}
            BY <2>2 DEF Loading, LoadingStages
        <3> QED BY <2>1, <3>1, <3>2
    <2>3. CASE ~ Loading(p) /\ tracked[p]
        BY <1>22, <2>1, <2>3, FenceEffect DEF Told, InvalidateDocument
    <2>4. CASE ~ Loading(p) /\ ~ tracked[p]
        BY <1>22, <2>1, <2>4 DEF Told, InvalidateDocument
    <2> QED BY <2>2, <2>3, <2>4
<1>23. ASSUME NEW o \in orphans, OrphanLands(o) PROVE StageMatchesRoom'
    BY <1>23 DEF OrphanLands, Stored
<1>24. ASSUME NEW o \in orphans, LateConflict(o) PROVE StageMatchesRoom'
    <2>1. UNCHANGED <<stage, tracked, members, saving, version>>
        BY <1>24 DEF LateConflict
    <2>2. \A q \in Processes : /\ fenced'[q] => fenced[q] \/ refenced'[q]
                               /\ refenced[q] => refenced'[q]
        BY <1>24, LateConflictEffect
    <2> QED BY <2>1, <2>2
<1>25. ASSUME OthersWrite PROVE StageMatchesRoom'
    BY <1>25 DEF OthersWrite
<1>26. CASE UNCHANGED vars
    BY <1>26 DEF vars
<1> QED
    BY <1>1, <1>2, <1>3, <1>4, <1>5, <1>6, <1>7, <1>8, <1>9, <1>10, <1>11, <1>12, <1>13,
       <1>14, <1>15, <1>16, <1>17, <1>18, <1>19, <1>20, <1>21, <1>22, <1>23, <1>24, <1>25,
       <1>26
    DEF Next, LockStep, LoadStep, UnloadStep, SaveStep

\* Every step leaves a room that is behind with something that will tell it.
LEMMA BehindPreserved ==
    ASSUME Inv, [Next]_vars
    PROVE  BehindIsTold'
<1> USE HolderType DEF Inv, store, lock, flags, clients, TypeOK, Stages, Flag, StageMatchesRoom,
        StageMatches, LockMatchesRoom, LockMatches, LockedStages, LoadedStages, BehindIsTold,
        BehindTold, Base, Announced
<1>1. ASSUME NEW p \in Processes, SessionBreaks(p) PROVE BehindIsTold'
    BY <1>1 DEF SessionBreaks
<1>2. ASSUME NEW p \in Processes, SessionLost(p) PROVE BehindIsTold'
    <2>1. /\ LoseClient(p, holder)
          /\ UNCHANGED <<untold, revision, stage, version, saving, signals>>
        BY <1>2 DEF SessionLost
    <2>2. session'[p] # "connected" /\ \A q \in Processes \ {p} : BehindTold(q)'
        BY <2>1, LoseClientEffect
    <2> QED BY <2>1, <2>2
<1>3. ASSUME NEW p \in Processes, SessionDropped(p) PROVE BehindIsTold'
    <2>1. /\ holder' \in Holders /\ LoseClient(p, holder')
          /\ UNCHANGED <<untold, revision, stage, version, saving, signals>>
        BY <1>3 DEF SessionDropped, LoseClient
    <2>2. session'[p] # "connected" /\ \A q \in Processes \ {p} : BehindTold(q)'
        BY <2>1, LoseClientEffect
    <2> QED BY <2>1, <2>2
<1>4. ASSUME NEW p \in Processes, SessionEnds(p) PROVE BehindIsTold'
    BY <1>4 DEF SessionEnds
<1>5. ASSUME NEW p \in Processes, BeginLoad(p) PROVE BehindIsTold'
    BY <1>5 DEF BeginLoad
<1>6. ASSUME NEW p \in Processes, ConnectSession(p) PROVE BehindIsTold'
    BY <1>6 DEF ConnectSession
<1>7. ASSUME NEW p \in Processes, Acquire(p) PROVE BehindIsTold'
    <2>1. CASE holder \in {Nobody, Held(p)}
        <3>1. /\ stage[p] = "acquiring" /\ session[p] = "connected" /\ holder' = Held(p)
              /\ owned' = [owned EXCEPT ![p] = TRUE]
              /\ stage' = [stage EXCEPT ![p] = "reading"]
              /\ UNCHANGED <<store, session, flags, version, saving, clients, signals>>
            BY <1>7, <2>1 DEF Acquire
        <3> QED BY <2>1, <3>1
    <2>2. CASE holder \notin {Nobody, Held(p)}
        <3>1. /\ stage[p] = "acquiring" /\ LoadFails(p)
              /\ UNCHANGED <<store, holder, session, version, saving, members, signals>>
            BY <1>7, <2>2 DEF Acquire
        <3>2. BehindTold(p)'
            BY <3>1, LoadFailsEffect, ZenonT(40)
        <3>3. \A q \in Processes \ {p} : BehindTold(q)'
            BY <3>1, LoadFailsEffect
        <3> QED BY <3>1, <3>2, <3>3
    <2> QED BY <2>1, <2>2
<1>8. ASSUME NEW p \in Processes, AcquireFails(p) PROVE BehindIsTold'
    <2>1. /\ stage[p] = "acquiring" /\ LoadFails(p)
          /\ session' = [session EXCEPT ![p] = "none"]
          /\ UNCHANGED <<store, holder, version, saving, members, signals>>
        BY <1>8 DEF AcquireFails
    <2>2. BehindTold(p)'
        BY <2>1, LoadFailsEffect, ZenonT(40)
    <2>3. \A q \in Processes \ {p} : BehindTold(q)'
        BY <2>1, LoadFailsEffect
    <2> QED BY <2>1, <2>2, <2>3
<1>9. ASSUME NEW p \in Processes, Read(p) PROVE BehindIsTold'
    BY <1>9 DEF Read
<1>10. ASSUME NEW p \in Processes, Loaded(p) PROVE BehindIsTold'
    BY <1>10, LoadFailsEffect DEF Loaded, LoadedRoomOwned
<1>11. ASSUME NEW p \in Processes, Opened(p) PROVE BehindIsTold'
    BY <1>11 DEF Opened, Admit
<1>12. ASSUME NEW p \in Processes, Connected(p) PROVE BehindIsTold'
    BY <1>12 DEF Connected, Admit
<1>13. ASSUME NEW p \in Processes, BeginUnload(p) PROVE BehindIsTold'
    BY <1>13, AbandonedEffect, ForgetEffect, SMTT(30) DEF BeginUnload
<1>14. ASSUME NEW p \in Processes, Released(p) PROVE BehindIsTold'
    BY <1>14, ForgetEffect DEF Released, LoadForgotten
<1>15. ASSUME NEW p \in Processes, BeginSave(p) PROVE BehindIsTold'
    BY <1>15 DEF BeginSave
<1>16. ASSUME NEW p \in Processes, ApiSaves(p) PROVE BehindIsTold'
    <2>1. /\ saving[p] = "sent" /\ stage[p] = "open"
          /\ UNCHANGED <<holder, session, owned, stage, fenced, version, signals>>
        BY <1>16 DEF ApiSaves
    <2>2. CASE Stored(version[p], holder = Held(p)) /\ saving' = [saving EXCEPT ![p] = "saved"]
        <3>1. /\ version[p] = revision /\ revision' = revision + 1
              /\ untold' = IF holder = Held(p) THEN untold ELSE revision + 1
            BY <2>2 DEF Stored
        <3>2. BehindTold(p)'
            BY <2>1, <2>2, <3>1
        <3>3. ASSUME NEW q \in Processes \ {p} PROVE BehindTold(q)'
            <4>1. CASE holder = Held(p)
                BY <2>1, <2>2, <3>1, <4>1
            <4>2. CASE holder # Held(p)
                BY <2>1, <2>2, <3>1, <4>2
            <4> QED BY <4>1, <4>2
        <3>4. untold' <= revision'
            BY <3>1
        <3> HIDE DEF BehindTold
        <3> QED BY <3>2, <3>3, <3>4
    <2>3. CASE /\ version[p] # revision /\ saving' = [saving EXCEPT ![p] = "conflict"]
               /\ UNCHANGED <<revision, untold>>
        BY <2>1, <2>3
    <2> QED BY <1>16, <2>2, <2>3 DEF ApiSaves
<1>17. ASSUME NEW p \in Processes, SaveAnswered(p) PROVE BehindIsTold'
    <2>1. /\ saving[p] = "saved" /\ saving' = [saving EXCEPT ![p] = "none"]
          /\ version' = [version EXCEPT ![p] = @ + 1]
          /\ UNCHANGED <<untold, revision, session, stage, fenced, signals>>
        BY <1>17 DEF SaveAnswered
    <2>2. Base(p)' = Base(p)
        BY <2>1
    <2>3. Announced(p)' <=> Announced(p)
        <3> HIDE DEF Base
        <3> QED BY <2>1, <2>2
    <2>4. BehindTold(p)'
        <3>1. BehindTold(p)
            OBVIOUS
        <3> HIDE DEF Base, Announced
        <3> QED BY <2>1, <2>2, <2>3, <3>1
    <2>5. \A q \in Processes \ {p} : BehindTold(q)'
        BY <2>1
    <2> QED BY <2>1, <2>4, <2>5
<1>18. ASSUME NEW p \in Processes, SaveConflicted(p) PROVE BehindIsTold'
    BY <1>18, FenceEffect DEF SaveConflicted
<1>19. ASSUME NEW p \in Processes, Authenticate(p) PROVE BehindIsTold'
    BY <1>19 DEF Authenticate
<1>20. ASSUME NEW p \in Processes, Disconnected(p) PROVE BehindIsTold'
    BY <1>20 DEF Disconnected
<1>21. ASSUME NEW p \in Processes, Crash(p) PROVE BehindIsTold'
    <2>1. /\ UNCHANGED <<untold, revision, version>>
          /\ \A q \in Processes \ {p} :
                 /\ stage'[q] = stage[q] /\ fenced'[q] = fenced[q]
                 /\ session'[q] = session[q] /\ saving'[q] = saving[q]
                 /\ signals'[q] = signals[q]
        BY <1>21, ForgetEffect, CrashEffect, SMTT(30) DEF Crash
    <2>2. stage'[p] = "empty"
        BY <1>21, ForgetEffect DEF Crash
    <2>3. BehindTold(p)'
        BY <2>2
    <2>4. ASSUME NEW q \in Processes \ {p} PROVE BehindTold(q)'
        BY <2>1
    <2> HIDE DEF BehindTold
    <2> QED BY <2>1, <2>3, <2>4
<1>22. ASSUME NEW p \in Processes, Told(p) PROVE BehindIsTold'
    <2>1. /\ \A q \in Processes \ {p} : signals'[q] = signals[q]
          /\ UNCHANGED <<untold, revision, session, stage, version, saving>>
        BY <1>22 DEF Told
    <2>2. /\ stage[p] \in LoadedStages => fenced'[p]
          /\ \A q \in Processes \ {p} : fenced'[q] = fenced[q]
        <3>1. CASE Loading(p)
            BY <1>22, <3>1 DEF Told, InvalidateDocument
        <3>2. CASE ~ Loading(p) /\ tracked[p]
            BY <1>22, <3>2, FenceEffect DEF Told, InvalidateDocument
        <3>3. CASE ~ Loading(p) /\ ~ tracked[p]
            BY <1>22, <3>3 DEF Told, InvalidateDocument
        <3> QED BY <3>1, <3>2, <3>3
    <2>3. BehindTold(p)'
        BY <2>1, <2>2
    <2>4. \A q \in Processes \ {p} : BehindTold(q)'
        BY <2>1, <2>2
    <2> QED BY <2>1, <2>3, <2>4, ZenonT(40)
<1>23. ASSUME NEW o \in orphans, OrphanLands(o) PROVE BehindIsTold'
    BY <1>23 DEF OrphanLands, Stored
<1>24. ASSUME NEW o \in orphans, LateConflict(o) PROVE BehindIsTold'
    BY <1>24, LateConflictEffect DEF LateConflict
<1>25. ASSUME OthersWrite PROVE BehindIsTold'
    <2>1. /\ revision' = revision + 1
          /\ UNCHANGED <<untold, session, stage, fenced, version, saving>>
          /\ \A q \in Processes : signals'[q] = Append(signals[q], revision')
        BY <1>25 DEF OthersWrite
    <2>2. ASSUME NEW q \in Processes, stage[q] \in LoadedStages PROVE Announced(q)'
        <3>1. Base(q)' \in Nat /\ Base(q)' <= revision /\ signals[q] \in Seq(Nat)
            BY <2>1, <2>2
        <3>2. /\ Len(signals'[q]) \in 1 .. Len(signals'[q])
              /\ signals'[q][Len(signals'[q])] = revision + 1
            BY <2>1, <3>1
        <3>3. signals'[q][Len(signals'[q])] > Base(q)'
            BY <3>1, <3>2
        <3> HIDE DEF Base
        <3> QED BY <3>2, <3>3
    <2>3. \A q \in Processes : stage[q] \in LoadedStages => Base(q)' <= revision'
        BY <2>1
    <2> HIDE DEF Announced, Base
    <2> QED BY <2>1, <2>2, <2>3
<1>26. CASE UNCHANGED vars
    BY <1>26 DEF vars
<1> QED
    BY <1>1, <1>2, <1>3, <1>4, <1>5, <1>6, <1>7, <1>8, <1>9, <1>10, <1>11, <1>12, <1>13,
       <1>14, <1>15, <1>16, <1>17, <1>18, <1>19, <1>20, <1>21, <1>22, <1>23, <1>24, <1>25,
       <1>26
    DEF Next, LockStep, LoadStep, UnloadStep, SaveStep

\* Every step keeps the invariant.
LEMMA InvPreserved == Inv /\ [Next]_vars => Inv'
BY TypePreserved, LockPreserved, StagePreserved, BehindPreserved DEF Inv

\* The invariant holds for every set of processes and every bound.
THEOREM LifecycleInvariant == Spec => []Inv
<1>1. Init => Inv
    BY InitInv
<1>2. Inv /\ [Next]_vars => Inv'
    BY InvPreserved
<1> QED BY <1>1, <1>2, PTL DEF Spec

\* Every variable keeps its type (room-ownership.ts, document-hooks.ts).
THEOREM TypeCorrect == Spec => []TypeOK
<1>1. Inv => TypeOK
    BY DEF Inv
<1> QED BY <1>1, LifecycleInvariant, PTL

\* A working room is owned by its process (assertLoadedRoomOwned, loseClient).
THEOREM WorkingRoomsAreOwned == Spec => []WorkingRoomIsOwned
<1>1. Inv => WorkingRoomIsOwned
    BY DEF Inv, LockMatchesRoom, LockMatches, LockedStages, WorkingRoomIsOwned, Working,
           TypeOK, Flag
<1> QED BY <1>1, LifecycleInvariant, PTL

\* Of two working rooms at least one belongs to a session that is dead
\* (PostgresRoomOwnership).
THEOREM OneRoomWorks == Spec => []OneWorkingRoom
<1>1. Inv => OneWorkingRoom
    <2> SUFFICES ASSUME Inv, NEW p \in Processes, NEW q \in Processes, p # q,
                        Working(p), Working(q), "broken" \notin {session[p], session[q]}
                 PROVE  FALSE
        BY DEF OneWorkingRoom
    <2>1. owned[p] /\ owned[q]
        BY DEF Inv, LockMatchesRoom, LockMatches, LockedStages, Working
    <2>2. session[p] = "connected" /\ session[q] = "connected"
        BY <2>1 DEF Inv, TypeOK, LockMatchesRoom, LockMatches
    <2>3. holder = Held(p) /\ holder = Held(q)
        BY <2>1, <2>2 DEF Inv, LockMatchesRoom, LockMatches
    <2> QED BY <2>3, HolderType
<1> QED BY <1>1, LifecycleInvariant, PTL

\* No session keeps the lock of a room its process does not have (release, and
\* the catch of handleLoad).
THEOREM LocksAreReleased == Spec => []NoLockWithoutRoom
<1>1. Inv => NoLockWithoutRoom
    BY DEF Inv, LockMatchesRoom, LockMatches, LockedStages, NoLockWithoutRoom
<1> QED BY <1>1, LifecycleInvariant, PTL

\* A working room that is behind will be told, or only the revision can tell
\* (invalidateDocument, handleContentUpdated).
THEOREM StaleRoomsAreTold == Spec => []StaleRoomIsTold
<1>1. Inv => StaleRoomIsTold
    BY DEF Inv, BehindIsTold, BehindTold, LoadedStages, Announced, Base, StaleRoomIsTold, Working
<1> QED BY <1>1, LifecycleInvariant, PTL

\* A fenced name has a room, and the room has no clients, unless a conflict
\* has fenced it that came when the room of its save was gone (fence, unfence).
THEOREM FencesAreOfRooms == Spec => []FenceIsOfRoom
<1>1. Inv => FenceIsOfRoom
    BY DEF Inv, StageMatchesRoom, StageMatches, FenceIsOfRoom
<1> QED BY <1>1, LifecycleInvariant, PTL

=============================================================================
