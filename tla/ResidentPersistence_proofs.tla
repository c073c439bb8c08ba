--------------------- MODULE ResidentPersistence_proofs ---------------------
(***************************************************************************)
(* Theorems about ResidentPersistence, for every set of blocks and values  *)
(* and every bound.                                                        *)
(***************************************************************************)
EXTENDS ResidentPersistence, TLAPS

USE MaxAssumption, RoleAssumption, SentinelAssumption
USE DEF acks, Faults

\* Overlaying a content with another gives a content.
LEMMA OverlayType ==
    ASSUME NEW content \in Content, NEW changes \in Content, NEW blocks
    PROVE  Overlay(content, blocks, changes) \in Content
BY DEF Overlay, Content

\* The shape of the room's call alone, enough for the types.
CallShape ==
    /\ slot.pc = "idle" <=> exchange = NoExchange
    /\ slot.pc \in Persisting => pendingBatch # NoBatch
    /\ exchange # NoExchange =>
           (exchange.kind = "save" <=> slot.pc \in Persisting)

TypeInvariant == TypeOK /\ CallShape

\* Counting an event keeps the counters natural numbers.
LEMMA SpendType ==
    ASSUME TypeOK, NEW kind \in Kinds, Spend(kind)
    PROVE  spent' \in [Kinds -> Nat]
BY DEF TypeOK, Spend

\* The API's current content is one of its contents.
LEMMA CurrentType ==
    ASSUME TypeOK
    PROVE  Current \in Content /\ Revision \in Nat \ {0} /\ log[1] \in Content
BY DEF TypeOK, Current, Revision

\* A committed content is the last of the history, which is otherwise the same.
LEMMA AppendType ==
    ASSUME TypeOK, NEW content \in Content, log' = Append(log, content)
    PROVE  /\ log' \in Seq(Content) /\ log' # << >>
           /\ Revision' = Revision + 1 /\ log'[Revision'] = content
           /\ \A revision \in 1 .. Revision : log'[revision] = log[revision]
BY DEF TypeOK, Revision

\* An answer fills in the call in flight.
LEMMA AnswerType ==
    ASSUME exchange \in Exchange, NEW revision \in Nat,
           NEW kind \in {"ok", "deleted", "conflict", "failed"}, Answer(kind, revision)
    PROVE  /\ exchange' \in Exchange /\ exchange' # NoExchange
           /\ exchange'.kind = exchange.kind /\ exchange'.expected = exchange.expected
           /\ exchange'.answer = kind /\ exchange'.revision = revision
<1>1. /\ exchange' \in Exchange
      /\ exchange'.kind = exchange.kind /\ exchange'.expected = exchange.expected
      /\ exchange'.answer = kind /\ exchange'.revision = revision
    BY DEF Answer, Exchange
<1> QED BY <1>1

LEMMA InitType == Init => TypeInvariant
<1> SUFFICES ASSUME Init PROVE TypeInvariant
    OBVIOUS
<1>1. PICK content \in Content : log = <<content>>
    BY DEF Init
<1>2. log \in Seq(Content) /\ log # << >> /\ log[1] \in Content
    BY <1>1
<1>3. TypeOK
    BY <1>2 DEF Init, TypeOK, Idle, NothingHeld, Slot, Held, Baseline, Kinds
<1>4. CallShape
    BY DEF Init, CallShape, Idle, Persisting
<1> QED BY <1>3, <1>4 DEF TypeInvariant

\* Every step of the API keeps the types.
LEMMA ApiType == TypeInvariant /\ ApiStep => TypeInvariant'
<1> SUFFICES ASSUME TypeInvariant, ApiStep PROVE TypeInvariant'
    OBVIOUS
<1>c. Current \in Content /\ Revision \in Nat \ {0} /\ log[1] \in Content
    BY CurrentType DEF TypeInvariant
<1> USE DEF TypeInvariant, TypeOK, CallShape
<1>1. CASE ApiSaves
  <2> USE <1>1 DEF ApiSaves
  <2>1. pendingBatch \in Batch /\ slot.pc \in Persisting
      OBVIOUS
  <2>2. Overlay(Current, pendingBatch.mutated, pendingBatch.values) \in Content
      BY <1>c, <2>1, OverlayType DEF Batch
  <2>3. log' \in Seq(Content) /\ log' # << >>
    <3>1. CASE Commit(pendingBatch)
        BY <2>2, <3>1, AppendType DEF Commit
    <3> QED BY <3>1
  <2>4. /\ exchange' \in Exchange /\ exchange' # NoExchange
        /\ exchange'.kind = exchange.kind
    <3>1. exchange \in Exchange
        OBVIOUS
    <3>2. CASE Answer("ok", Revision + 1)
        BY <1>c, <3>1, <3>2, AnswerType
    <3>3. CASE Answer("deleted", Revision + 1)
        BY <1>c, <3>1, <3>3, AnswerType
    <3>4. CASE Answer("failed", 0)
        BY <1>c, <3>1, <3>4, AnswerType
    <3>5. CASE Answer("conflict", 0)
        BY <1>c, <3>1, <3>5, AnswerType
    <3> QED BY <3>2, <3>3, <3>4, <3>5
  <2>5. spent' \in [Kinds -> Nat]
      BY SpendType DEF Kinds
  <2>6. exists' \in BOOLEAN /\ orphans' \subseteq Batch
      BY <2>1
  <2>7. UNCHANGED <<relays, room, slot, acks>>
      OBVIOUS
  <2> QED BY <2>1, <2>3, <2>4, <2>5, <2>6, <2>7 DEF room
<1>2. CASE ApiUpdatesMetadata
  <2> USE <1>2 DEF ApiUpdatesMetadata
  <2>1. log' \in Seq(Content) /\ log' # << >>
      BY <1>c, AppendType
  <2>2. /\ exchange' \in Exchange /\ exchange' # NoExchange
        /\ exchange'.kind = exchange.kind
    <3>1. exchange \in Exchange
        OBVIOUS
    <3>2. CASE Answer("ok", Revision + 1)
        BY <1>c, <3>1, <3>2, AnswerType
    <3>3. CASE Answer("deleted", Revision + 1)
        BY <1>c, <3>1, <3>3, AnswerType
    <3>4. CASE Answer("failed", 0)
        BY <1>c, <3>1, <3>4, AnswerType
    <3>5. CASE Answer("conflict", 0)
        BY <1>c, <3>1, <3>5, AnswerType
    <3> QED BY <3>2, <3>3, <3>4, <3>5
  <2>3. spent' \in [Kinds -> Nat]
      BY SpendType DEF Kinds
  <2>4. exists' \in BOOLEAN /\ UNCHANGED <<orphans, relays, room, slot, acks>>
      OBVIOUS
  <2> QED BY <2>1, <2>2, <2>3, <2>4 DEF room
<1>3. ASSUME NEW batch \in orphans, OrphanLands(batch) PROVE TypeInvariant'
  <2> USE <1>3 DEF OrphanLands
  <2>1. Overlay(Current, batch.mutated, batch.values) \in Content
      BY <1>c, OverlayType DEF Batch
  <2>2. log' \in Seq(Content) /\ log' # << >>
    <3>1. CASE Commit(batch)
        BY <2>1, <3>1, AppendType DEF Commit
    <3> QED BY <3>1
  <2>3. orphans' \subseteq Batch
      OBVIOUS
  <2> QED BY <2>2, <2>3 DEF room, call
<1>4. ASSUME NEW b \in Blocks, NEW v \in Values, OthersWrite(b, v)
      PROVE  TypeInvariant'
  <2> USE <1>4 DEF OthersWrite
  <2>1. log' \in Seq(Content) /\ log' # << >>
      BY <1>c, AppendType DEF Content
  <2>2. spent' \in [Kinds -> Nat]
      BY SpendType DEF Kinds
  <2> QED BY <2>1, <2>2 DEF room, call
<1>5. ASSUME NEW b \in Blocks, NEW v \in Values, AIMutates(b, v)
      PROVE  TypeInvariant'
  <2> USE <1>5 DEF AIMutates
  <2>1. log' \in Seq(Content) /\ log' # << >>
      BY <1>c, AppendType DEF Content
  <2>2. spent' \in [Kinds -> Nat]
      BY SpendType DEF Kinds
  <2>3. relays' \subseteq Relay
      BY <1>c DEF Relay
  <2> QED BY <2>1, <2>2, <2>3 DEF room, call
<1> QED BY <1>1, <1>2, <1>3, <1>4, <1>5 DEF ApiStep

\* Every step of the room keeps the types.
LEMMA FlushType ==
    ASSUME TypeOK, NEW base \in Baseline, NEW held \in Held, Flush(base, held)
    PROVE  /\ baseline' \in Baseline
           /\ pendingBatch' \in Batch \cup {NoBatch}
           /\ pendingChangeSet' \subseteq Blocks
           /\ slot' \in Slot /\ exchange' \in Exchange \cup {NoExchange}
           /\ persisted' \in Ack \cup {NoAck} /\ promised' \in Ack \cup {NoAck}
           /\ faults' \subseteq Faults
           /\ spent' \in [Kinds -> Nat]
           /\ CallShape'
<1> USE DEF Flush
<1>0. baseline' \in Baseline /\ pendingChangeSet' \subseteq Blocks
    OBVIOUS
<1>1. CASE NothingToSave(base, held)
  <2>1. /\ persisted' \in Ack \cup {NoAck} /\ promised' \in Ack \cup {NoAck}
        /\ faults' \subseteq Faults
      BY <1>1 DEF NothingToSave, Acknowledge, Ack, Baseline, TypeOK
  <2>2. slot' \in Slot /\ exchange' = NoExchange /\ slot'.pc = "idle"
      BY <1>1 DEF NothingToSave, Release, Slot, Idle, NothingHeld, Held
  <2> QED BY <1>0, <1>1, <2>1, <2>2 DEF NothingToSave, TypeOK, CallShape, Persisting
<1>2. CASE SavePrepared(base, held)
  <2>1. PreparedBatch(base) \in Batch
    <3>1. Overlay(base.content, pendingChangeSet, document) \in Content
        BY OverlayType DEF TypeOK, Baseline
    <3> QED BY <3>1 DEF PreparedBatch, Batch, Mutated, TypeOK, Baseline
  <2>2. slot' \in Slot /\ slot'.pc = "saving"
      BY <1>2 DEF SavePrepared, Send, Slot
  <2>3. exchange' \in Exchange /\ exchange'.kind = "save"
      BY <1>2 DEF SavePrepared, Send, Exchange, Baseline
  <2>4. pendingBatch' # NoBatch /\ exchange' # NoExchange
      BY <1>2, <2>1, <2>3 DEF SavePrepared
  <2> QED BY <1>0, <1>2, <2>1, <2>2, <2>3, <2>4
          DEF SavePrepared, TypeOK, CallShape, Persisting
<1>3. CASE PrepareRejected(base)
  <2>1. slot' \in Slot /\ exchange' = NoExchange /\ slot'.pc = "idle"
      BY <1>3 DEF PrepareRejected, Release, Slot, Idle, NothingHeld, Held
  <2>2. spent' \in [Kinds -> Nat]
      BY <1>3, SpendType DEF PrepareRejected, Kinds, TypeOK
  <2> QED BY <1>0, <1>3, <2>1, <2>2
          DEF PrepareRejected, TypeOK, CallShape, Persisting
<1> QED BY <1>1, <1>2, <1>3

LEMMA HeldType ==
    ASSUME NEW held \in Held, NEW content \in Content
    PROVE  AlsoHeld(held, content) \in Held /\ NothingHeld \in Held
BY DEF AlsoHeld, Held, Content, NothingHeld

LEMMA RoomType == TypeInvariant /\ RoomStep => TypeInvariant'
<1> SUFFICES ASSUME TypeInvariant, RoomStep PROVE TypeInvariant'
    OBVIOUS
<1>c. Current \in Content /\ Revision \in Nat \ {0} /\ log[1] \in Content
    BY CurrentType DEF TypeInvariant
<1>i. Idle \in Slot /\ Idle.pc = "idle" /\ NothingHeld \in Held
    BY DEF Idle, Slot, NothingHeld, Held
<1> USE DEF TypeInvariant
<1>1. CASE Load
  <2>1. baseline' \in Baseline
      BY <1>c, <1>1 DEF Load, Baseline
  <2> QED BY <1>c, <1>1, <2>1 DEF Load, TypeOK, CallShape, api, call
<1>2. ASSUME NEW b \in Blocks, NEW v \in Values, NEW full \in BOOLEAN, Edit(b, v, full)
      PROVE  TypeInvariant'
  <2> USE <1>2 DEF Edit
  <2>1. document' \in Content
      BY DEF TypeOK, Content
  <2>2. slot' \in Slot /\ slot'.pc = slot.pc
    <3>1. slot \in Slot /\ slot.held \in Held
        BY DEF TypeOK, Slot
    <3>2. AlsoHeld(slot.held, document') \in Held
        BY <2>1, <3>1, HeldType
    <3> QED BY <3>1, <3>2 DEF NowHeld, Slot
  <2>3. spent' \in [Kinds -> Nat]
      BY SpendType DEF Kinds
  <2>4. pendingChangeSet' \subseteq Blocks
      BY DEF TypeOK
  <2> QED BY <2>1, <2>2, <2>3, <2>4 DEF TypeOK, CallShape, api
<1>3. CASE Invalidate
    BY <1>3 DEF Invalidate, TypeOK, CallShape, api, call
<1>4. CASE Unload
  <2> USE <1>4 DEF Unload
  <2>1. spent' \in [Kinds -> Nat]
      BY SpendType DEF Kinds, TypeOK
  <2>2. baseline' \in Baseline /\ document' \in Content
      BY <1>c DEF Baseline
  <2>3. orphans' \subseteq Batch
      BY DEF TypeOK, CallShape, Persisting
  <2> QED BY <1>i, <2>1, <2>2, <2>3 DEF TypeOK, CallShape, Persisting
<1>5. CASE BeginPersist
  <2> DEFINE held == AlsoHeld(NothingHeld, document)
  <2>1. held \in Held
      BY <1>i, HeldType DEF TypeOK
  <2>2. UNCHANGED <<api, phase, document, localeExists>>
      BY <1>5 DEF BeginPersist
  <2>3. CASE pendingBatch # NoBatch
    <3>1. /\ Send("retrying", held, pendingBatch.expected)
          /\ UNCHANGED <<baseline, pendingBatch, pendingChangeSet, acks, spent>>
        BY <1>5, <2>3 DEF BeginPersist
    <3>2. slot' \in Slot /\ slot'.pc = "retrying"
        BY <2>1, <3>1 DEF Send, Slot
    <3>3. exchange' \in Exchange /\ exchange'.kind = "save" /\ exchange' # NoExchange
        BY <2>3, <3>1 DEF Send, Exchange, TypeOK, Batch
    <3> QED BY <2>2, <2>3, <3>1, <3>2, <3>3 DEF TypeOK, CallShape, Persisting, api
  <2>4. CASE pendingBatch = NoBatch
    <3>1. Flush(baseline, held)
        BY <1>5, <2>4 DEF BeginPersist
    <3>2. baseline \in Baseline
        BY DEF TypeOK
    <3> HIDE DEF held
    <3>3. /\ baseline' \in Baseline
          /\ pendingBatch' \in Batch \cup {NoBatch}
          /\ pendingChangeSet' \subseteq Blocks
          /\ slot' \in Slot /\ exchange' \in Exchange \cup {NoExchange}
          /\ persisted' \in Ack \cup {NoAck} /\ promised' \in Ack \cup {NoAck}
          /\ faults' \subseteq Faults
          /\ spent' \in [Kinds -> Nat]
          /\ CallShape'
        BY <2>1, <3>1, <3>2, FlushType
    <3> QED BY <2>2, <3>3 DEF TypeOK, api
  <2> QED BY <2>3, <2>4
<1>6. CASE BeginMetadata
  <2> USE <1>6 DEF BeginMetadata
  <2>1. slot' \in Slot /\ slot'.pc = "metadata"
      BY DEF Slot, Idle, Held, NothingHeld
  <2>2. exchange' \in Exchange /\ exchange'.kind = "metadata" /\ exchange' # NoExchange
      BY DEF Exchange, TypeOK, Baseline
  <2>3. spent' \in [Kinds -> Nat]
      BY SpendType DEF Kinds
  <2> QED BY <2>1, <2>2, <2>3 DEF TypeOK, CallShape, Persisting, api, room
<1>7. ASSUME NEW relay \in relays, RelayApply(relay) PROVE TypeInvariant'
  <2> USE <1>7 DEF RelayApply
  <2>1. relay \in Relay
      BY DEF TypeOK
  <2>2. document' \in Content
      BY <2>1 DEF TypeOK, Content, Relay
  <2>3. baseline' \in Baseline
      BY <2>1, <2>2 DEF TypeOK, Baseline, Relay
  <2>4. /\ relays' \subseteq Relay /\ phase' \in {"unloaded", "open", "fenced"}
        /\ pendingBatch' \in Batch \cup {NoBatch} /\ localeExists' \in BOOLEAN
      BY DEF TypeOK
  <2> QED BY <2>2, <2>3, <2>4 DEF TypeOK, CallShape, Persisting, call
<1>8. ASSUME NEW relay \in relays, RelayRetire(relay) PROVE TypeInvariant'
    BY <1>8 DEF RelayRetire, TypeOK, CallShape, call
<1> QED BY <1>1, <1>2, <1>3, <1>4, <1>5, <1>6, <1>7, <1>8 DEF RoomStep

LEMMA AcknowledgedType ==
    ASSUME TypeOK, exchange # NoExchange, pendingBatch # NoBatch
    PROVE  Acknowledged \in Baseline
BY OverlayType DEF TypeOK, Acknowledged, Baseline, Batch, Exchange

\* The answer of a call keeps the types.
LEMMA AnswerStepType == TypeInvariant /\ AnswerStep => TypeInvariant'
<1> SUFFICES ASSUME TypeInvariant, AnswerStep PROVE TypeInvariant'
    OBVIOUS
<1>i. Idle \in Slot /\ Idle.pc = "idle"
    BY DEF Idle, Slot, NothingHeld, Held
<1> USE DEF TypeInvariant, Answered
<1>1. CASE SaveAcknowledged
  <2> USE <1>1 DEF SaveAcknowledged
  <2>1. exchange # NoExchange /\ pendingBatch # NoBatch
      BY DEF CallShape, Persisting
  <2>2. Acknowledged \in Baseline
      BY <2>1, AcknowledgedType
  <2>3. slot.held \in Held
      BY DEF TypeOK, Slot
  <2>4. CASE slot.pc = "retrying"
    <3>1. Flush(Acknowledged, slot.held)
        BY <2>4
    <3>2. /\ baseline' \in Baseline
          /\ pendingBatch' \in Batch \cup {NoBatch}
          /\ pendingChangeSet' \subseteq Blocks
          /\ slot' \in Slot /\ exchange' \in Exchange \cup {NoExchange}
          /\ persisted' \in Ack \cup {NoAck} /\ promised' \in Ack \cup {NoAck}
          /\ faults' \subseteq Faults
          /\ spent' \in [Kinds -> Nat]
          /\ CallShape'
        BY <2>2, <2>3, <3>1, FlushType
    <3> QED BY <3>2 DEF TypeOK, api
  <2>5. CASE slot.pc # "retrying"
    <3>1. /\ baseline' = Acknowledged /\ pendingBatch' = NoBatch
          /\ Acknowledge(slot.held, exchange.revision) /\ Release
          /\ UNCHANGED <<pendingChangeSet, spent>>
        BY <2>5
    <3>2. /\ persisted' \in Ack \cup {NoAck} /\ promised' \in Ack \cup {NoAck}
          /\ faults' \subseteq Faults
        BY <2>1, <2>3, <3>1 DEF Acknowledge, Ack, TypeOK, Exchange
    <3> QED BY <1>i, <2>2, <3>1, <3>2
            DEF TypeOK, CallShape, Persisting, Release, api
  <2> QED BY <2>4, <2>5
<1>2. CASE SaveDeletedLocale
  <2>1. Acknowledged \in Baseline
      BY <1>2, AcknowledgedType DEF SaveDeletedLocale, CallShape, Persisting
  <2> QED BY <1>i, <1>2, <2>1
          DEF SaveDeletedLocale, TypeOK, CallShape, Persisting, Release, api
<1>3. CASE MetadataAcknowledged
  <2>1. baseline' \in Baseline
      BY <1>3 DEF MetadataAcknowledged, TypeOK, CallShape, Baseline, Exchange
  <2> QED BY <1>i, <1>3, <2>1
          DEF MetadataAcknowledged, TypeOK, CallShape, Persisting, Release, api
<1>4. CASE MetadataDeletedLocale
  <2>1. baseline' \in Baseline
      BY <1>4 DEF MetadataDeletedLocale, TypeOK, CallShape, Baseline, Exchange
  <2>2. localeExists' \in BOOLEAN /\ phase' \in {"unloaded", "open", "fenced"}
      BY <1>4 DEF MetadataDeletedLocale, TypeOK
  <2> QED BY <1>i, <1>4, <2>1, <2>2
          DEF MetadataDeletedLocale, TypeOK, CallShape, Persisting, Release, api
<1>5. CASE CallFailed
    BY <1>i, <1>5 DEF CallFailed, TypeOK, CallShape, Persisting, Release, api, room
<1>6. CASE CallConflicted
    BY <1>i, <1>6 DEF CallConflicted, TypeOK, CallShape, Persisting, Release, api
<1> QED BY <1>1, <1>2, <1>3, <1>4, <1>5, <1>6 DEF AnswerStep

\* Type correctness, whatever the room and its API go through.
THEOREM TypeCorrect == Spec => []TypeOK
<1>1. Init => TypeInvariant
    BY InitType
<1>2. TypeInvariant /\ [Next]_vars => TypeInvariant'
  <2> SUFFICES ASSUME TypeInvariant, [Next]_vars PROVE TypeInvariant'
      OBVIOUS
  <2>1. CASE Next
      BY <2>1, ApiType, RoomType, AnswerStepType DEF Next
  <2>2. CASE UNCHANGED vars
      BY <2>2 DEF TypeInvariant, TypeOK, CallShape, vars, api, room, call
  <2> QED BY <2>1, <2>2
<1>3. TypeInvariant => TypeOK
    BY DEF TypeInvariant
<1> QED BY <1>1, <1>2, <1>3, PTL DEF Spec

-----------------------------------------------------------------------------
(* The inductive invariant.                                                *)

\* An event is counted within its bound.
LEMMA SpendCount ==
    ASSUME TypeOK, EventsCounted, NEW kind \in Kinds, Spend(kind)
    PROVE  /\ spent'[kind] > 0
           /\ \A other \in Kinds : spent'[other] <= Max[other] /\ spent[other] <= spent'[other]
           /\ Risky => Risky'
<1>1. /\ Max \in [Kinds -> Nat] /\ spent \in [Kinds -> Nat]
      /\ spent[kind] < Max[kind] /\ spent' = [spent EXCEPT ![kind] = @ + 1]
      /\ \A other \in Kinds : spent[other] <= Max[other]
    BY DEF TypeOK, EventsCounted, Spend
<1>2. /\ spent'[kind] > 0 /\ spent' \in [Kinds -> Nat]
      /\ \A other \in Kinds : spent'[other] <= Max[other] /\ spent[other] <= spent'[other]
    BY <1>1
<1>3. Risky => Risky'
  <2>1. {"reject", "relay", "failure"} \subseteq Kinds
      BY DEF Kinds
  <2>2. \A other \in Kinds : spent[other] > 0 => spent'[other] > 0
      BY <1>1, <1>2
  <2> QED BY <2>1, <2>2 DEF Risky
<1> QED BY <1>2, <1>3

\* Committing the mutations of a batch stores all it affects: the rest of the
\* affected blocks are as the baseline has them.
LEMMA CommitsPlanned ==
    ASSUME TypeOK, BatchWithinChange, BatchOnBaseline, pendingBatch # NoBatch
    PROVE  Overlay(baseline.content, pendingBatch.mutated, pendingBatch.values) = Planned
BY DEF TypeOK, BatchWithinChange, BatchOnBaseline, Planned, Overlay, Batch

\* What a longer history leaves true of the room.
Settled ==
    /\ BaselineIsStored /\ BatchWithinChange /\ BatchOnBaseline
    /\ ChangesTracked /\ HeldCovers /\ AckInOrder /\ PromiseKept

\* The committed contents stay where they are.
LEMMA HistoryGrows ==
    ASSUME TypeOK, NEW content \in Content,
           \/ log' = log
           \/ log' = Append(log, content)
    PROVE  /\ Revision \in Nat /\ Revision' \in Nat /\ Revision <= Revision'
           /\ \A revision \in 1 .. Revision : log'[revision] = log[revision]
<1>c. Revision \in Nat
    BY CurrentType
<1>1. CASE log' = log
    BY <1>c, <1>1 DEF Revision
<1>2. CASE log' = Append(log, content)
  <2>1. /\ Revision' = Revision + 1
        /\ \A revision \in 1 .. Revision : log'[revision] = log[revision]
      BY <1>2, AppendType
  <2> QED BY <1>c, <2>1
<1> QED BY <1>1, <1>2

\* A step of the API alone leaves the room settled.
LEMMA HistoryKeeps ==
    ASSUME TypeInvariant, Settled, NEW content \in Content,
           \/ log' = log
           \/ log' = Append(log, content),
           UNCHANGED <<room, slot, acks>>
    PROVE  Settled'
<1>1. /\ Revision \in Nat /\ Revision' \in Nat /\ Revision <= Revision'
      /\ \A revision \in 1 .. Revision : log'[revision] = log[revision]
    BY HistoryGrows DEF TypeInvariant
<1>2. BaselineIsStored'
    BY <1>1 DEF Settled, BaselineIsStored, room
<1>3. BatchWithinChange' /\ BatchOnBaseline' /\ ChangesTracked' /\ HeldCovers'
    BY DEF Settled, BatchWithinChange, BatchOnBaseline, ChangesTracked, HeldCovers,
           Planned, Open, room
<1>4. AckInOrder'
    BY <1>1 DEF Settled, AckInOrder, InOrder, Loaded, room
<1>5. PromiseKept'
    BY <1>1 DEF Settled, PromiseKept, Covered, AckInOrder, InOrder
<1> QED BY <1>2, <1>3, <1>4, <1>5 DEF Settled

LEMMA RoomInvariantParts ==
    RoomInvariant <=> /\ CallMatches /\ AnswerIsStored /\ RelaysStored /\ EventsCounted
                      /\ Settled
BY DEF RoomInvariant, Settled

\* Relays stay steps of a history that grows.
LEMMA RelaysKeep ==
    ASSUME TypeInvariant, RelaysStored, NEW content \in Content,
           \/ log' = log
           \/ log' = Append(log, content),
           relays' \subseteq relays
    PROVE  RelaysStored'
<1>1. /\ Revision \in Nat /\ Revision' \in Nat /\ Revision <= Revision'
      /\ \A revision \in 1 .. Revision : log'[revision] = log[revision]
    BY HistoryGrows DEF TypeInvariant
<1> SUFFICES ASSUME NEW relay \in relays'
    PROVE /\ relay.expected \in 1 .. Revision' /\ relay.accepted \in 1 .. Revision'
          /\ relay.expected < relay.accepted
          /\ log'[relay.accepted] =
                 [log'[relay.expected] EXCEPT ![relay.block] = relay.value]
    BY DEF RelaysStored
<1>2. /\ relay.expected \in 1 .. Revision /\ relay.accepted \in 1 .. Revision
      /\ relay.expected < relay.accepted
      /\ log[relay.accepted] = [log[relay.expected] EXCEPT ![relay.block] = relay.value]
    BY DEF RelaysStored
<1>3. log'[relay.accepted] = log[relay.accepted] /\ log'[relay.expected] = log[relay.expected]
    BY <1>1, <1>2
<1> QED BY <1>1, <1>2, <1>3

\* An answer already stored stays stored.
LEMMA AnswerKeeps ==
    ASSUME TypeInvariant, AnswerIsStored, NEW content \in Content,
           BaselineIsStored,
           \/ log' = log
           \/ log' = Append(log, content),
           UNCHANGED <<exchange, baseline, pendingBatch, faults>>
    PROVE  AnswerIsStored'
<1>1. /\ Revision \in Nat /\ Revision' \in Nat /\ Revision <= Revision'
      /\ \A revision \in 1 .. Revision : log'[revision] = log[revision]
    BY HistoryGrows DEF TypeInvariant
<1> QED BY <1>1 DEF AnswerIsStored, Planned, BaselineIsStored

\* A step of the API keeps the invariant.
LEMMA ApiInvariant ==
    TypeInvariant /\ RoomInvariant /\ ApiStep => RoomInvariant'
<1> SUFFICES ASSUME TypeInvariant, RoomInvariant, ApiStep PROVE RoomInvariant'
    OBVIOUS
<1>c. /\ Current \in Content /\ Revision \in Nat \ {0}
      /\ CallMatches /\ AnswerIsStored /\ RelaysStored /\ EventsCounted /\ Settled
      /\ TypeOK
    BY CurrentType, RoomInvariantParts DEF TypeInvariant
<1>b. BaselineIsStored /\ BatchWithinChange /\ BatchOnBaseline
    BY <1>c DEF Settled
<1>1. CASE ApiSaves
  <2> DEFINE planned == Overlay(Current, pendingBatch.mutated, pendingBatch.values)
  <2> USE <1>1 DEF ApiSaves
  <2>1. /\ exchange \in Exchange /\ exchange # NoExchange /\ exchange.kind = "save"
        /\ pendingBatch # NoBatch /\ pendingBatch \in Batch
        /\ exchange.expected = pendingBatch.expected
        /\ pendingBatch.expected = baseline.revision
        /\ slot.pc \in Persisting
      BY <1>c, <1>b DEF TypeInvariant, TypeOK, CallShape, CallMatches, BatchOnBaseline
  <2>2. UNCHANGED <<relays, room, slot, acks>>
      OBVIOUS
  <2>3. planned \in Content
      BY <1>c, <2>1, OverlayType DEF Batch
  <2>4. log' = log \/ log' = Append(log, planned)
      BY DEF Commit
  <2>5. Settled' /\ RelaysStored'
      BY <1>c, <2>2, <2>3, <2>4, HistoryKeeps, RelaysKeep
  <2>6. PICK kind \in {"ok", "deleted", "conflict", "failed"}, revision \in Nat :
            /\ Answer(kind, revision)
            /\ kind \in {"ok", "deleted"} =>
                   /\ Fresh(exchange.expected) /\ log' = Append(log, planned)
                   /\ revision = Revision + 1
            /\ kind = "failed" => Spend("failure")
            /\ kind # "failed" => UNCHANGED spent
      BY <1>c DEF Commit
  <2>7. /\ exchange' \in Exchange /\ exchange' # NoExchange
        /\ exchange'.kind = exchange.kind /\ exchange'.expected = exchange.expected
        /\ exchange'.answer = kind /\ exchange'.revision = revision
      BY <2>1, <2>6, AnswerType
  <2>8. CallMatches'
      BY <1>c, <2>1, <2>2, <2>7 DEF CallMatches, room, Loaded
  <2>9. AnswerIsStored'
    <3>1. CASE kind \in {"ok", "deleted"}
      <4>1. /\ Revision' = Revision + 1 /\ log'[Revision'] = planned
          BY <1>c, <2>3, <2>6, <3>1, AppendType
      <4>2. /\ baseline.revision = Revision
            /\ "dropped" \notin faults => Current = baseline.content
          BY <1>b, <2>1, <2>6, <3>1 DEF Fresh, BaselineIsStored, Current
      <4>3. "dropped" \notin faults => planned = Planned
          BY <1>c, <1>b, <2>1, <4>2, CommitsPlanned
      <4>4. Planned' = Planned /\ baseline' = baseline /\ faults' = faults
          BY <2>2 DEF Planned, room
      <4> QED BY <1>c, <2>1, <2>6, <2>7, <3>1, <4>1, <4>2, <4>3, <4>4 DEF AnswerIsStored
    <3>2. CASE kind \notin {"ok", "deleted"}
        BY <2>7, <3>2 DEF AnswerIsStored
    <3> QED BY <3>1, <3>2
  <2>10. EventsCounted'
    <3>1. CASE kind = "failed"
      <4>1. /\ spent'["failure"] > 0 /\ spent'["relay"] >= spent["relay"]
            /\ \A other \in Kinds : spent'[other] <= Max[other]
            /\ Risky => Risky'
          BY <1>c, <2>6, <3>1, SpendCount DEF Kinds
      <4>2. spent \in [Kinds -> Nat] /\ spent' \in [Kinds -> Nat]
          BY <1>c, <2>6, <3>1, SpendType DEF TypeOK, Kinds
      <4>3. relays # {} => spent["relay"] > 0
          BY <1>c DEF EventsCounted, Risky
      <4>4. spent["relay"] \in Nat /\ spent'["relay"] \in Nat
          BY <4>2 DEF Kinds
      <4>5. relays' # {} => spent'["relay"] > 0
          BY <2>2, <4>1, <4>3, <4>4
      <4>6. (Open' /\ faults' # {}) \/ promised' # persisted' => Risky'
          BY <1>c, <2>2, <4>1 DEF EventsCounted, Open, room
      <4> QED BY <4>1, <4>5, <4>6 DEF EventsCounted
    <3>2. CASE kind # "failed"
        BY <1>c, <2>1, <2>2, <2>6, <2>7, <3>2 DEF EventsCounted, Risky, room, Open
    <3> QED BY <3>1, <3>2
  <2> QED BY <2>5, <2>8, <2>9, <2>10 DEF RoomInvariant, Settled
<1>2. CASE ApiUpdatesMetadata
  <2> USE <1>2 DEF ApiUpdatesMetadata
  <2>1. /\ exchange \in Exchange /\ exchange # NoExchange /\ exchange.kind = "metadata"
        /\ slot.pc = "metadata" /\ exchange.expected = baseline.revision
      BY <1>c DEF TypeInvariant, TypeOK, CallShape, CallMatches, Persisting, Slot
  <2>2. UNCHANGED <<relays, room, slot, acks>>
      OBVIOUS
  <2>4. log' = log \/ log' = Append(log, Current)
      OBVIOUS
  <2>5. Settled' /\ RelaysStored'
      BY <1>c, <2>2, <2>4, HistoryKeeps, RelaysKeep
  <2>6. PICK kind \in {"ok", "deleted", "conflict", "failed"}, revision \in Nat :
            /\ Answer(kind, revision)
            /\ kind \in {"ok", "deleted"} =>
                   /\ Fresh(exchange.expected) /\ log' = Append(log, Current)
                   /\ revision = Revision + 1
            /\ kind = "failed" => Spend("failure")
            /\ kind # "failed" => UNCHANGED spent
      BY <1>c
  <2>7. /\ exchange' \in Exchange /\ exchange' # NoExchange
        /\ exchange'.kind = exchange.kind /\ exchange'.expected = exchange.expected
        /\ exchange'.answer = kind /\ exchange'.revision = revision
      BY <2>1, <2>6, AnswerType
  <2>8. CallMatches'
      BY <1>c, <2>1, <2>2, <2>7 DEF CallMatches, room, Loaded, Persisting
  <2>9. AnswerIsStored'
    <3>1. CASE kind \in {"ok", "deleted"}
      <4>1. /\ Revision' = Revision + 1 /\ log'[Revision'] = Current
          BY <1>c, <2>6, <3>1, AppendType
      <4>2. /\ baseline.revision = Revision
            /\ "dropped" \notin faults => Current = baseline.content
          BY <1>b, <2>1, <2>6, <3>1 DEF Fresh, BaselineIsStored, Current
      <4>4. baseline' = baseline /\ faults' = faults
          BY <2>2 DEF room
      <4> QED BY <1>c, <2>1, <2>6, <2>7, <3>1, <4>1, <4>2, <4>4 DEF AnswerIsStored
    <3>2. CASE kind \notin {"ok", "deleted"}
        BY <2>7, <3>2 DEF AnswerIsStored
    <3> QED BY <3>1, <3>2
  <2>10. EventsCounted'
    <3>1. CASE kind = "failed"
      <4>1. /\ spent'["failure"] > 0 /\ spent'["relay"] >= spent["relay"]
            /\ \A other \in Kinds : spent'[other] <= Max[other]
            /\ Risky => Risky'
          BY <1>c, <2>6, <3>1, SpendCount DEF Kinds
      <4>2. spent \in [Kinds -> Nat] /\ spent' \in [Kinds -> Nat]
          BY <1>c, <2>6, <3>1, SpendType DEF TypeOK, Kinds
      <4>3. relays # {} => spent["relay"] > 0
          BY <1>c DEF EventsCounted, Risky
      <4>4. spent["relay"] \in Nat /\ spent'["relay"] \in Nat
          BY <4>2 DEF Kinds
      <4>5. relays' # {} => spent'["relay"] > 0
          BY <2>2, <4>1, <4>3, <4>4
      <4>6. (Open' /\ faults' # {}) \/ promised' # persisted' => Risky'
          BY <1>c, <2>2, <4>1 DEF EventsCounted, Open, room
      <4> QED BY <4>1, <4>5, <4>6 DEF EventsCounted
    <3>2. CASE kind # "failed"
        BY <1>c, <2>1, <2>2, <2>6, <2>7, <3>2 DEF EventsCounted, Risky, room, Open
    <3> QED BY <3>1, <3>2
  <2> QED BY <2>5, <2>8, <2>9, <2>10 DEF RoomInvariant, Settled
<1>3. ASSUME NEW batch \in orphans, OrphanLands(batch) PROVE RoomInvariant'
  <2> DEFINE landed == Overlay(Current, batch.mutated, batch.values)
  <2>1. landed \in Content
      BY <1>c, OverlayType DEF Batch, TypeOK
  <2>2. log' = log \/ log' = Append(log, landed)
      BY <1>3 DEF OrphanLands, Commit
  <2>3. UNCHANGED <<relays, room, slot, exchange, acks, spent>>
      BY <1>3 DEF OrphanLands, call
  <2>4. Settled' /\ RelaysStored' /\ AnswerIsStored'
      BY <1>c, <1>b, <2>1, <2>2, <2>3, HistoryKeeps, RelaysKeep, AnswerKeeps DEF room
  <2>5. CallMatches' /\ EventsCounted'
      BY <1>c, <2>3 DEF CallMatches, EventsCounted, Risky, room, Open, Loaded
  <2> QED BY <2>4, <2>5 DEF RoomInvariant, Settled
<1>4. ASSUME NEW b \in Blocks, NEW v \in Values, OthersWrite(b, v)
      PROVE  RoomInvariant'
  <2> DEFINE written == [Current EXCEPT ![b] = v]
  <2>1. written \in Content
      BY <1>c DEF Content
  <2>2. log' = Append(log, written) /\ Spend("write")
      BY <1>4 DEF OthersWrite
  <2>3. UNCHANGED <<relays, room, slot, exchange, acks>>
      BY <1>4 DEF OthersWrite, call
  <2>4. Settled' /\ RelaysStored' /\ AnswerIsStored'
      BY <1>c, <1>b, <2>1, <2>2, <2>3, HistoryKeeps, RelaysKeep, AnswerKeeps DEF room
  <2>5. CallMatches'
      BY <1>c, <2>3 DEF CallMatches, room, Loaded
  <2>6. /\ \A other \in Kinds : spent'[other] <= Max[other] /\ spent[other] <= spent'[other]
        /\ spent \in [Kinds -> Nat] /\ spent' \in [Kinds -> Nat]
        /\ Risky => Risky'
      BY <1>c, <2>2, SpendCount, SpendType DEF Kinds, TypeOK
  <2>7. EventsCounted'
      BY <1>c, <2>3, <2>6 DEF EventsCounted, room, Open, Kinds
  <2> QED BY <2>4, <2>5, <2>7 DEF RoomInvariant, Settled
<1>5. ASSUME NEW b \in Blocks, NEW v \in Values, AIMutates(b, v)
      PROVE  RoomInvariant'
  <2> DEFINE written == [Current EXCEPT ![b] = v]
  <2>1. written \in Content
      BY <1>c DEF Content
  <2>2. log' = Append(log, written) /\ Spend("relay")
      BY <1>5 DEF AIMutates
  <2>3. UNCHANGED <<room, slot, exchange, acks>>
      BY <1>5 DEF AIMutates, call
  <2>4. Settled' /\ AnswerIsStored'
      BY <1>c, <1>b, <2>1, <2>2, <2>3, HistoryKeeps, AnswerKeeps DEF room
  <2>5. CallMatches'
      BY <1>c, <2>3 DEF CallMatches, room, Loaded
  <2>6. /\ \A other \in Kinds : spent'[other] <= Max[other] /\ spent[other] <= spent'[other]
        /\ spent \in [Kinds -> Nat] /\ spent' \in [Kinds -> Nat]
        /\ spent'["relay"] > 0 /\ (Risky => Risky')
      BY <1>c, <2>2, SpendCount, SpendType DEF Kinds, TypeOK
  <2>7. EventsCounted'
      BY <1>c, <2>3, <2>6 DEF EventsCounted, room, Open, Kinds
  <2>8. RelaysStored'
    <3>1. /\ Revision' = Revision + 1 /\ log'[Revision'] = written
          /\ \A revision \in 1 .. Revision : log'[revision] = log[revision]
        BY <1>c, <2>1, <2>2, AppendType
    <3> SUFFICES ASSUME NEW relay \in relays'
        PROVE /\ relay.expected \in 1 .. Revision' /\ relay.accepted \in 1 .. Revision'
              /\ relay.expected < relay.accepted
              /\ log'[relay.accepted] =
                     [log'[relay.expected] EXCEPT ![relay.block] = relay.value]
        BY DEF RelaysStored
    <3>2. CASE relay \in relays
      <4>1. /\ relay.expected \in 1 .. Revision /\ relay.accepted \in 1 .. Revision
            /\ relay.expected < relay.accepted
            /\ log[relay.accepted] =
                   [log[relay.expected] EXCEPT ![relay.block] = relay.value]
          BY <1>c, <3>2 DEF RelaysStored
      <4>2. /\ log'[relay.accepted] = log[relay.accepted]
            /\ log'[relay.expected] = log[relay.expected]
          BY <3>1, <4>1
      <4> QED BY <1>c, <3>1, <4>1, <4>2
    <3>3. CASE relay \notin relays
      <4>1. /\ relay.expected = Revision /\ relay.accepted = Revision + 1
            /\ relay.block = b /\ relay.value = v
          BY <1>5, <3>3 DEF AIMutates
      <4>2. log'[relay.accepted] = written /\ log'[relay.expected] = Current
          BY <1>c, <3>1, <4>1 DEF Current
      <4>3. written = [log'[relay.expected] EXCEPT ![relay.block] = relay.value]
          BY <4>1, <4>2
      <4>4. relay.expected \in 1 .. Revision' /\ relay.accepted \in 1 .. Revision'
          BY <1>c, <3>1, <4>1
      <4> QED BY <1>c, <4>1, <4>2, <4>3, <4>4
    <3> QED BY <3>2, <3>3
  <2> QED BY <2>4, <2>5, <2>7, <2>8 DEF RoomInvariant, Settled
<1> QED BY <1>1, <1>2, <1>3, <1>4, <1>5 DEF ApiStep

\* A persist past its retry keeps the invariant, for the baseline it goes on
\* with: everything the document has is held, and every difference from that
\* baseline is in the change set, unless one was refused before.
LEMMA FlushInvariant ==
    ASSUME TypeInvariant, RoomInvariant, Loaded,
           NEW base \in Baseline, NEW held \in Held,
           base.revision \in baseline.revision .. Revision,
           "dropped" \notin faults => base.content = log[base.revision],
           Open => \A b \in Blocks :
               /\ document[b] \in held[b]
               /\ "refused" \notin faults =>
                      (document[b] # base.content[b] => b \in pendingChangeSet),
           Flush(base, held),
           UNCHANGED <<api, phase, document, localeExists>>
    PROVE  RoomInvariant'
<1>c. /\ Revision \in Nat \ {0} /\ TypeOK /\ baseline.revision \in Nat
      /\ CallMatches /\ AnswerIsStored /\ RelaysStored /\ EventsCounted /\ Settled
    BY CurrentType, RoomInvariantParts DEF TypeInvariant, TypeOK, Baseline
<1>u. /\ baseline' = base /\ pendingChangeSet' = {}
      /\ UNCHANGED <<log, relays, phase, document, localeExists>>
    BY DEF Flush, api
<1>r. base.revision \in 1 .. Revision' /\ baseline'.revision = base.revision
    BY <1>c, <1>u DEF Settled, BaselineIsStored, Revision
<1>1. RelaysStored' /\ (faults \subseteq faults' => BaselineIsStored')
  <2>1. RelaysStored'
      BY <1>c, <1>u DEF RelaysStored, Revision
  <2>2. ASSUME faults \subseteq faults' PROVE BaselineIsStored'
      BY <1>r, <1>u, <2>2 DEF BaselineIsStored
  <2> QED BY <2>1, <2>2
<1>2. UNCHANGED <<persisted, promised>> => AckInOrder' /\ PromiseKept'
    BY <1>c, <1>u DEF Settled, AckInOrder, InOrder, PromiseKept, Covered, Loaded, Revision
<1>3. CASE NothingToSave(base, held)
  <2>1. /\ pendingBatch' = NoBatch /\ UNCHANGED <<spent, faults>>
        /\ slot' = Idle /\ exchange' = NoExchange
        /\ Acknowledge(held, base.revision) /\ Mutated(base) = {}
        /\ localeExists \/ pendingChangeSet = {}
      BY <1>3 DEF NothingToSave, Release, Acknowledge
  <2>2. Open /\ "refused" \notin faults => \A b \in Blocks : document[b] = base.content[b]
      BY <2>1 DEF Mutated
  <2>3. Planned' = base.content
      BY <1>u, <2>1 DEF Planned
  <2>4. CallMatches' /\ AnswerIsStored' /\ BatchWithinChange' /\ BatchOnBaseline'
      BY <1>u, <2>1 DEF CallMatches, AnswerIsStored, BatchWithinChange, BatchOnBaseline,
                        Idle, Persisting, Loaded
  <2>5. ChangesTracked' /\ HeldCovers'
      BY <1>c, <1>u, <2>1, <2>2, <2>3 DEF ChangesTracked, HeldCovers, Idle, Persisting, Open
  <2>6. EventsCounted'
    <3>1. /\ \A kind \in Kinds : spent'[kind] <= Max[kind]
          /\ relays' # {} => spent'["relay"] > 0
          /\ exchange' = NoExchange /\ pendingBatch' = NoBatch
        BY <1>c, <1>u, <2>1 DEF EventsCounted
    <3>2. (Open' /\ faults' # {}) \/ promised' # persisted' => Risky'
        BY <1>c, <1>u, <2>1 DEF EventsCounted, Risky, Open, Acknowledge
    <3> QED BY <3>1, <3>2 DEF EventsCounted
  <2>7. AckInOrder' /\ PromiseKept'
    <3>1. CASE Open
      <4>1. /\ persisted' = [held |-> held, revision |-> base.revision]
            /\ promised' = IF faults = {} THEN persisted' ELSE promised
          BY <2>1, <3>1 DEF Acknowledge, Open
      <4>2. AckInOrder'
          BY <1>c, <1>r, <1>u, <4>1
             DEF Settled, AckInOrder, InOrder, Loaded, Revision, TypeOK, Ack, Baseline
      <4>3. CASE faults = {}
        <5>1. \A b \in Blocks : log'[base.revision][b] \in held[b]
            BY <1>u, <2>2, <3>1, <4>3
        <5> QED BY <4>1, <4>2, <4>3, <5>1 DEF PromiseKept, Covered
      <4>4. CASE faults # {}
        <5>1. PromiseKept'
            BY <1>c, <1>u, <4>1, <4>4 DEF Settled, PromiseKept, Covered
        <5> QED BY <4>2, <5>1
      <4> QED BY <4>3, <4>4
    <3>2. CASE ~ Open
        BY <1>2, <2>1, <3>2 DEF Acknowledge, Open
    <3> QED BY <3>1, <3>2
  <2> QED BY <1>1, <2>1, <2>4, <2>5, <2>6, <2>7 DEF RoomInvariant
<1>4. CASE SavePrepared(base, held)
  <2>1. /\ pendingBatch' = PreparedBatch(base)
        /\ UNCHANGED <<persisted, promised, faults, spent>>
        /\ slot' = [pc |-> "saving", held |-> held]
        /\ exchange' = [kind |-> "save", expected |-> base.revision,
                        answer |-> "none", revision |-> 0]
        /\ localeExists
      BY <1>4 DEF SavePrepared, Send
  <2>2. /\ pendingBatch' # NoBatch /\ exchange' # NoExchange
      <3>1. PreparedBatch(base) \in Batch
        <4>1. Overlay(base.content, pendingChangeSet, document) \in Content
            BY <1>c, OverlayType DEF TypeOK, Baseline
        <4> QED BY <1>c, <4>1 DEF PreparedBatch, Batch, Mutated, TypeOK, Baseline
      <3>2. exchange' \in Exchange
          BY <2>1 DEF Exchange, Baseline
      <3> QED BY <2>1, <3>1, <3>2
  <2>3. /\ pendingBatch'.expected = base.revision
        /\ pendingBatch'.affected = pendingChangeSet
        /\ pendingBatch'.mutated = Mutated(base)
        /\ pendingBatch'.values = Overlay(base.content, pendingChangeSet, document)
      BY <2>1 DEF PreparedBatch
  <2>4. \A b \in Blocks :
            Planned'[b] = IF b \in pendingChangeSet THEN document[b] ELSE base.content[b]
      BY <1>u, <2>2, <2>3 DEF Planned, Overlay
  <2>5. CallMatches' /\ AnswerIsStored'
      BY <1>u, <2>1, <2>2, <2>3 DEF CallMatches, AnswerIsStored, Persisting, Loaded
  <2>6. BatchWithinChange' /\ BatchOnBaseline'
      BY <1>c, <1>u, <2>2, <2>3
         DEF BatchWithinChange, BatchOnBaseline, Mutated, Overlay, TypeOK
  <2>7. ChangesTracked'
      BY <1>u, <2>1, <2>4 DEF ChangesTracked, Open
  <2>8. HeldCovers'
      BY <1>u, <2>1, <2>4 DEF HeldCovers, Open
  <2>9. EventsCounted'
      BY <1>c, <1>u, <2>1 DEF EventsCounted, Risky, Persisting, Open
  <2> QED BY <1>1, <1>2, <2>1, <2>5, <2>6, <2>7, <2>8, <2>9 DEF RoomInvariant
<1>5. CASE PrepareRejected(base)
  <2>1. /\ pendingBatch' = NoBatch /\ UNCHANGED <<persisted, promised>>
        /\ slot' = Idle /\ exchange' = NoExchange /\ pendingChangeSet # {}
        /\ faults' = IF Mutated(base) = {} THEN faults ELSE faults \cup {"refused"}
      BY <1>5 DEF PrepareRejected, Release
  <2>2. /\ \A kind \in Kinds : spent'[kind] <= Max[kind] /\ spent[kind] <= spent'[kind]
        /\ spent \in [Kinds -> Nat] /\ spent' \in [Kinds -> Nat]
        /\ Risky => Risky'
        /\ localeExists => Risky'
    <3>1. CASE localeExists
      <4>1. Spend("reject")
          BY <1>5, <3>1 DEF PrepareRejected
      <4>2. spent'["reject"] > 0
          BY <1>c, <4>1, SpendCount DEF Kinds
      <4> QED BY <1>c, <4>1, <4>2, SpendCount, SpendType DEF Kinds, Risky, TypeOK
    <3>2. CASE ~ localeExists
        BY <1>c, <1>5, <3>2 DEF PrepareRejected, EventsCounted, TypeOK, Risky
    <3> QED BY <3>1, <3>2
  <2>3. Open => localeExists
      BY <1>c, <2>1 DEF Settled, ChangesTracked
  <2>4. Planned' = base.content
      BY <1>u, <2>1 DEF Planned
  <2>5. CallMatches' /\ AnswerIsStored' /\ BatchWithinChange' /\ BatchOnBaseline'
      BY <1>u, <2>1 DEF CallMatches, AnswerIsStored, BatchWithinChange, BatchOnBaseline,
                        Idle, Persisting, Loaded
  <2>6. HeldCovers'
      BY <2>1 DEF HeldCovers, Idle, Persisting
  <2>7. ChangesTracked'
    <3>1. ASSUME Open, "refused" \notin faults', NEW b \in Blocks
          PROVE  document[b] = base.content[b]
      <4>1. Mutated(base) = {} /\ "refused" \notin faults
          BY <2>1, <3>1
      <4> QED BY <3>1, <4>1 DEF Mutated
    <3> QED BY <1>u, <2>3, <2>4, <3>1 DEF ChangesTracked, Open
  <2>8. EventsCounted'
    <3>1. /\ \A kind \in Kinds : spent'[kind] <= Max[kind]
          /\ relays' # {} => spent'["relay"] > 0
          /\ exchange' = NoExchange /\ pendingBatch' = NoBatch
        BY <1>c, <1>u, <2>1, <2>2 DEF EventsCounted, Kinds
    <3>2. (Open' /\ faults' # {}) \/ promised' # persisted' => Risky'
        BY <1>c, <1>u, <2>1, <2>2, <2>3 DEF EventsCounted, Open
    <3> QED BY <3>1, <3>2 DEF EventsCounted
  <2>9. BaselineIsStored'
      BY <1>1, <2>1
  <2> QED BY <1>1, <1>2, <2>1, <2>5, <2>6, <2>7, <2>8, <2>9 DEF RoomInvariant
<1> QED BY <1>3, <1>4, <1>5 DEF Flush

\* A step of the room keeps the invariant.
LEMMA RoomStepInvariant ==
    TypeInvariant /\ RoomInvariant /\ RoomStep => RoomInvariant'
<1> SUFFICES ASSUME TypeInvariant, RoomInvariant, RoomStep
    PROVE  RoomInvariant'
    OBVIOUS
<1>c. /\ Revision \in Nat \ {0} /\ Current \in Content /\ TypeOK
      /\ CallMatches /\ AnswerIsStored /\ RelaysStored /\ EventsCounted /\ Settled
      /\ BaselineIsStored /\ BatchWithinChange /\ BatchOnBaseline
      /\ ChangesTracked /\ HeldCovers /\ AckInOrder /\ PromiseKept
    BY CurrentType, RoomInvariantParts DEF TypeInvariant, Settled
<1>1. CASE Load
  <2>1. /\ ~ Loaded /\ slot.pc = "idle" /\ exchange = NoExchange
        /\ pendingBatch = NoBatch /\ pendingChangeSet = {}
      BY <1>c, <1>1 DEF Load, CallMatches, Loaded
  <2>2. /\ phase' = "open" /\ document' = Current
        /\ baseline' = [content |-> Current, revision |-> Revision]
        /\ faults' = {}
        /\ UNCHANGED <<log, relays, pendingBatch, pendingChangeSet, slot, exchange,
                       persisted, promised, spent>>
      BY <1>1 DEF Load, api, call
  <2>3. Planned' = Current
      BY <2>1, <2>2 DEF Planned
  <2>4. BaselineIsStored' /\ RelaysStored'
    <3>1. BaselineIsStored'
        BY <1>c, <2>2 DEF BaselineIsStored, Revision, Current
    <3>2. RelaysStored'
        BY <1>c, <2>2 DEF RelaysStored, Revision
    <3> QED BY <3>1, <3>2
  <2>5. CallMatches' /\ AnswerIsStored' /\ BatchWithinChange' /\ BatchOnBaseline'
      BY <2>1, <2>2 DEF CallMatches, AnswerIsStored, BatchWithinChange, BatchOnBaseline,
                        Persisting, Loaded
  <2>6. ChangesTracked' /\ HeldCovers' /\ EventsCounted'
      BY <1>c, <2>1, <2>2, <2>3
         DEF ChangesTracked, HeldCovers, EventsCounted, Risky, Persisting
  <2>7. AckInOrder' /\ PromiseKept'
      BY <1>c, <2>2 DEF AckInOrder, InOrder, PromiseKept, Covered, Revision
  <2> QED BY <2>4, <2>5, <2>6, <2>7 DEF RoomInvariant
<1>2. ASSUME NEW b \in Blocks, NEW v \in Values, NEW full \in BOOLEAN, Edit(b, v, full)
      PROVE  RoomInvariant'
  <2>1. /\ phase = "open" /\ localeExists
        /\ document' = [document EXCEPT ![b] = v]
        /\ pendingChangeSet \subseteq pendingChangeSet' /\ b \in pendingChangeSet'
        /\ NowHeld(document')
        /\ UNCHANGED <<log, relays, phase, localeExists, baseline, pendingBatch,
                       exchange, acks>>
        /\ Spend("edit")
      BY <1>2 DEF Edit, api
  <2>2. slot'.pc = slot.pc
      BY <1>c, <2>1 DEF NowHeld, TypeOK, Slot
  <2>3. BaselineIsStored' /\ RelaysStored' /\ AckInOrder' /\ PromiseKept'
      BY <1>c, <2>1 DEF BaselineIsStored, RelaysStored, AckInOrder, InOrder, PromiseKept, Covered,
                        Revision, Loaded
  <2>4. CallMatches' /\ AnswerIsStored' /\ BatchWithinChange' /\ BatchOnBaseline'
      BY <1>c, <2>1, <2>2
         DEF CallMatches, AnswerIsStored, BatchWithinChange, BatchOnBaseline,
             Persisting, Loaded, Planned, Revision
  <2>5. Planned' = Planned
      BY <2>1 DEF Planned
  <2>6. ChangesTracked'
      BY <1>c, <2>1, <2>5 DEF ChangesTracked, Open, TypeOK, Content
  <2>7. HeldCovers'
    <3>1. CASE slot.pc \in Persisting
      <4>1. slot'.held = AlsoHeld(slot.held, document')
          BY <1>c, <2>1, <3>1 DEF NowHeld, Persisting, TypeOK, Slot
      <4> QED BY <1>c, <2>1, <2>2, <2>5, <3>1, <4>1 DEF HeldCovers, AlsoHeld, Open
    <3>2. CASE slot.pc \notin Persisting
        BY <2>2, <3>2 DEF HeldCovers
    <3> QED BY <3>1, <3>2
  <2>8. /\ \A other \in Kinds : spent'[other] <= Max[other] /\ spent[other] <= spent'[other]
        /\ spent \in [Kinds -> Nat] /\ spent' \in [Kinds -> Nat]
        /\ Risky => Risky'
      BY <1>c, <2>1, SpendCount, SpendType DEF Kinds, TypeOK
  <2>9. EventsCounted'
      BY <1>c, <2>1, <2>2, <2>8 DEF EventsCounted, Open, Kinds
  <2> QED BY <2>3, <2>4, <2>6, <2>7, <2>9 DEF RoomInvariant
<1>3. CASE Invalidate
  <2>1. /\ phase = "open" /\ phase' = "fenced"
        /\ UNCHANGED <<log, relays, document, localeExists, baseline, pendingBatch,
                       pendingChangeSet, slot, exchange, acks, spent>>
      BY <1>3 DEF Invalidate, api, call
  <2> QED BY <1>c, <2>1
      DEF RoomInvariant, CallMatches, AnswerIsStored, RelaysStored, EventsCounted, Risky,
          BaselineIsStored, BatchWithinChange, BatchOnBaseline, ChangesTracked,
          HeldCovers, AckInOrder, InOrder, PromiseKept, Covered, Open, Loaded, Planned, Revision
<1>4. CASE Unload
  <2>1. /\ phase' = "unloaded" /\ baseline' = [content |-> log[1], revision |-> 1]
        /\ pendingBatch' = NoBatch /\ pendingChangeSet' = {}
        /\ slot' = Idle /\ exchange' = NoExchange /\ faults' = {}
        /\ UNCHANGED <<log, relays, persisted, promised>>
      BY <1>4 DEF Unload
  <2>2. /\ \A other \in Kinds : spent'[other] <= Max[other] /\ spent[other] <= spent'[other]
        /\ spent \in [Kinds -> Nat] /\ spent' \in [Kinds -> Nat]
        /\ Risky => Risky'
    <3>1. CASE Spend("unload")
        BY <1>c, <3>1, SpendCount, SpendType DEF Kinds, TypeOK
    <3>2. CASE UNCHANGED spent
        BY <1>c, <3>2 DEF EventsCounted, Risky, TypeOK
    <3> QED BY <1>4, <3>1, <3>2 DEF Unload
  <2>3. BaselineIsStored' /\ RelaysStored'
      BY <1>c, <2>1 DEF BaselineIsStored, RelaysStored, Revision
  <2>4. EventsCounted'
      BY <1>c, <2>1, <2>2 DEF EventsCounted, Open, Kinds
  <2>5. AckInOrder' /\ PromiseKept'
      BY <1>c, <2>1 DEF AckInOrder, InOrder, PromiseKept, Covered, Loaded, Revision
  <2>6. /\ CallMatches' /\ AnswerIsStored' /\ BatchWithinChange' /\ BatchOnBaseline'
        /\ ChangesTracked' /\ HeldCovers'
      BY <2>1 DEF CallMatches, AnswerIsStored, BatchWithinChange, BatchOnBaseline,
                  ChangesTracked, HeldCovers, Open, Idle, Persisting, Loaded
  <2> QED BY <2>3, <2>4, <2>5, <2>6 DEF RoomInvariant
<1>5. CASE BeginPersist
  <2> DEFINE held == AlsoHeld(NothingHeld, document)
  <2>1. /\ Loaded /\ slot.pc = "idle" /\ exchange = NoExchange
        /\ UNCHANGED <<api, phase, document, localeExists>>
      BY <1>c, <1>5 DEF BeginPersist, CallMatches
  <2>2. held \in Held /\ \A b \in Blocks : document[b] \in held[b]
    <3>1. NothingHeld \in Held /\ document \in Content
        BY <1>c DEF NothingHeld, Held, TypeOK
    <3> QED BY <3>1, HeldType DEF AlsoHeld
  <2>3. CASE pendingBatch = NoBatch
    <3>1. Flush(baseline, held)
        BY <1>5, <2>3 DEF BeginPersist
    <3>2. /\ baseline \in Baseline
          /\ "dropped" \notin faults => baseline.content = log[baseline.revision]
          /\ baseline.revision \in baseline.revision .. Revision
        BY <1>c DEF BaselineIsStored, TypeOK
    <3>3. Open /\ "refused" \notin faults =>
              \A b \in Blocks : document[b] # baseline.content[b] => b \in pendingChangeSet
        BY <1>c, <2>3 DEF ChangesTracked, Planned
    <3> HIDE DEF held
    <3> QED BY <2>1, <2>2, <3>1, <3>2, <3>3, FlushInvariant
  <2>4. CASE pendingBatch # NoBatch
    <3>1. /\ slot' = [pc |-> "retrying", held |-> held]
          /\ exchange' = [kind |-> "save", expected |-> pendingBatch.expected,
                          answer |-> "none", revision |-> 0]
          /\ UNCHANGED <<log, relays, phase, document, localeExists, baseline,
                         pendingBatch, pendingChangeSet, acks, spent>>
        BY <1>5, <2>1, <2>4 DEF BeginPersist, Send, api
    <3>2. exchange' # NoExchange
      <4>1. exchange' \in Exchange
          BY <1>c, <2>4, <3>1 DEF Exchange, TypeOK, Batch
      <4> QED BY <4>1
    <3>3. BaselineIsStored' /\ RelaysStored' /\ AckInOrder' /\ PromiseKept'
        BY <1>c, <3>1 DEF BaselineIsStored, RelaysStored, AckInOrder, InOrder, PromiseKept, Covered,
                          Revision, Loaded
    <3>4. CallMatches' /\ AnswerIsStored' /\ BatchWithinChange' /\ BatchOnBaseline'
        BY <1>c, <2>1, <2>4, <3>1, <3>2
           DEF CallMatches, AnswerIsStored, BatchWithinChange, BatchOnBaseline,
               Persisting, Loaded
    <3>5. ChangesTracked' /\ EventsCounted'
        BY <1>c, <3>1 DEF ChangesTracked, EventsCounted, Risky, Planned, Open, Persisting
    <3> HIDE DEF held
    <3>6. HeldCovers'
        BY <2>2, <3>1 DEF HeldCovers
    <3> QED BY <3>3, <3>4, <3>5, <3>6 DEF RoomInvariant
  <2> QED BY <2>3, <2>4
<1>6. CASE BeginMetadata
  <2>1. /\ phase = "open" /\ slot.pc = "idle" /\ Spend("metadata")
        /\ slot' = [pc |-> "metadata", held |-> NothingHeld]
        /\ exchange' = [kind |-> "metadata", expected |-> baseline.revision,
                        answer |-> "none", revision |-> 0]
        /\ UNCHANGED <<log, relays, phase, document, localeExists, baseline,
                       pendingBatch, pendingChangeSet, acks>>
      BY <1>6 DEF BeginMetadata, Idle, api, room
  <2>2. exchange' # NoExchange
    <3>1. exchange' \in Exchange
        BY <1>c, <2>1 DEF Exchange, TypeOK, Baseline
    <3> QED BY <3>1
  <2>3. BaselineIsStored' /\ RelaysStored' /\ AckInOrder' /\ PromiseKept'
      BY <1>c, <2>1 DEF BaselineIsStored, RelaysStored, AckInOrder, InOrder, PromiseKept, Covered,
                        Revision, Loaded
  <2>4. CallMatches' /\ AnswerIsStored' /\ BatchWithinChange' /\ BatchOnBaseline'
      BY <1>c, <2>1, <2>2
         DEF CallMatches, AnswerIsStored, BatchWithinChange, BatchOnBaseline,
             Persisting, Loaded
  <2>5. ChangesTracked' /\ HeldCovers'
      BY <1>c, <2>1 DEF ChangesTracked, HeldCovers, Planned, Open, Persisting
  <2>6. /\ \A other \in Kinds : spent'[other] <= Max[other] /\ spent[other] <= spent'[other]
        /\ spent \in [Kinds -> Nat] /\ spent' \in [Kinds -> Nat]
        /\ Risky => Risky'
      BY <1>c, <2>1, SpendCount, SpendType DEF Kinds, TypeOK
  <2>7. EventsCounted'
      BY <1>c, <2>1, <2>6 DEF EventsCounted, Open, Kinds, Persisting
  <2> QED BY <2>3, <2>4, <2>5, <2>7 DEF RoomInvariant
<1>7. ASSUME NEW relay \in relays, RelayApply(relay) PROVE RoomInvariant'
  <2>1. /\ phase = "open" /\ slot.pc = "idle" /\ exchange = NoExchange
        /\ relays' \subseteq relays
        /\ UNCHANGED <<log, pendingChangeSet, slot, exchange, persisted, promised, spent>>
      BY <1>c, <1>7 DEF RelayApply, CallMatches, call
  <2>2. RelaysStored'
      BY <1>c, <2>1, RelaysKeep DEF TypeInvariant, CallShape
  <2>3. CASE ReadyFor(relay)
    <3>1. /\ document' = [document EXCEPT ![relay.block] = relay.value]
          /\ baseline' = [content |-> document', revision |-> relay.accepted]
          /\ pendingBatch' = NoBatch /\ localeExists' /\ phase' = phase
          /\ pendingChangeSet = {} /\ baseline.revision = relay.expected
          /\ faults' = IF document = baseline.content THEN faults
                       ELSE faults \cup {"dropped"}
        BY <1>7, <2>3 DEF RelayApply, ReadyFor
    <3>2. /\ relay.accepted \in 1 .. Revision /\ relay.expected < relay.accepted
          /\ relay.expected \in 1 .. Revision
          /\ log[relay.accepted] =
                 [log[relay.expected] EXCEPT ![relay.block] = relay.value]
        BY <1>c, <1>7 DEF RelaysStored
    <3>3. BaselineIsStored'
      <4>1. "dropped" \notin faults' =>
                document = baseline.content /\ "dropped" \notin faults
          BY <3>1
      <4>2. "dropped" \notin faults' => document' = log[relay.accepted]
          BY <1>c, <3>1, <3>2, <4>1 DEF BaselineIsStored
      <4> QED BY <2>1, <3>1, <3>2, <4>2 DEF BaselineIsStored, Revision
    <3>4. EventsCounted'
      <4>1. spent["relay"] > 0
          BY <1>c, <1>7 DEF EventsCounted
      <4>2. ASSUME faults' # {} PROVE Risky
        <5>1. CASE faults # {}
            BY <1>c, <2>1, <5>1 DEF EventsCounted, Open
        <5>2. CASE faults = {}
          <6>1. document # baseline.content
              BY <3>1, <4>2, <5>2
          <6>2. pendingBatch # NoBatch
            <7>1. ASSUME pendingBatch = NoBatch PROVE document = baseline.content
              <8>1. \A b \in Blocks : document[b] = baseline.content[b]
                  BY <1>c, <2>1, <3>1, <5>2, <7>1 DEF ChangesTracked, Planned, Open
              <8> QED BY <1>c, <8>1 DEF TypeOK, Content, Baseline
            <7> QED BY <6>1, <7>1
          <6>3. spent["failure"] > 0
              BY <1>c, <2>1, <6>2 DEF EventsCounted, Open, Persisting
          <6> QED BY <4>1, <6>3 DEF Risky
        <5> QED BY <5>1, <5>2
      <4>3. Risky' <=> Risky
          BY <2>1 DEF Risky
      <4> QED BY <1>c, <2>1, <3>1, <4>1, <4>2, <4>3 DEF EventsCounted
    <3>5. AckInOrder' /\ PromiseKept'
        BY <1>c, <2>1, <3>1, <3>2
           DEF AckInOrder, InOrder, PromiseKept, Covered, Revision, Loaded, TypeOK, Ack
    <3>6. ChangesTracked' /\ HeldCovers'
        BY <1>c, <2>1, <3>1 DEF ChangesTracked, HeldCovers, Planned, Open, Persisting
    <3>7. CallMatches' /\ AnswerIsStored' /\ BatchWithinChange' /\ BatchOnBaseline'
        BY <1>c, <2>1, <3>1
           DEF CallMatches, AnswerIsStored, BatchWithinChange, BatchOnBaseline,
               Persisting, Loaded
    <3> QED BY <2>2, <3>3, <3>4, <3>5, <3>6, <3>7 DEF RoomInvariant
  <2>4. CASE ~ ReadyFor(relay)
    <3>1. /\ phase' = "fenced"
          /\ UNCHANGED <<document, baseline, pendingBatch, localeExists, faults>>
        BY <1>7, <2>4 DEF RelayApply
    <3>2. EventsCounted'
        BY <1>c, <1>7, <2>1, <3>1 DEF EventsCounted, Risky, Open
    <3> QED BY <1>c, <2>1, <2>2, <3>1, <3>2
        DEF RoomInvariant, CallMatches, AnswerIsStored,
            BaselineIsStored, BatchWithinChange, BatchOnBaseline, ChangesTracked,
            HeldCovers, AckInOrder, InOrder, PromiseKept, Covered, Open, Loaded, Planned,
            Revision
  <2> QED BY <2>3, <2>4
<1>8. ASSUME NEW relay \in relays, RelayRetire(relay) PROVE RoomInvariant'
  <2>1. /\ phase' = IF Loaded THEN "fenced" ELSE phase
        /\ relays' \subseteq relays
        /\ UNCHANGED <<log, document, localeExists, baseline, pendingBatch,
                       pendingChangeSet, slot, exchange, acks, spent>>
      BY <1>8 DEF RelayRetire, call
  <2>2. RelaysStored'
      BY <1>c, <2>1, RelaysKeep DEF TypeInvariant, CallShape
  <2>3. ~ Open' /\ (Loaded' <=> Loaded)
      BY <2>1 DEF Open, Loaded
  <2>4. EventsCounted'
      BY <1>c, <1>8, <2>1, <2>3 DEF EventsCounted, Risky
  <2>5. AckInOrder' /\ PromiseKept' /\ BaselineIsStored'
      BY <1>c, <2>1, <2>3 DEF AckInOrder, InOrder, PromiseKept, Covered, BaselineIsStored, Revision
  <2>6. CallMatches' /\ AnswerIsStored' /\ BatchWithinChange' /\ BatchOnBaseline'
      BY <1>c, <2>1, <2>3
         DEF CallMatches, AnswerIsStored, BatchWithinChange, BatchOnBaseline, Planned,
             Revision
  <2> QED BY <2>2, <2>3, <2>4, <2>5, <2>6 DEF RoomInvariant, ChangesTracked, HeldCovers
<1> QED BY <1>1, <1>2, <1>3, <1>4, <1>5, <1>6, <1>7, <1>8 DEF RoomStep

\* A save's answer: the planned content is the content of its revision.
LEMMA AcknowledgedStored ==
    ASSUME TypeInvariant, RoomInvariant, slot.pc \in Persisting,
           exchange.answer \in {"ok", "deleted"}
    PROVE  /\ exchange # NoExchange /\ pendingBatch # NoBatch
           /\ Acknowledged \in Baseline
           /\ Acknowledged.content = Planned
           /\ Acknowledged.revision = exchange.revision
           /\ exchange.revision \in baseline.revision .. Revision
           /\ "dropped" \notin faults => log[exchange.revision] = Planned
<1>1. exchange # NoExchange /\ pendingBatch # NoBatch /\ exchange.kind = "save"
    BY DEF RoomInvariant, CallMatches, Persisting
<1>2. Acknowledged \in Baseline
    BY <1>1, AcknowledgedType DEF TypeInvariant
<1>3. Acknowledged.content = Planned /\ Acknowledged.revision = exchange.revision
    BY <1>1 DEF Acknowledged, Planned
<1>4. /\ exchange.revision \in (baseline.revision + 1) .. Revision
      /\ "dropped" \notin faults => log[exchange.revision] = Planned
    BY <1>1 DEF RoomInvariant, AnswerIsStored
<1>5. baseline.revision \in Nat /\ Revision \in Nat
    BY CurrentType DEF TypeInvariant, TypeOK, Baseline
<1> QED BY <1>1, <1>2, <1>3, <1>4, <1>5

\* The answer of a call keeps the invariant.
LEMMA AnswerStepInvariant ==
    TypeInvariant /\ RoomInvariant /\ AnswerStep => RoomInvariant'
<1> SUFFICES ASSUME TypeInvariant, RoomInvariant, AnswerStep
    PROVE  RoomInvariant'
    OBVIOUS
<1>c. /\ Revision \in Nat \ {0} /\ TypeOK
      /\ CallMatches /\ AnswerIsStored /\ RelaysStored /\ EventsCounted /\ Settled
      /\ BaselineIsStored /\ BatchWithinChange /\ BatchOnBaseline
      /\ ChangesTracked /\ HeldCovers /\ AckInOrder /\ PromiseKept
    BY CurrentType, RoomInvariantParts DEF TypeInvariant, Settled
<1>1. CASE SaveAcknowledged
  <2>1. /\ slot.pc \in Persisting /\ exchange.answer = "ok"
        /\ UNCHANGED <<api, phase, document, localeExists>>
      BY <1>1 DEF SaveAcknowledged, Answered
  <2>2. /\ exchange # NoExchange /\ pendingBatch # NoBatch
        /\ Acknowledged \in Baseline
        /\ Acknowledged.content = Planned
        /\ Acknowledged.revision = exchange.revision
        /\ exchange.revision \in baseline.revision .. Revision
        /\ "dropped" \notin faults => log[exchange.revision] = Planned
      BY <2>1, AcknowledgedStored
  <2>3. Loaded
      BY <1>c, <2>1 DEF CallMatches, Persisting
  <2>4. CASE slot.pc = "retrying"
    <3>1. Flush(Acknowledged, slot.held)
        BY <1>1, <2>4 DEF SaveAcknowledged
    <3>2. slot.held \in Held
        BY <1>c DEF TypeOK, Slot
    <3>3. Open => \A b \in Blocks :
              /\ document[b] \in slot.held[b]
              /\ "refused" \notin faults =>
                     (document[b] # Acknowledged.content[b] => b \in pendingChangeSet)
        BY <1>c, <2>1, <2>2 DEF ChangesTracked, HeldCovers
    <3>4. /\ Acknowledged.revision \in baseline.revision .. Revision
          /\ "dropped" \notin faults => Acknowledged.content = log[Acknowledged.revision]
        BY <2>2
    <3> QED BY <2>1, <2>2, <2>3, <3>1, <3>2, <3>3, <3>4, FlushInvariant
  <2>5. CASE slot.pc # "retrying"
    <3>1. /\ slot.pc = "saving" /\ baseline' = Acknowledged /\ pendingBatch' = NoBatch
          /\ Acknowledge(slot.held, exchange.revision) /\ UNCHANGED faults
          /\ slot' = Idle /\ exchange' = NoExchange
          /\ UNCHANGED <<log, relays, phase, document, localeExists, pendingChangeSet,
                         spent>>
        BY <1>1, <2>1, <2>5 DEF SaveAcknowledged, Release, Persisting, Acknowledge, api
    <3>2. Planned' = Planned
        BY <2>2, <3>1 DEF Planned
    <3>r. exchange.revision \in 1 .. Revision' /\ baseline'.revision = exchange.revision
        BY <1>c, <2>2, <3>1 DEF BaselineIsStored, Revision
    <3>3. BaselineIsStored' /\ RelaysStored'
      <4>1. BaselineIsStored'
          BY <2>2, <3>1, <3>r DEF BaselineIsStored
      <4>2. RelaysStored'
          BY <1>c, <3>1 DEF RelaysStored, Revision
      <4> QED BY <4>1, <4>2
    <3>4. CallMatches' /\ AnswerIsStored' /\ BatchWithinChange' /\ BatchOnBaseline'
        BY <2>3, <3>1 DEF CallMatches, AnswerIsStored, BatchWithinChange,
                          BatchOnBaseline, Idle, Persisting, Loaded
    <3>5. ChangesTracked' /\ HeldCovers'
        BY <1>c, <3>1, <3>2 DEF ChangesTracked, HeldCovers, Idle, Persisting, Open
    <3>6. EventsCounted'
      <4>1. (Open' /\ faults' # {}) \/ promised' # persisted' => Risky'
          BY <1>c, <3>1 DEF EventsCounted, Risky, Open, Acknowledge
      <4> QED BY <1>c, <3>1, <4>1 DEF EventsCounted
    <3>7. AckInOrder'
        BY <1>c, <2>2, <2>3, <3>1, <3>r
           DEF Acknowledge, AckInOrder, InOrder, Loaded, Revision, TypeOK, Ack, Baseline
    <3>8. PromiseKept'
      <4>1. CASE Open /\ faults = {}
        <5>1. promised' = [held |-> slot.held, revision |-> exchange.revision]
            BY <3>1, <4>1 DEF Acknowledge, Open
        <5>2. \A b \in Blocks : Planned[b] \in slot.held[b]
            BY <1>c, <2>1, <3>1, <4>1 DEF HeldCovers
        <5> QED BY <2>2, <3>1, <4>1, <5>1, <5>2 DEF PromiseKept, Covered
      <4>2. CASE ~ (Open /\ faults = {})
        <5>1. promised' = promised
            BY <3>1, <4>2 DEF Acknowledge, Open
        <5> QED BY <1>c, <3>1, <5>1 DEF PromiseKept, Covered
      <4> QED BY <4>1, <4>2
    <3> QED BY <3>3, <3>4, <3>5, <3>6, <3>7, <3>8 DEF RoomInvariant
  <2> QED BY <2>4, <2>5
<1>2. CASE SaveDeletedLocale
  <2>1. /\ slot.pc \in Persisting /\ exchange.answer = "deleted"
        /\ baseline' = Acknowledged /\ pendingBatch' = NoBatch
        /\ phase' = "fenced" /\ slot' = Idle /\ exchange' = NoExchange
        /\ UNCHANGED <<log, relays, document, pendingChangeSet, acks, spent>>
      BY <1>2 DEF SaveDeletedLocale, Answered, Release, api
  <2>2. /\ Acknowledged \in Baseline
        /\ Acknowledged.content = Planned
        /\ Acknowledged.revision = exchange.revision
        /\ exchange.revision \in baseline.revision .. Revision
        /\ "dropped" \notin faults => log[exchange.revision] = Planned
      BY <2>1, AcknowledgedStored
  <2>3. BaselineIsStored' /\ RelaysStored'
    <3>1. exchange.revision \in 1 .. Revision /\ Revision' = Revision
        BY <1>c, <2>1, <2>2 DEF BaselineIsStored, Revision
    <3>2. BaselineIsStored'
        BY <2>1, <2>2, <3>1 DEF BaselineIsStored
    <3>3. RelaysStored'
        BY <1>c, <2>1, <3>1 DEF RelaysStored
    <3> QED BY <3>2, <3>3
  <2>4. /\ CallMatches' /\ AnswerIsStored' /\ BatchWithinChange' /\ BatchOnBaseline'
        /\ ChangesTracked' /\ HeldCovers'
      BY <2>1 DEF CallMatches, AnswerIsStored, BatchWithinChange, BatchOnBaseline,
                  ChangesTracked, HeldCovers, Idle, Persisting, Loaded, Open
  <2>5. EventsCounted'
      BY <1>c, <2>1 DEF EventsCounted, Risky, Open
  <2>6. Loaded
      BY <1>c, <2>1 DEF CallMatches, Persisting
  <2>7. AckInOrder' /\ PromiseKept'
      BY <1>c, <2>1, <2>2, <2>6
         DEF AckInOrder, InOrder, PromiseKept, Covered, Revision, TypeOK, Ack, Baseline
  <2> QED BY <2>3, <2>4, <2>5, <2>7 DEF RoomInvariant
<1>3. ASSUME Answered({"metadata"}, "ok") \/ Answered({"metadata"}, "deleted"),
             Release,
             \/ baseline' = baseline
             \/ baseline' = [baseline EXCEPT !.revision = exchange.revision]
                /\ pendingBatch = NoBatch,
             UNCHANGED <<log, relays, document, pendingBatch, pendingChangeSet,
                         acks, spent>>,
             \/ UNCHANGED <<phase, localeExists>>
             \/ phase' = "fenced"
      PROVE  RoomInvariant'
  <2>1. /\ slot.pc = "metadata" /\ exchange.answer \in {"ok", "deleted"}
        /\ slot' = Idle /\ exchange' = NoExchange
      BY <1>3 DEF Answered, Release
  <2>2. /\ exchange # NoExchange /\ exchange.kind = "metadata" /\ Loaded
        /\ exchange.revision \in (baseline.revision + 1) .. Revision
        /\ "dropped" \notin faults => log[exchange.revision] = baseline.content
      BY <1>c, <2>1 DEF CallMatches, AnswerIsStored
  <2>3. /\ baseline'.revision \in baseline.revision .. Revision
        /\ baseline'.content = baseline.content
        /\ "dropped" \notin faults => log[baseline'.revision] = baseline.content
        /\ baseline.revision \in 1 .. Revision
      BY <1>c, <1>3, <2>2 DEF BaselineIsStored, TypeOK, Baseline
  <2>4. Planned' = Planned
      BY <1>3, <2>3 DEF Planned
  <2>5. BaselineIsStored' /\ RelaysStored'
      BY <1>c, <1>3, <2>3 DEF BaselineIsStored, RelaysStored, Revision
  <2>6. Loaded' /\ (Open' => Open /\ localeExists' = localeExists)
      BY <1>3, <2>2 DEF Loaded, Open
  <2>7. CallMatches' /\ AnswerIsStored' /\ BatchWithinChange' /\ BatchOnBaseline'
      BY <1>c, <1>3, <2>1, <2>3, <2>6
         DEF CallMatches, AnswerIsStored, BatchWithinChange, BatchOnBaseline,
             Idle, Persisting
  <2>8. ChangesTracked' /\ HeldCovers'
      BY <1>c, <1>3, <2>1, <2>4, <2>6 DEF ChangesTracked, HeldCovers, Idle, Persisting
  <2>9. EventsCounted'
      BY <1>c, <1>3, <2>1, <2>6 DEF EventsCounted, Risky, Idle, Persisting
  <2>10. AckInOrder' /\ PromiseKept'
      BY <1>c, <1>3, <2>2, <2>3, <2>6 DEF AckInOrder, InOrder, PromiseKept, Covered, Revision, TypeOK, Ack
  <2> QED BY <2>5, <2>7, <2>8, <2>9, <2>10 DEF RoomInvariant
<1>4. CASE MetadataAcknowledged
    BY <1>3, <1>4 DEF MetadataAcknowledged, api
<1>5. CASE MetadataDeletedLocale
    BY <1>3, <1>5 DEF MetadataDeletedLocale, api
<1>6. CASE CallFailed
  <2>1. /\ exchange.answer = "failed" /\ slot' = Idle /\ exchange' = NoExchange
        /\ slot.pc \in {"retrying", "saving", "metadata"}
        /\ UNCHANGED <<log, relays, phase, document, localeExists, baseline,
                       pendingBatch, pendingChangeSet, acks, spent>>
      BY <1>6 DEF CallFailed, Answered, Release, Persisting, api, room
  <2>2. exchange # NoExchange /\ Loaded
      BY <1>c, <2>1 DEF CallMatches
  <2>3. /\ BaselineIsStored' /\ RelaysStored' /\ AckInOrder' /\ PromiseKept'
      BY <1>c, <2>1 DEF BaselineIsStored, RelaysStored, AckInOrder, InOrder, PromiseKept, Covered,
                        Revision, Loaded
  <2>4. CallMatches' /\ AnswerIsStored' /\ BatchWithinChange' /\ BatchOnBaseline'
      BY <1>c, <2>1, <2>2
         DEF CallMatches, AnswerIsStored, BatchWithinChange, BatchOnBaseline, Idle,
             Persisting, Loaded
  <2>5. ChangesTracked' /\ HeldCovers' /\ EventsCounted'
      BY <1>c, <2>1, <2>2
         DEF ChangesTracked, HeldCovers, EventsCounted, Risky, Planned, Open, Idle, Persisting
  <2> QED BY <2>3, <2>4, <2>5 DEF RoomInvariant
<1>7. CASE CallConflicted
  <2>1. /\ phase' = "fenced" /\ slot' = Idle /\ exchange' = NoExchange
        /\ slot.pc \in {"retrying", "saving", "metadata"}
        /\ UNCHANGED <<log, relays, document, localeExists, baseline,
                       pendingBatch, pendingChangeSet, acks, spent>>
      BY <1>7 DEF CallConflicted, Answered, Release, Persisting, api
  <2>2. Loaded
      BY <1>c, <2>1 DEF CallMatches
  <2>3. /\ BaselineIsStored' /\ RelaysStored' /\ AckInOrder' /\ PromiseKept'
      BY <1>c, <2>1, <2>2
         DEF BaselineIsStored, RelaysStored, AckInOrder, InOrder, PromiseKept, Covered, Revision, Loaded
  <2>4. CallMatches' /\ AnswerIsStored' /\ BatchWithinChange' /\ BatchOnBaseline'
      BY <1>c, <2>1, <2>2
         DEF CallMatches, AnswerIsStored, BatchWithinChange, BatchOnBaseline, Idle,
             Persisting, Loaded
  <2>5. ChangesTracked' /\ HeldCovers' /\ EventsCounted'
      BY <1>c, <2>1 DEF ChangesTracked, HeldCovers, EventsCounted, Risky, Open
  <2> QED BY <2>3, <2>4, <2>5 DEF RoomInvariant
<1> QED BY <1>1, <1>2, <1>4, <1>5, <1>6, <1>7 DEF AnswerStep

LEMMA InitInvariant == Init => RoomInvariant
<1> SUFFICES ASSUME Init PROVE RoomInvariant
    OBVIOUS
<1>1. PICK content \in Content : log = <<content>>
    BY DEF Init
<1>2. Revision = 1
    BY <1>1 DEF Revision
<1>3. BaselineIsStored /\ RelaysStored
    BY <1>1, <1>2 DEF Init, BaselineIsStored, RelaysStored
<1>4. EventsCounted
    BY <1>1 DEF Init, EventsCounted, Risky, Kinds
<1> QED BY <1>3, <1>4
    DEF Init, RoomInvariant, CallMatches, AnswerIsStored, BatchWithinChange,
        BatchOnBaseline, ChangesTracked, HeldCovers, AckInOrder, InOrder, PromiseKept, Covered,
        Idle, Persisting, Loaded, Open

LEMMA StepInvariant ==
    TypeInvariant /\ RoomInvariant /\ [Next]_vars
        => TypeInvariant' /\ RoomInvariant'
<1> SUFFICES ASSUME TypeInvariant, RoomInvariant, [Next]_vars
    PROVE  TypeInvariant' /\ RoomInvariant'
    OBVIOUS
<1>1. CASE Next
    BY <1>1, ApiType, RoomType, AnswerStepType, ApiInvariant, RoomStepInvariant,
       AnswerStepInvariant DEF Next
<1>2. CASE UNCHANGED vars
  <2>1. TypeInvariant'
      BY <1>2 DEF TypeInvariant, TypeOK, CallShape, vars, api, room, call
  <2>2. RoomInvariant'
      BY <1>2 DEF RoomInvariant, CallMatches, AnswerIsStored, RelaysStored, EventsCounted, Risky,
                  BaselineIsStored, BatchWithinChange, BatchOnBaseline, ChangesTracked,
                  HeldCovers, AckInOrder, InOrder, PromiseKept, Covered, Planned, Open, Loaded,
                  Revision, vars, api, room, call
  <2> QED BY <2>1, <2>2
<1> QED BY <1>1, <1>2

\* The inductive invariant of every room, whatever is refused or relayed.
THEOREM RoomInvariantHolds == Spec => []RoomInvariant
<1>1. Init => TypeInvariant /\ RoomInvariant
    BY InitType, InitInvariant
<1>2. TypeInvariant /\ RoomInvariant /\ [Next]_vars => TypeInvariant' /\ RoomInvariant'
    BY StepInvariant
<1> QED BY <1>1, <1>2, PTL DEF Spec

-----------------------------------------------------------------------------
(* What the invariant shows.                                               *)

\* A `block_room.persisted` acknowledgement covers what storage has: under any
\* interleaving of edits, saves, retries, lost answers, other writers, metadata
\* updates, relays, reloads and crashes, if the load of the room that sent it had
\* not refused a change set or applied a relayed mutation over what is not stored.
THEOREM PromisesAreKept == Spec => []PromiseKept
<1>1. RoomInvariant => PromiseKept
    BY DEF RoomInvariant
<1> QED BY <1>1, RoomInvariantHolds, PTL

\* Every acknowledgement there is covers what storage has, until a change set is
\* refused, or an AI mutation is relayed and an API call fails.
THEOREM AcknowledgementsAreDurable == Spec => [](AckCoversDurable \/ Risky)
<1>1. RoomInvariant => AckCoversDurable \/ Risky
    BY DEF RoomInvariant, EventsCounted, PromiseKept, AckCoversDurable
<1> QED BY <1>1, RoomInvariantHolds, PTL

\* Acknowledgements, also those of a room that broke its promise, never name a
\* revision the history does not have or one newer than the room's baseline.
THEOREM AcknowledgementsInOrder == Spec => []AckInOrder
<1>1. RoomInvariant => AckInOrder
    BY DEF RoomInvariant
<1> QED BY <1>1, RoomInvariantHolds, PTL

\* No difference between the document and the acknowledged content goes
\* unnoticed by an open room that refused no change set.
THEOREM NothingLostSilently == Spec => []NoSilentLoss
<1>1. RoomInvariant => NoSilentLoss
  <2> SUFFICES ASSUME RoomInvariant, Open, "refused" \notin faults, NEW b \in Blocks,
                      document[b] # baseline.content[b], b \notin pendingChangeSet
      PROVE  pendingBatch # NoBatch /\ b \in pendingBatch.affected
      BY DEF NoSilentLoss
  <2>1. document[b] = Planned[b]
      BY DEF RoomInvariant, ChangesTracked
  <2> QED BY <2>1 DEF Planned, Overlay
<1> QED BY <1>1, RoomInvariantHolds, PTL

\* The baseline a save is planned on is what the API stored at its revision, until
\* a relayed mutation is applied over what is not stored.
THEOREM BaselineStored == Spec => []BaselineIsStored
<1>1. RoomInvariant => BaselineIsStored
    BY DEF RoomInvariant
<1> QED BY <1>1, RoomInvariantHolds, PTL

\* A batch that waits for its save, or for its retry, was planned on the baseline
\* the room still has, whatever else happened to the room.
THEOREM BatchesOnBaseline == Spec => []BatchOnBaseline
<1>1. RoomInvariant => BatchOnBaseline
    BY DEF RoomInvariant
<1> QED BY <1>1, RoomInvariantHolds, PTL

-----------------------------------------------------------------------------
(* The room implements DurableRoom.                                        *)

\* A step of the API commits a content or leaves the promise alone.
LEMMA ApiRefines ==
    ASSUME TypeInvariant, ApiStep
    PROVE  /\ promised' = promised
           /\ log' = log \/ \E content \in Content : log' = Append(log, content)
<1>c. TypeOK /\ Current \in Content
    BY CurrentType DEF TypeInvariant
<1>1. CASE ApiSaves
  <2>1. pendingBatch \in Batch
      BY <1>1 DEF ApiSaves, TypeInvariant, TypeOK, CallShape
  <2>2. Overlay(Current, pendingBatch.mutated, pendingBatch.values) \in Content
      BY <1>c, <2>1, OverlayType DEF Batch
  <2> QED BY <1>1, <2>2 DEF ApiSaves, Commit
<1>2. CASE ApiUpdatesMetadata
    BY <1>c, <1>2 DEF ApiUpdatesMetadata
<1>3. ASSUME NEW batch \in orphans, OrphanLands(batch)
      PROVE  /\ promised' = promised
             /\ log' = log \/ \E content \in Content : log' = Append(log, content)
  <2>1. Overlay(Current, batch.mutated, batch.values) \in Content
      BY <1>c, OverlayType DEF Batch, TypeOK
  <2> QED BY <1>3, <2>1 DEF OrphanLands, Commit
<1>4. ASSUME NEW b \in Blocks, NEW v \in Values, OthersWrite(b, v) \/ AIMutates(b, v)
      PROVE  /\ promised' = promised
             /\ log' = log \/ \E content \in Content : log' = Append(log, content)
  <2>1. [Current EXCEPT ![b] = v] \in Content
      BY <1>c DEF Content
  <2> QED BY <1>4, <2>1 DEF OthersWrite, AIMutates
<1> QED BY <1>1, <1>2, <1>3, <1>4 DEF ApiStep

\* An acknowledgement is for a revision the history has, not older than the last.
LEMMA FlushRefines ==
    ASSUME TypeInvariant, RoomInvariant, Loaded, NEW base \in Baseline, NEW held,
           base.revision \in baseline.revision .. Revision, Flush(base, held)
    PROVE  \/ promised' = promised
           \/ /\ promised' = [held |-> held, revision |-> base.revision]
              /\ promised # NoAck => promised.revision <= base.revision
<1>1. baseline.revision \in Nat /\ Revision \in Nat
    BY CurrentType DEF TypeInvariant, TypeOK, Baseline
<1>2. promised # NoAck => promised.revision <= base.revision
    BY <1>1 DEF RoomInvariant, AckInOrder, InOrder, TypeInvariant, TypeOK, Ack
<1>3. CASE NothingToSave(base, held)
    BY <1>2, <1>3 DEF NothingToSave, Acknowledge
<1>4. CASE SavePrepared(base, held) \/ PrepareRejected(base)
    BY <1>4 DEF SavePrepared, PrepareRejected
<1> QED BY <1>3, <1>4 DEF Flush

\* A step of the room or of an answer acknowledges or leaves the promise alone.
LEMMA RoomRefines ==
    ASSUME TypeInvariant, RoomInvariant, RoomStep \/ AnswerStep
    PROVE  /\ log' = log
           /\ \/ promised' = promised
              \/ \E held \in Held, revision \in Nat :
                    /\ promised' = [held |-> held, revision |-> revision]
                    /\ promised # NoAck => promised.revision <= revision
<1>c. /\ baseline \in Baseline /\ baseline.revision \in Nat /\ Revision \in Nat
      /\ baseline.revision \in 1 .. Revision /\ CallMatches
    BY CurrentType
       DEF TypeInvariant, TypeOK, Baseline, RoomInvariant, BaselineIsStored
<1>1. CASE BeginPersist
  <2> DEFINE held == AlsoHeld(NothingHeld, document)
  <2>1. log' = log /\ Loaded
      BY <1>1 DEF BeginPersist, api
  <2>2. CASE pendingBatch = NoBatch
    <3>1. Flush(baseline, held)
        BY <1>1, <2>2 DEF BeginPersist
    <3>2. held \in Held
      <4>1. NothingHeld \in Held /\ document \in Content
          BY DEF NothingHeld, Held, TypeInvariant, TypeOK
      <4> QED BY <4>1, HeldType
    <3> HIDE DEF held
    <3>3. baseline.revision \in baseline.revision .. Revision
        BY <1>c
    <3> QED BY <1>c, <2>1, <3>1, <3>2, <3>3, FlushRefines
  <2>3. CASE pendingBatch # NoBatch
      BY <1>1, <2>1, <2>3 DEF BeginPersist
  <2> QED BY <2>2, <2>3
<1>2. CASE SaveAcknowledged
  <2>1. /\ slot.pc \in Persisting /\ exchange.answer = "ok" /\ log' = log
      BY <1>2 DEF SaveAcknowledged, Answered, api
  <2>2. /\ Acknowledged \in Baseline
        /\ Acknowledged.revision = exchange.revision
        /\ exchange.revision \in baseline.revision .. Revision
      BY <2>1, AcknowledgedStored
  <2>3. Loaded /\ slot.held \in Held /\ exchange.revision \in Nat
      BY <1>c, <2>1, <2>2 DEF CallMatches, Persisting, TypeInvariant, TypeOK, Slot
  <2>4. CASE slot.pc = "retrying"
    <3>1. Flush(Acknowledged, slot.held)
        BY <1>2, <2>4 DEF SaveAcknowledged
    <3> QED BY <2>1, <2>2, <2>3, <3>1, FlushRefines
  <2>5. CASE slot.pc # "retrying"
    <3>1. Acknowledge(slot.held, exchange.revision)
        BY <1>2, <2>5 DEF SaveAcknowledged
    <3>2. promised # NoAck => promised.revision <= exchange.revision
        BY <1>c, <2>2, <2>3 DEF RoomInvariant, AckInOrder, InOrder, TypeInvariant, TypeOK, Ack
    <3>3. \/ promised' = promised
          \/ promised' = [held |-> slot.held, revision |-> exchange.revision]
        BY <3>1 DEF Acknowledge
    <3> QED BY <2>1, <2>3, <3>2, <3>3
  <2> QED BY <2>4, <2>5
<1>3. CASE AnswerStep /\ ~ SaveAcknowledged
    BY <1>3 DEF AnswerStep, SaveDeletedLocale, MetadataAcknowledged,
                MetadataDeletedLocale, CallFailed, CallConflicted, api
<1>4. CASE RoomStep /\ ~ BeginPersist
    BY <1>4 DEF RoomStep, Load, Edit, Invalidate, Unload, BeginMetadata, RelayApply,
                RelayRetire, api
<1> QED BY <1>1, <1>2, <1>3, <1>4

\* The detailed room implements what it promises its clients.
THEOREM RoomImplementsDurableRoom == Spec => ImplementsDurableRoom
<1>1. Init => Promise!Init
    BY DEF Init, Promise!Init, Content, Promise!Content
<1>2. /\ TypeInvariant /\ RoomInvariant /\ TypeInvariant' /\ RoomInvariant'
      /\ [Next]_vars
      => [Promise!Next]_(Promise!vars)
  <2> SUFFICES ASSUME TypeInvariant, RoomInvariant, TypeInvariant', RoomInvariant',
                      [Next]_vars
      PROVE  Promise!Next \/ UNCHANGED <<log, promised>>
      BY DEF Promise!vars
  <2>1. CASE ApiStep
    <3>1. /\ promised' = promised
          /\ log' = log \/ \E content \in Content : log' = Append(log, content)
        BY <2>1, ApiRefines
    <3>2. Content = Promise!Content
        BY DEF Content, Promise!Content
    <3> QED BY <3>1, <3>2 DEF Promise!Next, Promise!Commit
  <2>2. CASE RoomStep \/ AnswerStep
    <3>1. CASE promised' = promised
        BY <2>2, <3>1, RoomRefines
    <3>2. ASSUME NEW held \in Held, NEW revision \in Nat,
                 promised' = [held |-> held, revision |-> revision],
                 promised # NoAck => promised.revision <= revision
          PROVE  Promise!Next
      <4>1. log' = log
          BY <2>2, RoomRefines
      <4>2. promised' \in Ack
          BY <3>2 DEF Ack
      <4>3. held \in [Blocks -> SUBSET Values]
          BY DEF Held
      <4>4. /\ revision \in 1 .. Len(log)
            /\ \A b \in Blocks : log[revision][b] \in held[b]
        <5>1. promised' # NoAck
            BY <4>2
        <5> QED BY <3>2, <4>1, <5>1 DEF RoomInvariant, AckInOrder, InOrder, PromiseKept, Covered, Revision
      <4> QED BY <3>2, <4>1, <4>3, <4>4
          DEF Promise!Next, Promise!Acknowledge, Promise!Covers
    <3> QED BY <2>2, <3>1, <3>2, RoomRefines
  <2>3. CASE UNCHANGED vars
      BY <2>3 DEF vars, api
  <2> QED BY <2>1, <2>2, <2>3 DEF Next
<1>3. Init => TypeInvariant /\ RoomInvariant
    BY InitType, InitInvariant
<1>4. TypeInvariant /\ RoomInvariant /\ [Next]_vars => TypeInvariant' /\ RoomInvariant'
    BY StepInvariant
<1> QED BY <1>1, <1>2, <1>3, <1>4, PTL DEF Spec, Promise!Spec, ImplementsDurableRoom

=============================================================================
