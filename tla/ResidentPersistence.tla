------------------------ MODULE ResidentPersistence ------------------------
(***************************************************************************)
(* One resident block room and the owning API it saves to                  *)
(* (lib/collaboration/resident-block-persistence.ts, block-mutation-       *)
(* batch.ts, resident-block-durability.ts, the queue slot of               *)
(* resident-block-runtime.ts and resident-interactive-mutation.ts).        *)
(*                                                                         *)
(* Clients edit the resident document; persist() turns the observed change *)
(* set into a batch against the acknowledged baseline, saves it under the  *)
(* baseline's revision (compare-and-set at the API) and broadcasts a       *)
(* `block_room.persisted` acknowledgement.  Saves fail, lose their answer  *)
(* or conflict; the process crashes and the room reloads; other writers    *)
(* and AI mutations reach the API and are relayed to the room.             *)
(*                                                                         *)
(* Abstractions.  A document maps blocks to values (structure, locale and  *)
(* field detail of a block are its value; a deleted block is one more      *)
(* value).  The document and target revision tokens are one token, the     *)
(* length of the API's log: every check of the code fails exactly when     *)
(* either token differs.  The queue of the room is its slot: at most one   *)
(* queued operation runs, in any order of arrival.                         *)
(***************************************************************************)
EXTENDS Naturals, Sequences

CONSTANTS
    Blocks,     \* block identifiers of the document
    Values,     \* what a block can hold
    IsTarget,   \* the room is a translation: its locale can be deleted
    Max,        \* how often each kind of event may happen (bounds the model)
    NoBatch, NoAck, NoExchange

\* The kinds of event that Max bounds.
Kinds == {"edit", "failure", "write", "relay", "metadata", "reject", "unload"}

ASSUME MaxAssumption == Max \in [Kinds -> Nat]
ASSUME RoleAssumption == IsTarget \in BOOLEAN

VARIABLES
    log,              \* the API: every committed content; its length is the revision
    exists,           \* the API: the locale of the room exists
    orphans,          \* saves nobody waits for any more; the API may still see them
    relays,           \* accepted AI mutations the API has dispatched to the room
    phase,            \* "unloaded", "open" or "fenced" (stale, connections closed)
    document,         \* the live Yjs document
    localeExists,     \* ResidentRoom.localeExists
    baseline,         \* content and revision of BlockMutationBaseline
    pendingBatch,     \* BlockMutationBaseline.pending
    pendingChangeSet, \* ResidentRoom.pendingChangeSet, as the affected blocks
    slot,             \* the operation that holds the room's queue
    exchange,         \* its API call in flight
    persisted,        \* the last block_room.persisted broadcast
    spent,            \* how many events of each kind have happened
    faults,           \* history: what this load of the room did that its later
                      \* acknowledgements do not survive; no guard reads it
    promised          \* history: the last broadcast of a load without faults

api == <<log, exists, orphans, relays>>
room == <<phase, document, localeExists, baseline, pendingBatch, pendingChangeSet>>
call == <<slot, exchange>>
acks == <<persisted, faults, promised>>
vars == <<api, room, call, acks, spent>>

-----------------------------------------------------------------------------
(* Data.                                                                   *)

Content == [Blocks -> Values]

\* `blocks` of `content` replaced by what `changes` holds for them.
Overlay(content, blocks, changes) ==
    [b \in Blocks |-> IF b \in blocks THEN changes[b] ELSE content[b]]

Revision == Len(log)
Current == log[Revision]

Batch == [affected : SUBSET Blocks, mutated : SUBSET Blocks, values : Content,
          expected : Nat]
Baseline == [content : Content, revision : Nat]
Relay == [expected : Nat, accepted : Nat, block : Blocks, value : Values,
          operation : {"edit", "create"}]

\* What the document held of each block since the operation captured its state
\* vector: the state vector covers the first, a later edit replaces it.
Held == [Blocks -> SUBSET Values]
Slot == [pc : {"idle", "retrying", "saving", "metadata"}, held : Held]
Exchange == [kind : {"save", "metadata"}, expected : Nat,
             answer : {"none", "ok", "deleted", "conflict", "failed"},
             revision : Nat]
Ack == [held : Held, revision : Nat]

\* The sentinels are not what they stand in for.
ASSUME SentinelAssumption ==
    NoBatch \notin Batch /\ NoExchange \notin Exchange /\ NoAck \notin Ack

\* A change set the document keeps was refused; the baseline took as stored
\* what was not.
Faults == {"refused", "dropped"}

NothingHeld == [b \in Blocks |-> {}]
Idle == [pc |-> "idle", held |-> NothingHeld]
Loaded == phase # "unloaded"

Spend(kind) ==
    /\ spent[kind] < Max[kind]
    /\ spent' = [spent EXCEPT ![kind] = @ + 1]

TypeOK ==
    /\ log \in Seq(Content) /\ log # << >>
    /\ exists \in BOOLEAN
    /\ orphans \subseteq Batch
    /\ relays \subseteq Relay
    /\ phase \in {"unloaded", "open", "fenced"}
    /\ document \in Content
    /\ localeExists \in BOOLEAN
    /\ baseline \in Baseline
    /\ pendingBatch \in Batch \cup {NoBatch}
    /\ pendingChangeSet \subseteq Blocks
    /\ slot \in Slot
    /\ exchange \in Exchange \cup {NoExchange}
    /\ persisted \in Ack \cup {NoAck}
    /\ spent \in [Kinds -> Nat]
    /\ faults \subseteq Faults
    /\ promised \in Ack \cup {NoAck}

-----------------------------------------------------------------------------
(* The owning API.                                                         *)

\* A save carries the mutations of its batch and its expected revision; the
\* API applies them only to the revision the batch was planned against.
Fresh(expected) == exists /\ expected = Revision

Commit(batch) == log' = Append(log, Overlay(Current, batch.mutated, batch.values))

Answer(kind, revision) ==
    exchange' = [exchange EXCEPT !.answer = kind, !.revision = revision]

ApiSaves ==
    /\ exchange # NoExchange
    /\ exchange.kind = "save" /\ exchange.answer = "none"
    /\ \/ /\ Fresh(exchange.expected)
          /\ Commit(pendingBatch)
          /\ \/ Answer("ok", Revision + 1) /\ UNCHANGED <<exists, spent>>
             \/ /\ IsTarget           \* the accepted save left no target revision
                /\ Answer("deleted", Revision + 1)
                /\ exists' = FALSE /\ UNCHANGED spent
             \/ /\ Spend("failure")   \* committed, but the response is lost
                /\ Answer("failed", 0) /\ UNCHANGED exists
       \/ /\ ~ Fresh(exchange.expected)
          /\ Answer("conflict", 0) /\ UNCHANGED <<log, exists, spent>>
       \/ /\ Spend("failure")         \* rejected, or still on its way when given up
          /\ Answer("failed", 0) /\ UNCHANGED <<log, exists>>
    /\ \/ orphans' = orphans
       \/ /\ log' = log /\ exchange'.answer = "failed"
          /\ orphans' = orphans \cup {pendingBatch}
    /\ UNCHANGED <<relays, room, slot, acks>>

\* A metadata update moves the document revision and leaves the blocks alone.
ApiUpdatesMetadata ==
    /\ exchange # NoExchange
    /\ exchange.kind = "metadata" /\ exchange.answer = "none"
    /\ \/ /\ Fresh(exchange.expected)
          /\ log' = Append(log, Current)
          /\ \/ Answer("ok", Revision + 1) /\ UNCHANGED <<exists, spent>>
             \/ /\ IsTarget
                /\ Answer("deleted", Revision + 1)
                /\ exists' = FALSE /\ UNCHANGED spent
             \/ Spend("failure") /\ Answer("failed", 0) /\ UNCHANGED exists
       \/ /\ ~ Fresh(exchange.expected)
          /\ Answer("conflict", 0) /\ UNCHANGED <<log, exists, spent>>
    /\ UNCHANGED <<orphans, relays, room, slot, acks>>

\* A save whose caller gave up, or whose room is gone, reaches the API.
OrphanLands(batch) ==
    /\ batch \in orphans
    /\ orphans' = orphans \ {batch}
    /\ IF Fresh(batch.expected) THEN Commit(batch) ELSE UNCHANGED log
    /\ UNCHANGED <<exists, relays, room, call, acks, spent>>

\* Another writer changes one block (or recreates a deleted locale).
OthersWrite(b, v) ==
    /\ Spend("write")
    /\ v # Current[b] \/ ~ exists
    /\ log' = Append(log, [Current EXCEPT ![b] = v])
    /\ exists' = TRUE
    /\ UNCHANGED <<orphans, relays, room, call, acks>>

\* An AI mutation is accepted by the API, which relays it to the room.
AIMutates(b, v) ==
    /\ Spend("relay")
    /\ v # Current[b] \/ ~ exists
    /\ log' = Append(log, [Current EXCEPT ![b] = v])
    /\ exists' = TRUE
    /\ relays' = relays \cup {[expected |-> Revision, accepted |-> Revision + 1,
                               block |-> b, value |-> v,
                               operation |-> IF exists THEN "edit" ELSE "create"]}
    /\ UNCHANGED <<orphans, room, call, acks>>

-----------------------------------------------------------------------------
(* The room: loading, editing, unloading.                                  *)

\* onLoadDocument, at the instant the API reads the document: nothing of the
\* room is visible before it is registered.
Load ==
    /\ phase = "unloaded"
    /\ phase' = "open"
    /\ document' = Current
    /\ baseline' = [content |-> Current, revision |-> Revision]
    /\ localeExists' = exists
    /\ faults' = {}
    /\ UNCHANGED <<api, pendingBatch, pendingChangeSet, call, persisted, promised, spent>>

\* Values captured by the state vector of the operation that holds the queue
\* and replaced since.
AlsoHeld(held, content) == [b \in Blocks |-> held[b] \cup {content[b]}]

NowHeld(content) ==
    slot' = IF slot.pc \in {"retrying", "saving"}
            THEN [slot EXCEPT !.held = AlsoHeld(@, content)]
            ELSE slot

\* An accepted client change: the observer records it, alone or as one that
\* needs the whole document decoded.  A missing locale is read only.
Edit(b, v, full) ==
    /\ phase = "open" /\ localeExists
    /\ v # document[b]
    /\ Spend("edit")
    /\ document' = [document EXCEPT ![b] = v]
    /\ pendingChangeSet' = pendingChangeSet \cup (IF full THEN Blocks ELSE {b})
    /\ NowHeld(document')
    /\ UNCHANGED <<api, phase, localeExists, baseline, pendingBatch, exchange, acks>>

\* Another part of the service declares the room stale (lost ownership, a
\* changed translation, a deleted resource): its connections are closed.
Invalidate ==
    /\ phase = "open"
    /\ phase' = "fenced"
    /\ UNCHANGED <<api, document, localeExists, baseline, pendingBatch,
                   pendingChangeSet, call, acks, spent>>

\* A fenced room empties and unloads; a crash unloads any room.  A save in
\* flight is nobody's any more.
Unload ==
    /\ \/ phase = "fenced" /\ UNCHANGED spent
       \/ phase = "open" /\ Spend("unload")
    /\ phase' = "unloaded"
    /\ document' = log[1]
    /\ baseline' = [content |-> log[1], revision |-> 1]
    /\ localeExists' = FALSE
    /\ pendingBatch' = NoBatch
    /\ pendingChangeSet' = {}
    /\ slot' = Idle
    /\ exchange' = NoExchange
    /\ orphans' = IF slot.pc \in {"retrying", "saving"} /\ exchange.answer = "none"
                  THEN orphans \cup {pendingBatch} ELSE orphans
    /\ faults' = {}
    /\ UNCHANGED <<log, exists, relays, persisted, promised>>

-----------------------------------------------------------------------------
(* The room: persisting.                                                   *)

\* broadcastStateless reaches the open connections; a fenced room has none.
Acknowledge(held, revision) ==
    /\ persisted' = IF phase = "open" THEN [held |-> held, revision |-> revision]
                    ELSE persisted
    /\ promised' = IF phase = "open" /\ faults = {} THEN persisted' ELSE promised
    /\ UNCHANGED faults

Send(pc, held, expected) ==
    /\ slot' = [pc |-> pc, held |-> held]
    /\ exchange' = [kind |-> "save", expected |-> expected, answer |-> "none",
                    revision |-> 0]

Release == slot' = Idle /\ exchange' = NoExchange

\* Variant with a bug: after a retry, compares with the baseline from before it.
MutatedSinceOldBaseline(base) ==
    {b \in pendingChangeSet : document[b] # baseline.content[b]}

\* The blocks of the change set that differ from the baseline `base`.
Mutated(base) == {b \in pendingChangeSet : document[b] # base.content[b]}

\* Variants with a bug: the batch holds the mutated blocks only; the batch
\* expects the revision from before the retry.
BatchOfMutated(base) ==
    [affected |-> pendingChangeSet, mutated |-> Mutated(base),
     values |-> [b \in Mutated(base) |-> document[b]], expected |-> base.revision]

PreparedBatch(base) ==
    [affected |-> pendingChangeSet, mutated |-> Mutated(base),
     values |-> Overlay(base.content, pendingChangeSet, document),
     expected |-> base.revision]

\* persist() past its retry: nothing to save, a save, or a change set that
\* cannot become a batch.  The change set is taken in every case.
NothingToSave(base, held) ==
    /\ localeExists \/ pendingChangeSet = {}
    /\ Mutated(base) = {}
    /\ Acknowledge(held, base.revision)
    /\ Release
    /\ pendingBatch' = NoBatch
    /\ UNCHANGED spent

SavePrepared(base, held) ==
    /\ localeExists
    /\ Mutated(base) # {}
    /\ pendingBatch' = PreparedBatch(base)
    /\ Send("saving", held, base.revision)
    /\ UNCHANGED <<acks, spent>>

\* decodeFull, decodeAffected or prepareAffected throws.
PrepareRejected(base) ==
    /\ pendingChangeSet # {}
    /\ IF localeExists THEN Spend("reject") ELSE UNCHANGED spent
    /\ Release
    /\ pendingBatch' = NoBatch
    /\ faults' = IF Mutated(base) = {} THEN faults ELSE faults \cup {"refused"}
    /\ UNCHANGED <<persisted, promised>>

Flush(base, held) ==
    /\ baseline' = base
    /\ pendingChangeSet' = {}
    /\ \/ NothingToSave(base, held)
       \/ SavePrepared(base, held)
       \/ PrepareRejected(base)

\* A queued persist starts: the state vector is captured, then a batch whose
\* save failed before is sent again.
BeginPersist ==
    /\ Loaded /\ slot.pc = "idle"
    /\ LET held == AlsoHeld(NothingHeld, document) IN
       IF pendingBatch # NoBatch
       THEN /\ Send("retrying", held, pendingBatch.expected)
            /\ UNCHANGED <<baseline, pendingBatch, pendingChangeSet, acks, spent>>
       ELSE Flush(baseline, held)
    /\ UNCHANGED <<api, phase, document, localeExists>>

Answered(pcs, kind) == slot.pc \in pcs /\ exchange.answer = kind
Persisting == {"retrying", "saving"}

\* Variants with a bug: only the revision advances; the live document, with the
\* edits made during the save, becomes the baseline.
AcknowledgedRevision == [baseline EXCEPT !.revision = exchange.revision]
AcknowledgedDocument == [content |-> document, revision |-> exchange.revision]

\* BlockMutationBaseline.acknowledge
Acknowledged ==
    [content |-> Overlay(baseline.content, pendingBatch.affected, pendingBatch.values),
     revision |-> exchange.revision]

SaveAcknowledged ==
    /\ Answered(Persisting, "ok")
    /\ IF slot.pc = "retrying"
       THEN Flush(Acknowledged, slot.held)
       ELSE /\ baseline' = Acknowledged
            /\ pendingBatch' = NoBatch
            /\ Acknowledge(slot.held, exchange.revision)
            /\ Release
            /\ UNCHANGED <<pendingChangeSet, spent>>
    /\ UNCHANGED <<api, phase, document, localeExists>>

\* The save left no target locale: acknowledged, then a conflict is thrown.
SaveDeletedLocale ==
    /\ Answered(Persisting, "deleted")
    /\ baseline' = Acknowledged
    /\ pendingBatch' = NoBatch
    /\ localeExists' = FALSE
    /\ phase' = "fenced"
    /\ Release
    /\ UNCHANGED <<api, document, pendingChangeSet, acks, spent>>

\* The batch stays for the next persist.
CallFailed ==
    /\ Answered(Persisting \cup {"metadata"}, "failed")
    /\ Release
    /\ UNCHANGED <<api, room, acks, spent>>

\* revisionConflicts.handle fences the room of a conflict.
CallConflicted ==
    /\ Answered(Persisting \cup {"metadata"}, "conflict")
    /\ phase' = "fenced"
    /\ Release
    /\ UNCHANGED <<api, document, localeExists, baseline, pendingBatch,
                   pendingChangeSet, acks, spent>>

-----------------------------------------------------------------------------
(* The room: metadata updates and accepted AI mutations.                   *)

BeginMetadata ==
    /\ phase = "open" /\ slot.pc = "idle"
    /\ localeExists
    /\ Spend("metadata")
    /\ slot' = [Idle EXCEPT !.pc = "metadata"]
    /\ exchange' = [kind |-> "metadata", expected |-> baseline.revision,
                    answer |-> "none", revision |-> 0]
    /\ UNCHANGED <<api, room, acks>>

\* Variant with a bug: advances the revision under a pending batch.
MetadataAcknowledgedOverBatch ==
    /\ Answered({"metadata"}, "ok")
    /\ baseline' = [baseline EXCEPT !.revision = exchange.revision]
    /\ Release
    /\ UNCHANGED <<api, phase, document, localeExists, pendingBatch,
                   pendingChangeSet, acks, spent>>

\* acknowledgeMetadataRevision advances the revision of the baseline, unless a
\* batch is pending: then it throws and the baseline stays where it was.
MetadataAcknowledged ==
    /\ Answered({"metadata"}, "ok")
    /\ baseline' = IF pendingBatch = NoBatch
                   THEN [baseline EXCEPT !.revision = exchange.revision]
                   ELSE baseline
    /\ Release
    /\ UNCHANGED <<api, phase, document, localeExists, pendingBatch,
                   pendingChangeSet, acks, spent>>

MetadataDeletedLocale ==
    /\ Answered({"metadata"}, "deleted")
    /\ IF pendingBatch = NoBatch
       THEN /\ baseline' = [baseline EXCEPT !.revision = exchange.revision]
            /\ localeExists' = FALSE
            /\ phase' = "fenced"
       ELSE UNCHANGED <<baseline, localeExists, phase>>
    /\ Release
    /\ UNCHANGED <<api, document, pendingBatch, pendingChangeSet, acks, spent>>

\* Variant with a bug: the revision is not compared.
ReadyAtAnyRevision(relay) == pendingChangeSet = {}

\* assertExternalMutationReady
ReadyFor(relay) ==
    /\ pendingChangeSet = {}
    /\ baseline.revision = relay.expected

\* acceptExternalMutation takes the whole live document, the mutation applied,
\* as the content of the accepted revision.
RelayApply(relay) ==
    /\ relay \in relays /\ relay.operation = "edit"
    /\ phase = "open" /\ slot.pc = "idle"
    /\ relays' = relays \ {relay}
    /\ IF ReadyFor(relay)
       THEN /\ document' = [document EXCEPT ![relay.block] = relay.value]
            /\ baseline' = [content |-> document', revision |-> relay.accepted]
            /\ pendingBatch' = NoBatch
            /\ localeExists' = TRUE
            /\ faults' = IF document = baseline.content THEN faults
                         ELSE faults \cup {"dropped"}
            /\ UNCHANGED phase
       ELSE /\ phase' = "fenced"
            /\ UNCHANGED <<document, baseline, pendingBatch, localeExists, faults>>
    /\ UNCHANGED <<log, exists, orphans, pendingChangeSet, call, persisted, promised,
                   spent>>

\* A room without connections, one that is loading, and one whose locale was
\* created by the mutation is retired instead.
RelayRetire(relay) ==
    /\ relay \in relays
    /\ relays' = relays \ {relay}
    /\ phase' = IF Loaded THEN "fenced" ELSE phase
    /\ UNCHANGED <<log, exists, orphans, document, localeExists, baseline,
                   pendingBatch, pendingChangeSet, call, acks, spent>>

-----------------------------------------------------------------------------
(* The system.                                                             *)

Init ==
    /\ \E content \in Content : log = <<content>>
    /\ exists \in (IF IsTarget THEN BOOLEAN ELSE {TRUE})
    /\ orphans = {} /\ relays = {}
    /\ phase = "unloaded"
    /\ document = log[1]
    /\ localeExists = FALSE
    /\ baseline = [content |-> log[1], revision |-> 1]
    /\ pendingBatch = NoBatch
    /\ pendingChangeSet = {}
    /\ slot = Idle
    /\ exchange = NoExchange
    /\ persisted = NoAck /\ promised = NoAck
    /\ faults = {}
    /\ spent = [kind \in Kinds |-> 0]

ApiStep ==
    \/ ApiSaves
    \/ ApiUpdatesMetadata
    \/ \E batch \in orphans : OrphanLands(batch)
    \/ \E b \in Blocks, v \in Values : OthersWrite(b, v)
    \/ \E b \in Blocks, v \in Values : AIMutates(b, v)

RoomStep ==
    \/ Load
    \/ \E b \in Blocks, v \in Values, full \in BOOLEAN : Edit(b, v, full)
    \/ Invalidate
    \/ Unload
    \/ BeginPersist
    \/ BeginMetadata
    \/ \E relay \in relays : RelayApply(relay)
    \/ \E relay \in relays : RelayRetire(relay)

AnswerStep ==
    \/ SaveAcknowledged
    \/ SaveDeletedLocale
    \/ MetadataAcknowledged
    \/ MetadataDeletedLocale
    \/ CallFailed
    \/ CallConflicted

Next == ApiStep \/ RoomStep \/ AnswerStep

Spec == Init /\ [][Next]_vars

\* A changed document is stored after Hocuspocus's debounce, a failed store is
\* tried again by the edit session's timer, calls end (fetch gives up by its own
\* limits), and the event loop delivers every answer.
FairSpec ==
    /\ Spec
    /\ WF_vars(BeginPersist)
    /\ WF_vars(ApiSaves \/ ApiUpdatesMetadata)
    /\ WF_vars(AnswerStep)

-----------------------------------------------------------------------------
(* Properties.                                                             *)

Open == phase = "open"

\* The room never loses track of a difference between the document and what it
\* believes is stored: each differing block is in the change set or in the
\* batch being saved (persist clears the one before it has the other), until a
\* change set is refused.
NoSilentLoss ==
    Open /\ "refused" \notin faults => \A b \in Blocks :
        document[b] # baseline.content[b] =>
            \/ b \in pendingChangeSet
            \/ pendingBatch # NoBatch /\ b \in pendingBatch.affected

\* What the room believes is stored is what the API stored: the baseline has
\* the content of its revision, through saves, retries, metadata updates and
\* relayed mutations (an unloaded room has the first content), until a relayed
\* mutation is applied over what is not stored.
BaselineIsStored ==
    /\ baseline.revision \in 1 .. Revision
    /\ "dropped" \notin faults => baseline.content = log[baseline.revision]

\* A batch is only ever sent, or sent again, against the baseline it was
\* planned on.
BatchOnBaseline ==
    pendingBatch # NoBatch =>
        /\ pendingBatch.expected = baseline.revision
        /\ \A b \in pendingBatch.affected \ pendingBatch.mutated :
               pendingBatch.values[b] = baseline.content[b]

\* The API's content at the revision of an acknowledgement has, for every block,
\* what the document held when the persist started or later.
Covered(ack) == ack # NoAck => \A b \in Blocks : log[ack.revision][b] \in ack.held[b]

\* README "An explicit persistence acknowledgement covers newer accepted room
\* changes as well as any retried batch": whatever block_room.persisted claims,
\* the API has.
AckCoversDurable == Covered(persisted)

\* The acknowledgement of a load that has neither refused a change set nor taken
\* as stored what was not is durable, whatever happens to the room afterwards.
PromiseKept == Covered(promised)

\* The room implements DurableRoom: the history only grows by whole contents,
\* and the acknowledgements of its loads without faults cover what is stored at
\* a revision that no earlier one, of this load or a previous one, has passed.
Promise == INSTANCE DurableRoom WITH log <- log, persisted <- promised
ImplementsDurableRoom == Promise!Spec

\* An edit accepted by an open room ends up stored, unless the room is fenced
\* (its clients reload) or crashes.
UnsavedEventuallySettles ==
    (Open /\ document # baseline.content) ~>
        (~ Open \/ document = baseline.content)

-----------------------------------------------------------------------------
(* Why the promise holds: an inductive strengthening of the properties,    *)
(* proved in ResidentPersistence_proofs.                                   *)

\* The content storage has once the pending batch, if any, is committed.
Planned ==
    IF pendingBatch = NoBatch THEN baseline.content
    ELSE Overlay(baseline.content, pendingBatch.affected, pendingBatch.values)

\* The room's queue, its API call and its batch agree.
CallMatches ==
    /\ slot.pc = "idle" <=> exchange = NoExchange
    /\ slot.pc \in Persisting =>
           /\ pendingBatch # NoBatch
           /\ exchange.kind = "save" /\ exchange.expected = pendingBatch.expected
    /\ slot.pc = "metadata" =>
           exchange.kind = "metadata" /\ exchange.expected = baseline.revision
    /\ ~ Loaded => /\ slot.pc = "idle"
                   /\ pendingBatch = NoBatch /\ pendingChangeSet = {}

\* An answer tells the revision that the call produced.
AnswerIsStored ==
    exchange # NoExchange /\ exchange.answer \in {"ok", "deleted"} =>
        /\ exchange.revision \in (baseline.revision + 1) .. Revision
        /\ "dropped" \notin faults =>
               log[exchange.revision] =
                   IF exchange.kind = "save" THEN Planned ELSE baseline.content

\* Every difference from what is planned to be stored is in the change set.
ChangesTracked ==
    Open => /\ "refused" \notin faults =>
                   \A b \in Blocks : document[b] # Planned[b] => b \in pendingChangeSet
            /\ ~ localeExists => pendingChangeSet = {}

\* A persist holds what the document has, and what its own batch stores.
HeldCovers ==
    Open /\ slot.pc \in Persisting =>
        \A b \in Blocks :
            /\ document[b] \in slot.held[b]
            /\ slot.pc = "saving" /\ "refused" \notin faults => Planned[b] \in slot.held[b]

\* A relayed mutation is one block's step from its expected revision.
RelaysStored ==
    \A relay \in relays :
        /\ relay.expected \in 1 .. Revision /\ relay.accepted \in 1 .. Revision
        /\ relay.expected < relay.accepted
        /\ log[relay.accepted] = [log[relay.expected] EXCEPT ![relay.block] = relay.value]

\* What it takes for a room to break its promise: a change set was refused, or
\* an AI mutation was relayed and an API call failed.
Risky == spent["reject"] > 0 \/ (spent["relay"] > 0 /\ spent["failure"] > 0)

\* Only a failure leaves a batch behind in an open room, and only what is Risky
\* is a fault.
EventsCounted ==
    /\ \A kind \in Kinds : spent[kind] <= Max[kind]
    /\ relays # {} => spent["relay"] > 0
    /\ exchange # NoExchange /\ exchange.answer = "failed" => spent["failure"] > 0
    /\ Open /\ pendingBatch # NoBatch /\ slot.pc \notin Persisting => spent["failure"] > 0
    /\ (Open /\ faults # {}) \/ promised # persisted => Risky

\* An acknowledgement is for a revision the history has, not newer than the
\* baseline it was made from.
InOrder(ack) ==
    ack # NoAck =>
        /\ ack.revision \in 1 .. Revision
        /\ Loaded => ack.revision <= baseline.revision

AckInOrder == InOrder(persisted) /\ InOrder(promised)

BatchWithinChange == pendingBatch # NoBatch => pendingBatch.mutated \subseteq pendingBatch.affected

\* The inductive invariant.
RoomInvariant ==
    /\ CallMatches /\ AnswerIsStored
    /\ BaselineIsStored
    /\ BatchWithinChange /\ BatchOnBaseline
    /\ ChangesTracked /\ HeldCovers
    /\ RelaysStored /\ EventsCounted
    /\ AckInOrder /\ PromiseKept
=============================================================================
