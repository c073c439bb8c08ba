# Verification of the collaboration service

TLA+ models of the collaborative editing service, the TLC runs that check them
on small instances, and the theorems TLAPS proves about them for every
instance. Paths below are relative to the repository; `C/` stands for
`lib/collaboration/`.

## The system

The service is a Hocuspocus (Yjs) server in front of an owning API. A *room* is
the live document of one entity in one locale. Members connect over websockets
and edit the room; the service saves it through the API, tells the clients what
is durable, and takes version checkpoints that name the contributors. One
process owns a room at a time, by a PostgreSQL advisory lock; PostgreSQL also
carries the queues and signals of the platform.

| Component | State | Operations | Interacts with | Hard part | Correct when |
|---|---|---|---|---|---|
| Resident room persistence (`C/resident-block-persistence.ts`, `-durability.ts`, `-runtime.ts`) | baseline, pending change set, queue, `localeExists` | load, recordChange, persist, metadata update, accept mutation, unload | batches, API, hooks, fence | edits during a save, retry of a failed batch, lost answers | an acknowledgement covers only what is stored; nothing differs from storage untracked |
| Batches and baseline (`C/block-mutation-batch.ts`, `-plans.ts`, `block-proto-batch.ts`) | acknowledged blocks, revisions, pending batch | prepareAffected, acknowledge, advance revision | persistence | baseline against what was really stored | the baseline is the stored content of its revision |
| Interactive mutations (`C/interactive-mutation-*.ts`, `resident-interactive-mutation.ts`, `internal-http.ts`) | none of their own; run in the room's queue | apply, retire, fence, markers | persistence, fence, connections | an accepted mutation meets unsaved edits | applied exactly on its revision, or the room is fenced |
| Edit sessions (`C/edit-session-*.ts`) | session, its timer, pending contributors, deleted entities | connected, record, persist, finalize, retry, give up, discard | hooks, queue, API, timers | contributors joining while a finalization runs; failures; timers | nobody's credit is lost, every session ends, rooms are held while needed |
| Document hooks (`C/document-hooks.ts`) | owned documents | load, change, store, stateless, before and after unload | everything above | awaits between check and use | see the parts |
| Inbound lane (`C/inbound-mutation.ts`, `connection-handler-helpers.ts`) | one promise chain per document | authorise, save the previous actor, apply, attribute | edit sessions, permission guard | rejection in the middle of the chain | a save credits the author |
| Revision conflicts (`C/revision-conflict-guard.ts`) | stale documents, fenced names | fence, require reload, unfence | persistence, authentication, sessions | a fence among queued operations | a fenced room saves nothing and is released |
| Invalidation (`C/room-invalidation.ts`, `events/content-updated-subscriber.ts`) | pending loads | invalidate, settle, clear | fence, sessions, signals | rooms that are still loading; missed signals | no stale room stays writable |
| Ownership (`C/room-ownership.ts`) | lock session, owned rooms, acquisitions | acquire, release, lose, close | PostgreSQL, hooks, fence | loss of the session in the middle of anything | two processes never both save one room |
| Epochs and admission (`C/room-epoch.ts`, `block-room-protocol*.ts`, `authentication.ts`, `permission-guard.ts`, `connection-hooks.ts`) | epochs, tokens, admission state per connection | issue, validate, bootstrap, acknowledge, authorise | hooks, fence, API | reconnects, expiry, revocation, fences between awaits | frames count only after the bootstrap of this load |
| Shutdown (`C/shutdown-connection-drain.ts`, `server.ts`, `runtime.ts`) | admissions, connections, drain | admit, connect, disconnect, begin, deadlines | sessions, ownership, Hocuspocus | admissions in flight | the drain ends, after the last frame |
| Generic documents (`C/document-persistence.ts`, `handlers/*.ts`, `C/form-schema-protocol.ts`) | revisions, last saved snapshot, queue of captured saves, accepted requests | load, store, schema patch | API, sessions | a captured save older than a patch | an acknowledged patch stays |
| Resident metadata (`C/resident-block-metadata*.ts`, `resident-metadata-merge.ts`) | acknowledged metadata, sequence numbers | request, merge | persistence, API | answers over peers' edits | peers' edits survive |
| Metadata-AI grace, awareness (`C/metadata-ai-reconnect-grace.ts`, `awareness-ownership.ts`) | timers, owners | orphan, resume, clear, own, release | hooks | timers against reconnects | the state is cleared, by its owner |
| Messaging (`lib/postgresql/*`, `events/*`) | visibility, read counts, listener chain | read, handle, complete, retry, dead-letter, notify | handlers, PostgreSQL | duplicates, slow handlers, lost completions | at least once, then the dead letter |
| API clients, converters, durable media, logging, scripts | none | calls, conversions | | | environment or pure code |

## Modules

| Module | What it is |
|---|---|
| `DurableRoom` | abstract: a growing history of contents, and acknowledgements that never run ahead of it or behind each other |
| `ResidentPersistence` | one resident room and its API; it implements `DurableRoom` |
| `EditSession` | sessions, contributors, lane, queue and finalization of one resident room |
| `RoomLifecycle` | one document in several processes: lock, load, fence, invalidation, unload |
| `RoomAdmission` | who may write to a room: authentication, epochs and tokens, bootstrap, permissions, frames |
| `FormRoom` | the documents that are saved as a whole, and the schema patches of a form |
| `MetadataMerge` | the three-way merge of a metadata request, as pure operators |
| `DurableQueue` | abstract: messages that are settled once, for a cause, and take effect once |
| `PgmqConsumer` | the queue consumer and the ingest projection; in a service it implements `DurableQueue` |
| `SignalRelay` | the four signal listeners and the rooms they tell or close |
| `ConnectionDrain` | the connections and admissions that shutdown waits for |
| `RoomPresence` | extends `ConnectionDrain`: the grace of an AI request, and the owners of awareness ids |
| `CollabService` | composes the four above in one process that starts, dies, stops and starts again |
| `MC…` | the instance of a module for TLC: bounds, scenarios, symmetry |
| `…_proofs` | the theorems about a module and their proofs; `RoomPresence_proofs` has lemmas of `CollabService_proofs` |

Operators whose comment starts with "Variant with a bug" are not part of the
models. Each is a plausible mistake in the code its neighbour translates, and
putting it in the neighbour's place makes a property fail: that is how we know
the property can tell.

### ResidentPersistence

The state is `ResidentRoom` (`document`, `localeExists`, `pendingChangeSet`), its
`BlockMutationBaseline` (`baseline`, `pendingBatch`), the operation that holds the
room's queue (`slot`) with its API call (`exchange`), and the last
`block_room.persisted` broadcast. `phase` is the room's place in its life.
Two history variables, which no guard reads, say what the code's promise depends on:
`faults` is what this load of the room did that its later acknowledgements do not
survive (a change set the document keeps was `"refused"`; a relayed mutation was
applied over a document that is not stored, `"dropped"`), and `promised` is the last
broadcast of a load without faults.
The API is `log`, the contents it ever committed: a revision is a position in
it. `orphans` are saves nobody waits for, `relays` accepted mutations on their
way to the room.

* `BeginPersist`, `SaveAcknowledged`, `SaveDeletedLocale`: `persist()`. It retries
  a pending batch first; past the retry (`Flush`) the change set is taken and
  either leaves nothing to save, becomes a batch, or is refused.
  The acknowledgement holds the state captured before all that
  (`slot.held` collects the values a block had since, because a later edit may be
  saved too).
* `CallFailed`, `CallConflicted`: a failed save leaves the batch pending; a
  conflict fences the room.
* `BeginMetadata`, `MetadataAcknowledged`, `MetadataDeletedLocale`: metadata
  updates move the document revision, unless a batch is pending.
* `RelayApply`, `RelayRetire`: accepted AI mutations.
* `Load`, `Edit`, `Invalidate`, `Unload`: hooks and fences. A crash is an `Unload` of
  an open room.
* The API (`ApiSaves`, `ApiUpdatesMetadata`, `OrphanLands`, `OthersWrite`,
  `AIMutates`) is external: compare-and-set on the revision, as `saveBatch` and the
  conflict handling rely on. It may commit and lose the answer, reject, or see a
  request late.

A block's structure, locale and fields are one value, and the document and
target revisions one number: every check of the code fails exactly when either
token differs.

### EditSession

An edit is its position, with its author and the contributor its save credited.
`change` and `batch` are the room's, as sets of edits; `pending` and `session` are
`pendingContributors` and `sessions`; `queue` and `running` are the room's queue;
`lane` is the frame waiting in the actor lane. `owed`, `gaveUp` and `acked` are
history variables for the properties.

* `Frame`, `LaneResumes`: `applyAcceptedMutation`. Another member's unsaved edits
  are saved before a frame is applied.
* `StoreHook`, `PersistNow`: the hooks, through `persistWith`, which captures the
  contributor when it is called.
* `TimerFires`, `StartOperation`, `BatchSaved`, `Checkpoint`, `CheckpointTaken`: a
  finalization, from the timer through its save to the version checkpoint.
* `CallFailed`, `CallConflicted`, `ResourceGone`: the three ways a call fails;
  `FinalizeFailed`, `GiveUp`, `ConflictSettled` and `Discard` are what they lead to.
* `Connect`, `Disconnect`, `Invalidated`, `Unload`: the room around it.

Steps that the event loop runs in one turn take precedence over timers, frames
and answers (`Quiet`).

### RoomLifecycle

One document in several processes. `session` and `owned` are the fields of
`PostgresRoomOwnership`, `holder` the lock as PostgreSQL sees it: the two disagree
while a session is broken and unnoticed, or dropped and not ended yet. `stage` is
where the document is between load and unload; `tracked`, `stale`, `fenced` and
`pendingLoad` are `ownedDocuments`, `staleDocuments`, `fencedDocumentNames` and
`pendingLoads`.

* `SessionBreaks`, `SessionLost`, `SessionDropped`, `SessionEnds`: the four steps in
  which a session dies. `LoseClient` fences what it owned.
* `Authenticate`, `BeginLoad`, `ConnectSession`, `Acquire`, `AcquireFails`, `Read`,
  `Loaded`, `Opened`, `Connected`: from the authentication of a client to its
  connection, with the checks each of them makes; `LoadFails` is the catch.
* `Disconnected`, `BeginUnload`, `Released`: the last client goes, and the lock after it.
* `BeginSave`, `SaveAnswered`, `SaveConflicted`: a save, reduced to its revision; the
  rest of it is in the other two modules.
* `Abandoned`, `OrphanLands`, `LateConflict`: a save whose room is gone may still land,
  and whoever sent it still awaits the answer (`handleStateless`). A conflict then
  fences the name, whatever room has it by now, or none; the history variable
  `refenced` remembers that it was such a conflict. A process that crashes awaits
  nothing more.
* `Told`: a content update, through the listener and `invalidateDocument`.
* The API, the writes behind the rooms and the server's side of a session are external.

### RoomAdmission

One process and one document, whose content is reduced to where each edit comes
from: the load its author's copy was taken from, the load it was merged into, and
whether the API allowed it. `epoch`, `tokens`, `accesses` are the fields of
`RoomEpochRegistry`, `conn` is a connection with its admission context, `client`
what the browser keeps between connections; `recent` is history.

* `Dial`, `ViewAnswered`, `EditAnswered`: `authenticate`, with its two questions to the
  API, and `blockRoomAdmission` after them, which begins a pending admission or
  resumes an accepted one by its token.
* `BeginLoad`, `Loaded`, `LoadFails`, `Connected`, `Left`, `BeginUnload`, `Unloaded`,
  `Invalidated`: the room around it, each interleaved with the questions above.
* `TakeBootstrap`, `HandleAck`: the bootstrap and its acknowledgement.
* `FrameArrives`, `FrameAuthorized`, `FrameDenied`, `HandleUpdate`, `HandleMetadata`,
  `HandleSnapshot`, `MetadataConflicts`: a frame waits for the API's answer while the
  room is fenced, unloaded or loaded again.
* `Restart` forgets the registry, `Tick` lets tokens expire, `PermissionChanges`
  revokes what was granted.

### FormRoom

`store` is the API: revision, content, and if the locale exists. `cas` is what
a handler keeps by document *name* (`expectedFormRevisionByDocumentId` and its likes), `docs` the
documents of the loads, `jobs` the queue of captured saves of the name, `patches` the
queue of schema patches, each with the load it came for. `handlers` says what the
five kinds of document do their own way.

* `BeginLoad`, `Read`, `Loaded`, `LoadFails`, `Leave`, `Join`, `Unload`: the life of the
  room; what `Unload` clears belongs to the name, which jobs of an earlier load share.
* `Edit`, `Store`: a store captures the document when it is called.
* `PatchArrives`, `PatchRefused`, `PatchConflicts`, `PatchKnown`, `PatchChangesNothing`,
  `PatchSaves`: the ways through `FormSchemaProtocol.applyPatch`.
* `NotLoaded`, `Invalid`, `NothingToSave`, `Send`, `Commit`, `Refused`, `AnswerLost`,
  `Saved`, `Failed`, `Conflicts`: a captured save, from its turn to what its answer changes.

### MetadataMerge

`mergeStringLists` and `mergeRecords` of `C/resident-metadata-merge.ts`, on sets of ids and
functions from keys. There is nothing to run: its theorems say what the merge
promises about peers' changes for every input.

### CollabService and its parts

`CollabService` is `C/runtime.ts` with the shutdown of `C/server.ts`: `phase` goes from
`down` through `starting` (one subscriber after the other) and `ready` to the steps of the
ordered shutdown; each wait may end by its deadline, and `Die` may come at any time. It
extends the four parts and gives each of their actions its turn.

* `PgmqConsumer`: `ReadMessage`, `HandlerSucceeds`, `HandlerThrows`, `Completes`,
  `Retries`, `Archives` are a worker's steps; `HandoffFails` and `HandoffFailsHolding` the
  failures of each hand-off. `BecomesVisible` may come while a handler still runs, and
  another worker then reads the message again.
* `SignalRelay`: `Notify` puts what PostgreSQL tells into the serial chain of each
  listener, `HandleContentUpdated`, `HandleOgLifecycle`, `HandleMediaProcessing`,
  `HandleTranslationMessage` take it out. A room `covered` was read when content
  updates were already listened to.
* `ConnectionDrain`: `BeginAdmission`, `Refuse`, `Establish`, `Connected`, `Disconnected`,
  `SocketCloses`, `Begin`, `EmptyCheck` are the drain's operations and the hooks that call
  them, which Hocuspocus may call late and out of order. `LoadFails` releases the
  admission of the client that started the load; those who wait for the same load
  are refused without a hook, and `stranded` (history) remembers them.
* `RoomPresence`: `Asks`, `Finishes`, `TimerFires`, `MemberConnected`, `MemberDisconnected`
  are the grace of an AI request; `Announces`, `Withdraws`, `Release` the awareness ids.
  `Joins` and `Leaves` of a member happen in the document before the hooks hear of it.

## What the runs check

| Run | Properties | Shows |
|---|---|---|
| `room_failures` | `TypeOK`, `PromiseKept`, `UnsavedEventuallySettles` | two edits, a foreign write, two failures: every interleaving of edits, failed, lost, late and retried saves |
| `room_writers` | `BaselineIsStored`, `BatchOnBaseline` | the same with refused change sets, metadata and a deleted locale |
| `room_relays` | `NoSilentLoss`, `ImplementsDurableRoom` | two relayed mutations, a refused change set, a failed call, crashes and reloads of a translation |
| `room_dropped_batch` | `AckCoversDurable` | fails: a relayed mutation drops a failed batch |
| `room_lost_change` | `AckCoversDurable` | fails: a refused change set is forgotten |
| `session_room` | `TypeOK`, `UnsavedKeepsContributor`, `CreditsRemembered`, `NeverStranded`, `PersistNowCoversTracked`, `NothingLostOnUnload`, `SessionSettles`, `FencedIsReleased` | two members, two edits, two failures, one conflict, one persist.now |
| `session_misattributed` | `AttributionExact` | fails: a queued save stores the next member's edit |
| `session_false_ack` | `PersistNowCovers` | fails: after a give-up, persist.now answers without saving |
| `rooms` | `OneWorkingRoom`, `NoLockWithoutRoom`, `StaleRoomIsTold`, `FenceIsOfRoom`, `FencedRoomIsFreed`, `ClientIsAnswered` | two processes, two clients, one foreign write, one save, one lost session, one crash |
| `admission` | `TypeOK`, `EditsOfThisLoad`, `FrameWasAllowed`, `RecentTokenKept` | two clients resume, acknowledge and write across reloads, fences, restarts, expiry and revocation |
| `service` | `TypeOK`, `StaleIsHeard`, `DrainIsExact`, `AwayIsTimed`, `PresenceIsReleased`, `MessageSettles`, `ClearedForCause`, `ImplementsDurableQueue` | one process with a queue message, rooms and their signals, and three clients, through crash, restart and shutdown |
| `forms` | `TypeOK`, `AckedPatchIsStoredOnce`, `ForeignWriteIsKept` | patches, stores, foreign writes and reloads, with queued, failing, conflicting and unanswered saves |

Properties that are proved and say nothing a run should repeat (`RoomInvariant` of
`ResidentPersistence`; `SettledForCause` of `PgmqConsumer`, which
`ImplementsDurableQueue` implies; `TypeOK` and `WorkingRoomIsOwned` of `RoomLifecycle`; `MiscreditIsLate` of `EditSession`;
`SchemaOnlyGrows` of `FormRoom`) are in no configuration.

### Bounds

Two blocks and two values are enough for a block that changed and one that did
not, and for an edit and its undo. Two edits: one in the batch, one made during
the save. Two failures: one save that failed and its retry that failed. One
foreign write makes one conflict; two relays, one applied and one overtaken.
Two members are enough for one to be saved for the other. In `EditSession`
`MaxRetries` is 1: one failure is retried, the second gives up. The events are
bounded, so the models really come to rest: an idle room whose events are spent
has no step left, and the configurations do not check deadlock. What must not
come to rest is a liveness property. In `RoomLifecycle` two clients make a takeover by
the other process or a reload by the same; the lost session, the crash, the foreign
write and the save may fall into any stage of either.

In `RoomAdmission` two clients, three dials, two frames, two loads and two events make
a client that resumes into another load, a frame that waits through one, and a third
token over a limit of two; a lifetime of one tick expires a token while its owner is
away. `CollabService` starts in one of nine scenarios, each with the events of one or
two of its parts: a message with two workers and a crash; two rooms with two outside
updates; a socket that closes while three clients authenticate over two sockets
during shutdown; two members who ask, leave, return and take over within a grace of one
tick. One message is enough, for messages share nothing but the workers. `FormRoom` has a
scenario with three patches of two requests (one repeated, one forgotten with
`Remembered` 1), one written behind, one of three loads, and one with two edits and two
stores for each of the five kinds of document.

### Fairness

`ResidentPersistence`: a persist is started (the store debounce and the session's
timer), the API call ends (the service sets no deadline in `lib/api/transport.ts`, but
the `fetch` of its Node runtime gives up on a silent peer), and answers are handled
(the event loop). Failures are bounded, so a save that is tried again
eventually is not failed; nothing else in the environment is fair.

`EditSession`: the queue, the lane and answers (event loop, and calls end as above), the
timers, the closing of the connections of a fenced or deleted room (the server
does it), and the unloading of a room that nothing keeps (Hocuspocus). Members
need not disconnect, and no frame, store or persist.now need ever come.

`RoomLifecycle`: PostgreSQL (no deadline either: a live session answers) and the
API answer (but a save that has outlived its room need not be answered), a broken session is noticed, a dropped one ends, signals arrive (the
listener's failure ends the process), and Hocuspocus opens and unloads rooms.
Clients need not come or go.

`CollabService`: workers poll and await answers that come, and a visibility timeout
ends. Nothing else is fair: the process need not start, and `MessageSettles` speaks of
one that stays up. `RoomAdmission` and `FormRoom` state safety only.

## What the violated runs show

1. `room_dropped_batch`. A save fails; its batch is pending and the change set
   empty. An AI mutation accepted at the room's revision finds the room ready
   (`assertExternalMutationReady`, `C/resident-block-persistence.ts:193`), takes the
   live document as the new baseline (`:221`) and drops the batch. The next persist
   has nothing to save and acknowledges the edit.
2. `room_lost_change`. `persist()` clears the change set (`:255`) before it decodes
   and plans it. If that throws, the next persist acknowledges.
3. `session_misattributed` (`MiscreditIsLate` says that there is no other way). A finalization saves m1's edit; m1's persist.now waits
   behind it. The save clears m1, m2 edits during the version checkpoint, and the
   queued save stores m2's edit with the contributor captured for m1
   (`C/edit-session-contributors.ts:237`).
4. `session_false_ack`. A finalization gives up after its retries and clears the
   contributors (`C/edit-session-finalization.ts:361`) while the editors keep the
   room open. Their persist.now finds nothing pending and is answered ok.

The README of the repository (lines 58-61) promises that an acknowledgement
covers newer accepted changes as well as a retried batch.

## What is proved

`ResidentPersistence_proofs`, for every set of blocks and values, every bound and
both roles of the room:

* `TypeCorrect`: `Spec => []TypeOK`.
* `RoomInvariantHolds`, `PromisesAreKept`, `NothingLostSilently`, `BaselineStored`,
  `BatchesOnBaseline`, `AcknowledgementsInOrder`, and `RoomImplementsDurableRoom`, the
  refinement of `DurableRoom`.
* `AcknowledgementsAreDurable`: `Spec => [](AckCoversDurable \/ Risky)`.

No hypothesis keeps the failures of the first two violated runs away: the theorems hold
in the behaviours that have them. `AckCoversDurable`, over every broadcast, is false, as
those runs show; what is true is `PromiseKept`, over the broadcasts of a load that has
no `faults`. A fault ends with the load (`Load` reads the document anew), and a
promise made before a fault stays kept after it, because the history only grows.
`AcknowledgementsAreDurable` says what a fault takes: a refused change set, or a
relayed mutation and a failed call in one behaviour (`Risky`). Order
(`AcknowledgementsInOrder`), `BatchOnBaseline` and the range of the baseline's revision
survive every fault.

The properties are not inductive. `PromiseKept` speaks of the last
acknowledgement only; that the next one is right needs to know, while a save is
in flight, that the batch with the baseline is what storage will hold
(`AnswerIsStored`), that the document differs from that only in the change set
(`ChangesTracked`), that the values held cover both (`HeldCovers`), that the batch
was planned on the baseline's revision (`BatchOnBaseline`) and that the baseline is
what that revision stored (`BaselineIsStored`). `ChangesTracked` and `HeldCovers` need that
nothing was refused, `AnswerIsStored` and `BaselineIsStored` that nothing was dropped.
`CallMatches` and `EventsCounted` say when a call, a batch, a failure and a fault exist;
`RelaysStored` makes an applied mutation land on a stored content; `AckInOrder` gives
the refinement its order. Their conjunction is `RoomInvariant`; TLC checks
`PromiseKept`, `BaselineIsStored` and `BatchOnBaseline` of it. `NoSilentLoss` follows
from it. The refinement maps `log` to `log` and `persisted` to `promised`;
every step is a commit, an acknowledgement or a stutter.
The proof has one lemma per group of actions, a step per action, and a step per
conjunct that the action can disturb. The assumptions are the named ones of the
module: the bounds are numbers, the role is a Boolean, the sentinels are not what
they stand for.

`RoomLifecycle_proofs`, for every set of processes and every bound: each safety
property of the run `rooms`. The invariant has three parts beyond the types.
`LockMatchesRoom`: what a process owns it holds until its session dies, what it
holds it is loading, has or unloads, and a room whose lock is gone is fenced; this
carries `WorkingRoomIsOwned`, and with the uniqueness of the holder
`OneWorkingRoom`. `StageMatchesRoom` says what a room has in each stage, so that
a fence always finds its room, but for a name that a late conflict has fenced
(`refenced`): nothing ties it to a room, and the lock does not depend on it. `BehindIsTold` makes `StaleRoomIsTold` inductive by
starting at the read, where the room is not open yet, and by measuring a saved
room by the revision its answer will bring. Assumed: the bounds are numbers, and
nobody is not a holder.

`EditSession_proofs`, for every set of members and every bound: each safety property of
the run `session_room`. The invariant ties the session to what drives it (its timer,
an operation of the queue or a finalization in its place) and the pending contributors
to the edits of the change set, the batch, and the call that is in flight; a captured
contributor stays remembered until the answer that clears it. `MiscreditsAreLate` is what
is true where `AttributionExact` is not: when a save takes its edits, all of them are its
contributor's, unless that contributor was saved since the save was asked for
(finding 3), or a finalization was given up. It needs, beyond that invariant, that no two
members are pending at once (`OneEditor`).

`RoomAdmission_proofs`, for every set of clients, every limit and lifetime of tokens:
`EditsOfThisLoadAlways`, `FrameWasAllowedAlways`, `RecentTokenKeptAlways`, `TypeCorrect`.
The first needs that tokens and accepted admissions are of the epoch, and the epoch of
the load, that is open; whoever holds neither has an empty document or one the gate
turns away. The limit needs counting: every token remembers a use of the epoch
(`RegistryOk`), no two uses have one order, so the tokens after a token are injected
into the uses after its use, and the tokens kept into `0 .. MaxTokens - 1`.

`CollabService_proofs` (with lemmas in `RoomPresence_proofs`), for every number of
messages, workers, rooms, clients, sockets, members and retries: each safety property
of the run `service`, and `ServiceImplementsDurableQueue`, the refinement of
`DurableQueue`: a read is a delivery until the count is at its limit, a handler's commit is
`Do` wherever the message is by then, and what only moves workers or visibility stutters.
A message's deliveries carry why it may be settled; a covered
stale room has its notification in the listener's chain; under a key that nobody crossed,
the drain tracks as many connections as were counted and have not left; a pending
admission is that of a client that authenticates or is connected, or was stranded by the
failed load of another one and its socket is still open; a timer always
holds the request it was set for.

`FormRoom_proofs`, for every set of requests and every scenario: `TypeCorrect`,
`ForeignWriteIsKeptAlways`, `AckedPatchIsStoredOnceAlways`, and `SchemaOnlyGrowsAlways`, an
action property no run repeats. The argument goes by revisions: while the kept revision is
older than the stored one no save succeeds; otherwise the live document was read or saved
at that revision, and holds what the store does (`Inv`). Patches of a name wait for each
other, so that one patch at a time is being saved, and its place in the stored schema is
known. That an acknowledged patch is stored at every moment, and not only when the queues
are empty, takes a second invariant (`SchemaInv`): what is stored is the live document's
schema, or that with the one patch whose save was made and not answered yet, which
the document has not acknowledged; a save that may still succeed is in the same relation;
and no document, of this load or an earlier one, knows a patch that is not stored.

`MetadataMerge_proofs`: for lists and for records, an unopposed request stores what its
author desired, a request never undoes a peer's change its author did not make, one
sent twice changes nothing more, and requests that do not oppose each other may be
stored in either order.

Only model-checked, because liveness under fairness is out of the prover's reach:
`UnsavedEventuallySettles`, `SessionSettles`, `FencedIsReleased`, `FencedRoomIsFreed`,
`ClientIsAnswered`, `MessageSettles`. Assumed everywhere: what the `ASSUME`s of the
modules name (numbers, subsets and sentinels), and in the last resort that each module
is what its code does.

## What the code does at the edges

Met while modelling, and worth knowing when one of these parts changes. Where a
property speaks of "unless", it is for one of these.

* A connection that resumes an accepted admission to a preview whose target is missing
  is not made read-only (`C/block-room-protocol.ts:138` returns before `:152`), although
  a test calls the preview read-only (`C/block-room-protocol.test.ts:808`).
* A metadata request is gated before it waits in the queue (`C/block-room-protocol.ts:326`)
  and runs by document name (`C/resident-block-runtime.ts:387`): after an unload and a reload
  it commits under the new load's revision and then fails to acknowledge it.
* A client that resumes gets no bootstrap and no metadata.
* A persist.now, metadata save or form patch whose room was invalidated and unloaded while
  the API had it, and which then conflicts, fences the name again
  (`C/document-hooks.ts:181`, `C/revision-conflict-guard.ts:140`). If there is no room,
  authentications are answered `reload_required` until a restart. If there is the next one,
  it refuses new connections and saves, and its clients stay: a fence that finds the name
  fenced closes nobody (`:137`). `FenceIsOfRoom` and `FencedRoomIsFreed` except
  these names (`refenced`).
* When a document fails to load, only the client that started the load has its admission
  released (`C/document-hooks.ts:301-308`). Others who waited for the same load are refused,
  and their admissions stay pending until their sockets close; a shutdown may wait for
  them to its deadline (`DrainIsExact` excepts them, `stranded`).
* A room fenced by a save's conflict keeps its AI request's timer, which invalidation
  cancels; it stays loaded for the grace period.
* The shutdown drain, and the table of awareness owners, know a connection by its document
  and socket. Overlapping connections of one key whose hooks come out of order may end
  the drain early or make it wait for its deadline (`DrainIsExact` excepts `crossed`
  keys), or leave awareness ids owned until the room unloads (`PresenceIsReleased` excepts
  `shared` ones, `C/connection-handler-helpers.ts:281`).
* The server listens before it subscribes to content updates (`C/runtime.ts:172`, `:178`):
  rooms loaded in between are not closed by an update (`StaleIsHeard` speaks of `covered`
  rooms). It is the same after messaging was stopped.
* A message whose file was attached may still be archived, if its completions fail
  and a later delivery's handler throws.
* A store captured while a schema patch is being saved is queued behind it and sent
  with the revision the patch returned: it writes the old schema back, and the
  acknowledged patch is gone at the next load (`C/document-persistence.ts:105`,
  `C/form-schema-protocol.ts:267`; `AckedPatchIsStoredOnce` excepts `overtaken` by "patch").
* A save queued in one load may be sent in the next, with the revision of that load, over
  the change that load was for (`handlers/form.ts:137`; `ForeignWriteIsKept` excepts "load").
  A late answer sets the revision of the later load (`:163`; "answer").
* Handlers advance the captured copy, not the live document
  (`C/document-persistence.ts:145`): a form locale created by the room's own save stays
  missing for patches until the room is loaded again.
* An email layout never loads in a locale it lacks (`handlers/email-layout.ts:149`).

## Plan

The plan went by what the service can lose, and its modules are written: the resident
room and its refinement, sessions, ownership, admission, forms and generic documents,
queue, signals, shutdown and presence, each with its run, and all their safety
properties proved. What is left, in this order:

1. The composition of `ResidentPersistence` with `EditSession` in one module: each models
   the other's part as far as it needs, and they meet in the room's queue.
2. The sequence of metadata updates of one room, and what a metadata answer carries to
   peers, on top of `MetadataMerge`.
3. The split of a batch into structure, base and locale mutations, with the two
   revisions told apart.
4. The begin and end markers of interactive mutations.

## Not modelled

* API clients and resource gateways are the environment of the models: what they
  answer is chosen freely among what the code tells apart.
* Converters (`lib/convert/`), durable media, layouts and wire formats are pure functions
  whose properties would be about formats: about a third of the implementation.
* The structural checks of a frame (schemas, placements, locales) are a choice of the
  model to let it pass or not.
* The end of edit sessions at shutdown: `CollabService` ends each wait by its drain or its
  deadline, in the order of `C/server.ts:418-446`, but has no sessions, and `EditSession`
  has no shutdown. A finalization that stores after its lock was released is checked by
  the API's revision only, like the save of a process that lost its lock in
  `RoomLifecycle`.
* A signal that is lost because its handler failed is in neither `RoomLifecycle` nor
  `SignalRelay`; and `RoomLifecycle` takes every process as subscribed.
* In `MetadataMerge` lists are sets. The code keeps the current order
  (`C/resident-metadata-merge.ts:39-42`): that an unopposed reordering is dropped, and that
  requests merged in another order leave their additions in another order, cannot be
  said there. The theorems are about which elements a list has.
* In `ResidentPersistence`: the refusal of a save without contributors before its change
  set is taken (`C/resident-block-persistence.ts:252-254`), a metadata call that fails without
  a commit or lands after its room was unloaded, and what a mutation leaves whose
  application fails half way (the room is fenced; its document is taken as unchanged).
* Health checks, configuration, logging, telemetry, benchmarks and scripts change no
  state of the service.

`PROJECT.json` says of each component what is modelled of it, and lists the hazards with
the properties that are about them.
