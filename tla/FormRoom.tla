------------------------------- MODULE FormRoom -------------------------------
(***************************************************************************)
(* The room of a document that is saved as a whole: the queue of captured  *)
(* saves (lib/collaboration/document-persistence.ts), the handlers of      *)
(* forms, menus, post series, email layouts and map themes (handlers/),    *)
(* and the patches of a form's schema (form-schema-protocol.ts).           *)
(*                                                                         *)
(* A save is captured when it is called and sent when the queue of its     *)
(* NAME reaches it, against the revision the handler keeps for that NAME.  *)
(* Patches wait in a queue of the name as well, each with the document it  *)
(* was sent to.  The room may be patched, fenced, unloaded and loaded      *)
(* again while they wait.                                                  *)
(*                                                                         *)
(* Abstractions.  One process and one document.  Its content is the title, *)
(* numbered by the edits, the schema, which is the sequence of the patches *)
(* in it, and the last of the changes made behind the room.  The locale    *)
(* and the source of a revision are one.  Who edits, and the lane edits    *)
(* wait in, are in EditSession; the lock in RoomLifecycle.                 *)
(***************************************************************************)
EXTENDS Naturals, Sequences, FiniteSets

CONSTANTS
    Requests,  \* schema patches: a requestId with the member it is of
    Remembered, \* accepted requests a document remembers, 256 in the code
    Scenarios  \* types of document, and how often each kind of event may happen

\* The kinds of event a scenario bounds.
\* A "fault" is a save that is refused, or one whose answer is lost.
Kinds == {"edit", "patch", "store", "foreign", "load", "fault"}

DocumentTypes == {"form", "menu", "post-series", "email-layout", "map-theme"}

\* What the handler of a document does its own way: it keeps the source locale apart
\* from the revision, and saves nothing without it; it does not save again what it
\* saved last; it loads a locale that is not there; it may find the document invalid;
\* it forgets the revision when a save conflicts.
formHandler == {"source", "skips", "missing"}
menuHandler == {"source", "skips", "missing"}
postSeriesHandler == {"source", "skips", "missing"}
emailLayoutHandler == {}
mapThemeHandler == {"validates", "forgets"}

handlers == [t \in DocumentTypes |->
    CASE t = "form" -> formHandler
      [] t = "menu" -> menuHandler
      [] t = "post-series" -> postSeriesHandler
      [] t = "email-layout" -> emailLayoutHandler
      [] t = "map-theme" -> mapThemeHandler]

ASSUME RememberedAssumption == Remembered \in Nat \ {0}
ASSUME ScenariosAssumption ==
    Scenarios \subseteq [type : DocumentTypes, left : [Kinds -> Nat]]

VARIABLES
    type,      \* the type of the document
    store,     \* what the API has
    cas,       \* the handler's maps at the document's name
    room,      \* the document Hocuspocus has under the name
    docs,      \* every document that was loaded, by its load
    edits,     \* mutationSequence
    pending,   \* pendingContributors: the last edit that was not saved, or 0
    patches,   \* documentQueues of the protocol
    jobs,      \* persistQueues
    overtaken, \* history: what a save was behind when it was sent or answered
    writes,    \* history: how often the document was written behind the room
    left       \* how often each kind of event may still happen

history == <<overtaken, writes>>
vars == <<type, store, cas, room, docs, edits, pending, patches, jobs, history, left>>

-----------------------------------------------------------------------------
(* Data.                                                                   *)

\* The requests whose patches made the schema, in their order.
Schema == Seq(Requests)
Content == [schema : Schema, title : Nat, foreign : Nat]
Stored == [rev : Nat, content : Content, exists : BOOLEAN]

\* A revision or 0, the snapshot that was last saved under it, and whether the
\* source locale is kept, which only a load sets.
Empty == [schema |-> <<>>, title |-> 0, foreign |-> 0]
Cas == [rev : Nat, last : Content, loaded : BOOLEAN]
NoCas == [rev |-> 0, last |-> Empty, loaded |-> FALSE]

\* A Y.Doc, the room snapshot in it, and what acceptedRequests has for it.
\* `base`, `acked` and `evicted` are history: how much of the schema was loaded,
\* which requests were acknowledged, and which of them are forgotten.
Doc == [content : Content, base : Nat, exists : BOOLEAN, stale : BOOLEAN,
        accepted : Seq(Requests), acked : SUBSET Requests,
        evicted : SUBSET Requests]

Room == [stage : {"none", "reading", "read", "open"}, rev : Nat,
         fenced : BOOLEAN, members : BOOLEAN]

Patch == [req : Requests, load : Nat \ {0}, saving : BOOLEAN]
Job == [patch : BOOLEAN, load : Nat \ {0}, content : Content, edit : Nat,
        step : {"queued", "sent", "saved", "conflict", "failed"}, rev : Nat]

TypeOK ==
    /\ type \in DocumentTypes
    /\ store \in Stored /\ cas \in Cas /\ room \in Room
    /\ docs \in Seq(Doc)
    /\ \A l \in DOMAIN docs : Len(docs[l].accepted) <= Remembered
    /\ edits \in Nat /\ pending \in 0 .. edits
    /\ patches \in Seq(Patch) /\ jobs \in Seq(Job)
    /\ overtaken \subseteq {"load", "patch", "answer"} /\ writes \in Nat
    /\ left \in [Kinds -> Nat]

Spend(kind) ==
    /\ left[kind] > 0
    /\ left' = [left EXCEPT ![kind] = @ - 1]

\* The load the room is of, and its document.
Load == Len(docs)
Live == docs[Load]
Open == room.stage = "open"

\* A map theme has one locale, which is there.
HasLocales == type # "map-theme"

Does(what) == what \in handlers[type]

\* acquire and release are in RoomLifecycle.
ownsDocument == room.stage # "none"

-----------------------------------------------------------------------------

Init ==
    /\ \E scenario \in Scenarios : type = scenario.type /\ left = scenario.left
    /\ \E exists \in BOOLEAN :
          /\ exists \/ HasLocales
          /\ store = [rev |-> 1, content |-> Empty, exists |-> exists]
    /\ cas = NoCas
    /\ room = [stage |-> "none", rev |-> 0, fenced |-> FALSE, members |-> FALSE]
    /\ docs = <<>>
    /\ edits = 0 /\ pending = 0 /\ patches = <<>> /\ jobs = <<>>
    /\ overtaken = {} /\ writes = 0

-----------------------------------------------------------------------------
(* The fence (revision-conflict-guard.ts).                                 *)

\* The document is stale and its name fenced; the first fence of the name closes
\* the connections of that document.
FencedRoom(load) ==
    [room EXCEPT !.fenced = TRUE,
                 !.members = @ /\ (room.fenced \/ load # Load)]

Staled(load) == [docs EXCEPT ![load].stale = TRUE]

CasAfterConflict ==
    IF Does("forgets") /\ ~ room.fenced THEN NoCas ELSE cas

-----------------------------------------------------------------------------
(* Loading and unloading (document-hooks.ts).                              *)

\* onAuthenticate refuses a fenced name; onLoadDocument of a new document.
BeginLoad ==
    /\ room.stage = "none" /\ ~ room.fenced
    /\ Spend("load")
    /\ room' = [room EXCEPT !.stage = "reading"]
    /\ UNCHANGED <<type, store, cas, docs, edits, pending, patches, jobs, history>>

\* The API reads the document.
Read ==
    /\ room.stage = "reading"
    /\ room' = [room EXCEPT !.stage = "read", !.rev = store.rev]
    /\ docs' = Append(docs, [content |-> store.content,
                             base |-> Len(store.content.schema),
                             exists |-> store.exists, stale |-> FALSE,
                             accepted |-> <<>>, acked |-> {}, evicted |-> {}])
    /\ UNCHANGED <<type, store, cas, edits, pending, patches, jobs, history, left>>

Loadable == Live.exists \/ Does("missing")

\* The handler keeps the revision and the snapshot of what it read.
Loaded ==
    /\ room.stage = "read" /\ ~ room.fenced /\ Loadable
    /\ room' = [room EXCEPT !.stage = "open", !.members = TRUE]
    /\ cas' = [rev |-> room.rev, last |-> Live.content, loaded |-> TRUE]
    /\ UNCHANGED <<type, store, docs, edits, pending, patches, jobs, history, left>>

\* clearTransientDocumentState and unfence.
Forget ==
    /\ room' = [room EXCEPT !.stage = "none", !.fenced = FALSE, !.members = FALSE]
    /\ cas' = NoCas

\* The API does not answer, the document is not there, or the name was fenced.
LoadFails ==
    /\ room.stage \in {"reading", "read"}
    /\ Forget
    /\ UNCHANGED <<type, store, docs, edits, pending, patches, jobs, history, left>>

Leave ==
    /\ Open /\ room.members
    /\ room' = [room EXCEPT !.members = FALSE]
    /\ UNCHANGED <<type, store, cas, docs, edits, pending, patches, jobs, history, left>>

\* A further connection.
Join ==
    /\ Open /\ ~ room.members /\ ~ room.fenced
    /\ room' = [room EXCEPT !.members = TRUE]
    /\ UNCHANGED <<type, store, cas, docs, edits, pending, patches, jobs, history, left>>

\* A store of the document is under way.
Storing == \E i \in DOMAIN jobs : ~ jobs[i].patch /\ jobs[i].load = Load

\* afterUnloadDocument.  Hocuspocus stores a changed room first, and keeps it
\* when that fails; what is fenced is discarded.
Unload ==
    /\ Open /\ ~ room.members
    /\ room.fenced \/ (pending = 0 /\ ~ Storing)
    /\ Forget
    /\ pending' = 0
    /\ UNCHANGED <<type, store, docs, edits, patches, jobs, history, left>>

\* The document is written behind the room; the notification comes later.
ForeignWrite ==
    /\ Spend("foreign")
    /\ writes' = writes + 1
    /\ store' = [store EXCEPT !.rev = @ + 1, !.content.foreign = writes + 1,
                              !.exists = TRUE]
    /\ UNCHANGED <<type, cas, room, docs, edits, pending, patches, jobs, overtaken>>

\* The room is invalidated, or its lock is lost: only the room is fenced if it has
\* no document yet.
Invalidated ==
    /\ ownsDocument /\ ~ room.fenced
    /\ IF Open
       THEN room' = FencedRoom(Load) /\ docs' = Staled(Load)
       ELSE room' = [room EXCEPT !.fenced = TRUE] /\ UNCHANGED docs
    /\ UNCHANGED <<type, store, cas, edits, pending, patches, jobs, history, left>>

-----------------------------------------------------------------------------
(* Edits, and the saves that are captured.                                 *)

\* A frame of the document; one that changes the schema of a form is refused.
Edit ==
    /\ Open /\ room.members
    /\ Spend("edit")
    /\ edits' = edits + 1
    /\ docs' = [docs EXCEPT ![Load].content.title = edits + 1]
    /\ pending' = edits + 1
    /\ UNCHANGED <<type, store, cas, room, patches, jobs, history>>

\* assertWritable
Writable == Open /\ ~ Live.stale /\ ~ room.fenced

\* persistCollaborativeDocument captures the state it is called with.
Captured(load, content, patch) ==
    [patch |-> patch, load |-> load, content |-> content, edit |-> pending,
     step |-> "queued", rev |-> 0]

\* persistWith, of a store, of persist.now, or before the edit of another
\* member: nothing is saved when no edit is pending.
Store ==
    /\ Writable /\ pending # 0
    /\ Spend("store")
    /\ jobs' = Append(jobs, Captured(Load, Live.content, FALSE))
    /\ UNCHANGED <<type, store, cas, room, docs, edits, pending, patches, history>>

-----------------------------------------------------------------------------
(* Schema patches.                                                         *)

\* handleStateless
PatchArrives(r) ==
    /\ type = "form" /\ Open /\ room.members
    /\ Spend("patch")
    /\ patches' = Append(patches, [req |-> r, load |-> Load, saving |-> FALSE])
    /\ UNCHANGED <<type, store, cas, room, docs, edits, pending, jobs, history>>

\* A patch whose turn has come.
Turn == patches # <<>> /\ ~ Head(patches).saving

\* Not of an editor, not of this document, of a locale that is not there, or not
\* one that can be applied.
PatchRefused ==
    /\ Turn
    /\ patches' = Tail(patches)
    /\ UNCHANGED <<type, store, cas, room, docs, edits, pending, jobs, history, left>>

\* assertOwnedRoom
OwnedRoom(load) == ownsDocument /\ ~ docs[load].stale /\ ~ room.fenced

PatchConflicts ==
    LET load == Head(patches).load
    IN  /\ Turn /\ ~ OwnedRoom(load)
        /\ patches' = Tail(patches)
        /\ room' = FencedRoom(load) /\ docs' = Staled(load)
        /\ UNCHANGED <<type, store, cas, edits, pending, jobs, history, left>>

\* patchScope: the room knows its locale exists.
Patchable == Turn /\ OwnedRoom(Head(patches).load) /\ docs[Head(patches).load].exists

hasAcceptedRequest(doc, r) == \E i \in DOMAIN doc.accepted : doc.accepted[i] = r

\* A request that was accepted before is answered again.
PatchKnown ==
    /\ Patchable
    /\ hasAcceptedRequest(docs[Head(patches).load], Head(patches).req)
    /\ patches' = Tail(patches)
    /\ UNCHANGED <<type, store, cas, room, docs, edits, pending, jobs, history, left>>

\* Variant with a bug: an accepted request is not remembered.
CacheNothing(doc, r) == [doc EXCEPT !.acked = @ \cup {r}]

\* Variant with a bug: one request too many is remembered.
CacheOneMore(doc, r) ==
    LET queue == Append(doc.accepted, r)
        full == Len(queue) > Remembered + 1
    IN  [doc EXCEPT !.accepted = IF full THEN Tail(queue) ELSE queue,
                    !.acked = @ \cup {r},
                    !.evicted = IF full THEN @ \cup {Head(queue)} ELSE @]

\* The request is remembered, and the oldest one forgotten at the limit.
cacheAcceptedRequest(doc, r) ==
    LET queue == Append(doc.accepted, r)
        full == Len(queue) > Remembered
    IN  [doc EXCEPT !.accepted = IF full THEN Tail(queue) ELSE queue,
                    !.acked = @ \cup {r},
                    !.evicted = IF full THEN @ \cup {Head(queue)} ELSE @]

\* applyFormSchemaPatch: the schema already has what the patch asks for.
Has(schema, r) == schema # <<>> /\ schema[Len(schema)] = r

Applied(doc, r) == [doc EXCEPT !.content.schema = Append(@, r)]

\* Nothing has to be saved.
PatchChangesNothing ==
    LET load == Head(patches).load
        r == Head(patches).req
    IN  /\ Patchable
        /\ ~ hasAcceptedRequest(docs[load], r)
        /\ Has(docs[load].content.schema, r)
        /\ docs' = [docs EXCEPT ![load] = cacheAcceptedRequest(@, r)]
        /\ patches' = Tail(patches)
        /\ UNCHANGED <<type, store, cas, room, edits, pending, jobs, history, left>>

\* persistCanonicalPatch saves a copy of the document with the new schema.
PatchSaves ==
    LET load == Head(patches).load
        r == Head(patches).req
    IN  /\ Patchable
        /\ ~ hasAcceptedRequest(docs[load], r)
        /\ ~ Has(docs[load].content.schema, r)
        /\ jobs' = Append(jobs, Captured(load, Applied(docs[load], r).content, TRUE))
        /\ patches' = [patches EXCEPT ![1].saving = TRUE]
        /\ UNCHANGED <<type, store, cas, room, docs, edits, pending, history, left>>

-----------------------------------------------------------------------------
(* The queue of saves.                                                     *)

\* sameSnapshot
Unchanged(j) == Does("skips") /\ cas.last = j.content

\* The handler has what a save is made with.
CanSave == cas.rev # 0 /\ (Does("source") => cas.loaded)

\* What the save is behind: the room was loaded again after it was captured, or
\* its schema patched.
Behind(j) ==
    IF j.load # Load THEN {"load"}
    ELSE IF ~ j.patch /\ j.content.schema # Live.content.schema THEN {"patch"}
    ELSE {}

At(step) == jobs # <<>> /\ Head(jobs).step = step

\* The save succeeds: the patch is made, the edit is no longer pending.
JobSucceeds(j) ==
    /\ jobs' = Tail(jobs)
    /\ IF j.patch
       THEN /\ docs' = [docs EXCEPT ![j.load] =
                          cacheAcceptedRequest(Applied(@, Head(patches).req),
                                               Head(patches).req)]
            /\ patches' = Tail(patches)
            /\ UNCHANGED pending
       ELSE /\ pending' = IF pending = j.edit THEN 0 ELSE pending
            /\ UNCHANGED <<docs, patches>>

\* It fails: a patch is answered, a store is left to the next one.
JobFails(j) ==
    /\ jobs' = Tail(jobs)
    /\ patches' = IF j.patch THEN Tail(patches) ELSE patches

\* The document was unloaded, or is being loaded.
NotLoaded ==
    /\ At("queued") /\ ~ CanSave
    /\ JobFails(Head(jobs))
    /\ UNCHANGED <<type, store, cas, room, docs, edits, pending, history, left>>

\* A map theme that does not parse is not sent.
Invalid ==
    /\ At("queued") /\ CanSave
    /\ Does("validates") /\ Spend("fault")
    /\ JobFails(Head(jobs))
    /\ UNCHANGED <<type, store, cas, room, docs, edits, pending, history>>

\* What was saved last is not saved again.
NothingToSave ==
    /\ At("queued") /\ CanSave
    /\ Unchanged(Head(jobs))
    /\ JobSucceeds(Head(jobs))
    /\ UNCHANGED <<type, store, cas, room, edits, history, left>>

\* The save is sent, against the revision the handler has now.
Send ==
    /\ At("queued") /\ CanSave
    /\ ~ Unchanged(Head(jobs))
    /\ jobs' = [jobs EXCEPT ![1].step = "sent", ![1].rev = cas.rev]
    /\ overtaken' = overtaken \cup Behind(Head(jobs))
    /\ UNCHANGED <<type, store, cas, room, docs, edits, pending, patches, writes, left>>

\* The API saves the document against the revision it was sent with, or not.
Commit ==
    LET j == Head(jobs)
    IN  /\ At("sent")
        /\ IF j.rev = store.rev
           THEN /\ store' = [rev |-> store.rev + 1, content |-> j.content,
                             exists |-> TRUE]
                /\ jobs' = [jobs EXCEPT ![1].step = "saved", ![1].rev = @ + 1]
           ELSE /\ jobs' = [jobs EXCEPT ![1].step = "conflict"]
                /\ UNCHANGED store
        /\ UNCHANGED <<type, cas, room, docs, edits, pending, patches, history, left>>

\* It refuses the save.
Refused ==
    /\ At("sent")
    /\ Spend("fault")
    /\ jobs' = [jobs EXCEPT ![1].step = "failed"]
    /\ UNCHANGED <<type, store, cas, room, docs, edits, pending, patches, history>>

\* Its answer is lost.
AnswerLost ==
    /\ At("saved")
    /\ Spend("fault")
    /\ jobs' = [jobs EXCEPT ![1].step = "failed"]
    /\ UNCHANGED <<type, store, cas, room, docs, edits, pending, patches, history>>

\* Variant with a bug: the revision is the one the document has by now.
NewestCas(j) == [cas EXCEPT !.rev = store.rev, !.last = j.content]

\* The revision of the answer, which the next save is sent with.
NextCas(j) == [cas EXCEPT !.rev = j.rev, !.last = j.content]

\* The room was loaded again when the answer came.
AnsweredLate(j) == IF j.load # Load THEN {"answer"} ELSE {}

Saved ==
    /\ At("saved")
    /\ cas' = NextCas(Head(jobs))
    /\ JobSucceeds(Head(jobs))
    /\ overtaken' = overtaken \cup AnsweredLate(Head(jobs))
    /\ UNCHANGED <<type, store, room, edits, writes, left>>

Failed ==
    /\ At("failed")
    /\ JobFails(Head(jobs))
    /\ UNCHANGED <<type, store, cas, room, docs, edits, pending, history, left>>

\* The document of the save is fenced, if its name is not.
Conflicts ==
    LET j == Head(jobs)
    IN  /\ At("conflict")
        /\ JobFails(j)
        /\ room' = FencedRoom(j.load) /\ docs' = Staled(j.load)
        /\ cas' = CasAfterConflict
        /\ UNCHANGED <<type, store, edits, pending, history, left>>

-----------------------------------------------------------------------------

Next ==
    \/ BeginLoad \/ Read \/ Loaded \/ LoadFails \/ Leave \/ Join \/ Unload
    \/ ForeignWrite \/ Invalidated \/ Edit \/ Store
    \/ \E r \in Requests : PatchArrives(r)
    \/ PatchRefused \/ PatchConflicts \/ PatchKnown \/ PatchChangesNothing
    \/ PatchSaves
    \/ NotLoaded \/ Invalid \/ NothingToSave \/ Send \/ Commit \/ Refused \/ AnswerLost
    \/ Saved \/ Failed \/ Conflicts

Spec == Init /\ [][Next]_vars

-----------------------------------------------------------------------------
(* Properties.                                                             *)

\* Where the request is in the stored schema.
Places(r) == {i \in DOMAIN store.content.schema : store.content.schema[i] = r}

\* A patch that was acknowledged, in this load of the room or in an earlier one, is
\* in the stored schema, and the room that has it remembered put it there at most
\* once: at every moment, however often it was sent, whatever is saved around it, and
\* whichever saves fail or are not answered - as long as no older save was sent after
\* it, and none was answered after the room was loaded again
\* (persistCanonicalPatch, cacheAcceptedRequest).
AckedPatchIsStoredOnce ==
    overtaken = {} =>
        /\ \A l \in DOMAIN docs : \A r \in docs[l].acked : Places(r) # {}
        /\ docs # <<>> =>
              \A r \in Live.acked \ Live.evicted :
                  Cardinality({i \in Places(r) : i > Live.base}) <= 1

\* A change made behind the room is never written over by a room that had not
\* read it, however its saves wait, fail or are answered late - as long as no save
\* of an earlier room was sent with the revision of a later one
\* (storeFormCanonicalDocument, clearTransientDocumentState).
ForeignWriteIsKept ==
    "load" \notin overtaken => store.content.foreign = writes

\* The stored schema loses no patch and is never rewritten: a step leaves it, or adds
\* one patch at its end - as long as no save was sent behind another or answered late
\* (applyFormSchemaPatch, storeFormCanonicalDocument).
SchemaOnlyGrows ==
    [][overtaken' = {} =>
          \/ store'.content.schema = store.content.schema
          \/ \E r \in Requests :
                store'.content.schema = Append(store.content.schema, r)]_vars

=============================================================================
