------------------------------ MODULE SignalRelay ------------------------------
(***************************************************************************)
(* PostgreSQL notifications and the subscribers that pass them on to the   *)
(* resident rooms: lib/postgresql/messaging-signals.ts, events/subscriber, *)
(* transcode-subscriber, translation-subscriber and                        *)
(* content-updated-subscriber, and lib/entity-document-broadcast.ts.       *)
(*                                                                         *)
(* Notifications are heard only while their subscriber listens, one after  *)
(* the other.  Most only tell the clients of some rooms; an update of the  *)
(* stored content closes the rooms it made stale.                          *)
(*                                                                         *)
(* Abstractions.  A room is an entity and a locale, with clients or not.   *)
(* It is read and closed in one step (RoomLifecycle has the details).  Of  *)
(* an event only what decides who is told or closed is kept.               *)
(***************************************************************************)
EXTENDS Naturals, Sequences

CONSTANTS
    Entities,
    Locales,
    Source      \* the source locale of every entity

ASSUME SourceAssumption == Source \in Locales

VARIABLES
    rooms,      \* the resident rooms, and whether an outside change passed them
    listening,  \* the signals LISTENed to, or NoSignals once the clients ended
    inbox       \* by signal: notifications received and not handled yet

signalVars == <<rooms, listening, inbox>>

-----------------------------------------------------------------------------
(* Data.                                                                   *)

Rooms == Entities \X Locales
EntityOf(room) == room[1]
LocaleOf(room) == room[2]

\* `covered`: content updates were listened to when the room was read.
Room == [here : BOOLEAN, clients : BOOLEAN, stale : BOOLEAN,
         covered : BOOLEAN, told : BOOLEAN]
Absent == [here |-> FALSE, clients |-> FALSE, stale |-> FALSE,
           covered |-> FALSE, told |-> FALSE]

Signals == {"og", "content", "media", "translation"}

\* ContentUpdatedEvent: who made it and which of its optional fields it has.
ContentEvents ==
    [source : {"collab", "external", "unsupported"}, revision : BOOLEAN,
     locale : BOOLEAN, exists : {"unset", "true", "false"}, target : BOOLEAN,
     advances : BOOLEAN]

\* Of the other events, what their subscriber tells apart.
OgEvents == {"entity", "route", "polled", "malformed"}
MediaEvents == {"track", "other", "malformed"}
TranslationEvents == {"failed", "applied", "no document", "unknown", "malformed"}

\* A notification: its event, and the room whose entity or locale it names.
Notification(events) == [event : events, room : Rooms]
Notifications ==
    [og |-> Notification(OgEvents), content |-> Notification(ContentEvents),
     media |-> Notification(MediaEvents),
     translation |-> Notification(TranslationEvents)]

SignalTypeOK ==
    /\ rooms \in [Rooms -> Room]
    /\ listening \subseteq Signals
    /\ DOMAIN inbox = Signals
    /\ \A s \in Signals : inbox[s] \in Seq(Notifications[s])

InitSignals ==
    /\ rooms = [r \in Rooms |-> Absent]
    /\ listening = {}
    /\ inbox = [s \in Signals |-> << >>]

\* entity-document-broadcast.ts: the documents a payload goes to, before those
\* without connections are passed over.
LocaleDocument(room) == {room}
EntityDocuments(room) == {r \in Rooms : EntityOf(r) = EntityOf(room)}
DocumentsOfType(room) == Rooms

Tell(documents) ==
    rooms' = [r \in Rooms |->
                IF r \in documents /\ rooms[r].here /\ rooms[r].clients
                THEN [rooms[r] EXCEPT !.told = TRUE] ELSE rooms[r]]

-----------------------------------------------------------------------------
(* The database, and rooms.                                                *)

RoomLoads(r) ==
    /\ ~rooms[r].here
    /\ rooms' = [rooms EXCEPT ![r] =
                   [here |-> TRUE, clients |-> TRUE, stale |-> FALSE,
                    covered |-> "content" \in listening, told |-> FALSE]]
    /\ UNCHANGED <<listening, inbox>>

ClientsLeave(r) ==
    /\ rooms[r].clients
    /\ rooms' = [rooms EXCEPT ![r].clients = FALSE]
    /\ UNCHANGED <<listening, inbox>>

RoomUnloads(r) ==
    /\ rooms[r].here
    /\ ~rooms[r].clients
    /\ rooms' = [rooms EXCEPT ![r] = Absent]
    /\ UNCHANGED <<listening, inbox>>

\* The inboxes once PostgreSQL has notified `notification` on `signal`.
Received(signal, notification) ==
    IF signal \in listening THEN [inbox EXCEPT ![signal] = Append(@, notification)]
    ELSE inbox

Notify(signal, notification) ==
    /\ inbox' = Received(signal, notification)
    /\ UNCHANGED <<rooms, listening>>

Made(stale) ==
    [r \in Rooms |-> IF r \in stale /\ rooms[r].here
                     THEN [rooms[r] EXCEPT !.stale = TRUE] ELSE rooms[r]]

\* The API changes what rooms were read from, and notifies of it: the entity's
\* state (any locale may be named with it) or one translation.
DocumentChanges(room, locale) ==
    /\ rooms' = Made(EntityDocuments(room))
    /\ inbox' = Received("content",
          [room |-> room,
           event |-> [source |-> "external", revision |-> TRUE, locale |-> locale,
                      exists |-> IF locale THEN "true" ELSE "unset",
                      target |-> FALSE, advances |-> TRUE]])
    /\ UNCHANGED listening

TranslationChanges(room, exists) ==
    /\ LocaleOf(room) # Source
    /\ rooms' = Made(LocaleDocument(room))
    /\ inbox' = Received("content",
          [room |-> room,
           event |-> [source |-> "external", revision |-> TRUE, locale |-> TRUE,
                      exists |-> IF exists THEN "true" ELSE "false",
                      target |-> exists, advances |-> FALSE]])
    /\ UNCHANGED listening

-----------------------------------------------------------------------------
(* startSignalSubscriber.                                                  *)

Listen(signal) ==
    /\ signal \notin listening
    /\ listening' = listening \cup {signal}
    /\ UNCHANGED <<rooms, inbox>>

StopListening ==
    /\ listening' = {}
    /\ UNCHANGED <<rooms, inbox>>

SignalsLost ==
    /\ rooms' = [r \in Rooms |-> Absent]
    /\ listening' = {}
    /\ inbox' = [s \in Signals |-> << >>]

SignalsDone == \A s \in Signals : inbox[s] = << >>

\* The handler of the oldest notification of `signal` has run, or thrown.
Handled(signal) == inbox' = [inbox EXCEPT ![signal] = Tail(@)]
Oldest(signal) == Head(inbox[signal])

\* OG lifecycle: locale-scoped ones too go to all rooms of their entity, those
\* of a privacy policy or terms to all rooms of the type, some to nobody.
resolveOgTarget(n) ==
    CASE n.event = "entity" -> EntityDocuments(n.room)
      [] n.event = "route" -> DocumentsOfType(n.room)
      [] n.event = "polled" -> {}

toRuntimeEvent(n) == n.event # "malformed"

HandleOgLifecycle ==
    /\ inbox["og"] # << >>
    /\ Handled("og")
    /\ LET n == Oldest("og")
       IN  IF toRuntimeEvent(n) THEN Tell(resolveOgTarget(n)) ELSE UNCHANGED rooms
    /\ UNCHANGED listening

\* Media processing concerns tracks, and goes to the rooms of their release.
runtimeEventFromLifecycleProto(n) == n.event = "track"

HandleMediaProcessing ==
    /\ inbox["media"] # << >>
    /\ Handled("media")
    /\ LET n == Oldest("media")
       IN  IF runtimeEventFromLifecycleProto(n) THEN Tell(EntityDocuments(n.room))
           ELSE UNCHANGED rooms
    /\ UNCHANGED listening

\* A translation that failed is told to the room of its locale; one that was
\* applied is a content update of its own.
translationDocumentTarget(n) ==
    IF n.event = "failed" THEN LocaleDocument(n.room) ELSE {}

HandleTranslationMessage ==
    /\ inbox["translation"] # << >>
    /\ Handled("translation")
    /\ Tell(translationDocumentTarget(Oldest("translation")))
    /\ UNCHANGED listening

hasLocaleTuple(event) == event.locale \/ event.exists # "unset" \/ event.target

\* localeContentUpdateFence throws for an update whose fields do not agree.
localeContentUpdateRefused(event) ==
    \/ ~event.locale
    \/ event.exists = "unset"
    \/ ~event.revision
    \/ event.exists = "false" /\ (event.target \/ event.advances)
    \/ event.exists = "true" /\ (event.target <=> event.advances)

\* Variant with a bug: an update that names a locale concerns its room.
LocaleFenceOfLocale(n) == LocaleDocument(n.room)

\* Deleting or changing a translation concerns its room; changing the source
\* locale advances the revision that every room of the entity is based on.
localeContentUpdateFence(n) ==
    IF n.event.exists = "true" /\ ~n.event.target THEN EntityDocuments(n.room)
    ELSE LocaleDocument(n.room)

\* The rooms an update of this service's own, of an unknown source or without
\* a document revision closes: none.
externalContentUpdateFence(n) ==
    IF n.event.source # "external" THEN {}
    ELSE IF hasLocaleTuple(n.event)
         THEN IF localeContentUpdateRefused(n.event) THEN {}
              ELSE localeContentUpdateFence(n)
         ELSE IF n.event.revision THEN EntityDocuments(n.room) ELSE {}

\* Only an update that touches no document is a hint to the entity's clients.
broadcastExternalEntityChangedHint(n) ==
    /\ n.event.source = "external"
    /\ ~hasLocaleTuple(n.event)
    /\ ~n.event.revision

HandleContentUpdated ==
    /\ inbox["content"] # << >>
    /\ Handled("content")
    /\ LET n == Oldest("content")
       IN  IF broadcastExternalEntityChangedHint(n) THEN Tell(EntityDocuments(n.room))
           ELSE rooms' = [r \in Rooms |->
                            IF r \in externalContentUpdateFence(n) THEN Absent
                            ELSE rooms[r]]
    /\ UNCHANGED listening

HandleSignal ==
    \/ HandleOgLifecycle \/ HandleMediaProcessing
    \/ HandleTranslationMessage \/ HandleContentUpdated

-----------------------------------------------------------------------------
(* Properties.                                                             *)

\* Will the update close this room?
Closes(n, r) == r \in externalContentUpdateFence(n)

\* A room whose stored content was changed behind it is about to be closed:
\* the notification is still to be handled, and names it.  It speaks of the
\* rooms read since content updates are listened to, for as long as they are.
StaleIsHeard ==
    "content" \in listening =>
        \A r \in Rooms :
            rooms[r].stale /\ rooms[r].covered =>
                \E i \in DOMAIN inbox["content"] : Closes(inbox["content"][i], r)
=============================================================================
