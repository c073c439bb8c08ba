---------------------------- MODULE FormRoom_proofs ----------------------------
(***************************************************************************)
(* The safety of a document that is saved as a whole, for any requests,    *)
(* any number of loads, edits, patches, saves and failures, and every type *)
(* of document.                                                            *)
(*                                                                         *)
(* The argument goes by revisions.  What the handler keeps for a name is   *)
(* either older than the stored document, and then no save made with it    *)
(* succeeds, or it is the revision of it, and then the live document was   *)
(* read at that revision or saved as it: JobsOk and RoomOk.  Of the queues one needs *)
(* to know that a patch is saved alone and nothing overtakes it: WaitOk.   *)
(* DocOk counts how often a request is in a schema.  Upon this stands a    *)
(* second invariant, SchemaInv: what is stored is the live document, or    *)
(* that with the one patch whose save was made and not yet answered.       *)
(***************************************************************************)
EXTENDS FormRoom, FiniteSetTheorems, TLAPS

-----------------------------------------------------------------------------
(* The invariant.                                                          *)

\* A request that is not forgotten was acknowledged exactly if it is remembered,
\* and was then put into the schema, by this load at most once.
RequestOk(d, r) ==
    LET schema == d.content.schema
        added == {i \in DOMAIN schema : schema[i] = r /\ i > d.base}
    IN  /\ r \in d.acked <=> hasAcceptedRequest(d, r)
        /\ r \notin d.acked => added = {}
        /\ r \in d.acked => \E i \in DOMAIN schema : schema[i] = r
        /\ \A i, k \in added : i = k

DocOk(d) ==
    /\ d.base <= Len(d.content.schema)
    /\ Len(d.accepted) <= Remembered
    /\ \A i, k \in DOMAIN d.accepted : d.accepted[i] = d.accepted[k] => i = k
    /\ \A r \in Requests \ d.evicted : RequestOk(d, r)

DocsOk == docs \in Seq(Doc) /\ \A l \in DOMAIN docs : DocOk(docs[l])

\* What a patch's save carries.
CarriesPatch(j, p, ds) ==
    /\ p.saving
    /\ j.load = p.load
    /\ j.content.schema = Append(ds[j.load].content.schema, p.req)
    /\ ~ hasAcceptedRequest(ds[j.load], p.req)
    /\ ~ Has(ds[j.load].content.schema, p.req)

\* Jobs and patches are of documents that were loaded, but not of one that is
\* being loaded; only the first job is under way; and one job at most is a patch's,
\* which then is the first patch that waits.
WaitOk(js, ps, ds, reading) ==
    /\ \A i \in DOMAIN js : js[i].load \in DOMAIN ds /\ (reading => js[i].load # Len(ds))
    /\ \A i \in DOMAIN ps : ps[i].load \in DOMAIN ds /\ (reading => ps[i].load # Len(ds))
    /\ \A i \in DOMAIN js : i # 1 => js[i].step = "queued"
    /\ \A i \in DOMAIN js : js[i].patch => ps # <<>> /\ CarriesPatch(js[i], ps[1], ds)
    /\ \A i, k \in DOMAIN js : js[i].patch /\ js[k].patch => i = k

Reading == room.stage = "read"

QueuesOk == patches \in Seq(Patch) /\ jobs \in Seq(Job) /\ WaitOk(jobs, patches, docs, Reading)

\* The last document read has the foreign change, or the schema, that is stored
\* if `rev` is the stored revision.
ForeignAt(rev, s, ds, w) == ds # <<>> /\ rev = s => ds[Len(ds)].content.foreign = w
SchemaAt(rev, s, ds, schema) == ds # <<>> /\ rev = s => ds[Len(ds)].content.schema = schema

Saving(j) == j.step \in {"sent", "saved"}

\* A save that is under way, or was made, at the stored revision.
JobForeignOk(j, s, ds, w) ==
    /\ Saving(j) => ForeignAt(j.rev, s, ds, w)
    /\ j.step = "sent" /\ j.rev = s => j.content.foreign = w

JobSchemaOk(j, s, ds, schema) ==
    /\ j.step = "saved" /\ j.rev = s => j.content.schema = schema
    /\ Saving(j) /\ ~ j.patch => j.content.schema = ds[j.load].content.schema

JobOk(j) ==
    /\ j.rev <= store.rev
    /\ j.content.foreign = docs[j.load].content.foreign
    /\ "load" \notin overtaken => JobForeignOk(j, store.rev, docs, writes)
    /\ overtaken = {} => JobSchemaOk(j, store.rev, docs, store.content.schema)

JobsOk == \A i \in DOMAIN jobs : JobOk(jobs[i])

\* What the handler keeps at a revision, and what a load has read at one.
RoomOk ==
    /\ room.stage \in {"read", "open"} => docs # <<>>
    /\ store.rev # 0 /\ cas.rev <= store.rev /\ room.rev <= store.rev
    /\ "load" \notin overtaken =>
          /\ store.content.foreign = writes
          /\ ForeignAt(cas.rev, store.rev, docs, writes)
          /\ Reading => ForeignAt(room.rev, store.rev, docs, writes)
    /\ overtaken = {} =>
          /\ SchemaAt(cas.rev, store.rev, docs, store.content.schema)
          /\ Reading => SchemaAt(room.rev, store.rev, docs, store.content.schema)
          /\ cas.rev = store.rev => cas.last.schema = store.content.schema

BasicOk ==
    /\ type \in DocumentTypes
    /\ store \in Stored /\ cas \in Cas /\ room \in Room
    /\ edits \in Nat /\ pending \in 0 .. edits
    /\ overtaken \subseteq {"load", "patch", "answer"} /\ writes \in Nat
    /\ left \in [Kinds -> Nat]

Inv == BasicOk /\ DocsOk /\ QueuesOk /\ JobsOk /\ RoomOk

-----------------------------------------------------------------------------
(* Sequences.                                                              *)

LEMMA TailOf ==
    ASSUME NEW S, NEW q \in Seq(S), q # <<>>
    PROVE  /\ Head(q) = q[1] /\ q[1] \in S /\ 1 \in DOMAIN q
           /\ Tail(q) \in Seq(S)
           /\ \A i \in DOMAIN Tail(q) : i + 1 \in DOMAIN q /\ i + 1 # 1 /\ Tail(q)[i] = q[i + 1]
           /\ \A i, k \in DOMAIN Tail(q) : i + 1 = k + 1 => i = k
OBVIOUS

LEMMA AppendOf ==
    ASSUME NEW S, NEW q \in Seq(S), NEW e \in S
    PROVE  LET u == Append(q, e)
           IN  /\ u \in Seq(S) /\ u # <<>> /\ Len(u) = Len(q) + 1 /\ u[Len(u)] = e
               /\ DOMAIN q \subseteq DOMAIN u
               /\ \A i \in DOMAIN q : u[i] = q[i] /\ i # Len(u)
               /\ \A i \in DOMAIN u : i \in DOMAIN q \/ i = Len(u)
               /\ q # <<>> => u[1] = q[1]
               /\ q = <<>> => Len(u) = 1
<1> DEFINE u == Append(q, e)
<1>1. /\ Len(q) \in Nat /\ DOMAIN q = 1 .. Len(q)
      /\ u \in Seq(S) /\ Len(u) = Len(q) + 1 /\ DOMAIN u = 1 .. Len(q) + 1
      /\ u[Len(q) + 1] = e /\ \A i \in 1 .. Len(q) : u[i] = q[i]
  OBVIOUS
<1>2. q = <<>> <=> Len(q) = 0
  OBVIOUS
<1>3. u # <<>>
  BY <1>1
<1> HIDE DEF u
<1> QED
  BY <1>1, <1>2, <1>3 DEF u

LEMMA AppendDiffers ==
    ASSUME NEW S, NEW q \in Seq(S), NEW e
    PROVE  Append(q, e) # q
<1>1. Len(Append(q, e)) = Len(q) + 1 /\ Len(q) \in Nat
  OBVIOUS
<1> QED
  BY <1>1

LEMMA UpdateOf ==
    ASSUME NEW S, NEW q \in Seq(S), NEW k \in DOMAIN q, NEW e \in S
    PROVE  LET u == [q EXCEPT ![k] = e]
           IN  /\ u \in Seq(S) /\ Len(u) = Len(q) /\ DOMAIN u = DOMAIN q /\ u # <<>>
               /\ u[k] = e
               /\ \A i \in DOMAIN q : i # k => u[i] = q[i]
OBVIOUS

-----------------------------------------------------------------------------
(* Documents.                                                              *)

\* The documents after a step that puts none in the place of another.
SameForeign(ds, es) ==
    /\ DOMAIN es = DOMAIN ds /\ Len(es) = Len(ds)
    /\ \A l \in DOMAIN ds : es[l].content.foreign = ds[l].content.foreign

SameSchema(ds, es) ==
    /\ SameForeign(ds, es)
    /\ \A l \in DOMAIN ds : es[l].content.schema = ds[l].content.schema

SameDocs(ds, es) ==
    /\ SameSchema(ds, es)
    /\ \A l \in DOMAIN ds : /\ es[l].accepted = ds[l].accepted
                            /\ es[l].acked = ds[l].acked /\ es[l].evicted = ds[l].evicted

\* A document in the place of one with what it does not change.
LEMMA DocReplaced ==
    ASSUME DocsOk, NEW l \in DOMAIN docs, NEW e \in Doc, DocOk(e),
           e.content.foreign = docs[l].content.foreign,
           docs' = [docs EXCEPT ![l] = e]
    PROVE  /\ DocsOk' /\ SameForeign(docs, docs') /\ docs'[l] = e
           /\ \A k \in DOMAIN docs : k # l => docs'[k] = docs[k]
<1>1. docs \in Seq(Doc)
  BY DEF DocsOk
<1>2. /\ docs' \in Seq(Doc) /\ Len(docs') = Len(docs) /\ DOMAIN docs' = DOMAIN docs
      /\ docs'[l] = e /\ \A k \in DOMAIN docs : k # l => docs'[k] = docs[k]
  BY <1>1, UpdateOf
<1>3. \A k \in DOMAIN docs' : DocOk(docs'[k])
  BY <1>2 DEF DocsOk
<1> QED
  BY <1>2, <1>3 DEF DocsOk, SameForeign

\* DocOk speaks of the schema, the base and the requests only.
LEMMA SameDoc ==
    ASSUME NEW d \in Doc, DocOk(d), NEW e \in Doc,
           e.content.schema = d.content.schema, e.base = d.base, e.accepted = d.accepted,
           e.acked = d.acked, e.evicted = d.evicted
    PROVE  DocOk(e)
<1>1. \A r : hasAcceptedRequest(e, r) <=> hasAcceptedRequest(d, r)
  BY DEF hasAcceptedRequest
<1>2. \A r : RequestOk(d, r) => RequestOk(e, r)
  BY <1>1 DEF RequestOk
<1> QED
  BY <1>2 DEF DocOk

LEMMA StaledKeeps ==
    ASSUME DocsOk, NEW l \in DOMAIN docs, docs' = Staled(l)
    PROVE  DocsOk' /\ SameDocs(docs, docs')
<1> DEFINE e == [docs[l] EXCEPT !.stale = TRUE]
<1>1. docs[l] \in Doc /\ DocOk(docs[l])
  BY DEF DocsOk
<1>2. /\ e \in Doc /\ e.content = docs[l].content /\ e.base = docs[l].base
      /\ e.accepted = docs[l].accepted /\ e.acked = docs[l].acked
      /\ e.evicted = docs[l].evicted
  BY <1>1 DEF Doc
<1>3. docs' = [docs EXCEPT ![l] = e]
  BY <1>1 DEF Staled, DocsOk
<1> HIDE DEF e
<1>4. DocOk(e)
  BY <1>1, <1>2, SameDoc
<1>5. /\ DocsOk' /\ SameForeign(docs, docs') /\ docs'[l] = e
      /\ \A k \in DOMAIN docs : k # l => docs'[k] = docs[k]
  BY <1>2, <1>3, <1>4, DocReplaced
<1> QED
  BY <1>2, <1>5 DEF SameDocs, SameSchema

LEMMA EditedKeeps ==
    ASSUME DocsOk, NEW l \in DOMAIN docs, NEW title \in Nat,
           docs' = [docs EXCEPT ![l].content.title = title]
    PROVE  DocsOk' /\ SameDocs(docs, docs')
<1> DEFINE e == [docs[l] EXCEPT !.content.title = title]
<1>1. docs[l] \in Doc /\ DocOk(docs[l])
  BY DEF DocsOk
<1>2. /\ e \in Doc /\ e.content.schema = docs[l].content.schema
      /\ e.content.foreign = docs[l].content.foreign /\ e.base = docs[l].base
      /\ e.accepted = docs[l].accepted /\ e.acked = docs[l].acked
      /\ e.evicted = docs[l].evicted
  <2>1. \A c \in Content : LET n == [c EXCEPT !.title = title]
                           IN  n \in Content /\ n.schema = c.schema /\ n.foreign = c.foreign
    BY DEF Content
  <2>2. \A d \in Doc : d.content \in Content
    BY DEF Doc
  <2>3. \A d \in Doc : \A c \in Content :
           LET n == [d EXCEPT !.content = c]
           IN  /\ n \in Doc /\ n.content = c /\ n.base = d.base /\ n.accepted = d.accepted
               /\ n.acked = d.acked /\ n.evicted = d.evicted
    BY DEF Doc
  <2>4. e = [docs[l] EXCEPT !.content = [docs[l].content EXCEPT !.title = title]]
    BY <1>1 DEF Doc
  <2> HIDE DEF e
  <2> QED
    BY <1>1, <2>1, <2>2, <2>3, <2>4, ZenonT(40)
<1>3. docs' = [docs EXCEPT ![l] = e]
  BY <1>1 DEF DocsOk
<1> HIDE DEF e
<1>4. DocOk(e)
  BY <1>1, <1>2, SameDoc
<1>5. /\ DocsOk' /\ SameForeign(docs, docs') /\ docs'[l] = e
      /\ \A k \in DOMAIN docs : k # l => docs'[k] = docs[k]
  BY <1>2, <1>3, <1>4, DocReplaced
<1> QED
  BY <1>2, <1>5 DEF SameDocs, SameSchema

\* Remembering a request that is not remembered, and the schema has.
LEMMA Remembers ==
    ASSUME NEW d \in Doc, NEW r \in Requests,
           d.base <= Len(d.content.schema), Len(d.accepted) <= Remembered,
           \A i, k \in DOMAIN d.accepted : d.accepted[i] = d.accepted[k] => i = k,
           ~ hasAcceptedRequest(d, r),
           \A q \in Requests \ d.evicted : q # r => RequestOk(d, q),
           r \notin d.evicted => RequestOk([d EXCEPT !.acked = @ \cup {r}, !.accepted = <<r>>], r)
    PROVE  LET e == cacheAcceptedRequest(d, r)
           IN  /\ e \in Doc /\ e.content = d.content /\ DocOk(e)
               /\ e.acked = d.acked \cup {r} /\ d.evicted \subseteq e.evicted
<1> DEFINE queue == Append(d.accepted, r)
           full == Len(queue) > Remembered
           accepted == IF full THEN Tail(queue) ELSE queue
           evicted == IF full THEN d.evicted \cup {Head(queue)} ELSE d.evicted
           e == cacheAcceptedRequest(d, r)
<1>1. /\ d.accepted \in Seq(Requests) /\ d.acked \in SUBSET Requests
      /\ d.evicted \in SUBSET Requests /\ Remembered \in Nat \ {0}
  BY RememberedAssumption DEF Doc
<1>2. /\ queue \in Seq(Requests) /\ queue # <<>> /\ Len(queue) = Len(d.accepted) + 1
      /\ queue[Len(queue)] = r
      /\ \A i \in DOMAIN d.accepted : i \in DOMAIN queue /\ queue[i] = d.accepted[i]
      /\ \A i \in DOMAIN queue : i \in DOMAIN d.accepted \/ i = Len(queue)
  BY <1>1, AppendOf
<1>3. \A i \in DOMAIN d.accepted : d.accepted[i] # r
  BY DEF hasAcceptedRequest
<1>4. \A i, k \in DOMAIN queue : queue[i] = queue[k] => i = k
  BY <1>2, <1>3
<1>5. /\ e \in Doc /\ e.content = d.content /\ e.base = d.base /\ e.accepted = accepted
      /\ e.acked = d.acked \cup {r} /\ e.evicted = evicted
  <2>1. accepted \in Seq(Requests) /\ evicted \in SUBSET Requests
    BY <1>1, <1>2
  <2>2. e = [d EXCEPT !.accepted = accepted, !.acked = @ \cup {r}, !.evicted = evicted]
    BY DEF cacheAcceptedRequest, Doc
  <2> HIDE DEF accepted, evicted, e
  <2> QED
    BY <1>1, <2>1, <2>2 DEF Doc
<1> HIDE DEF queue
<1>6. /\ Len(accepted) <= Remembered
      /\ \A i, k \in DOMAIN accepted : accepted[i] = accepted[k] => i = k
  <2>1. CASE full
    <3>1. /\ Tail(queue) \in Seq(Requests) /\ Len(Tail(queue)) = Len(queue) - 1
          /\ \A i \in DOMAIN Tail(queue) : i + 1 \in DOMAIN queue /\ Tail(queue)[i] = queue[i + 1]
          /\ \A i, k \in DOMAIN Tail(queue) : i + 1 = k + 1 => i = k
      BY <1>2, TailOf
    <3>2. Len(d.accepted) \in Nat
      BY <1>1
    <3> QED
      BY <1>1, <1>2, <1>4, <2>1, <3>1, <3>2
  <2>2. CASE ~ full
    BY <1>1, <1>2, <1>4, <2>2
  <2> QED
    BY <2>1, <2>2
<1>7. \A q \in Requests \ evicted :
         (\E i \in DOMAIN accepted : accepted[i] = q) <=> (\E i \in DOMAIN queue : queue[i] = q)
  <2>1. CASE full
    <3>1. /\ Head(queue) = queue[1]
          /\ \A i \in DOMAIN Tail(queue) : i + 1 \in DOMAIN queue /\ Tail(queue)[i] = queue[i + 1]
          /\ \A i \in DOMAIN queue : i # 1 => i - 1 \in DOMAIN Tail(queue)
                                            /\ Tail(queue)[i - 1] = queue[i]
      BY <1>2
    <3>2. accepted = Tail(queue) /\ evicted = d.evicted \cup {queue[1]}
      BY <2>1, <3>1
    <3> HIDE DEF accepted, evicted, full
    <3>3. ASSUME NEW q \in Requests \ evicted, NEW i \in DOMAIN queue, queue[i] = q
          PROVE  \E k \in DOMAIN accepted : accepted[k] = q
      <4>1. i # 1
        BY <3>2, <3>3
      <4> QED
        BY <3>1, <3>2, <3>3, <4>1
    <3>4. ASSUME NEW q, NEW i \in DOMAIN accepted, accepted[i] = q
          PROVE  \E k \in DOMAIN queue : queue[k] = q
      BY <3>1, <3>2, <3>4
    <3> QED
      BY <3>3, <3>4
  <2>2. CASE ~ full
    BY <2>2
  <2> QED
    BY <2>1, <2>2
<1>8. \A q \in Requests : (\E i \in DOMAIN queue : queue[i] = q) <=> (q = r \/ hasAcceptedRequest(d, q))
  <2>1. Len(queue) \in DOMAIN queue
    BY <1>2
  <2> QED
    BY <1>2, <2>1 DEF hasAcceptedRequest
<1> HIDE DEF e, accepted
<1>9. ASSUME NEW q \in Requests \ evicted PROVE RequestOk(e, q)
  <2>1. q \notin d.evicted
    BY <1>9
  <2>2. hasAcceptedRequest(e, q) <=> (q = r \/ hasAcceptedRequest(d, q))
    BY <1>5, <1>7, <1>8, <1>9 DEF hasAcceptedRequest
  <2>3. CASE q = r
    <3>1. /\ [d EXCEPT !.acked = @ \cup {r}, !.accepted = <<r>>].content = d.content
          /\ [d EXCEPT !.acked = @ \cup {r}, !.accepted = <<r>>].base = d.base
          /\ [d EXCEPT !.acked = @ \cup {r}, !.accepted = <<r>>].acked = d.acked \cup {r}
      BY DEF Doc
    <3> QED
      BY <1>5, <2>1, <2>2, <2>3, <3>1 DEF RequestOk
  <2>4. CASE q # r
    <3>1. RequestOk(d, q)
      BY <2>1, <2>4
    <3> QED
      BY <1>5, <2>2, <2>4, <3>1 DEF RequestOk
  <2> QED
    BY <2>3, <2>4
<1>10. DocOk(e)
  BY <1>5, <1>6, <1>9 DEF DocOk
<1> QED
  BY <1>5, <1>10 DEF e

\* What is asked of r in Remembers.
LEMMA RemembersNew ==
    ASSUME NEW d \in Doc, NEW r \in Requests,
           LET added == {i \in DOMAIN d.content.schema : d.content.schema[i] = r /\ i > d.base}
           IN  /\ \E i \in DOMAIN d.content.schema : d.content.schema[i] = r
               /\ \A i, k \in added : i = k
    PROVE  RequestOk([d EXCEPT !.acked = @ \cup {r}, !.accepted = <<r>>], r)
<1> DEFINE e == [d EXCEPT !.acked = @ \cup {r}, !.accepted = <<r>>]
<1>1. /\ e.content = d.content /\ e.base = d.base /\ e.acked = d.acked \cup {r}
      /\ e.accepted = <<r>>
  BY DEF Doc
<1> HIDE DEF e
<1>2. hasAcceptedRequest(e, r)
  <2>1. 1 \in DOMAIN <<r>> /\ <<r>>[1] = r
    OBVIOUS
  <2> QED
    BY <1>1, <2>1 DEF hasAcceptedRequest
<1>3. RequestOk(e, r)
  BY <1>1, <1>2 DEF RequestOk
<1> QED
  BY <1>3 DEF e

\* A patch that changes nothing.
LEMMA CachedKeeps ==
    ASSUME DocsOk, NEW l \in DOMAIN docs, NEW r \in Requests,
           ~ hasAcceptedRequest(docs[l], r), Has(docs[l].content.schema, r),
           docs' = [docs EXCEPT ![l] = cacheAcceptedRequest(@, r)]
    PROVE  /\ DocsOk' /\ SameSchema(docs, docs')
           /\ docs'[l].acked = docs[l].acked \cup {r} /\ docs[l].evicted \subseteq docs'[l].evicted
           /\ \A k \in DOMAIN docs : k # l => docs'[k] = docs[k]
<1> DEFINE d == docs[l]
           e == cacheAcceptedRequest(d, r)
<1>1. d \in Doc /\ DocOk(d) /\ docs' = [docs EXCEPT ![l] = e]
  BY DEF DocsOk
<1>2. /\ d.base <= Len(d.content.schema) /\ Len(d.accepted) <= Remembered
      /\ \A i, k \in DOMAIN d.accepted : d.accepted[i] = d.accepted[k] => i = k
      /\ \A q \in Requests \ d.evicted : RequestOk(d, q)
  BY <1>1 DEF DocOk
<1>3. r \notin d.evicted => RequestOk([d EXCEPT !.acked = @ \cup {r}, !.accepted = <<r>>], r)
  <2>1. d.content.schema \in Seq(Requests) /\ d.content.schema # <<>>
        /\ d.content.schema[Len(d.content.schema)] = r
    BY <1>1 DEF Has, Doc, Content, Schema
  <2>2. Len(d.content.schema) \in DOMAIN d.content.schema
    BY <2>1
  <2>3. r \notin d.evicted => RequestOk(d, r)
    BY <1>2
  <2> HIDE DEF d
  <2>4. ~ hasAcceptedRequest(d, r)
    BY DEF d
  <2>5. ASSUME r \notin d.evicted
        PROVE  {i \in DOMAIN d.content.schema : d.content.schema[i] = r /\ i > d.base} = {}
    BY <2>3, <2>4, <2>5 DEF RequestOk
  <2> QED
    BY <1>1, <2>1, <2>2, <2>5, RemembersNew
<1>4. /\ e \in Doc /\ e.content = d.content /\ DocOk(e)
      /\ e.acked = d.acked \cup {r} /\ d.evicted \subseteq e.evicted
  <2> HIDE DEF d
  <2>1. ~ hasAcceptedRequest(d, r)
    BY DEF d
  <2> QED
    BY <1>1, <1>2, <1>3, <2>1, Remembers
<1> HIDE DEF e
<1>5. /\ DocsOk' /\ SameForeign(docs, docs') /\ docs'[l] = e
      /\ \A k \in DOMAIN docs : k # l => docs'[k] = docs[k]
  BY <1>1, <1>4, DocReplaced
<1> QED
  BY <1>4, <1>5 DEF SameSchema

\* A patch that was saved.
LEMMA AppliedKeeps ==
    ASSUME DocsOk, NEW l \in DOMAIN docs, NEW r \in Requests,
           ~ hasAcceptedRequest(docs[l], r),
           docs' = [docs EXCEPT ![l] = cacheAcceptedRequest(Applied(@, r), r)]
    PROVE  /\ DocsOk' /\ SameForeign(docs, docs')
           /\ docs'[l].content.schema = Append(docs[l].content.schema, r)
           /\ docs'[l].acked = docs[l].acked \cup {r}
           /\ \A k \in DOMAIN docs : k # l => docs'[k] = docs[k]
<1> DEFINE d == docs[l]
           f == Applied(d, r)
           e == cacheAcceptedRequest(f, r)
           s == d.content.schema
           u == Append(s, r)
<1>1. d \in Doc /\ DocOk(d) /\ docs' = [docs EXCEPT ![l] = e] /\ ~ hasAcceptedRequest(d, r)
  BY DEF DocsOk
<1> HIDE DEF d
<1>2. /\ d.base <= Len(s) /\ Len(d.accepted) <= Remembered
      /\ \A i, k \in DOMAIN d.accepted : d.accepted[i] = d.accepted[k] => i = k
      /\ \A q \in Requests \ d.evicted : RequestOk(d, q)
  BY <1>1 DEF DocOk
<1>3. s \in Seq(Requests) /\ d.base \in Nat
  BY <1>1 DEF Doc, Content, Schema
<1>4. /\ u \in Seq(Requests) /\ Len(u) = Len(s) + 1 /\ u[Len(u)] = r
      /\ \A i \in DOMAIN s : i \in DOMAIN u /\ u[i] = s[i]
      /\ \A i \in DOMAIN u : i \in DOMAIN s \/ i = Len(u)
      /\ Len(u) \in DOMAIN u
  BY <1>3, AppendOf
<1>5. /\ f \in Doc /\ f.content.schema = u /\ f.content.foreign = d.content.foreign
      /\ f.base = d.base /\ f.accepted = d.accepted /\ f.acked = d.acked
      /\ f.evicted = d.evicted
  <2>1. \A c \in Content : LET n == [c EXCEPT !.schema = u]
                           IN  n \in Content /\ n.schema = u /\ n.foreign = c.foreign
    BY <1>4 DEF Content, Schema
  <2>2. \A g \in Doc : g.content \in Content
    BY DEF Doc
  <2>3. \A g \in Doc : \A c \in Content :
           LET n == [g EXCEPT !.content = c]
           IN  /\ n \in Doc /\ n.content = c /\ n.base = g.base /\ n.accepted = g.accepted
               /\ n.acked = g.acked /\ n.evicted = g.evicted
    BY DEF Doc
  <2> DEFINE c == [d.content EXCEPT !.schema = u]
  <2>4. f = [d EXCEPT !.content = c]
    BY <1>1 DEF Applied, Doc, Content
  <2> HIDE DEF f, u
  <2>5. c \in Content /\ c.schema = u /\ c.foreign = d.content.foreign
    BY <1>1, <2>1, <2>2
  <2> HIDE DEF c
  <2> QED
    BY <1>1, <2>3, <2>4, <2>5
<1> HIDE DEF f, u, s
<1>6. \A q : hasAcceptedRequest(f, q) <=> hasAcceptedRequest(d, q)
  BY <1>5 DEF hasAcceptedRequest
<1>7. Len(s) \in Nat /\ DOMAIN s = 1 .. Len(s)
  BY <1>3
<1>8. ASSUME NEW q \in Requests \ f.evicted, q # r PROVE RequestOk(f, q)
  <2>1. RequestOk(d, q)
    BY <1>2, <1>5, <1>8
  <2>2. \A i : i \in DOMAIN u /\ u[i] = q <=> i \in DOMAIN s /\ s[i] = q
    BY <1>4, <1>8
  <2> QED
    BY <1>5, <1>6, <2>1, <2>2 DEF RequestOk, s
<1>9. r \notin f.evicted => RequestOk([f EXCEPT !.acked = @ \cup {r}, !.accepted = <<r>>], r)
  <2>1. ASSUME r \notin f.evicted
        PROVE  \A i \in DOMAIN u : u[i] = r /\ i > d.base => i = Len(u)
    <3>1. RequestOk(d, r) /\ r \notin d.acked
      BY <1>1, <1>2, <1>5, <2>1 DEF RequestOk
    <3>2. \A i \in DOMAIN s : ~(s[i] = r /\ i > d.base)
      BY <3>1 DEF RequestOk, s
    <3> QED
      BY <1>4, <3>2
  <2>2. ASSUME r \notin f.evicted
        PROVE  LET added == {i \in DOMAIN f.content.schema :
                               f.content.schema[i] = r /\ i > f.base}
               IN  /\ \E i \in DOMAIN f.content.schema : f.content.schema[i] = r
                   /\ \A i, k \in added : i = k
    BY <1>4, <1>5, <2>1, <2>2
  <2> QED
    BY <1>5, <2>2, RemembersNew
<1>10. e \in Doc /\ e.content = f.content /\ DocOk(e) /\ e.acked = f.acked \cup {r}
  <2>1. f.base <= Len(f.content.schema) /\ Len(f.accepted) <= Remembered
    BY <1>2, <1>3, <1>4, <1>5, <1>7
  <2>2. \A i, k \in DOMAIN f.accepted : f.accepted[i] = f.accepted[k] => i = k
    BY <1>2, <1>5
  <2> QED
    BY <1>1, <1>5, <1>6, <1>8, <1>9, <2>1, <2>2, Remembers
<1> HIDE DEF e
<1>11. /\ e.content.foreign = docs[l].content.foreign /\ e.content.schema = u
       /\ e.acked = docs[l].acked \cup {r}
  BY <1>5, <1>10 DEF d
<1>12. /\ DocsOk' /\ SameForeign(docs, docs') /\ docs'[l] = e
       /\ \A k \in DOMAIN docs : k # l => docs'[k] = docs[k]
  BY <1>1, <1>10, <1>11, DocReplaced
<1> QED
  BY <1>11, <1>12 DEF d, u, s

\* A document that is read.
LEMMA ReadKeeps ==
    ASSUME DocsOk, BasicOk,
           docs' = Append(docs, [content |-> store.content,
                                 base |-> Len(store.content.schema),
                                 exists |-> store.exists, stale |-> FALSE,
                                 accepted |-> <<>>, acked |-> {}, evicted |-> {}])
    PROVE  /\ DocsOk' /\ docs' # <<>> /\ Len(docs') = Len(docs) + 1 /\ Len(docs) \in Nat
           /\ docs'[Len(docs')].content = store.content
           /\ \A l \in DOMAIN docs : l \in DOMAIN docs' /\ docs'[l] = docs[l] /\ l # Len(docs')
<1> DEFINE e == [content |-> store.content, base |-> Len(store.content.schema),
                 exists |-> store.exists, stale |-> FALSE,
                 accepted |-> <<>>, acked |-> {}, evicted |-> {}]
<1>1. store.content \in Content /\ store.content.schema \in Seq(Requests) /\ store.exists \in BOOLEAN
  BY DEF BasicOk, Stored, Content, Schema
<1>2. Len(store.content.schema) \in Nat
  BY <1>1
<1>3. e \in Doc
  <2>1. <<>> \in Seq(Requests)
    OBVIOUS
  <2> QED
    BY <1>1, <1>2, <2>1 DEF Doc
<1>4. DocOk(e)
  <2>1. DOMAIN e.accepted = {} /\ Len(e.accepted) = 0
    OBVIOUS
  <2>2. \A q : ~ hasAcceptedRequest(e, q)
    BY <2>1 DEF hasAcceptedRequest
  <2>3. \A i \in DOMAIN e.content.schema : ~(i > e.base)
    BY <1>1, <1>2
  <2>4. \A q : RequestOk(e, q)
    BY <2>2, <2>3 DEF RequestOk
  <2>5. Len(e.accepted) <= Remembered
    BY <2>1, RememberedAssumption
  <2>6. e.base <= Len(e.content.schema)
    BY <1>2
  <2> HIDE DEF e
  <2> QED
    BY <2>1, <2>4, <2>5, <2>6 DEF DocOk
<1>5. e.content = store.content /\ docs' = Append(docs, e) /\ docs \in Seq(Doc)
  BY DEF DocsOk
<1> HIDE DEF e
<1>6. /\ docs' \in Seq(Doc) /\ docs' # <<>> /\ Len(docs') = Len(docs) + 1
      /\ docs'[Len(docs')] = e
      /\ \A l \in DOMAIN docs : l \in DOMAIN docs' /\ docs'[l] = docs[l] /\ l # Len(docs')
      /\ \A l \in DOMAIN docs' : l \in DOMAIN docs \/ l = Len(docs')
  BY <1>3, <1>5, AppendOf
<1>7. \A l \in DOMAIN docs' : DocOk(docs'[l])
  BY <1>4, <1>6 DEF DocsOk
<1>8. Len(docs) \in Nat
  BY <1>5
<1> QED
  BY <1>5, <1>6, <1>7, <1>8 DEF DocsOk

-----------------------------------------------------------------------------
(* The queues.                                                             *)

LEMMA FirstOf ==
    ASSUME QueuesOk
    PROVE  /\ jobs # <<>> => /\ Head(jobs) = jobs[1] /\ jobs[1] \in Job /\ 1 \in DOMAIN jobs
                             /\ jobs[1].load \in DOMAIN docs
                             /\ Reading => jobs[1].load # Len(docs)
           /\ patches # <<>> => /\ Head(patches) = patches[1] /\ patches[1] \in Patch
                                /\ 1 \in DOMAIN patches
                                /\ patches[1].load \in DOMAIN docs
                                /\ patches[1].req \in Requests
<1>1. jobs # <<>> => Head(jobs) = jobs[1] /\ jobs[1] \in Job /\ 1 \in DOMAIN jobs
  BY TailOf DEF QueuesOk
<1>2. patches # <<>> => Head(patches) = patches[1] /\ patches[1] \in Patch /\ 1 \in DOMAIN patches
  BY TailOf DEF QueuesOk
<1> QED
  BY <1>1, <1>2 DEF QueuesOk, WaitOk, Patch

LEMMA CarriesKept ==
    ASSUME NEW j \in Job, NEW p, j.load \in DOMAIN docs, SameDocs(docs, docs'),
           CarriesPatch(j, p, docs), NEW k, k.load = j.load, k.content = j.content
    PROVE  CarriesPatch(k, p, docs')
<1>1. /\ docs'[j.load].content.schema = docs[j.load].content.schema
      /\ docs'[j.load].accepted = docs[j.load].accepted
  BY DEF SameDocs, SameSchema
<1>2. ~ hasAcceptedRequest(docs'[j.load], p.req) /\ ~ Has(docs'[j.load].content.schema, p.req)
  BY <1>1 DEF CarriesPatch, hasAcceptedRequest, Has
<1>3. k.content.schema = Append(docs'[j.load].content.schema, p.req)
  BY <1>1 DEF CarriesPatch
<1> QED
  BY <1>2, <1>3 DEF CarriesPatch

LEMMA PatchesCarried ==
    ASSUME QueuesOk, SameDocs(docs, docs')
    PROVE  \A i \in DOMAIN jobs : jobs[i].patch => CarriesPatch(jobs[i], patches[1], docs')
<1>1. ASSUME NEW i \in DOMAIN jobs, jobs[i].patch
      PROVE  CarriesPatch(jobs[i], patches[1], docs')
  <2>1. /\ jobs[i] \in Job /\ jobs[i].load \in DOMAIN docs
        /\ CarriesPatch(jobs[i], patches[1], docs)
    BY <1>1 DEF QueuesOk, WaitOk
  <2> QED
    BY <2>1, CarriesKept
<1> QED
  BY <1>1

\* Nothing is added to the queues or taken from them.
LEMMA QueuesSame ==
    ASSUME QueuesOk, UNCHANGED <<jobs, patches>>, SameDocs(docs, docs'), Reading' => Reading
    PROVE  QueuesOk'
<1>1. \A i \in DOMAIN jobs : jobs[i].patch => CarriesPatch(jobs[i], patches[1], docs')
  BY PatchesCarried
<1>2. DOMAIN docs' = DOMAIN docs /\ Len(docs') = Len(docs)
  BY DEF SameDocs, SameSchema, SameForeign
<1>3. WaitOk(jobs, patches, docs', Reading')
  BY <1>1, <1>2 DEF QueuesOk, WaitOk
<1> QED
  BY <1>3 DEF QueuesOk

\* No patch is being saved when it is the turn of the next one.
LEMMA NoPatchJob ==
    ASSUME QueuesOk, patches = <<>> \/ Turn
    PROVE  \A i \in DOMAIN jobs : ~ jobs[i].patch
BY FirstOf DEF QueuesOk, WaitOk, CarriesPatch, Turn

\* A patch is answered before it is saved.
LEMMA PatchLeaves ==
    ASSUME QueuesOk, Turn, patches' = Tail(patches), jobs' = jobs,
           SameForeign(docs, docs'), Reading' => Reading
    PROVE  QueuesOk'
<1>1. \A i \in DOMAIN jobs : ~ jobs[i].patch
  BY NoPatchJob
<1>2. DOMAIN docs' = DOMAIN docs /\ Len(docs') = Len(docs)
  BY DEF SameForeign
<1>3. /\ Tail(patches) \in Seq(Patch)
      /\ \A i \in DOMAIN Tail(patches) : i + 1 \in DOMAIN patches /\ Tail(patches)[i] = patches[i + 1]
  BY TailOf DEF QueuesOk, Turn
<1>4. WaitOk(jobs, Tail(patches), docs', Reading')
  BY <1>1, <1>2, <1>3 DEF QueuesOk, WaitOk
<1> QED
  BY <1>3, <1>4 DEF QueuesOk

\* A store is queued.
LEMMA StoreQueued ==
    ASSUME QueuesOk, NEW j \in Job, ~ j.patch, j.step = "queued", j.load \in DOMAIN docs,
           ~ Reading', jobs' = Append(jobs, j), UNCHANGED <<patches, docs>>
    PROVE  QueuesOk' /\ \A i \in DOMAIN jobs' : jobs'[i] = j \/ \E k \in DOMAIN jobs : jobs'[i] = jobs[k]
<1>1. /\ jobs' \in Seq(Job)
      /\ \A i \in DOMAIN jobs : jobs'[i] = jobs[i]
      /\ \A i \in DOMAIN jobs' : i \in DOMAIN jobs \/ jobs'[i] = j
  BY AppendOf DEF QueuesOk
<1>2. WaitOk(jobs', patches, docs, Reading')
  BY <1>1 DEF QueuesOk, WaitOk
<1> QED
  BY <1>1, <1>2 DEF QueuesOk

LEMMA PatchQueued ==
    ASSUME QueuesOk, NEW p \in Patch, p.load \in DOMAIN docs, ~ Reading',
           patches' = Append(patches, p), UNCHANGED <<jobs, docs>>
    PROVE  QueuesOk'
<1>1. /\ patches' \in Seq(Patch) /\ patches' # <<>>
      /\ \A i \in DOMAIN patches : patches'[i] = patches[i]
      /\ \A i \in DOMAIN patches' : i \in DOMAIN patches \/ patches'[i] = p
      /\ patches # <<>> => patches'[1] = patches[1]
  <2>1. patches \in Seq(Patch)
    BY DEF QueuesOk
  <2> QED
    BY <2>1, AppendOf
<1>2. \A i \in DOMAIN jobs : jobs[i].patch => CarriesPatch(jobs[i], patches'[1], docs)
  BY <1>1 DEF QueuesOk, WaitOk
<1>3. WaitOk(jobs, patches', docs, Reading')
  BY <1>1, <1>2 DEF QueuesOk, WaitOk
<1> QED
  BY <1>1, <1>3 DEF QueuesOk

LEMMA LastQueued ==
    ASSUME NEW js \in Seq(Job), NEW j \in Job
    PROVE  LET u == Append(js, j)
           IN  /\ u \in Seq(Job)
               /\ \A i \in DOMAIN js : u[i] = js[i]
               /\ \A i \in DOMAIN u : i \in DOMAIN js \/ (u[i] = j /\ i = Len(u))
BY AppendOf

\* The save of a patch is queued.
LEMMA PatchSaveQueued ==
    ASSUME QueuesOk, Turn, NEW j \in Job, j.patch, j.step = "queued",
           NEW p \in Patch, p.load = patches[1].load, CarriesPatch(j, p, docs),
           jobs' = Append(jobs, j), patches' = [patches EXCEPT ![1] = p],
           docs' = docs, Reading' = Reading
    PROVE  QueuesOk' /\ \A i \in DOMAIN jobs' : jobs'[i] = j \/ \E k \in DOMAIN jobs : jobs'[i] = jobs[k]
<1>0. jobs \in Seq(Job)
  BY DEF QueuesOk
<1>1. /\ jobs' \in Seq(Job)
      /\ \A i \in DOMAIN jobs : jobs'[i] = jobs[i]
      /\ \A i \in DOMAIN jobs' : i \in DOMAIN jobs \/ (jobs'[i] = j /\ i = Len(jobs'))
  BY <1>0, LastQueued
<1>2. patches[1].load \in DOMAIN docs /\ 1 \in DOMAIN patches /\ patches # <<>>
  BY FirstOf DEF Turn
<1>4. /\ patches' \in Seq(Patch) /\ patches' # <<>> /\ patches'[1] = p
      /\ DOMAIN patches' = DOMAIN patches
      /\ \A i \in DOMAIN patches : i # 1 => patches'[i] = patches[i]
  <2>1. patches \in Seq(Patch)
    BY DEF QueuesOk
  <2> QED
    BY <1>2, <2>1, UpdateOf
<1>5. \A i \in DOMAIN jobs : ~ jobs[i].patch
  BY NoPatchJob
<1>7. \A i \in DOMAIN patches : patches'[i].load = patches[i].load
  BY <1>2, <1>4
<1>8. /\ \A i \in DOMAIN jobs' : /\ jobs'[i].load \in DOMAIN docs
                                 /\ Reading => jobs'[i].load # Len(docs)
      /\ \A i \in DOMAIN jobs' : i # 1 => jobs'[i].step = "queued"
  <2>1. j.load = patches[1].load
    BY DEF CarriesPatch
  <2>2. Reading => patches[1].load # Len(docs)
    BY <1>2 DEF QueuesOk, WaitOk
  <2> QED
    BY <1>1, <1>2, <2>1, <2>2 DEF QueuesOk, WaitOk
<1>9. \A i \in DOMAIN jobs' : jobs'[i].patch => jobs'[i] = j /\ i = Len(jobs')
  BY <1>1, <1>5
<1>10. WaitOk(jobs', patches', docs, Reading)
  <2>1. \A i \in DOMAIN patches' : /\ patches'[i].load \in DOMAIN docs
                                   /\ Reading => patches'[i].load # Len(docs)
    BY <1>4, <1>7 DEF QueuesOk, WaitOk
  <2>2. \A i \in DOMAIN jobs' : jobs'[i].patch => CarriesPatch(jobs'[i], patches'[1], docs)
    BY <1>4, <1>9
  <2>3. \A i, k \in DOMAIN jobs' : jobs'[i].patch /\ jobs'[k].patch => i = k
    BY <1>9
  <2> QED
    BY <1>4, <1>8, <2>1, <2>2, <2>3 DEF WaitOk
<1> QED
  BY <1>1, <1>4, <1>10 DEF QueuesOk

\* The first save is over; it was a store.
LEMMA StoreLeaves ==
    ASSUME QueuesOk, jobs # <<>>, ~ jobs[1].patch, jobs' = Tail(jobs), patches' = patches,
           SameDocs(docs, docs'), Reading' => Reading
    PROVE  /\ QueuesOk' /\ \A i \in DOMAIN jobs' : \E k \in DOMAIN jobs : jobs'[i] = jobs[k]
           /\ \A i \in DOMAIN jobs' : jobs'[i].step = "queued"
<1>1. /\ jobs' \in Seq(Job)
      /\ \A i \in DOMAIN jobs' : i + 1 \in DOMAIN jobs /\ i + 1 # 1 /\ jobs'[i] = jobs[i + 1]
      /\ \A i, k \in DOMAIN jobs' : i + 1 = k + 1 => i = k
  BY TailOf DEF QueuesOk
<1>2. \A i \in DOMAIN jobs : jobs[i].patch => CarriesPatch(jobs[i], patches[1], docs')
  BY PatchesCarried
<1>3. DOMAIN docs' = DOMAIN docs /\ Len(docs') = Len(docs)
  BY DEF SameDocs, SameSchema, SameForeign
<1>4. WaitOk(jobs', patches, docs', Reading')
  BY <1>1, <1>2, <1>3 DEF QueuesOk, WaitOk
<1>5. \A i \in DOMAIN jobs' : jobs'[i].step = "queued"
  BY <1>1 DEF QueuesOk, WaitOk
<1> QED
  BY <1>1, <1>4, <1>5 DEF QueuesOk

\* The first save is over; it was a patch's.
LEMMA PatchSaveLeaves ==
    ASSUME QueuesOk, jobs # <<>>, jobs[1].patch, jobs' = Tail(jobs), patches' = Tail(patches),
           SameForeign(docs, docs'), Reading' => Reading
    PROVE  /\ QueuesOk' /\ \A i \in DOMAIN jobs' : \E k \in DOMAIN jobs : jobs'[i] = jobs[k]
           /\ \A i \in DOMAIN jobs' : jobs'[i].step = "queued"
<1>1. /\ jobs' \in Seq(Job) /\ 1 \in DOMAIN jobs
      /\ \A i \in DOMAIN jobs' : i + 1 \in DOMAIN jobs /\ i + 1 # 1 /\ jobs'[i] = jobs[i + 1]
      /\ \A i, k \in DOMAIN jobs' : i + 1 = k + 1 => i = k
  BY TailOf DEF QueuesOk
<1>2. patches # <<>>
  BY <1>1 DEF QueuesOk, WaitOk
<1>3. DOMAIN docs' = DOMAIN docs /\ Len(docs') = Len(docs)
  BY DEF SameForeign
<1>4. /\ Tail(patches) \in Seq(Patch)
      /\ \A i \in DOMAIN Tail(patches) : i + 1 \in DOMAIN patches /\ Tail(patches)[i] = patches[i + 1]
  BY <1>2, TailOf DEF QueuesOk
<1>5. \A i \in DOMAIN jobs' : ~ jobs'[i].patch
  BY <1>1 DEF QueuesOk, WaitOk
<1>6. WaitOk(jobs', Tail(patches), docs', Reading')
  BY <1>1, <1>3, <1>4, <1>5 DEF QueuesOk, WaitOk
<1>7. \A i \in DOMAIN jobs' : jobs'[i].step = "queued"
  BY <1>1 DEF QueuesOk, WaitOk
<1> QED
  BY <1>1, <1>4, <1>6, <1>7 DEF QueuesOk

\* The first save is sent, made or refused.
LEMMA FirstSaveMoves ==
    ASSUME QueuesOk, jobs # <<>>, NEW j \in Job, j.patch = jobs[1].patch,
           j.load = jobs[1].load, j.content = jobs[1].content,
           jobs' = [jobs EXCEPT ![1] = j], UNCHANGED <<patches, docs, room>>
    PROVE  /\ QueuesOk' /\ jobs'[1] = j /\ DOMAIN jobs' = DOMAIN jobs
           /\ \A i \in DOMAIN jobs : i # 1 => jobs'[i] = jobs[i] /\ jobs[i].step = "queued"
<1>1. /\ jobs' \in Seq(Job) /\ jobs'[1] = j /\ DOMAIN jobs' = DOMAIN jobs /\ 1 \in DOMAIN jobs
      /\ \A i \in DOMAIN jobs : i # 1 => jobs'[i] = jobs[i]
  BY FirstOf, UpdateOf DEF QueuesOk
<1>2. \A i \in DOMAIN jobs : /\ jobs'[i].patch = jobs[i].patch /\ jobs'[i].load = jobs[i].load
                             /\ jobs'[i].content = jobs[i].content
                             /\ i # 1 => jobs'[i].step = jobs[i].step
  BY <1>1
<1>3. \A i \in DOMAIN jobs : jobs'[i].patch => CarriesPatch(jobs'[i], patches[1], docs)
  <2>1. ASSUME NEW i \in DOMAIN jobs, jobs'[i].patch
        PROVE  CarriesPatch(jobs'[i], patches[1], docs)
    <3>1. CarriesPatch(jobs[i], patches[1], docs)
      BY <1>2, <2>1 DEF QueuesOk, WaitOk
    <3> QED
      BY <1>2, <3>1 DEF CarriesPatch
  <2> QED
    BY <2>1
<1>4. WaitOk(jobs', patches, docs, Reading)
  BY <1>1, <1>2, <1>3 DEF QueuesOk, WaitOk
<1>5. Reading' = Reading
  BY DEF Reading
<1> QED
  BY <1>1, <1>4, <1>5 DEF QueuesOk, WaitOk

\* The documents that wait in the queues are of earlier loads than the one read.
LEMMA ReadQueues ==
    ASSUME QueuesOk, UNCHANGED <<jobs, patches>>,
           Len(docs') = Len(docs) + 1, docs \in Seq(Doc), docs' \in Seq(Doc),
           \A l \in DOMAIN docs : l \in DOMAIN docs' /\ docs'[l] = docs[l] /\ l # Len(docs')
    PROVE  QueuesOk'
<1>1. ASSUME NEW i \in DOMAIN jobs, jobs[i].patch
      PROVE  CarriesPatch(jobs[i], patches[1], docs')
  <2>1. jobs[i].load \in DOMAIN docs /\ CarriesPatch(jobs[i], patches[1], docs)
    BY <1>1 DEF QueuesOk, WaitOk
  <2> QED
    BY <2>1 DEF CarriesPatch
<1>2. WaitOk(jobs, patches, docs', Reading')
  BY <1>1 DEF QueuesOk, WaitOk
<1> QED
  BY <1>2 DEF QueuesOk

-----------------------------------------------------------------------------
(* Revisions.                                                              *)

LEMMA LastDoc ==
    ASSUME docs \in Seq(Doc)
    PROVE  /\ docs # <<>> => Len(docs) \in DOMAIN docs
           /\ \A l \in DOMAIN docs : docs # <<>>
           /\ docs = <<>> <=> Len(docs) = 0
           /\ Len(docs) \in Nat
<1>1. docs = <<>> <=> Len(docs) = 0
  OBVIOUS
<1> QED
  BY <1>1

LEMMA ClaimsKept ==
    ASSUME DocsOk, DocsOk', SameForeign(docs, docs')
    PROVE  /\ docs # <<>> <=> docs' # <<>>
           /\ \A rev, s, w : ForeignAt(rev, s, docs, w) => ForeignAt(rev, s, docs', w)
           /\ SameSchema(docs, docs') =>
                \A rev, s, schema : SchemaAt(rev, s, docs, schema) => SchemaAt(rev, s, docs', schema)
<1>1. docs # <<>> <=> docs' # <<>>
  <2>1. Len(docs') = Len(docs) /\ docs \in Seq(Doc) /\ docs' \in Seq(Doc)
    BY DEF DocsOk, SameForeign
  <2> QED
    BY <2>1
<1>2. docs # <<>> => Len(docs) \in DOMAIN docs
  BY LastDoc DEF DocsOk
<1> QED
  BY <1>1, <1>2 DEF ForeignAt, SchemaAt, SameForeign, SameSchema

LEMMA JobKept ==
    ASSUME DocsOk, DocsOk', SameSchema(docs, docs'), UNCHANGED <<store, overtaken, writes>>,
           NEW j \in Job, j.load \in DOMAIN docs, JobOk(j)
    PROVE  JobOk(j)'
<1>1. /\ docs'[j.load].content.foreign = docs[j.load].content.foreign
      /\ docs'[j.load].content.schema = docs[j.load].content.schema
  BY DEF SameSchema, SameForeign
<1>2. j.rev <= store'.rev /\ j.content.foreign = docs'[j.load].content.foreign
  BY <1>1 DEF JobOk
<1>3. \A s, w : JobForeignOk(j, s, docs, w) => JobForeignOk(j, s, docs', w)
  BY ClaimsKept DEF JobForeignOk, SameSchema
<1>4. \A s, w : JobSchemaOk(j, s, docs, w) => JobSchemaOk(j, s, docs', w)
  BY <1>1 DEF JobSchemaOk
<1> QED
  BY <1>2, <1>3, <1>4 DEF JobOk

\* A save that is not under way, of a document that was loaded.
Idle(j) ==
    /\ j.step \notin {"sent", "saved"} /\ j.rev <= store.rev
    /\ j.load \in DOMAIN docs
    /\ j.content.foreign = docs[j.load].content.foreign

LEMMA IdleIsOk ==
    ASSUME SameForeign(docs, docs'), UNCHANGED store, NEW j, Idle(j)
    PROVE  JobOk(j)'
<1>1. docs'[j.load].content.foreign = docs[j.load].content.foreign
  BY DEF SameForeign, Idle
<1>2. ~ Saving(j)
  BY DEF Idle, Saving
<1> QED
  BY <1>1, <1>2 DEF Idle, JobOk, JobForeignOk, JobSchemaOk, Saving

\* Nothing is sent or stored, and the handler keeps what it kept or nothing.
LEMMA NothingStored ==
    ASSUME Inv, BasicOk', DocsOk', QueuesOk',
           UNCHANGED <<store, overtaken, writes>>, cas' = cas \/ cas' = NoCas,
           room'.rev = room.rev, Reading' => Reading,
           SameSchema(docs, docs'),
           room'.stage \in {"read", "open"} => docs # <<>>,
           \A i \in DOMAIN jobs' : Idle(jobs'[i]) \/ \E k \in DOMAIN jobs : jobs'[i] = jobs[k]
    PROVE  Inv'
<1>1. BasicOk /\ DocsOk /\ QueuesOk /\ JobsOk /\ RoomOk
  BY DEF Inv
<1>2. SameForeign(docs, docs')
  BY DEF SameSchema
<1>3. /\ docs # <<>> <=> docs' # <<>>
      /\ \A rev, s, w : ForeignAt(rev, s, docs, w) => ForeignAt(rev, s, docs', w)
      /\ \A rev, s, schema : SchemaAt(rev, s, docs, schema) => SchemaAt(rev, s, docs', schema)
  BY <1>1, <1>2, ClaimsKept
<1>4. ASSUME NEW i \in DOMAIN jobs' PROVE JobOk(jobs[i])'
  <2> DEFINE j == jobs'[i]
  <2>1. CASE Idle(j)
    <3>1. \A h : Idle(h) => JobOk(h)'
      BY <1>2, IdleIsOk
    <3> QED
      BY <2>1, <3>1 DEF JobOk
  <2>2. CASE \E k \in DOMAIN jobs : j = jobs[k]
    <3>1. PICK k \in DOMAIN jobs : j = jobs[k]
      BY <2>2
    <3>2. jobs[k] \in Job /\ jobs[k].load \in DOMAIN docs /\ JobOk(jobs[k])
      BY <1>1 DEF QueuesOk, WaitOk, JobsOk
    <3>3. \A h \in Job : h.load \in DOMAIN docs /\ JobOk(h) => JobOk(h)'
      BY <1>1, JobKept
    <3> QED
      BY <3>1, <3>2, <3>3 DEF JobOk
  <2> QED
    BY <2>1, <2>2
<1>5. JobsOk'
  BY <1>4 DEF JobsOk
<1>6. store.rev \in Nat /\ cas'.rev <= store.rev /\ (cas' # cas => cas'.rev # store.rev)
  BY <1>1 DEF BasicOk, Stored, RoomOk, NoCas
<1>7. RoomOk'
  <2>1. /\ room'.stage \in {"read", "open"} => docs' # <<>>
        /\ store'.rev # 0 /\ cas'.rev <= store'.rev /\ room'.rev <= store'.rev
    BY <1>1, <1>3, <1>6 DEF RoomOk
  <2>2. cas'.rev # store.rev \/ cas' = cas
    BY <1>6
  <2>3. "load" \notin overtaken =>
          /\ store.content.foreign = writes
          /\ ForeignAt(cas'.rev, store.rev, docs', writes)
          /\ Reading' => ForeignAt(room'.rev, store.rev, docs', writes)
    BY <1>1, <1>3, <2>2 DEF RoomOk, ForeignAt
  <2>4. overtaken = {} =>
          /\ SchemaAt(cas'.rev, store.rev, docs', store.content.schema)
          /\ Reading' => SchemaAt(room'.rev, store.rev, docs', store.content.schema)
          /\ cas'.rev = store.rev => cas'.last.schema = store.content.schema
    BY <1>1, <1>3, <2>2 DEF RoomOk, SchemaAt
  <2> QED
    BY <2>1, <2>3, <2>4 DEF RoomOk
<1> QED
  BY <1>5, <1>7 DEF Inv

-----------------------------------------------------------------------------
(* The steps.                                                              *)

LEMMA SameDocsIfUnchanged ==
    ASSUME docs' = docs
    PROVE  SameDocs(docs, docs') /\ SameSchema(docs, docs') /\ SameForeign(docs, docs')
           /\ (DocsOk => DocsOk')
BY DEF SameDocs, SameSchema, SameForeign, DocsOk

LEMMA RoomTypes ==
    ASSUME BasicOk
    PROVE  /\ \A stage \in {"none", "reading", "read", "open"}, f, m \in BOOLEAN :
                 LET e == [room EXCEPT !.stage = stage, !.fenced = f, !.members = m]
                 IN  e \in Room /\ e.rev = room.rev /\ e.stage = stage
           /\ room \in Room /\ NoCas \in Cas
<1>1. room \in Room
  BY DEF BasicOk
<1>2. <<>> \in Schema
  BY DEF Schema
<1>3. NoCas \in Cas
  BY <1>2 DEF NoCas, Cas, Empty, Content
<1> QED
  BY <1>1, <1>3 DEF Room

LEMMA FencedTypes ==
    ASSUME BasicOk, NEW load
    PROVE  /\ FencedRoom(load) \in Room /\ FencedRoom(load).rev = room.rev
           /\ FencedRoom(load).stage = room.stage
BY DEF BasicOk, FencedRoom, Room

LEMMA ForgetTypes ==
    ASSUME BasicOk, Forget
    PROVE  room' \in Room /\ room'.rev = room.rev /\ room'.stage = "none" /\ cas' = NoCas /\ cas' \in Cas
BY RoomTypes DEF Forget, Room

LEMMA SpendTypes ==
    ASSUME BasicOk, NEW kind \in Kinds, Spend(kind)
    PROVE  left' \in [Kinds -> Nat]
BY DEF BasicOk, Spend

\* A step of the room that leaves the queues alone.
LEMMA RoomStep ==
    ASSUME Inv, BasicOk', DocsOk', SameDocs(docs, docs'),
           UNCHANGED <<store, patches, jobs, history>>, cas' = cas \/ cas' = NoCas,
           room'.rev = room.rev, room'.stage = room.stage \/ room'.stage \in {"none", "reading"}
    PROVE  Inv'
<1>1. Reading' => Reading
  BY DEF Reading
<1>2. QueuesOk'
  BY <1>1, QueuesSame DEF Inv
<1>3. room'.stage \in {"read", "open"} => docs # <<>>
  BY DEF Inv, RoomOk
<1>4. \A i \in DOMAIN jobs' : \E k \in DOMAIN jobs : jobs'[i] = jobs[k]
  OBVIOUS
<1>5. SameSchema(docs, docs') /\ UNCHANGED <<overtaken, writes>>
  BY DEF SameDocs, history
<1> QED
  BY <1>1, <1>2, <1>3, <1>4, <1>5, NothingStored

LEMMA BeginLoadKeeps ==
    ASSUME Inv, BeginLoad
    PROVE  Inv'
<1>1. room' \in Room /\ room'.rev = room.rev /\ room'.stage = "reading"
  <2>1. room \in Room /\ room' = [room EXCEPT !.stage = "reading"]
    BY DEF Inv, BasicOk, BeginLoad
  <2> QED
    BY <2>1 DEF Room
<1>2. left' \in [Kinds -> Nat]
  BY SpendTypes DEF Inv, BeginLoad, Kinds
<1>3. BasicOk'
  BY <1>1, <1>2 DEF Inv, BasicOk, BeginLoad, history
<1> QED
  BY <1>1, <1>3, SameDocsIfUnchanged, RoomStep DEF Inv, BeginLoad

LEMMA LoadFailsKeeps ==
    ASSUME Inv, LoadFails
    PROVE  Inv'
<1>1. room' \in Room /\ room'.rev = room.rev /\ room'.stage = "none" /\ cas' = NoCas /\ cas' \in Cas
  BY ForgetTypes DEF Inv, LoadFails
<1>2. BasicOk'
  BY <1>1 DEF Inv, BasicOk, LoadFails, history
<1> QED
  BY <1>1, <1>2, SameDocsIfUnchanged, RoomStep DEF Inv, LoadFails

LEMMA UnloadKeeps ==
    ASSUME Inv, Unload
    PROVE  Inv'
<1>1. room' \in Room /\ room'.rev = room.rev /\ room'.stage = "none" /\ cas' = NoCas /\ cas' \in Cas
  BY ForgetTypes DEF Inv, Unload
<1>2. BasicOk'
  BY <1>1 DEF Inv, BasicOk, Unload, history
<1> QED
  BY <1>1, <1>2, SameDocsIfUnchanged, RoomStep DEF Inv, Unload

LEMMA MembersKeep ==
    ASSUME Inv, Leave \/ Join
    PROVE  Inv'
<1>1. room' \in Room /\ room'.rev = room.rev /\ room'.stage = room.stage
  BY DEF Inv, BasicOk, Leave, Join, Room
<1>2. BasicOk' /\ cas' = cas
  BY <1>1 DEF Inv, BasicOk, Leave, Join, history
<1> QED
  BY <1>1, <1>2, SameDocsIfUnchanged, RoomStep DEF Inv, Leave, Join

LEMMA InvalidatedKeeps ==
    ASSUME Inv, Invalidated
    PROVE  Inv'
<1>1. room' \in Room /\ room'.rev = room.rev /\ room'.stage = room.stage
  <2>1. CASE Open
    <3>1. room' = FencedRoom(Load)
      BY <2>1 DEF Invalidated
    <3>2. BasicOk
      BY DEF Inv
    <3> QED
      BY <3>1, <3>2, FencedTypes
  <2>2. CASE ~ Open
    BY <2>2 DEF Inv, BasicOk, Invalidated, Room
  <2> QED
    BY <2>1, <2>2
<1>2. BasicOk' /\ cas' = cas
  BY <1>1 DEF Inv, BasicOk, Invalidated, history
<1>3. DocsOk' /\ SameDocs(docs, docs')
  <2>1. CASE Open
    <3>1. Load \in DOMAIN docs
      BY <2>1, LastDoc DEF Inv, RoomOk, DocsOk, Open, Load
    <3> QED
      BY <2>1, <3>1, StaledKeeps DEF Inv, Invalidated
  <2>2. CASE ~ Open
    BY <2>2, SameDocsIfUnchanged DEF Inv, Invalidated
  <2> QED
    BY <2>1, <2>2
<1> QED
  BY <1>1, <1>2, <1>3, RoomStep DEF Invalidated

LEMMA EditKeeps ==
    ASSUME Inv, Edit
    PROVE  Inv'
<1>1. edits + 1 \in Nat /\ left' \in [Kinds -> Nat]
  BY SpendTypes DEF Inv, BasicOk, Edit, Kinds
<1>2. BasicOk'
  BY <1>1 DEF Inv, BasicOk, Edit, history
<1>3. Load \in DOMAIN docs
  BY LastDoc DEF Inv, RoomOk, DocsOk, Edit, Open, Load
<1>4. DocsOk' /\ SameDocs(docs, docs')
  BY <1>1, <1>3, EditedKeeps DEF Inv, Edit
<1> QED
  BY <1>2, <1>4, RoomStep DEF Edit

\* A patch is answered, with the document as it is or without anything saved.
LEMMA PatchAnswered ==
    ASSUME Inv, BasicOk', DocsOk', SameSchema(docs, docs'), Turn, patches' = Tail(patches),
           UNCHANGED <<store, cas, jobs, history>>, room'.rev = room.rev, room'.stage = room.stage
    PROVE  Inv'
<1>1. Reading' => Reading
  BY DEF Reading
<1>2. QueuesOk'
  BY <1>1, PatchLeaves DEF Inv, SameSchema
<1>3. room'.stage \in {"read", "open"} => docs # <<>>
  BY DEF Inv, RoomOk
<1>4. \A i \in DOMAIN jobs' : \E k \in DOMAIN jobs : jobs'[i] = jobs[k]
  OBVIOUS
<1>5. UNCHANGED <<overtaken, writes>>
  BY DEF history
<1> QED
  BY <1>1, <1>2, <1>3, <1>4, <1>5, NothingStored

LEMMA FirstPatch ==
    ASSUME Inv, Turn
    PROVE  /\ Head(patches) = patches[1] /\ patches[1] \in Patch
           /\ Head(patches).load \in DOMAIN docs /\ Head(patches).req \in Requests
BY FirstOf DEF Inv, Turn

LEMMA PatchRefusedKeeps ==
    ASSUME Inv, PatchRefused \/ PatchKnown
    PROVE  Inv'
<1>1. BasicOk' /\ Turn
  BY DEF Inv, BasicOk, PatchRefused, PatchKnown, Patchable, history
<1> QED
  BY <1>1, SameDocsIfUnchanged, PatchAnswered DEF Inv, PatchRefused, PatchKnown

LEMMA PatchConflictsKeeps ==
    ASSUME Inv, PatchConflicts
    PROVE  Inv'
<1> DEFINE load == Head(patches).load
<1>1. /\ Turn /\ load \in DOMAIN docs /\ room' = FencedRoom(load) /\ docs' = Staled(load)
  BY FirstPatch DEF PatchConflicts
<1> HIDE DEF load
<1>2. BasicOk
  BY DEF Inv
<1>3. room' \in Room /\ room'.rev = room.rev /\ room'.stage = room.stage
  BY <1>1, <1>2, FencedTypes
<1>4. BasicOk'
  BY <1>3 DEF Inv, BasicOk, PatchConflicts, history
<1>5. DocsOk' /\ SameSchema(docs, docs')
  BY <1>1, StaledKeeps DEF Inv, SameDocs
<1> QED
  BY <1>1, <1>3, <1>4, <1>5, PatchAnswered DEF PatchConflicts

LEMMA PatchChangesNothingKeeps ==
    ASSUME Inv, PatchChangesNothing
    PROVE  Inv'
<1> DEFINE load == Head(patches).load
           r == Head(patches).req
<1>1. /\ Turn /\ load \in DOMAIN docs /\ r \in Requests
      /\ ~ hasAcceptedRequest(docs[load], r) /\ Has(docs[load].content.schema, r)
      /\ docs' = [docs EXCEPT ![load] = cacheAcceptedRequest(@, r)]
  BY FirstPatch DEF PatchChangesNothing, Patchable
<1> HIDE DEF load, r
<1>2. BasicOk'
  BY DEF Inv, BasicOk, PatchChangesNothing, history
<1>3. DocsOk' /\ SameSchema(docs, docs')
  BY <1>1, CachedKeeps DEF Inv
<1> QED
  BY <1>1, <1>2, <1>3, PatchAnswered DEF PatchChangesNothing

\* What is captured is captured of the document.
LEMMA CapturedTypes ==
    ASSUME Inv, NEW load \in DOMAIN docs, NEW content \in Content, NEW patch \in BOOLEAN,
           content.foreign = docs[load].content.foreign
    PROVE  LET j == Captured(load, content, patch)
           IN  /\ j \in Job /\ j.patch = patch /\ j.load = load /\ j.content = content
               /\ j.step = "queued" /\ Idle(j)
<1>1. load \in Nat \ {0} /\ pending \in Nat /\ store.rev \in Nat
  BY DEF Inv, DocsOk, BasicOk, Stored
<1> QED
  BY <1>1 DEF Captured, Job, Idle

LEMMA StoreKeeps ==
    ASSUME Inv, Store
    PROVE  Inv'
<1> DEFINE j == Captured(Load, Live.content, FALSE)
<1>1. BasicOk'
  <2>1. left' \in [Kinds -> Nat]
    BY SpendTypes DEF Inv, Store, Kinds
  <2> QED
    BY <2>1 DEF Inv, BasicOk, Store, history
<1>2. Load \in DOMAIN docs /\ room.stage = "open"
  BY LastDoc DEF Inv, RoomOk, DocsOk, Store, Writable, Open, Load
<1>3. Live \in Doc /\ Live = docs[Load] /\ Live.content \in Content
  <2>1. docs[Load] \in Doc
    BY <1>2 DEF Inv, DocsOk
  <2> QED
    BY <2>1 DEF Live, Doc
<1>4. j \in Job /\ ~ j.patch /\ j.load \in DOMAIN docs /\ j.step = "queued" /\ Idle(j)
  BY <1>2, <1>3, CapturedTypes
<1>5. /\ jobs' = Append(jobs, j) /\ UNCHANGED <<store, cas, docs, room, patches, overtaken, writes>>
  BY DEF Store, history
<1> HIDE DEF j
<1>6. ~ Reading'
  BY <1>2, <1>5 DEF Reading
<1>7. QueuesOk' /\ \A i \in DOMAIN jobs' : jobs'[i] = j \/ \E k \in DOMAIN jobs : jobs'[i] = jobs[k]
  BY <1>4, <1>5, <1>6, StoreQueued DEF Inv
<1>8. \A i \in DOMAIN jobs' : Idle(jobs'[i]) \/ \E k \in DOMAIN jobs : jobs'[i] = jobs[k]
  BY <1>4, <1>7
<1>9. docs # <<>> /\ DocsOk' /\ SameSchema(docs, docs')
  BY <1>2, <1>5, SameDocsIfUnchanged, LastDoc DEF Inv, DocsOk
<1> QED
  BY <1>1, <1>5, <1>6, <1>7, <1>8, <1>9, NothingStored

LEMMA PatchArrivesKeeps ==
    ASSUME Inv, NEW r \in Requests, PatchArrives(r)
    PROVE  Inv'
<1> DEFINE p == [req |-> r, load |-> Load, saving |-> FALSE]
<1>1. BasicOk'
  <2>1. left' \in [Kinds -> Nat]
    BY SpendTypes DEF Inv, PatchArrives, Kinds
  <2> QED
    BY <2>1 DEF Inv, BasicOk, PatchArrives, history
<1>2. Load \in DOMAIN docs /\ room.stage = "open" /\ Load \in Nat \ {0}
  BY LastDoc DEF Inv, RoomOk, DocsOk, PatchArrives, Open, Load
<1>3. p \in Patch /\ p.load \in DOMAIN docs
  BY <1>2 DEF Patch
<1>4. patches' = Append(patches, p) /\ UNCHANGED <<store, cas, docs, room, jobs, overtaken, writes>>
  BY DEF PatchArrives, history
<1> HIDE DEF p
<1>5. ~ Reading'
  BY <1>2, <1>4 DEF Reading
<1>6. QueuesOk'
  BY <1>3, <1>4, <1>5, PatchQueued DEF Inv
<1>7. \A i \in DOMAIN jobs' : \E k \in DOMAIN jobs : jobs'[i] = jobs[k]
  BY <1>4
<1>8. docs # <<>> /\ DocsOk' /\ SameSchema(docs, docs')
  BY <1>2, <1>4, SameDocsIfUnchanged, LastDoc DEF Inv, DocsOk
<1> QED
  BY <1>1, <1>4, <1>5, <1>6, <1>7, <1>8, NothingStored

LEMMA PatchSavesKeeps ==
    ASSUME Inv, PatchSaves
    PROVE  Inv'
<1> DEFINE load == Head(patches).load
           r == Head(patches).req
           content == Applied(docs[load], r).content
           j == Captured(load, content, TRUE)
           p == [patches[1] EXCEPT !.saving = TRUE]
<1>1. BasicOk'
  BY DEF Inv, BasicOk, PatchSaves, history
<1>2. /\ Turn /\ patches[1] \in Patch /\ load \in DOMAIN docs /\ r \in Requests
      /\ load = patches[1].load /\ r = patches[1].req
      /\ ~ hasAcceptedRequest(docs[load], r) /\ ~ Has(docs[load].content.schema, r)
      /\ jobs' = Append(jobs, j)
  BY FirstPatch DEF PatchSaves, Patchable
<1>3. UNCHANGED <<store, cas, docs, room, overtaken, writes>>
  BY DEF PatchSaves, history
<1>4. /\ content \in Content /\ content.schema = Append(docs[load].content.schema, r)
      /\ content.foreign = docs[load].content.foreign
  <2>1. \A c \in Content : LET n == [c EXCEPT !.schema = Append(@, r)]
                           IN  /\ n \in Content /\ n.schema = Append(c.schema, r)
                               /\ n.foreign = c.foreign
    <3>1. \A s \in Schema : Append(s, r) \in Schema
      BY <1>2 DEF Schema
    <3> QED
      BY <3>1 DEF Content
  <2>2. docs[load] \in Doc /\ docs[load].content \in Content
    <3>1. docs[load] \in Doc
      BY <1>2 DEF Inv, DocsOk
    <3> QED
      BY <3>1 DEF Doc
  <2>3. content = [docs[load].content EXCEPT !.schema = Append(@, r)]
    BY <2>2 DEF Applied, Doc, Content
  <2> HIDE DEF content
  <2> QED
    BY <2>1, <2>2, <2>3
<1>5. p \in Patch /\ p.saving /\ p.load = patches[1].load /\ p.req = patches[1].req
  BY <1>2 DEF Patch
<1>6. patches' = [patches EXCEPT ![1] = p]
  BY DEF Inv, QueuesOk, PatchSaves
<1> HIDE DEF load, r, content, p
<1>7. /\ j \in Job /\ j.patch /\ j.load = load /\ j.content = content /\ j.step = "queued"
      /\ Idle(j)
  BY <1>2, <1>4, CapturedTypes
<1> HIDE DEF j
<1>8. CarriesPatch(j, p, docs)
  BY <1>2, <1>4, <1>5, <1>7 DEF CarriesPatch
<1>9. Reading' = Reading
  BY <1>3 DEF Reading
<1>10. QueuesOk' /\ \A i \in DOMAIN jobs' : jobs'[i] = j \/ \E k \in DOMAIN jobs : jobs'[i] = jobs[k]
  BY <1>2, <1>3, <1>5, <1>6, <1>7, <1>8, <1>9, PatchSaveQueued DEF Inv
<1>11. \A i \in DOMAIN jobs' : Idle(jobs'[i]) \/ \E k \in DOMAIN jobs : jobs'[i] = jobs[k]
  BY <1>7, <1>10
<1>12. docs # <<>> /\ DocsOk' /\ SameSchema(docs, docs')
  BY <1>2, <1>3, SameDocsIfUnchanged, LastDoc DEF Inv, DocsOk
<1> QED
  BY <1>1, <1>3, <1>9, <1>10, <1>11, <1>12, NothingStored

LEMMA FirstJob ==
    ASSUME Inv, jobs # <<>>
    PROVE  /\ Head(jobs) = jobs[1] /\ jobs[1] \in Job /\ 1 \in DOMAIN jobs /\ JobOk(jobs[1])
           /\ jobs[1].load \in DOMAIN docs /\ docs # <<>>
           /\ Reading => jobs[1].load # Len(docs)
           /\ jobs[1].patch => /\ patches # <<>> /\ Head(patches) = patches[1]
                               /\ patches[1].req \in Requests
                               /\ CarriesPatch(jobs[1], patches[1], docs)
<1>1. QueuesOk /\ DocsOk /\ JobsOk
  BY DEF Inv
<1>2. /\ Head(jobs) = jobs[1] /\ jobs[1] \in Job /\ 1 \in DOMAIN jobs
      /\ jobs[1].load \in DOMAIN docs /\ (Reading => jobs[1].load # Len(docs))
  BY <1>1, FirstOf
<1>3. jobs[1].patch => patches # <<>> /\ CarriesPatch(jobs[1], patches[1], docs)
  BY <1>1, <1>2 DEF QueuesOk, WaitOk
<1>4. patches # <<>> => Head(patches) = patches[1] /\ patches[1].req \in Requests
  BY <1>1, FirstOf
<1>5. docs # <<>>
  <2>1. docs \in Seq(Doc)
    BY <1>1 DEF DocsOk
  <2> QED
    BY <1>2, <2>1, LastDoc
<1>6. JobOk(jobs[1])
  BY <1>1, <1>2 DEF JobsOk
<1> QED
  BY <1>2, <1>3, <1>4, <1>5, <1>6

\* A save fails before it was sent or after, and is answered.
LEMMA JobFailed ==
    ASSUME Inv, BasicOk', DocsOk', SameDocs(docs, docs'), jobs # <<>>, JobFails(Head(jobs)),
           UNCHANGED <<store, history>>, cas' = cas \/ cas' = NoCas,
           room'.rev = room.rev, room'.stage = room.stage
    PROVE  Inv'
<1>1. Reading' => Reading
  BY DEF Reading
<1>2. /\ QueuesOk /\ Head(jobs) = jobs[1] /\ docs # <<>> /\ SameForeign(docs, docs')
      /\ SameSchema(docs, docs') /\ UNCHANGED <<overtaken, writes>>
  BY FirstJob DEF Inv, SameDocs, SameSchema, history
<1>3. QueuesOk' /\ \A i \in DOMAIN jobs' : \E k \in DOMAIN jobs : jobs'[i] = jobs[k]
  <2>1. CASE jobs[1].patch
    BY <1>1, <1>2, <2>1, PatchSaveLeaves DEF JobFails
  <2>2. CASE ~ jobs[1].patch
    BY <1>1, <1>2, <2>2, StoreLeaves DEF JobFails
  <2> QED
    BY <2>1, <2>2
<1> QED
  BY <1>1, <1>2, <1>3, NothingStored

LEMMA JobFailsKeeps ==
    ASSUME Inv, NotLoaded \/ Invalid \/ Failed
    PROVE  Inv'
<1>1. BasicOk'
  <2>1. Invalid => left' \in [Kinds -> Nat]
    BY SpendTypes DEF Inv, Invalid, Kinds
  <2> QED
    BY <2>1 DEF Inv, BasicOk, NotLoaded, Invalid, Failed, history
<1>2. jobs # <<>> /\ JobFails(Head(jobs)) /\ UNCHANGED <<store, cas, room, docs, history>>
  BY DEF NotLoaded, Invalid, Failed, At
<1> QED
  BY <1>1, <1>2, SameDocsIfUnchanged, JobFailed DEF Inv

LEMMA ConflictsKeeps ==
    ASSUME Inv, Conflicts
    PROVE  Inv'
<1> DEFINE load == Head(jobs).load
<1>1. /\ jobs # <<>> /\ JobFails(Head(jobs)) /\ load \in DOMAIN docs /\ BasicOk
      /\ room' = FencedRoom(load) /\ docs' = Staled(load) /\ UNCHANGED <<store, history>>
  BY FirstJob DEF Inv, Conflicts, At
<1> HIDE DEF load
<1>2. room' \in Room /\ room'.rev = room.rev /\ room'.stage = room.stage
  BY <1>1, FencedTypes
<1>3. (cas' = cas \/ cas' = NoCas) /\ cas' \in Cas
  BY RoomTypes DEF Inv, BasicOk, Conflicts, CasAfterConflict
<1>4. BasicOk'
  BY <1>2, <1>3 DEF Inv, BasicOk, Conflicts, history
<1>5. DocsOk' /\ SameDocs(docs, docs')
  BY <1>1, StaledKeeps DEF Inv
<1> QED
  BY <1>1, <1>2, <1>3, <1>4, <1>5, JobFailed

\* The first save is refused, or its answer is lost.
LEMMA RefusedKeeps ==
    ASSUME Inv, Refused \/ AnswerLost
    PROVE  Inv'
<1> DEFINE j == [jobs[1] EXCEPT !.step = "failed"]
<1>1. BasicOk'
  <2>1. left' \in [Kinds -> Nat]
    BY SpendTypes DEF Inv, Refused, AnswerLost, Kinds
  <2> QED
    BY <2>1 DEF Inv, BasicOk, Refused, AnswerLost, history
<1>2. jobs # <<>> /\ UNCHANGED <<store, cas, room, docs, patches, overtaken, writes>>
  BY DEF Refused, AnswerLost, At, history
<1>3. /\ jobs[1] \in Job /\ jobs[1].load \in DOMAIN docs /\ JobOk(jobs[1]) /\ docs # <<>>
      /\ jobs \in Seq(Job) /\ QueuesOk
  BY <1>2, FirstJob DEF Inv, QueuesOk
<1>4. /\ j \in Job /\ j.patch = jobs[1].patch /\ j.load = jobs[1].load
      /\ j.content = jobs[1].content /\ j.step = "failed" /\ j.rev = jobs[1].rev
  BY <1>3 DEF Job
<1>5. jobs' = [jobs EXCEPT ![1] = j]
  BY <1>3 DEF Refused, AnswerLost
<1> HIDE DEF j
<1>6. Idle(j)
  BY <1>3, <1>4 DEF Idle, JobOk
<1>7. /\ QueuesOk' /\ jobs'[1] = j /\ DOMAIN jobs' = DOMAIN jobs
      /\ \A i \in DOMAIN jobs : i # 1 => jobs'[i] = jobs[i]
  BY <1>2, <1>3, <1>4, <1>5, FirstSaveMoves
<1>8. \A i \in DOMAIN jobs' : Idle(jobs'[i]) \/ \E k \in DOMAIN jobs : jobs'[i] = jobs[k]
  BY <1>6, <1>7
<1>9. DocsOk' /\ SameSchema(docs, docs') /\ Reading' = Reading
  BY <1>2, SameDocsIfUnchanged DEF Inv, Reading
<1> QED
  BY <1>1, <1>2, <1>3, <1>7, <1>8, <1>9, NothingStored

\* The save is sent with the revision that is kept.
LEMMA SendKeeps ==
    ASSUME Inv, Send
    PROVE  Inv'
<1>0. PICK j : j = [jobs[1] EXCEPT !.step = "sent", !.rev = cas.rev]
  OBVIOUS
<1>1. jobs # <<>> /\ UNCHANGED <<store, cas, room, docs, patches, writes>>
  BY DEF Send, At
<1>2. /\ jobs[1] \in Job /\ jobs[1].load \in DOMAIN docs /\ JobOk(jobs[1]) /\ docs # <<>>
      /\ jobs \in Seq(Job) /\ QueuesOk /\ Head(jobs) = jobs[1] /\ RoomOk
  BY <1>1, FirstJob DEF Inv, QueuesOk
<1>3. cas.rev \in Nat
  BY DEF Inv, BasicOk, Cas
<1>4. /\ j \in Job /\ j.patch = jobs[1].patch /\ j.load = jobs[1].load
      /\ j.content = jobs[1].content /\ j.step = "sent" /\ j.rev = cas.rev
  BY <1>0, <1>2, <1>3 DEF Job
<1>5. jobs' = [jobs EXCEPT ![1] = j]
  BY <1>0, <1>2 DEF Send
<1>6. overtaken' = overtaken \cup Behind(jobs[1])
  BY <1>2 DEF Send
<1>7. BasicOk'
  <2>1. overtaken' \subseteq {"load", "patch", "answer"}
    BY <1>6 DEF Inv, BasicOk, Behind
  <2> QED
    BY <2>1 DEF Inv, BasicOk, Send
<1>8. /\ QueuesOk' /\ jobs'[1] = j /\ DOMAIN jobs' = DOMAIN jobs
      /\ \A i \in DOMAIN jobs : i # 1 => jobs'[i] = jobs[i] /\ jobs[i].step = "queued"
  BY <1>1, <1>2, <1>4, <1>5, FirstSaveMoves
<1>9. DocsOk' /\ SameForeign(docs, docs') /\ Reading' = Reading
  BY <1>1, SameDocsIfUnchanged DEF Inv, Reading
<1>10. JobOk(j)'
  <2>1. j.rev <= store.rev /\ j.content.foreign = docs[j.load].content.foreign
    BY <1>2, <1>4 DEF JobOk, RoomOk
  <2>2. ASSUME "load" \notin overtaken' PROVE JobForeignOk(j, store.rev, docs, writes)
    <3>1. j.load = Len(docs) /\ "load" \notin overtaken
      BY <1>4, <1>6, <2>2 DEF Behind, Load
    <3> QED
      BY <1>2, <1>4, <2>1, <3>1 DEF JobForeignOk, RoomOk, ForeignAt
  <2>3. ASSUME overtaken' = {} PROVE JobSchemaOk(j, store.rev, docs, store.content.schema)
    <3>1. j.load = Len(docs) /\ (~ j.patch => j.content.schema = docs[j.load].content.schema)
      BY <1>4, <1>6, <2>3 DEF Behind, Load, Live
    <3> QED
      BY <1>4, <3>1 DEF JobSchemaOk
  <2> QED
    BY <1>1, <2>1, <2>2, <2>3 DEF JobOk
<1>11. ASSUME NEW i \in DOMAIN jobs' PROVE JobOk(jobs[i])'
  <2>1. CASE i = 1
    BY <1>8, <1>10, <2>1 DEF JobOk
  <2>2. CASE i # 1
    <3>1. jobs'[i] = jobs[i] /\ Idle(jobs[i])
      BY <1>8, <2>2 DEF Inv, QueuesOk, WaitOk, JobsOk, JobOk, Idle
    <3>2. \A h : Idle(h) => JobOk(h)'
      BY <1>1, <1>9, IdleIsOk
    <3> QED
      BY <3>1, <3>2 DEF JobOk
  <2> QED
    BY <2>1, <2>2
<1>12. RoomOk'
  <2>1. overtaken \subseteq overtaken'
    BY <1>6
  <2> QED
    BY <1>1, <1>2, <1>9, <2>1 DEF RoomOk
<1> QED
  BY <1>7, <1>8, <1>9, <1>11, <1>12 DEF Inv, JobsOk

\* Jobs that were not sent have nothing to say of the stored document.
LEMMA QueuedAreOk ==
    ASSUME Inv, SameForeign(docs, docs'), UNCHANGED store,
           \A i \in DOMAIN jobs' : \E k \in DOMAIN jobs : jobs'[i] = jobs[k],
           \A i \in DOMAIN jobs' : jobs'[i].step = "queued"
    PROVE  JobsOk'
<1>1. ASSUME NEW i \in DOMAIN jobs' PROVE JobOk(jobs[i])'
  <2>1. PICK k \in DOMAIN jobs : jobs'[i] = jobs[k]
    OBVIOUS
  <2>2. Idle(jobs[k])
    BY <2>1 DEF Inv, QueuesOk, WaitOk, JobsOk, JobOk, Idle
  <2>3. \A h : Idle(h) => JobOk(h)'
    BY IdleIsOk
  <2> QED
    BY <2>1, <2>2, <2>3 DEF JobOk
<1> QED
  BY <1>1 DEF JobsOk

\* A save succeeds: what its document and the queues are then.
LEMMA Succeeds ==
    ASSUME Inv, jobs # <<>>, JobSucceeds(jobs[1]), UNCHANGED <<room, edits, store>>
    PROVE  /\ DocsOk' /\ QueuesOk' /\ JobsOk' /\ SameForeign(docs, docs') /\ pending' \in 0 .. edits
           /\ jobs[1].patch /\ jobs[1].load = Load
                => docs'[Load].content.schema = jobs[1].content.schema
           /\ ~ (jobs[1].patch /\ jobs[1].load = Load)
                => docs'[Load].content.schema = docs[Load].content.schema
<1> DEFINE j == jobs[1]
           p == patches[1]
<1>1. /\ QueuesOk /\ DocsOk /\ j.load \in DOMAIN docs /\ Load \in DOMAIN docs
      /\ pending \in 0 .. edits /\ edits \in Nat
      /\ j.patch => /\ Head(patches) = p /\ p.req \in Requests /\ CarriesPatch(j, p, docs)
  BY FirstJob, LastDoc DEF Inv, BasicOk, DocsOk, Load
<1>2. jobs' = Tail(jobs)
  BY DEF JobSucceeds
<1>3. Reading' => Reading
  BY DEF Reading
<1>4. pending' \in 0 .. edits
  BY <1>1 DEF JobSucceeds
<1>5. CASE j.patch
  <2>1. /\ docs' = [docs EXCEPT ![j.load] = cacheAcceptedRequest(Applied(@, p.req), p.req)]
        /\ patches' = Tail(patches)
    BY <1>1, <1>5 DEF JobSucceeds
  <2>2. ~ hasAcceptedRequest(docs[j.load], p.req)
    BY <1>1, <1>5 DEF CarriesPatch
  <2>3. /\ DocsOk' /\ SameForeign(docs, docs')
        /\ docs'[j.load].content.schema = Append(docs[j.load].content.schema, p.req)
        /\ \A k \in DOMAIN docs : k # j.load => docs'[k] = docs[k]
    <3>1. p.req \in Requests
      BY <1>1, <1>5
    <3> HIDE DEF j, p
    <3> QED
      BY <1>1, <2>1, <2>2, <3>1, AppliedKeeps
  <2>4. docs'[j.load].content.schema = j.content.schema
    BY <1>1, <1>5, <2>3 DEF CarriesPatch
  <2>5. /\ QueuesOk' /\ \A i \in DOMAIN jobs' : \E k \in DOMAIN jobs : jobs'[i] = jobs[k]
        /\ \A i \in DOMAIN jobs' : jobs'[i].step = "queued"
    BY <1>1, <1>2, <1>3, <1>5, <2>1, <2>3, PatchSaveLeaves
  <2>6. JobsOk'
    BY <2>3, <2>5, QueuedAreOk
  <2> QED
    BY <1>1, <1>4, <1>5, <2>3, <2>4, <2>5, <2>6
<1>6. CASE ~ j.patch
  <2>1. docs' = docs /\ patches' = patches
    BY <1>6 DEF JobSucceeds
  <2>2. DocsOk' /\ SameForeign(docs, docs') /\ SameDocs(docs, docs')
    BY <1>1, <2>1, SameDocsIfUnchanged
  <2>3. /\ QueuesOk' /\ \A i \in DOMAIN jobs' : \E k \in DOMAIN jobs : jobs'[i] = jobs[k]
        /\ \A i \in DOMAIN jobs' : jobs'[i].step = "queued"
    BY <1>1, <1>2, <1>3, <1>6, <2>1, <2>2, StoreLeaves
  <2>4. JobsOk'
    BY <2>2, <2>3, QueuedAreOk
  <2> QED
    BY <1>4, <1>6, <2>1, <2>2, <2>3, <2>4
<1> QED
  BY <1>5, <1>6

\* What was saved last need not be saved: a patch of the live document would be
\* saved again only if the revision that is kept is an old one.
LEMMA NothingToSaveKeeps ==
    ASSUME Inv, NothingToSave
    PROVE  Inv'
<1> DEFINE j == jobs[1]
<1>1. /\ jobs # <<>> /\ Head(jobs) = j /\ JobSucceeds(j) /\ cas.last = j.content
      /\ UNCHANGED <<type, store, cas, room, edits, overtaken, writes, left>>
  BY FirstJob DEF NothingToSave, At, Unchanged, history
<1>2. /\ DocsOk' /\ QueuesOk' /\ JobsOk' /\ SameForeign(docs, docs') /\ pending' \in 0 .. edits
      /\ ~ (j.patch /\ j.load = Load)
           => docs'[Load].content.schema = docs[Load].content.schema
  BY <1>1, Succeeds
<1>3. BasicOk'
  BY <1>1, <1>2 DEF Inv, BasicOk
<1>4. /\ RoomOk /\ DocsOk /\ docs # <<>> /\ j.load \in DOMAIN docs /\ Load \in DOMAIN docs
      /\ Reading => j.load # Load
      /\ j.patch => CarriesPatch(j, patches[1], docs)
  BY <1>1, FirstJob, LastDoc DEF Inv, DocsOk, Load
<1>5. /\ docs' # <<>> /\ Len(docs') = Len(docs)
      /\ \A rev, s, w : ForeignAt(rev, s, docs, w) => ForeignAt(rev, s, docs', w)
  BY <1>2, <1>4, ClaimsKept DEF SameForeign
<1>6. ASSUME overtaken = {}, cas.rev = store.rev PROVE ~ (j.patch /\ j.load = Load)
  <2>1. SUFFICES ASSUME j.patch, j.load = Load PROVE FALSE
    OBVIOUS
  <2>2. /\ j.content.schema = docs[Load].content.schema
        /\ j.content.schema = Append(docs[Load].content.schema, patches[1].req)
    BY <1>1, <1>4, <1>6, <2>1 DEF RoomOk, SchemaAt, Load, CarriesPatch
  <2>3. docs[Load].content.schema \in Seq(Requests)
    <3>1. docs[Load] \in Doc
      BY <1>4 DEF DocsOk
    <3> QED
      BY <3>1 DEF Doc, Content, Schema
  <2> QED
    BY <2>2, <2>3, AppendDiffers
<1>7. RoomOk'
  <2>1. Reading' = Reading
    BY <1>1 DEF Reading
  <2>2. ASSUME overtaken = {}
        PROVE  /\ SchemaAt(cas.rev, store.rev, docs', store.content.schema)
               /\ Reading => SchemaAt(room.rev, store.rev, docs', store.content.schema)
    BY <1>2, <1>4, <1>5, <1>6, <2>2 DEF RoomOk, SchemaAt, Load
  <2> QED
    BY <1>1, <1>4, <1>5, <2>1, <2>2 DEF RoomOk
<1> QED
  BY <1>2, <1>3, <1>7 DEF Inv

\* The revision of the answer is kept.
LEMMA SavedKeeps ==
    ASSUME Inv, Saved
    PROVE  Inv'
<1> DEFINE j == jobs[1]
<1>1. /\ jobs # <<>> /\ Head(jobs) = j /\ j.step = "saved" /\ JobSucceeds(j) /\ cas' = NextCas(j)
      /\ overtaken' = overtaken \cup AnsweredLate(j)
      /\ UNCHANGED <<type, store, room, edits, writes, left>>
  BY FirstJob DEF Saved, At
<1>2. /\ DocsOk' /\ QueuesOk' /\ JobsOk' /\ SameForeign(docs, docs') /\ pending' \in 0 .. edits
      /\ j.patch /\ j.load = Load => docs'[Load].content.schema = j.content.schema
      /\ ~ (j.patch /\ j.load = Load)
           => docs'[Load].content.schema = docs[Load].content.schema
  BY <1>1, Succeeds
<1>3. /\ RoomOk /\ DocsOk /\ BasicOk /\ docs # <<>> /\ j \in Job /\ JobOk(j)
      /\ j.load \in DOMAIN docs /\ Load \in DOMAIN docs /\ Reading => j.load # Load
  BY <1>1, FirstJob, LastDoc DEF Inv, DocsOk, Load
<1>4. cas' \in Cas /\ cas'.rev = j.rev /\ cas'.last = j.content
  BY <1>1, <1>3 DEF BasicOk, Cas, Job, NextCas
<1>5. BasicOk'
  <2>1. overtaken' \subseteq {"load", "patch", "answer"}
    BY <1>1, <1>3 DEF BasicOk, AnsweredLate
  <2> QED
    BY <1>1, <1>2, <1>3, <1>4, <2>1 DEF BasicOk
<1>6. /\ docs' # <<>> /\ Len(docs') = Len(docs)
      /\ \A rev, s, w : ForeignAt(rev, s, docs, w) => ForeignAt(rev, s, docs', w)
  BY <1>2, <1>3, ClaimsKept DEF SameForeign
<1>7. Reading' = Reading
  BY <1>1 DEF Reading
<1>8. ASSUME "load" \notin overtaken'
      PROVE  /\ store.content.foreign = writes
             /\ ForeignAt(j.rev, store.rev, docs', writes)
             /\ Reading => ForeignAt(room.rev, store.rev, docs', writes)
  <2>1. "load" \notin overtaken
    BY <1>1, <1>8
  <2>2. ForeignAt(j.rev, store.rev, docs, writes)
    BY <1>1, <1>3, <2>1 DEF JobOk, JobForeignOk, Saving
  <2> QED
    BY <1>3, <1>6, <2>1, <2>2 DEF RoomOk
<1>9. ASSUME overtaken' = {}
      PROVE  /\ SchemaAt(j.rev, store.rev, docs', store.content.schema)
             /\ ~ Reading
             /\ j.rev = store.rev => j.content.schema = store.content.schema
  <2>1. overtaken = {} /\ j.load = Load
    BY <1>1, <1>9 DEF AnsweredLate
  <2>2. /\ j.rev = store.rev => j.content.schema = store.content.schema
        /\ ~ j.patch => j.content.schema = docs[Load].content.schema
    BY <1>1, <1>3, <2>1 DEF JobOk, JobSchemaOk, Saving
  <2>3. docs'[Load].content.schema = j.content.schema
    BY <1>2, <2>1, <2>2
  <2> QED
    BY <1>3, <1>6, <2>1, <2>2, <2>3 DEF SchemaAt, Load
<1>10. RoomOk'
  BY <1>1, <1>3, <1>4, <1>6, <1>7, <1>8, <1>9 DEF RoomOk, JobOk
<1> QED
  BY <1>2, <1>5, <1>10 DEF Inv

\* The API saves, against the stored revision only.
LEMMA CommitKeeps ==
    ASSUME Inv, Commit
    PROVE  Inv'
<1>1. /\ jobs # <<>> /\ jobs[1].step = "sent"
      /\ UNCHANGED <<type, cas, room, docs, edits, pending, patches, overtaken, writes, left>>
  BY FirstJob DEF Commit, At, history
<1>2. /\ jobs[1] \in Job /\ jobs[1].load \in DOMAIN docs /\ JobOk(jobs[1]) /\ docs # <<>>
      /\ jobs \in Seq(Job) /\ QueuesOk /\ Head(jobs) = jobs[1] /\ RoomOk /\ BasicOk
  BY <1>1, FirstJob DEF Inv, QueuesOk
<1>3. DocsOk' /\ SameForeign(docs, docs') /\ SameSchema(docs, docs') /\ Reading' = Reading
  BY <1>1, SameDocsIfUnchanged DEF Inv, Reading
<1>4. store.rev \in Nat /\ jobs[1].rev \in Nat /\ jobs[1].content \in Content
  BY <1>2 DEF BasicOk, Stored, Job
<1>5. CASE jobs[1].rev = store.rev
  <2>0. PICK j : j = [jobs[1] EXCEPT !.step = "saved", !.rev = store.rev + 1]
    OBVIOUS
  <2>1. /\ store' = [rev |-> store.rev + 1, content |-> jobs[1].content, exists |-> TRUE]
        /\ jobs' = [jobs EXCEPT ![1] = j]
    BY <1>2, <1>4, <1>5, <2>0 DEF Commit
  <2>2. /\ j \in Job /\ j.patch = jobs[1].patch /\ j.load = jobs[1].load
        /\ j.content = jobs[1].content /\ j.step = "saved" /\ j.rev = store.rev + 1
    <3>1. jobs[1] \in Job /\ store.rev + 1 \in Nat
      BY <1>2, <1>4
    <3> QED
      BY <2>0, <3>1 DEF Job
  <2>3. store' \in Stored /\ store'.rev = store.rev + 1 /\ store'.content = jobs[1].content
    BY <1>4, <2>1 DEF Stored
  <2>4. BasicOk'
    BY <1>1, <1>2, <2>3 DEF BasicOk
  <2>5. /\ QueuesOk' /\ jobs'[1] = j /\ DOMAIN jobs' = DOMAIN jobs
        /\ \A i \in DOMAIN jobs : i # 1 => jobs'[i] = jobs[i] /\ jobs[i].step = "queued"
    BY <1>1, <1>2, <2>1, <2>2, FirstSaveMoves
  <2>6. "load" \notin overtaken =>
          /\ jobs[1].content.foreign = writes
          /\ docs[Len(docs)].content.foreign = writes
    BY <1>1, <1>2, <1>5 DEF JobOk, JobForeignOk, Saving, ForeignAt
  <2>7. overtaken = {} /\ ~ j.patch => j.content.schema = docs[j.load].content.schema
    BY <1>1, <1>2, <2>2 DEF JobOk, JobSchemaOk, Saving
  <2>8. JobOk(j)'
    <3>1. "load" \notin overtaken => JobForeignOk(j, store'.rev, docs, writes)
      BY <2>2, <2>6 DEF JobForeignOk, ForeignAt
    <3>2. overtaken = {} => JobSchemaOk(j, store'.rev, docs, store'.content.schema)
      BY <2>2, <2>3, <2>7 DEF JobSchemaOk
    <3>3. j.rev <= store'.rev /\ j.content.foreign = docs[j.load].content.foreign
      BY <1>2, <1>4, <2>2, <2>3 DEF JobOk
    <3> QED
      BY <1>1, <3>1, <3>2, <3>3 DEF JobOk
  <2>9. ASSUME NEW i \in DOMAIN jobs' PROVE JobOk(jobs[i])'
    <3>1. CASE i = 1
      BY <2>5, <2>8, <3>1 DEF JobOk
    <3>2. CASE i # 1
      <4>1. /\ jobs'[i] = jobs[i] /\ jobs[i].step = "queued" /\ jobs[i].rev <= store.rev
            /\ jobs[i].content.foreign = docs[jobs[i].load].content.foreign
        BY <2>5, <3>2 DEF Inv, JobsOk, JobOk
      <4>2. jobs[i].rev <= store'.rev
        <5>1. jobs[i] \in Job
          BY <1>2, <2>5
        <5>2. jobs[i].rev \in Nat
          BY <5>1 DEF Job
        <5> QED
          BY <1>4, <2>3, <4>1, <5>2
      <4> QED
        BY <1>1, <4>1, <4>2 DEF JobOk, JobForeignOk, JobSchemaOk, Saving
    <3> QED
      BY <3>1, <3>2
  <2>10. RoomOk'
    <3>1. cas.rev \in Nat /\ room.rev \in Nat /\ cas.rev <= store.rev /\ room.rev <= store.rev
      BY <1>2 DEF BasicOk, RoomOk, Cas, Room
    <3>2. /\ store'.rev # 0 /\ cas.rev <= store'.rev /\ room.rev <= store'.rev
          /\ cas.rev # store'.rev /\ room.rev # store'.rev
      BY <1>4, <2>3, <3>1
    <3> QED
      BY <1>1, <1>2, <1>3, <2>3, <2>6, <3>2 DEF RoomOk, ForeignAt, SchemaAt
  <2> QED
    BY <1>3, <2>4, <2>5, <2>9, <2>10 DEF Inv, JobsOk
<1>6. CASE jobs[1].rev # store.rev
  <2> DEFINE j == [jobs[1] EXCEPT !.step = "conflict"]
  <2>1. store' = store /\ jobs' = [jobs EXCEPT ![1] = j]
    BY <1>2, <1>6 DEF Commit
  <2>2. /\ j \in Job /\ j.patch = jobs[1].patch /\ j.load = jobs[1].load
        /\ j.content = jobs[1].content /\ j.step = "conflict" /\ j.rev = jobs[1].rev
    BY <1>2 DEF Job
  <2> HIDE DEF j
  <2>3. Idle(j)
    BY <1>2, <2>2 DEF Idle, JobOk
  <2>4. /\ QueuesOk' /\ jobs'[1] = j /\ DOMAIN jobs' = DOMAIN jobs
        /\ \A i \in DOMAIN jobs : i # 1 => jobs'[i] = jobs[i]
    BY <1>1, <1>2, <2>1, <2>2, FirstSaveMoves
  <2>5. \A i \in DOMAIN jobs' : Idle(jobs'[i]) \/ \E k \in DOMAIN jobs : jobs'[i] = jobs[k]
    BY <2>3, <2>4
  <2>6. BasicOk'
    BY <1>1, <1>2, <2>1 DEF BasicOk
  <2> QED
    BY <1>1, <1>2, <1>3, <2>1, <2>4, <2>5, <2>6, NothingStored
<1> QED
  BY <1>5, <1>6

LEMMA ForeignWriteKeeps ==
    ASSUME Inv, ForeignWrite
    PROVE  Inv'
<1>1. /\ store' = [store EXCEPT !.rev = @ + 1, !.content.foreign = writes + 1, !.exists = TRUE]
      /\ UNCHANGED <<type, cas, room, docs, edits, pending, patches, jobs, overtaken>>
      /\ writes' = writes + 1
  BY DEF ForeignWrite
<1>2. DocsOk /\ QueuesOk /\ RoomOk /\ BasicOk /\ store.rev \in Nat /\ writes \in Nat
  BY DEF Inv, BasicOk, Stored
<1>3. /\ store' \in Stored /\ store'.rev = store.rev + 1 /\ store'.content.foreign = writes + 1
  <2>1. \A c \in Content : \A w \in Nat : LET n == [c EXCEPT !.foreign = w]
                                          IN  n \in Content /\ n.foreign = w
    BY DEF Content
  <2>2. store \in Stored /\ store.content \in Content
    BY <1>2 DEF BasicOk, Stored
  <2> DEFINE n == [store.content EXCEPT !.foreign = writes + 1]
  <2>3. n \in Content /\ n.foreign = writes + 1
    BY <1>2, <2>1, <2>2
  <2>4. store' = [rev |-> store.rev + 1, content |-> n, exists |-> TRUE]
    BY <1>1, <2>2 DEF Stored
  <2> HIDE DEF n
  <2> QED
    BY <1>2, <2>3, <2>4 DEF Stored
<1>4. BasicOk'
  <2>1. left' \in [Kinds -> Nat]
    BY <1>2, SpendTypes DEF ForeignWrite, Kinds
  <2> QED
    BY <1>1, <1>2, <1>3, <2>1 DEF BasicOk
<1>5. DocsOk' /\ QueuesOk'
  <2>1. Reading' => Reading
    BY <1>1 DEF Reading
  <2> QED
    BY <1>1, <1>2, <2>1, SameDocsIfUnchanged, QueuesSame
<1>6. JobsOk'
  <2>1. ASSUME NEW i \in DOMAIN jobs PROVE JobOk(jobs[i])'
    <3>1. jobs[i].rev \in Nat /\ JobOk(jobs[i])
      <4>1. jobs[i] \in Job /\ JobOk(jobs[i])
        BY <1>2 DEF Inv, QueuesOk, JobsOk
      <4> QED
        BY <4>1 DEF Job
    <3>2. jobs[i].rev <= store'.rev /\ jobs[i].rev # store'.rev
      BY <1>2, <1>3, <3>1 DEF JobOk
    <3> QED
      BY <1>1, <3>1, <3>2 DEF JobOk, JobForeignOk, JobSchemaOk, ForeignAt
  <2> QED
    BY <1>1, <2>1 DEF JobsOk
<1>7. RoomOk'
  <2>1. cas.rev \in Nat /\ room.rev \in Nat /\ cas.rev <= store.rev /\ room.rev <= store.rev
    BY <1>2 DEF BasicOk, RoomOk, Cas, Room
  <2>2. /\ store'.rev # 0 /\ cas.rev <= store'.rev /\ room.rev <= store'.rev
        /\ cas.rev # store'.rev /\ room.rev # store'.rev
    BY <1>2, <1>3, <2>1
  <2> QED
    BY <1>1, <1>2, <1>3, <2>2 DEF RoomOk, Reading, ForeignAt, SchemaAt
<1> QED
  BY <1>4, <1>5, <1>6, <1>7 DEF Inv

LEMMA LoadedKeeps ==
    ASSUME Inv, Loaded
    PROVE  Inv'
<1>1. /\ room.stage = "read"
      /\ room' = [room EXCEPT !.stage = "open", !.members = TRUE]
      /\ cas' = [rev |-> room.rev, last |-> Live.content, loaded |-> TRUE]
      /\ UNCHANGED <<type, store, docs, edits, pending, patches, jobs, overtaken, writes, left>>
  BY DEF Loaded, history
<1>2. DocsOk /\ QueuesOk /\ RoomOk /\ BasicOk /\ JobsOk /\ docs # <<>>
  BY <1>1 DEF Inv, RoomOk
<1>3. room' \in Room /\ room'.rev = room.rev /\ room'.stage = "open" /\ room.rev \in Nat
  BY <1>1, <1>2 DEF BasicOk, Room
<1>4. Live.content \in Content /\ Live = docs[Len(docs)]
  <2>1. docs[Load] \in Doc
    BY <1>2, LastDoc DEF DocsOk, Load
  <2> QED
    BY <2>1 DEF Live, Load, Doc
<1>5. cas' \in Cas /\ cas'.rev = room.rev /\ cas'.last = Live.content
  BY <1>1, <1>3, <1>4 DEF Cas
<1>6. BasicOk'
  BY <1>1, <1>2, <1>3, <1>5 DEF BasicOk
<1>7. Reading /\ ~ Reading'
  BY <1>1, <1>3 DEF Reading
<1>8. DocsOk' /\ QueuesOk'
  BY <1>1, <1>2, <1>7, SameDocsIfUnchanged, QueuesSame
<1>9. JobsOk'
  BY <1>1, <1>2 DEF JobsOk, JobOk
<1>10. RoomOk'
  <2>1. "load" \notin overtaken => ForeignAt(cas'.rev, store.rev, docs, writes)
    BY <1>2, <1>5, <1>7 DEF RoomOk
  <2>2. overtaken = {} =>
          /\ SchemaAt(cas'.rev, store.rev, docs, store.content.schema)
          /\ cas'.rev = store.rev => cas'.last.schema = store.content.schema
    BY <1>2, <1>4, <1>5, <1>7 DEF RoomOk, SchemaAt
  <2> QED
    BY <1>1, <1>2, <1>3, <1>5, <1>7, <2>1, <2>2 DEF RoomOk
<1> QED
  BY <1>6, <1>8, <1>9, <1>10 DEF Inv

\* What is read is what is stored.
LEMMA ReadStepKeeps ==
    ASSUME Inv, Read
    PROVE  Inv'
<1>1. /\ room' = [room EXCEPT !.stage = "read", !.rev = store.rev]
      /\ UNCHANGED <<type, store, cas, edits, pending, patches, jobs, overtaken, writes, left>>
  BY DEF Read, history
<1>2. DocsOk /\ QueuesOk /\ RoomOk /\ BasicOk /\ JobsOk /\ store.rev \in Nat /\ docs \in Seq(Doc)
  BY DEF Inv, BasicOk, Stored, DocsOk
<1>3. room' \in Room /\ room'.rev = store.rev /\ room'.stage = "read"
  BY <1>1, <1>2 DEF BasicOk, Room
<1>4. BasicOk'
  BY <1>1, <1>2, <1>3 DEF BasicOk
<1>5. /\ DocsOk' /\ docs' # <<>> /\ Len(docs') = Len(docs) + 1
      /\ docs'[Len(docs')].content = store.content
      /\ \A l \in DOMAIN docs : l \in DOMAIN docs' /\ docs'[l] = docs[l] /\ l # Len(docs')
  BY <1>2, ReadKeeps DEF Read
<1>6. QueuesOk'
  <2>1. docs' \in Seq(Doc)
    BY <1>5 DEF DocsOk
  <2> QED
    BY <1>1, <1>2, <1>5, <2>1, ReadQueues
<1>7. "load" \notin overtaken => \A rev, s : ForeignAt(rev, s, docs', writes)
  BY <1>2, <1>5 DEF RoomOk, ForeignAt
<1>8. \A rev, s : SchemaAt(rev, s, docs', store.content.schema)
  BY <1>5 DEF SchemaAt
<1>9. JobsOk'
  <2>1. ASSUME NEW i \in DOMAIN jobs PROVE JobOk(jobs[i])'
    <3>1. jobs[i].load \in DOMAIN docs /\ JobOk(jobs[i])
      BY <1>2 DEF QueuesOk, WaitOk, JobsOk
    <3>2. docs'[jobs[i].load] = docs[jobs[i].load]
      BY <1>5, <3>1
    <3>3. "load" \notin overtaken => JobForeignOk(jobs[i], store.rev, docs', writes)
      BY <1>7, <3>1 DEF JobOk, JobForeignOk
    <3>4. overtaken = {} => JobSchemaOk(jobs[i], store.rev, docs', store.content.schema)
      BY <3>1, <3>2 DEF JobOk, JobSchemaOk
    <3> QED
      BY <1>1, <3>1, <3>2, <3>3, <3>4 DEF JobOk
  <2> QED
    BY <1>1, <2>1 DEF JobsOk
<1>10. RoomOk'
  BY <1>1, <1>2, <1>3, <1>5, <1>7, <1>8 DEF RoomOk
<1> QED
  BY <1>4, <1>5, <1>6, <1>9, <1>10 DEF Inv

LEMMA InitOk ==
    ASSUME Init
    PROVE  Inv
<1>1. /\ docs = <<>> /\ patches = <<>> /\ jobs = <<>> /\ overtaken = {} /\ writes = 0
      /\ edits = 0 /\ pending = 0 /\ cas = NoCas
      /\ room = [stage |-> "none", rev |-> 0, fenced |-> FALSE, members |-> FALSE]
  BY DEF Init
<1>2. \E exists \in BOOLEAN : store = [rev |-> 1, content |-> Empty, exists |-> exists]
  BY DEF Init
<1>3. <<>> \in Schema /\ Empty \in Content /\ Empty.foreign = 0
  BY DEF Schema, Empty, Content
<1>4. store \in Stored /\ store.rev = 1 /\ store.content = Empty
  BY <1>2, <1>3 DEF Stored
<1>5. cas \in Cas /\ cas.rev = 0
  BY <1>1, <1>3 DEF NoCas, Cas
<1>6. room \in Room /\ room.rev = 0 /\ room.stage = "none"
  BY <1>1 DEF Room
<1>7. type \in DocumentTypes /\ left \in [Kinds -> Nat]
  BY ScenariosAssumption DEF Init
<1>8. BasicOk
  BY <1>1, <1>4, <1>5, <1>6, <1>7 DEF BasicOk
<1>9. DocsOk
  BY <1>1 DEF DocsOk
<1>10. QueuesOk /\ JobsOk
  BY <1>1 DEF QueuesOk, WaitOk, JobsOk
<1>11. RoomOk
  BY <1>1, <1>3, <1>4, <1>5, <1>6 DEF RoomOk, Reading, ForeignAt, SchemaAt
<1> QED
  BY <1>8, <1>9, <1>10, <1>11 DEF Inv

LEMMA StepKeeps ==
    ASSUME Inv, Next
    PROVE  Inv'
<1>1. CASE BeginLoad \/ Read \/ Loaded \/ LoadFails \/ Unload
  BY <1>1, BeginLoadKeeps, ReadStepKeeps, LoadedKeeps, LoadFailsKeeps, UnloadKeeps
<1>2. CASE Leave \/ Join \/ ForeignWrite \/ Invalidated
  BY <1>2, MembersKeep, ForeignWriteKeeps, InvalidatedKeeps
<1>3. CASE Edit \/ Store
  BY <1>3, EditKeeps, StoreKeeps
<1>4. CASE \E r \in Requests : PatchArrives(r)
  BY <1>4, PatchArrivesKeeps
<1>5. CASE PatchRefused \/ PatchConflicts \/ PatchKnown \/ PatchChangesNothing \/ PatchSaves
  BY <1>5, PatchRefusedKeeps, PatchConflictsKeeps, PatchChangesNothingKeeps, PatchSavesKeeps
<1>6. CASE NotLoaded \/ Invalid \/ NothingToSave \/ Send \/ Commit
  BY <1>6, JobFailsKeeps, NothingToSaveKeeps, SendKeeps, CommitKeeps
<1>7. CASE Refused \/ AnswerLost \/ Saved \/ Failed \/ Conflicts
  BY <1>7, RefusedKeeps, SavedKeeps, JobFailsKeeps, ConflictsKeeps
<1> QED
  BY <1>1, <1>2, <1>3, <1>4, <1>5, <1>6, <1>7 DEF Next

LEMMA StutterKeeps ==
    ASSUME Inv, UNCHANGED vars
    PROVE  Inv'
<1>1. UNCHANGED <<type, store, cas, room, docs, edits, pending, patches, jobs, overtaken, writes, left>>
  BY DEF vars, history
<1>2. BasicOk'
  BY <1>1 DEF Inv, BasicOk
<1>3. /\ DocsOk' /\ SameDocs(docs, docs') /\ UNCHANGED <<store, patches, jobs, history>>
      /\ cas' = cas \/ cas' = NoCas
      /\ room'.rev = room.rev /\ (room'.stage = room.stage \/ room'.stage \in {"none", "reading"})
  BY <1>1, SameDocsIfUnchanged DEF Inv, history
<1> QED
  BY <1>2, <1>3, RoomStep

LEMMA SpecKeeps == Spec => []Inv
<1>1. Init => Inv
  BY InitOk
<1>2. Inv /\ [Next]_vars => Inv'
  BY StepKeeps, StutterKeeps
<1> QED
  BY <1>1, <1>2, PTL DEF Spec

-----------------------------------------------------------------------------
(* The stored schema.  It is the live document's, or has one patch more,   *)
(* whose save was made and not answered; so it never loses a patch.        *)

PatchesOf(schema) == {schema[i] : i \in DOMAIN schema}

\* What the document has of the schema, or acknowledged, is in `schema`.
KnownIn(d, schema) == PatchesOf(d.content.schema) \cup d.acked \subseteq PatchesOf(schema)

\* The patch is not in the document yet: not the last of its schema, and not
\* acknowledged unless that was forgotten.
NewTo(d, r) == r \notin d.acked \ d.evicted /\ ~ Has(d.content.schema, r)

\* The document's schema, or it with a patch that is new to the document.
AtMostOneAhead(schema, d) ==
    \/ schema = d.content.schema
    \/ \E r \in Requests : NewTo(d, r) /\ schema = Append(d.content.schema, r)

\* A save that was made is what is stored; one that will be made adds a patch at most.
JobAheadOk(j, s, d) ==
    /\ j.step = "saved" => j.content.schema = s.content.schema
    /\ j.step = "sent" /\ j.rev = s.rev =>
          s.content.schema = d.content.schema /\ AtMostOneAhead(j.content.schema, d)

SchemasOk ==
    /\ \A l \in DOMAIN docs : KnownIn(docs[l], store.content.schema)
    /\ docs # <<>> => AtMostOneAhead(store.content.schema, Live)
    /\ \A i \in DOMAIN jobs : JobAheadOk(jobs[i], store, Live)
    /\ cas.loaded => cas.last.schema = Live.content.schema

\* The source locale is kept while the room is open; only a form has patches.
SourceOk ==
    /\ cas.loaded => Open
    /\ patches # <<>> => type = "form"

SchemaInv == SourceOk /\ (overtaken = {} => SchemasOk)

LEMMA PatchesOnlyOfForms ==
    ASSUME Inv, Next, patches' # <<>>
    PROVE  type' = type /\ (patches # <<>> \/ type = "form")
<1>1. type' = type
  <2>1. CASE BeginLoad \/ Read \/ Loaded \/ LoadFails \/ Leave \/ Join \/ Unload
    BY <2>1 DEF BeginLoad, Read, Loaded, LoadFails, Leave, Join, Unload
  <2>2. CASE ForeignWrite \/ Invalidated \/ Edit \/ Store \/ \E r \in Requests : PatchArrives(r)
    BY <2>2 DEF ForeignWrite, Invalidated, Edit, Store, PatchArrives
  <2>3. CASE PatchRefused \/ PatchConflicts \/ PatchKnown \/ PatchChangesNothing \/ PatchSaves
    BY <2>3 DEF PatchRefused, PatchConflicts, PatchKnown, PatchChangesNothing, PatchSaves
  <2>4. CASE NotLoaded \/ Invalid \/ NothingToSave \/ Send \/ Commit \/ Refused \/ AnswerLost
              \/ Saved \/ Failed \/ Conflicts
    BY <2>4 DEF NotLoaded, Invalid, NothingToSave, Send, Commit, Refused, AnswerLost, Saved,
                Failed, Conflicts
  <2> QED
    BY <2>1, <2>2, <2>3, <2>4 DEF Next
<1>2. SUFFICES ASSUME patches = <<>> PROVE type = "form"
  BY <1>1
<1>3. jobs # <<>> => ~ Head(jobs).patch
  BY <1>2, FirstJob
<1>4. CASE BeginLoad \/ Read \/ Loaded \/ LoadFails \/ Leave \/ Join \/ Unload
  BY <1>2, <1>4 DEF BeginLoad, Read, Loaded, LoadFails, Leave, Join, Unload
<1>5. CASE ForeignWrite \/ Invalidated \/ Edit \/ Store \/ \E r \in Requests : PatchArrives(r)
  BY <1>2, <1>5 DEF ForeignWrite, Invalidated, Edit, Store, PatchArrives
<1>6. CASE PatchRefused \/ PatchConflicts \/ PatchKnown \/ PatchChangesNothing \/ PatchSaves
  BY <1>2, <1>6 DEF PatchRefused, PatchConflicts, PatchKnown, PatchChangesNothing, PatchSaves,
                    Patchable, Turn
<1>7. CASE NotLoaded \/ Invalid \/ NothingToSave \/ Saved \/ Failed \/ Conflicts
  BY <1>2, <1>3, <1>7 DEF NotLoaded, Invalid, NothingToSave, Saved, Failed, Conflicts, At,
                          JobFails, JobSucceeds
<1>8. CASE Send \/ Commit \/ Refused \/ AnswerLost
  BY <1>2, <1>8 DEF Send, Commit, Refused, AnswerLost
<1> QED
  BY <1>4, <1>5, <1>6, <1>7, <1>8 DEF Next

LEMMA SourceOnlyIfOpen ==
    ASSUME Inv, Next, cas.loaded => Open, cas'.loaded
    PROVE  Open'
<1>1. ~ NoCas.loaded
  BY DEF NoCas
<1>2. BasicOk /\ \A load : FencedRoom(load).stage = room.stage
  BY FencedTypes DEF Inv
<1>3. CASE BeginLoad \/ Read \/ Loaded \/ LoadFails \/ Leave \/ Join \/ Unload
  <2>1. room \in Room
    BY <1>2 DEF BasicOk
  <2> QED
    BY <1>1, <1>3, <2>1 DEF BeginLoad, Read, Loaded, LoadFails, Leave, Join, Unload, Forget,
                            Open, Room
<1>4. CASE Invalidated \/ PatchConflicts \/ Conflicts
  BY <1>1, <1>2, <1>4 DEF Invalidated, PatchConflicts, Conflicts, CasAfterConflict, Open
<1>5. CASE Saved
  BY <1>2, <1>5 DEF Saved, NextCas, BasicOk, Cas, Open
<1>6. CASE ForeignWrite \/ Edit \/ Store \/ \E r \in Requests : PatchArrives(r)
  BY <1>6 DEF ForeignWrite, Edit, Store, PatchArrives, Open
<1>7. CASE PatchRefused \/ PatchKnown \/ PatchChangesNothing \/ PatchSaves
  BY <1>7 DEF PatchRefused, PatchKnown, PatchChangesNothing, PatchSaves, Open
<1>8. CASE NotLoaded \/ Invalid \/ NothingToSave \/ Send \/ Commit \/ Refused \/ AnswerLost
            \/ Failed
  BY <1>8 DEF NotLoaded, Invalid, NothingToSave, Send, Commit, Refused, AnswerLost, Failed, Open
<1> QED
  BY <1>3, <1>4, <1>5, <1>6, <1>7, <1>8 DEF Next

LEMMA SourceKeeps ==
    ASSUME Inv, SourceOk, Next
    PROVE  SourceOk'
BY PatchesOnlyOfForms, SourceOnlyIfOpen DEF SourceOk

\* A step that stores no other schema, and sends and makes no save.
LEMMA SchemasKept ==
    ASSUME Inv, SchemasOk, docs' # <<>> => docs # <<>>,
           store'.content.schema = store.content.schema,
           store'.rev = store.rev \/ store'.rev = store.rev + 1,
           \A l \in DOMAIN docs' : KnownIn(docs'[l], store.content.schema),
           Live'.content.schema = Live.content.schema,
           \A r : NewTo(Live, r) => NewTo(Live', r),
           cas' = cas \/ ~ cas'.loaded,
           \A i \in DOMAIN jobs' : Saving(jobs'[i]) => \E k \in DOMAIN jobs : jobs'[i] = jobs[k]
    PROVE  SchemasOk'
<1>1. \A schema : AtMostOneAhead(schema, Live) => AtMostOneAhead(schema, Live')
  BY DEF AtMostOneAhead
<1>2. ASSUME NEW i \in DOMAIN jobs' PROVE JobAheadOk(jobs'[i], store', Live')
  <2>1. CASE ~ Saving(jobs'[i])
    BY <2>1 DEF Saving, JobAheadOk
  <2>2. CASE Saving(jobs'[i])
    <3>1. PICK k \in DOMAIN jobs : jobs'[i] = jobs[k]
      BY <2>2
    <3>2. JobAheadOk(jobs[k], store, Live) /\ jobs[k].rev <= store.rev
      BY DEF SchemasOk, Inv, JobsOk, JobOk
    <3>3. store.rev \in Nat /\ jobs[k].rev \in Nat
      <4>1. jobs[k] \in Job
        BY DEF Inv, QueuesOk
      <4> QED
        BY <4>1 DEF Job, Inv, BasicOk, Stored
    <3>4. jobs[k].rev = store'.rev => store'.rev = store.rev
      BY <3>2, <3>3
    <3> QED
      BY <1>1, <3>1, <3>2, <3>4 DEF JobAheadOk
  <2> QED
    BY <2>1, <2>2
<1>3. cas'.loaded => cas'.last.schema = Live'.content.schema
  BY DEF SchemasOk
<1>4. docs' # <<>> => AtMostOneAhead(store'.content.schema, Live')
  BY <1>1 DEF SchemasOk
<1> QED
  BY <1>2, <1>3, <1>4 DEF SchemasOk

\* ... and leaves the documents as they are, up to their titles and fences.
LEMMA SchemasSame ==
    ASSUME Inv, SchemasOk, DocsOk', SameDocs(docs, docs'),
           store'.content.schema = store.content.schema,
           store'.rev = store.rev \/ store'.rev = store.rev + 1,
           cas' = cas \/ ~ cas'.loaded, docs = <<>> => docs' = docs,
           \A i \in DOMAIN jobs' : Saving(jobs'[i]) => \E k \in DOMAIN jobs : jobs'[i] = jobs[k]
    PROVE  SchemasOk'
<1>1. \A l \in DOMAIN docs : /\ docs'[l].content.schema = docs[l].content.schema
                             /\ docs'[l].acked = docs[l].acked
                             /\ docs'[l].evicted = docs[l].evicted
  BY DEF SameDocs, SameSchema
<1>2. DOMAIN docs' = DOMAIN docs /\ Len(docs') = Len(docs)
  BY DEF SameDocs, SameSchema, SameForeign
<1>3. \A l \in DOMAIN docs' : KnownIn(docs'[l], store.content.schema)
  BY <1>1, <1>2 DEF SchemasOk, KnownIn
<1>4. Live'.content.schema = Live.content.schema /\ \A r : NewTo(Live, r) => NewTo(Live', r)
  <2>1. CASE docs = <<>>
    BY <2>1 DEF Live, Load
  <2>2. CASE docs # <<>>
    <3>1. Len(docs) \in DOMAIN docs
      BY <2>2, LastDoc DEF Inv, DocsOk
    <3> QED
      BY <1>1, <1>2, <3>1 DEF Live, Load, NewTo
  <2> QED
    BY <2>1, <2>2
<1>5. docs' # <<>> => docs # <<>>
  OBVIOUS
<1> QED
  BY <1>3, <1>4, <1>5, SchemasKept

LEMMA StaledSchemas ==
    ASSUME Inv, SchemasOk, NEW l \in DOMAIN docs, docs' = Staled(l), store' = store,
           cas' = cas \/ ~ cas'.loaded,
           \A i \in DOMAIN jobs' : Saving(jobs'[i]) => \E k \in DOMAIN jobs : jobs'[i] = jobs[k]
    PROVE  SchemasOk'
<1>1. DocsOk' /\ SameDocs(docs, docs')
  BY StaledKeeps DEF Inv
<1>2. docs # <<>>
  BY LastDoc DEF Inv, DocsOk
<1> QED
  BY <1>1, <1>2, SchemasSame

LEMMA RoomSchemas ==
    ASSUME Inv, SchemasOk,
           BeginLoad \/ LoadFails \/ Leave \/ Join \/ Unload \/ Invalidated \/ ForeignWrite \/ Edit
    PROVE  SchemasOk'
<1>1. jobs' = jobs
  BY DEF BeginLoad, LoadFails, Leave, Join, Unload, Invalidated, ForeignWrite, Edit
<1>2. \A i \in DOMAIN jobs' : Saving(jobs'[i]) => \E k \in DOMAIN jobs : jobs'[i] = jobs[k]
  BY <1>1
<1>3. cas' = cas \/ ~ cas'.loaded
  BY DEF BeginLoad, LoadFails, Leave, Join, Unload, Invalidated, ForeignWrite, Edit, Forget, NoCas
<1>4. store' = store \/ ForeignWrite
  BY DEF BeginLoad, LoadFails, Leave, Join, Unload, Invalidated, Edit
<1>5. /\ store'.content.schema = store.content.schema
      /\ store'.rev = store.rev \/ store'.rev = store.rev + 1
  <2>1. CASE ForeignWrite
    <3>1. store \in Stored /\ store.content \in Content
      BY DEF Inv, BasicOk, Stored
    <3> QED
      BY <2>1, <3>1 DEF ForeignWrite, Stored, Content
  <2> QED
    BY <1>4, <2>1
<1>6. Open => Load \in DOMAIN docs /\ docs # <<>>
  BY LastDoc DEF Inv, RoomOk, DocsOk, Open, Load
<1>7. DocsOk' /\ SameDocs(docs, docs') /\ (docs = <<>> => docs' = docs)
  <2>1. CASE docs' = docs
    BY <2>1, SameDocsIfUnchanged DEF Inv
  <2>2. CASE Edit
    <3>1. edits + 1 \in Nat
      BY DEF Inv, BasicOk
    <3>2. DocsOk' /\ SameDocs(docs, docs')
      BY <1>6, <2>2, <3>1, EditedKeeps DEF Edit, Inv
    <3> QED
      BY <1>6, <2>2, <3>2 DEF Edit
  <2>3. CASE Invalidated /\ Open
    <3>1. DocsOk' /\ SameDocs(docs, docs')
      BY <1>6, <2>3, StaledKeeps DEF Invalidated, Inv
    <3> QED
      BY <1>6, <2>3, <3>1
  <2> QED
    BY <2>1, <2>2, <2>3 DEF BeginLoad, LoadFails, Leave, Join, Unload, Invalidated, ForeignWrite
<1> QED
  BY <1>2, <1>3, <1>5, <1>7, SchemasSame

\* What is read has the schema that is stored.
LEMMA ReadSchemas ==
    ASSUME Inv, SchemasOk, cas.loaded => Open, Read
    PROVE  SchemasOk'
<1>1. UNCHANGED <<store, cas, jobs>> /\ ~ cas.loaded
  BY DEF Read, Open
<1>2. /\ DocsOk' /\ docs' # <<>>
      /\ docs'[Len(docs')].content = store.content
      /\ \A l \in DOMAIN docs : docs'[l] = docs[l]
  BY ReadKeeps DEF Inv, Read
<1>3. docs'[Len(docs')].acked = {} /\ \A l \in DOMAIN docs' : l \in DOMAIN docs \/ l = Len(docs')
  <2>1. PICK e : docs' = Append(docs, e) /\ e.acked = {}
    BY DEF Read
  <2>2. docs \in Seq(Doc)
    BY DEF Inv, DocsOk
  <2> QED
    BY <2>1, <2>2
<1>4. Live' = docs'[Len(docs')]
  BY DEF Live, Load
<1>5. \A l \in DOMAIN docs' : KnownIn(docs'[l], store.content.schema)
  BY <1>2, <1>3 DEF SchemasOk, KnownIn
<1>6. ASSUME NEW i \in DOMAIN jobs PROVE JobAheadOk(jobs[i], store, Live')
  <2>1. JobAheadOk(jobs[i], store, Live)
    BY DEF SchemasOk
  <2>2. store.content.schema = Live.content.schema /\ AtMostOneAhead(jobs[i].content.schema, Live)
           => AtMostOneAhead(jobs[i].content.schema, Live')
    BY <1>2, <1>3, <1>4 DEF AtMostOneAhead, NewTo
  <2> QED
    BY <1>2, <1>4, <2>1, <2>2 DEF JobAheadOk
<1>7. AtMostOneAhead(store.content.schema, Live')
  BY <1>2, <1>4 DEF AtMostOneAhead
<1> QED
  BY <1>1, <1>5, <1>6, <1>7 DEF SchemasOk

LEMMA LoadedSchemas ==
    ASSUME Inv, SchemasOk, Loaded
    PROVE  SchemasOk'
<1>1. UNCHANGED <<store, docs, jobs>> /\ cas'.last = Live.content /\ Live' = Live
  BY DEF Loaded, Live, Load
<1> QED
  BY <1>1 DEF SchemasOk

\* A save is captured, a patch arrives, or is answered without a save.
LEMMA QueuedSchemas ==
    ASSUME Inv, SchemasOk,
           \/ Store \/ PatchRefused \/ PatchKnown \/ PatchSaves
           \/ \E r \in Requests : PatchArrives(r)
    PROVE  SchemasOk'
<1>1. UNCHANGED <<store, cas, docs>>
  BY DEF Store, PatchRefused, PatchKnown, PatchSaves, PatchArrives
<1>2. jobs' = jobs \/ \E load, content, patch : jobs' = Append(jobs, Captured(load, content, patch))
  BY DEF Store, PatchRefused, PatchKnown, PatchSaves, PatchArrives
<1>3. ASSUME NEW i \in DOMAIN jobs', Saving(jobs'[i]) PROVE \E k \in DOMAIN jobs : jobs'[i] = jobs[k]
  <2>1. CASE jobs' = jobs
    BY <2>1
  <2>2. ASSUME NEW load, NEW content, NEW patch,
               jobs' = Append(jobs, Captured(load, content, patch))
        PROVE  \E k \in DOMAIN jobs : jobs'[i] = jobs[k]
    <3> DEFINE j == Captured(load, content, patch)
    <3>1. ~ Saving(j)
      BY DEF Captured, Saving
    <3> HIDE DEF j
    <3>2. jobs \in Seq(Job)
      BY DEF Inv, QueuesOk
    <3>3. (i \in DOMAIN jobs /\ jobs'[i] = jobs[i]) \/ jobs'[i] = j
      BY <2>2, <3>2 DEF j
    <3> QED
      BY <1>3, <3>1, <3>3
  <2> QED
    BY <1>2, <2>1, <2>2
<1>4. DocsOk' /\ SameDocs(docs, docs')
  BY <1>1, SameDocsIfUnchanged DEF Inv
<1> QED
  BY <1>1, <1>3, <1>4, SchemasSame

LEMMA PatchConflictsSchemas ==
    ASSUME Inv, SchemasOk, PatchConflicts
    PROVE  SchemasOk'
<1>1. UNCHANGED <<store, cas, jobs>> /\ docs' = Staled(Head(patches).load)
  BY DEF PatchConflicts
<1>2. Head(patches).load \in DOMAIN docs
  BY FirstPatch DEF PatchConflicts
<1> QED
  BY <1>1, <1>2, StaledSchemas

\* A request that is acknowledged without a save is in the schema already.
LEMMA PatchChangesNothingSchemas ==
    ASSUME Inv, SchemasOk, PatchChangesNothing
    PROVE  SchemasOk'
<1> DEFINE l == Head(patches).load
           r == Head(patches).req
<1>1. /\ UNCHANGED <<store, cas, jobs>> /\ l \in DOMAIN docs /\ r \in Requests
      /\ ~ hasAcceptedRequest(docs[l], r) /\ Has(docs[l].content.schema, r)
      /\ docs' = [docs EXCEPT ![l] = cacheAcceptedRequest(@, r)]
  BY FirstPatch DEF PatchChangesNothing, Patchable
<1> HIDE DEF l, r
<1>2. /\ DocsOk' /\ SameSchema(docs, docs')
      /\ docs'[l].acked = docs[l].acked \cup {r} /\ docs[l].evicted \subseteq docs'[l].evicted
      /\ \A k \in DOMAIN docs : k # l => docs'[k] = docs[k]
  BY <1>1, CachedKeeps DEF Inv
<1>3. /\ DOMAIN docs' = DOMAIN docs /\ Len(docs') = Len(docs)
      /\ \A k \in DOMAIN docs : docs'[k].content.schema = docs[k].content.schema
  BY <1>2 DEF SameSchema, SameForeign
<1>4. docs # <<>> /\ Load \in DOMAIN docs /\ Live = docs[Load] /\ Live' = docs'[Load]
  BY <1>1, <1>3, LastDoc DEF Inv, DocsOk, Live, Load
<1>5. r \in PatchesOf(docs[l].content.schema)
  <2>1. docs[l].content.schema \in Seq(Requests)
    <3>1. docs[l] \in Doc
      BY <1>1 DEF Inv, DocsOk
    <3> QED
      BY <3>1 DEF Doc, Content, Schema
  <2>2. Len(docs[l].content.schema) \in DOMAIN docs[l].content.schema
    BY <1>1, <2>1 DEF Has
  <2> QED
    BY <1>1, <2>2 DEF Has, PatchesOf
<1>6. \A k \in DOMAIN docs : KnownIn(docs[k], store.content.schema)
  BY DEF SchemasOk
<1>7. \A k \in DOMAIN docs' : KnownIn(docs'[k], store.content.schema)
  BY <1>1, <1>2, <1>3, <1>5, <1>6 DEF KnownIn
<1>8. Live'.content.schema = Live.content.schema
  BY <1>3, <1>4
<1>9. ASSUME NEW q, NewTo(Live, q) PROVE NewTo(Live', q)
  <2>1. CASE l = Load
    <3>1. q # r
      BY <1>1, <1>4, <1>9, <2>1 DEF NewTo
    <3> QED
      BY <1>2, <1>4, <1>8, <1>9, <2>1, <3>1 DEF NewTo
  <2>2. CASE l # Load
    BY <1>2, <1>4, <1>9, <2>2
  <2> QED
    BY <2>1, <2>2
<1> QED
  BY <1>1, <1>4, <1>7, <1>8, <1>9, SchemasKept

\* A save is over: those that wait were not sent.
LEMMA NextIsQueued ==
    ASSUME Inv, jobs # <<>>, jobs' = Tail(jobs)
    PROVE  \A i \in DOMAIN jobs' : ~ Saving(jobs'[i])
<1>1. \A i \in DOMAIN jobs' : i + 1 \in DOMAIN jobs /\ i + 1 # 1 /\ jobs'[i] = jobs[i + 1]
  BY TailOf DEF Inv, QueuesOk
<1> QED
  BY <1>1 DEF Inv, QueuesOk, WaitOk, Saving

LEMMA JobFailsSchemas ==
    ASSUME Inv, SchemasOk, NotLoaded \/ Invalid \/ Failed \/ Conflicts
    PROVE  SchemasOk'
<1>1. jobs # <<>> /\ store' = store /\ jobs' = Tail(jobs)
  BY DEF NotLoaded, Invalid, Failed, Conflicts, At, JobFails
<1>2. \A i \in DOMAIN jobs' : ~ Saving(jobs'[i])
  BY <1>1, NextIsQueued
<1>3. CASE Conflicts
  <2>1. docs' = Staled(Head(jobs).load) /\ Head(jobs).load \in DOMAIN docs
    BY <1>1, <1>3, FirstJob DEF Conflicts
  <2>2. cas' = cas \/ ~ cas'.loaded
    BY <1>3 DEF Conflicts, CasAfterConflict, NoCas
  <2> QED
    BY <1>1, <1>2, <2>1, <2>2, StaledSchemas
<1>4. CASE ~ Conflicts
  <2>1. cas' = cas /\ docs' = docs
    BY <1>4 DEF NotLoaded, Invalid, Failed
  <2>2. DocsOk' /\ SameDocs(docs, docs')
    BY <2>1, SameDocsIfUnchanged DEF Inv
  <2> QED
    BY <1>1, <1>2, <2>1, <2>2, SchemasSame
<1> QED
  BY <1>3, <1>4

\* The first save goes another step.
LEMMA FirstJobMoves ==
    ASSUME Inv, jobs # <<>>, NEW e, jobs' = [jobs EXCEPT ![1] = e]
    PROVE  /\ DOMAIN jobs' = DOMAIN jobs /\ jobs'[1] = e
           /\ \A i \in DOMAIN jobs : i # 1 => jobs'[i] = jobs[i] /\ ~ Saving(jobs'[i])
<1>1. jobs \in Seq(Job) /\ 1 \in DOMAIN jobs
  BY FirstJob DEF Inv, QueuesOk
<1>2. DOMAIN jobs' = DOMAIN jobs /\ jobs'[1] = e /\ \A i \in DOMAIN jobs : i # 1 => jobs'[i] = jobs[i]
  BY <1>1
<1> QED
  BY <1>2 DEF Inv, QueuesOk, WaitOk, Saving

LEMMA RefusedSchemas ==
    ASSUME Inv, SchemasOk, Refused \/ AnswerLost
    PROVE  SchemasOk'
<1> DEFINE e == [jobs[1] EXCEPT !.step = "failed"]
<1>1. /\ jobs # <<>> /\ UNCHANGED <<store, cas, docs>> /\ jobs' = [jobs EXCEPT ![1] = e]
  BY DEF Refused, AnswerLost, At, Inv, QueuesOk
<1>2. ~ Saving(e)
  <2>1. jobs[1] \in Job
    BY <1>1, FirstJob
  <2> QED
    BY <2>1 DEF Saving, Job
<1> HIDE DEF e
<1>3. \A i \in DOMAIN jobs' : ~ Saving(jobs'[i])
  BY <1>1, <1>2, FirstJobMoves
<1>4. DocsOk' /\ SameDocs(docs, docs')
  BY <1>1, SameDocsIfUnchanged DEF Inv
<1> QED
  BY <1>1, <1>3, <1>4, SchemasSame

\* A save that is sent with the stored revision, and behind nothing, is of the live
\* document, which then is what is stored.
LEMMA SendSchemas ==
    ASSUME Inv, SchemasOk, Send, overtaken' = {}
    PROVE  SchemasOk'
<1> DEFINE j == jobs[1]
           e == [j EXCEPT !.step = "sent", !.rev = cas.rev]
<1>1. /\ jobs # <<>> /\ UNCHANGED <<store, cas, docs>> /\ jobs' = [jobs EXCEPT ![1] = e]
      /\ overtaken' = overtaken \cup Behind(j)
  BY FirstJob DEF Send, At, Inv, QueuesOk
<1>2. /\ j \in Job /\ j.load \in DOMAIN docs /\ docs # <<>>
      /\ j.patch => patches[1].req \in Requests /\ CarriesPatch(j, patches[1], docs)
  BY <1>1, FirstJob
<1>3. e.step = "sent" /\ e.rev = cas.rev /\ e.content = j.content
  BY <1>2 DEF Job
<1>4. overtaken = {} /\ j.load = Load /\ (~ j.patch => j.content.schema = Live.content.schema)
  BY <1>1 DEF Behind
<1> HIDE DEF j, e
<1>5. Live = docs[j.load] /\ Live \in Doc /\ DocOk(Live)
  BY <1>2, <1>4 DEF Live, Inv, DocsOk
<1>6. AtMostOneAhead(j.content.schema, Live)
  <2>1. CASE j.patch
    <3> DEFINE r == patches[1].req
    <3>1. /\ r \in Requests /\ ~ hasAcceptedRequest(Live, r) /\ ~ Has(Live.content.schema, r)
          /\ j.content.schema = Append(Live.content.schema, r)
      BY <1>2, <1>5, <2>1 DEF CarriesPatch
    <3> HIDE DEF r
    <3>2. r \notin Live.acked \ Live.evicted
      BY <1>5, <3>1 DEF DocOk, RequestOk
    <3> QED
      BY <3>1, <3>2 DEF AtMostOneAhead, NewTo
  <2>2. CASE ~ j.patch
    BY <1>4, <2>2 DEF AtMostOneAhead
  <2> QED
    BY <2>1, <2>2
<1>7. cas.rev = store.rev => store.content.schema = Live.content.schema
  BY <1>2, <1>4 DEF Inv, RoomOk, SchemaAt, Live, Load
<1>8. JobAheadOk(e, store, Live)
  BY <1>3, <1>6, <1>7 DEF JobAheadOk
<1>9. Live' = Live /\ \A i \in DOMAIN jobs' : i # 1 => ~ Saving(jobs'[i])
  BY <1>1, FirstJobMoves DEF Live, Load
<1>10. \A i \in DOMAIN jobs' : JobAheadOk(jobs'[i], store, Live)
  <2>1. jobs'[1] = e
    BY <1>1, FirstJobMoves
  <2> QED
    BY <1>8, <1>9, <2>1 DEF JobAheadOk, Saving
<1> QED
  BY <1>1, <1>9, <1>10 DEF SchemasOk

\* What is committed is what is stored, or has one patch more.
LEMMA CommitStores ==
    ASSUME Inv, SchemasOk, Commit
    PROVE  /\ jobs # <<>> /\ UNCHANGED <<cas, docs>> /\ docs # <<>>
           /\ \/ /\ store'.content.schema = jobs[1].content.schema
                 /\ \E e : /\ jobs' = [jobs EXCEPT ![1] = e]
                          /\ e.step = "saved" /\ e.content = jobs[1].content
                 /\ store.content.schema = Live.content.schema
                 /\ AtMostOneAhead(jobs[1].content.schema, Live)
              \/ /\ store' = store
                 /\ \E e : jobs' = [jobs EXCEPT ![1] = e] /\ e.step = "conflict"
<1>1. /\ jobs # <<>> /\ jobs[1].step = "sent" /\ UNCHANGED <<cas, docs>> /\ docs # <<>>
      /\ jobs[1] \in Job /\ 1 \in DOMAIN jobs /\ jobs \in Seq(Job) /\ Head(jobs) = jobs[1]
  BY FirstJob DEF Commit, At, Inv, QueuesOk
<1>2. JobAheadOk(jobs[1], store, Live)
  BY <1>1 DEF SchemasOk
<1>3. CASE jobs[1].rev = store.rev
  <2> DEFINE e == [jobs[1] EXCEPT !.step = "saved", !.rev = @ + 1]
  <2>1. /\ store'.content = jobs[1].content
        /\ jobs' = [jobs EXCEPT ![1].step = "saved", ![1].rev = @ + 1]
    BY <1>1, <1>3 DEF Commit
  <2>2. jobs' = [jobs EXCEPT ![1] = e]
    BY <1>1, <2>1
  <2>3. e.step = "saved" /\ e.content = jobs[1].content
    BY <1>1 DEF Job
  <2> HIDE DEF e
  <2> QED
    BY <1>1, <1>2, <1>3, <2>1, <2>2, <2>3 DEF JobAheadOk
<1>4. CASE jobs[1].rev # store.rev
  <2> DEFINE e == [jobs[1] EXCEPT !.step = "conflict"]
  <2>1. store' = store /\ jobs' = [jobs EXCEPT ![1] = e]
    BY <1>1, <1>4 DEF Commit
  <2>2. e.step = "conflict"
    BY <1>1 DEF Job
  <2> HIDE DEF e
  <2> QED
    BY <1>1, <2>1, <2>2
<1> QED
  BY <1>1, <1>3, <1>4

LEMMA CommitSchemas ==
    ASSUME Inv, SchemasOk, Commit
    PROVE  SchemasOk'
<1>1. /\ jobs # <<>> /\ UNCHANGED <<cas, docs>> /\ docs # <<>> /\ Live' = Live /\ jobs[1] \in Job
  BY CommitStores, FirstJob DEF Live, Load
<1>2. ASSUME /\ store'.content.schema = jobs[1].content.schema
             /\ store.content.schema = Live.content.schema
             /\ AtMostOneAhead(jobs[1].content.schema, Live),
             NEW e, jobs' = [jobs EXCEPT ![1] = e], e.step = "saved", e.content = jobs[1].content
      PROVE  SchemasOk'
  <2>4. jobs'[1] = e /\ \A i \in DOMAIN jobs' : i # 1 => ~ Saving(jobs'[i])
    BY <1>1, <1>2, FirstJobMoves
  <2>5. \A i \in DOMAIN jobs' : JobAheadOk(jobs'[i], store', Live)
    BY <1>2, <2>4 DEF JobAheadOk, Saving
  <2>6. PatchesOf(store.content.schema) \subseteq PatchesOf(store'.content.schema)
    <3>1. CASE store'.content.schema = store.content.schema
      BY <3>1
    <3>2. CASE \E r \in Requests : store'.content.schema = Append(store.content.schema, r)
      <4>1. PICK r \in Requests : store'.content.schema = Append(store.content.schema, r)
        BY <3>2
      <4>2. store.content.schema \in Seq(Requests)
        BY DEF Inv, BasicOk, Stored, Content, Schema
      <4>3. \A i \in DOMAIN store.content.schema :
               /\ i \in DOMAIN store'.content.schema
               /\ store'.content.schema[i] = store.content.schema[i]
        BY <4>1, <4>2, AppendOf
      <4> QED
        BY <4>3 DEF PatchesOf
    <3> QED
      BY <1>2, <3>1, <3>2 DEF AtMostOneAhead
  <2>7. \A l \in DOMAIN docs : KnownIn(docs[l], store'.content.schema)
    BY <2>6 DEF SchemasOk, KnownIn
  <2> QED
    BY <1>1, <1>2, <2>5, <2>7 DEF SchemasOk
<1>3. ASSUME store' = store, NEW e, jobs' = [jobs EXCEPT ![1] = e], e.step = "conflict"
      PROVE  SchemasOk'
  <2>4. \A i \in DOMAIN jobs' : ~ Saving(jobs'[i])
    BY <1>1, <1>3, FirstJobMoves DEF Saving
  <2>5. DocsOk' /\ SameDocs(docs, docs')
    BY <1>1, SameDocsIfUnchanged DEF Inv
  <2> QED
    BY <1>1, <1>3, <2>4, <2>5, SchemasSame
<1> QED
  BY <1>2, <1>3, CommitStores

\* A patch is made: its document gets the schema that was saved.
LEMMA PatchMade ==
    ASSUME Inv, jobs # <<>>, jobs[1].patch, JobSucceeds(jobs[1])
    PROVE  LET j == jobs[1]
               r == patches[1].req
           IN  /\ DOMAIN docs' = DOMAIN docs /\ Len(docs') = Len(docs)
               /\ r \in Requests /\ r \in PatchesOf(j.content.schema)
               /\ docs[j.load].content.schema \in Seq(Requests)
               /\ j.content.schema = Append(docs[j.load].content.schema, r)
               /\ docs'[j.load].content.schema = j.content.schema
               /\ docs'[j.load].acked = docs[j.load].acked \cup {r}
               /\ \A k \in DOMAIN docs : k # j.load => docs'[k] = docs[k]
<1> DEFINE j == jobs[1]
           r == patches[1].req
           s == docs[j.load].content.schema
<1>1. /\ DocsOk /\ j.load \in DOMAIN docs /\ Head(patches) = patches[1]
      /\ r \in Requests /\ CarriesPatch(j, patches[1], docs)
  BY FirstJob DEF Inv
<1>2. docs' = [docs EXCEPT ![j.load] = cacheAcceptedRequest(Applied(@, r), r)]
  BY <1>1 DEF JobSucceeds
<1>3. ~ hasAcceptedRequest(docs[j.load], r) /\ j.content.schema = Append(s, r)
  BY <1>1 DEF CarriesPatch
<1>4. s \in Seq(Requests)
  <2>1. docs[j.load] \in Doc
    BY <1>1 DEF DocsOk
  <2> QED
    BY <2>1 DEF Doc, Content, Schema
<1> HIDE DEF j, r
<1>5. /\ SameForeign(docs, docs')
      /\ docs'[j.load].content.schema = Append(s, r)
      /\ docs'[j.load].acked = docs[j.load].acked \cup {r}
      /\ \A k \in DOMAIN docs : k # j.load => docs'[k] = docs[k]
  BY <1>1, <1>2, <1>3, AppliedKeeps
<1> HIDE DEF s
<1>6. r \in PatchesOf(Append(s, r))
  <2>1. Len(s) + 1 \in DOMAIN Append(s, r) /\ Append(s, r)[Len(s) + 1] = r
    BY <1>1, <1>4
  <2> QED
    BY <2>1 DEF PatchesOf
<1> QED
  BY <1>1, <1>3, <1>4, <1>5, <1>6 DEF SameForeign, j, r, s

\* A patch that need not be saved is of an earlier document, and is in the live one.
LEMMA NothingToSaveSchemas ==
    ASSUME Inv, SchemasOk, SourceOk, NothingToSave
    PROVE  SchemasOk'
<1> DEFINE j == jobs[1]
           r == patches[1].req
<1>1. /\ jobs # <<>> /\ Head(jobs) = j /\ JobSucceeds(j) /\ cas.last = j.content
      /\ CanSave /\ UNCHANGED <<store, cas>>
  BY FirstJob DEF NothingToSave, At, Unchanged
<1>2. /\ docs # <<>> /\ j.load \in DOMAIN docs /\ Load \in DOMAIN docs
      /\ jobs' = Tail(jobs) /\ (j.patch => patches # <<>>)
  BY <1>1, FirstJob, LastDoc DEF Inv, DocsOk, Load, JobSucceeds
<1>3. \A i \in DOMAIN jobs' : ~ Saving(jobs'[i])
  BY <1>1, <1>2, NextIsQueued
<1>4. CASE ~ j.patch
  <2>1. docs' = docs
    BY <1>1, <1>4 DEF JobSucceeds
  <2>2. DocsOk' /\ SameDocs(docs, docs')
    BY <2>1, SameDocsIfUnchanged DEF Inv
  <2> QED
    BY <1>1, <1>2, <1>3, <2>1, <2>2, SchemasSame
<1>5. CASE j.patch
  <2>1. type = "form"
    BY <1>2, <1>5 DEF SourceOk
  <2>2. Does("source")
    BY <2>1 DEF Does, handlers, DocumentTypes, formHandler
  <2>3. j.content.schema = Live.content.schema
    BY <1>1, <2>2 DEF CanSave, SchemasOk
  <2>4. /\ DOMAIN docs' = DOMAIN docs /\ Len(docs') = Len(docs)
        /\ r \in PatchesOf(j.content.schema)
        /\ docs[j.load].content.schema \in Seq(Requests)
        /\ j.content.schema = Append(docs[j.load].content.schema, r)
        /\ docs'[j.load].content.schema = j.content.schema
        /\ docs'[j.load].acked = docs[j.load].acked \cup {r}
        /\ \A k \in DOMAIN docs : k # j.load => docs'[k] = docs[k]
    BY <1>1, <1>5, PatchMade
  <2>5. j.load # Load
    BY <2>3, <2>4, AppendDiffers DEF Live
  <2>6. Live' = Live /\ Live = docs[Load]
    BY <1>2, <2>4, <2>5 DEF Live, Load
  <2>7. \A l \in DOMAIN docs' : KnownIn(docs'[l], store.content.schema)
    <3>1. KnownIn(Live, store.content.schema) /\ KnownIn(docs[j.load], store.content.schema)
      BY <1>2, <2>6 DEF SchemasOk
    <3>2. KnownIn(docs'[j.load], store.content.schema)
      BY <2>3, <2>4, <3>1 DEF KnownIn
    <3> QED
      BY <2>4, <3>2 DEF SchemasOk
  <2> QED
    BY <1>1, <1>2, <1>3, <2>6, <2>7, SchemasKept
<1> QED
  BY <1>4, <1>5

\* A save that is answered in time makes its document what is stored.
LEMMA SavedSchemas ==
    ASSUME Inv, SchemasOk, Saved, overtaken' = {}
    PROVE  SchemasOk'
<1> DEFINE j == jobs[1]
           r == patches[1].req
<1>1. /\ jobs # <<>> /\ Head(jobs) = j /\ j.step = "saved" /\ JobSucceeds(j)
      /\ cas' = NextCas(j) /\ overtaken' = overtaken \cup AnsweredLate(j) /\ store' = store
  BY FirstJob DEF Saved, At
<1>2. /\ docs # <<>> /\ j.load \in DOMAIN docs /\ Load \in DOMAIN docs /\ jobs' = Tail(jobs)
      /\ 1 \in DOMAIN jobs /\ JobOk(j) /\ j \in Job
  BY <1>1, FirstJob, LastDoc DEF Inv, DocsOk, Load, JobSucceeds
<1>3. overtaken = {} /\ j.load = Load
  BY <1>1 DEF AnsweredLate
<1>4. j.content.schema = store.content.schema
  BY <1>1, <1>2 DEF SchemasOk, JobAheadOk
<1>5. \A i \in DOMAIN jobs' : ~ Saving(jobs'[i])
  BY <1>1, <1>2, NextIsQueued
<1>6. /\ DOMAIN docs' = DOMAIN docs /\ Len(docs') = Len(docs)
      /\ docs'[Load].content.schema = store.content.schema
      /\ \A l \in DOMAIN docs' : KnownIn(docs'[l], store.content.schema)
  <2>1. CASE j.patch
    <3>1. /\ DOMAIN docs' = DOMAIN docs /\ Len(docs') = Len(docs)
          /\ r \in PatchesOf(j.content.schema)
          /\ docs'[j.load].content.schema = j.content.schema
          /\ docs'[j.load].acked = docs[j.load].acked \cup {r}
          /\ \A k \in DOMAIN docs : k # j.load => docs'[k] = docs[k]
      BY <1>1, <2>1, PatchMade
    <3>2. KnownIn(docs[j.load], store.content.schema)
      BY <1>2 DEF SchemasOk
    <3>3. KnownIn(docs'[j.load], store.content.schema)
      BY <1>4, <3>1, <3>2 DEF KnownIn
    <3> QED
      BY <1>3, <1>4, <3>1, <3>3 DEF SchemasOk
  <2>2. CASE ~ j.patch
    <3>1. docs' = docs
      BY <1>1, <2>2 DEF JobSucceeds
    <3>2. j.content.schema = docs[j.load].content.schema
      BY <1>1, <1>2, <1>3, <2>2 DEF JobOk, JobSchemaOk, Saving
    <3> QED
      BY <1>3, <1>4, <3>1, <3>2 DEF SchemasOk
  <2> QED
    BY <2>1, <2>2
<1>7. Live' = docs'[Load]
  BY <1>6 DEF Live, Load
<1>8. cas'.last.schema = store.content.schema
  <2>1. cas \in Cas
    BY DEF Inv, BasicOk
  <2> QED
    BY <1>1, <1>4, <2>1 DEF NextCas, Cas
<1>9. \A i \in DOMAIN jobs' : JobAheadOk(jobs'[i], store, Live')
  BY <1>5 DEF JobAheadOk, Saving
<1> QED
  BY <1>1, <1>6, <1>7, <1>8, <1>9 DEF SchemasOk, AtMostOneAhead

LEMMA SchemaInvKeeps ==
    ASSUME Inv, SchemaInv, Next
    PROVE  SchemaInv'
<1>1. SourceOk /\ SourceOk'
  BY SourceKeeps DEF SchemaInv
<1>2. SUFFICES ASSUME overtaken' = {} PROVE SchemasOk'
  BY <1>1 DEF SchemaInv
<1>3. overtaken \subseteq overtaken'
  <2>1. CASE BeginLoad \/ Read \/ Loaded \/ LoadFails \/ Leave \/ Join \/ Unload \/ ForeignWrite
              \/ Invalidated \/ Edit \/ Store \/ \E r \in Requests : PatchArrives(r)
    BY <2>1 DEF BeginLoad, Read, Loaded, LoadFails, Leave, Join, Unload, ForeignWrite,
                Invalidated, Edit, Store, PatchArrives, history
  <2>2. CASE PatchRefused \/ PatchConflicts \/ PatchKnown \/ PatchChangesNothing \/ PatchSaves
    BY <2>2 DEF PatchRefused, PatchConflicts, PatchKnown, PatchChangesNothing, PatchSaves, history
  <2>3. CASE NotLoaded \/ Invalid \/ NothingToSave \/ Send \/ Commit \/ Refused \/ AnswerLost
              \/ Saved \/ Failed \/ Conflicts
    BY <2>3 DEF NotLoaded, Invalid, NothingToSave, Send, Commit, Refused, AnswerLost, Saved,
                Failed, Conflicts, history
  <2> QED
    BY <2>1, <2>2, <2>3 DEF Next
<1>4. SchemasOk
  BY <1>2, <1>3 DEF SchemaInv
<1>5. CASE BeginLoad \/ LoadFails \/ Leave \/ Join \/ Unload \/ Invalidated \/ ForeignWrite \/ Edit
  BY <1>4, <1>5, RoomSchemas
<1>6. CASE Read \/ Loaded
  BY <1>1, <1>4, <1>6, ReadSchemas, LoadedSchemas DEF SourceOk
<1>7. CASE Store \/ PatchRefused \/ PatchKnown \/ PatchSaves \/ \E r \in Requests : PatchArrives(r)
  BY <1>4, <1>7, QueuedSchemas
<1>8. CASE PatchConflicts \/ PatchChangesNothing
  BY <1>4, <1>8, PatchConflictsSchemas, PatchChangesNothingSchemas
<1>9. CASE NotLoaded \/ Invalid \/ Failed \/ Conflicts \/ Refused \/ AnswerLost
  BY <1>4, <1>9, JobFailsSchemas, RefusedSchemas
<1>10. CASE NothingToSave \/ Send \/ Commit \/ Saved
  BY <1>1, <1>2, <1>4, <1>10, NothingToSaveSchemas, SendSchemas, CommitSchemas, SavedSchemas
<1> QED
  BY <1>5, <1>6, <1>7, <1>8, <1>9, <1>10 DEF Next

LEMMA SchemaInvStutters ==
    ASSUME SchemaInv, UNCHANGED vars
    PROVE  SchemaInv'
<1>1. UNCHANGED <<type, store, cas, room, docs, patches, jobs, overtaken>>
  BY DEF vars, history
<1>2. Live' = Live
  BY <1>1 DEF Live, Load
<1> QED
  BY <1>1, <1>2 DEF SchemaInv, SourceOk, SchemasOk, Open

LEMMA SpecKeepsSchemas == Spec => []SchemaInv
<1>1. Init => SchemaInv
  BY DEF Init, SchemaInv, SourceOk, SchemasOk, NoCas
<1>2. Inv /\ SchemaInv /\ [Next]_vars => SchemaInv'
  BY SchemaInvKeeps, SchemaInvStutters
<1> QED
  BY <1>1, <1>2, SpecKeeps, PTL DEF Spec

-----------------------------------------------------------------------------
(* The theorems.                                                           *)

\* The maps, the room, the documents and the queues are what their declarations
\* say, and no document remembers more requests than it may (cacheAcceptedRequest).
THEOREM TypeCorrect == Spec => []TypeOK
<1>1. Inv => TypeOK
  BY DEF Inv, BasicOk, DocsOk, DocOk, QueuesOk, TypeOK
<1> QED
  BY <1>1, SpecKeeps, PTL

\* A change made behind the room is never written over by a room that had not read
\* it, however many rooms, saves, failures and late answers there are
\* (storeFormCanonicalDocument, clearTransientDocumentState).
THEOREM ForeignWriteIsKeptAlways == Spec => []ForeignWriteIsKept
<1>1. Inv => ForeignWriteIsKept
  BY DEF Inv, RoomOk, ForeignWriteIsKept
<1> QED
  BY <1>1, SpecKeeps, PTL

LEMMA AtMostOne ==
    ASSUME NEW S, \A i, k \in S : i = k
    PROVE  Cardinality(S) <= 1
<1>1. CASE S = {}
  BY <1>1, FS_EmptySet
<1>2. CASE S # {}
  <2>1. PICK x : S = {x}
    BY <1>2
  <2> QED
    BY <2>1, FS_Singleton
<1> QED
  BY <1>1, <1>2

\* A patch that was acknowledged, by any load of the room, is in the stored schema at
\* every moment, and the room that remembers it put it there at most once, however
\* often the room was loaded, the patch sent and a save made, failed or not answered -
\* as long as no older save was sent after it, and none was answered after the room
\* was loaded again (persistCanonicalPatch, cacheAcceptedRequest).
THEOREM AckedPatchIsStoredOnceAlways == Spec => []AckedPatchIsStoredOnce
<1>1. Inv /\ SchemaInv => AckedPatchIsStoredOnce
  <2>1. SUFFICES ASSUME Inv, SchemasOk
                 PROVE  /\ \A l \in DOMAIN docs : \A r \in docs[l].acked : Places(r) # {}
                        /\ docs # <<>> =>
                              \A r \in Live.acked \ Live.evicted :
                                  Cardinality({i \in Places(r) : i > Live.base}) <= 1
    BY DEF AckedPatchIsStoredOnce, SchemaInv
  <2>2. \A l \in DOMAIN docs : \A r \in docs[l].acked : Places(r) # {}
    BY <2>1 DEF SchemasOk, KnownIn, PatchesOf, Places
  <2>3. ASSUME docs # <<>>, NEW r \in Live.acked \ Live.evicted
        PROVE  Cardinality({i \in Places(r) : i > Live.base}) <= 1
    <3> DEFINE s == Live.content.schema
    <3>1. Live \in Doc /\ DocOk(Live)
      BY <2>1, <2>3, LastDoc DEF Inv, DocsOk, Live, Load
    <3>2. s \in Seq(Requests) /\ r \in Requests \ Live.evicted
      BY <2>3, <3>1 DEF Doc, Content, Schema
    <3>3. \A i, k \in {i \in DOMAIN s : s[i] = r /\ i > Live.base} : i = k
      BY <3>1, <3>2 DEF DocOk, RequestOk
    <3>4. AtMostOneAhead(store.content.schema, Live)
      BY <2>1, <2>3 DEF SchemasOk
    <3>5. \A i \in Places(r) : i \in DOMAIN s /\ s[i] = r
      <4>1. CASE store.content.schema = s
        BY <4>1 DEF Places
      <4>2. CASE \E q \in Requests : NewTo(Live, q) /\ store.content.schema = Append(s, q)
        <5>1. PICK q \in Requests : NewTo(Live, q) /\ store.content.schema = Append(s, q)
          BY <4>2
        <5>2. q # r
          BY <2>3, <5>1 DEF NewTo
        <5> HIDE DEF s
        <5>3. /\ \A i \in DOMAIN s : Append(s, q)[i] = s[i]
              /\ \A i \in DOMAIN Append(s, q) : i \in DOMAIN s \/ Append(s, q)[i] = q
          BY <3>2, AppendOf
        <5> QED
          BY <5>1, <5>2, <5>3 DEF Places
      <4> QED
        BY <3>4, <4>1, <4>2 DEF AtMostOneAhead
    <3>6. \A i, k \in {i \in Places(r) : i > Live.base} : i = k
      BY <3>3, <3>5
    <3> QED
      BY <3>6, AtMostOne
  <2> QED
    BY <2>2, <2>3
<1> QED
  BY <1>1, SpecKeeps, SpecKeepsSchemas, PTL

\* The stored schema loses no patch and is never rewritten, whatever is loaded, saved
\* and patched in whichever order, as long as no save was sent behind another or
\* answered late (applyFormSchemaPatch, storeFormCanonicalDocument).
THEOREM SchemaOnlyGrowsAlways == Spec => SchemaOnlyGrows
<1> DEFINE Grows ==
       \/ store'.content.schema = store.content.schema
       \/ \E r \in Requests : store'.content.schema = Append(store.content.schema, r)
<1>1. ASSUME Inv, SchemaInv, Next, overtaken' = {} PROVE Grows
  <2>1. CASE Commit
    <3>1. SchemasOk
      BY <1>1, <2>1 DEF Commit, history, SchemaInv
    <3> QED
      BY <1>1, <2>1, <3>1, CommitStores DEF AtMostOneAhead
  <2>2. CASE ForeignWrite
    <3>1. store \in Stored /\ store.content \in Content
      BY <1>1 DEF Inv, BasicOk, Stored
    <3> QED
      BY <2>2, <3>1 DEF ForeignWrite, Stored, Content
  <2>3. CASE BeginLoad \/ Read \/ Loaded \/ LoadFails \/ Leave \/ Join \/ Unload \/ Invalidated
              \/ Edit \/ Store \/ \E r \in Requests : PatchArrives(r)
    BY <2>3 DEF BeginLoad, Read, Loaded, LoadFails, Leave, Join, Unload, Invalidated, Edit,
                Store, PatchArrives
  <2>4. CASE PatchRefused \/ PatchConflicts \/ PatchKnown \/ PatchChangesNothing \/ PatchSaves
    BY <2>4 DEF PatchRefused, PatchConflicts, PatchKnown, PatchChangesNothing, PatchSaves
  <2>5. CASE NotLoaded \/ Invalid \/ NothingToSave \/ Send \/ Refused \/ AnswerLost
              \/ Saved \/ Failed \/ Conflicts
    BY <2>5 DEF NotLoaded, Invalid, NothingToSave, Send, Refused, AnswerLost, Saved, Failed,
                Conflicts
  <2> QED
    BY <1>1, <2>1, <2>2, <2>3, <2>4, <2>5 DEF Next
<1>2. Inv /\ SchemaInv /\ [Next]_vars => [overtaken' = {} => Grows]_vars
  BY <1>1
<1> QED
  BY <1>2, SpecKeeps, SpecKeepsSchemas, PTL DEF Spec, SchemaOnlyGrows

=============================================================================
