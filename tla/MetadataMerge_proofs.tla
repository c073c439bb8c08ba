-------------------------- MODULE MetadataMerge_proofs --------------------------
(***************************************************************************)
(* What MetadataMerge promises: for every list and record, whatever their  *)
(* ids, keys and values.                                                   *)
(***************************************************************************)
EXTENDS MetadataMerge, TLAPS

IsRecord(f) == f = [key \in DOMAIN f |-> f[key]]

\* An unopposed request stores the list its author desired.
THEOREM ListUnopposed ==
    ASSUME NEW observed, NEW desired
    PROVE  mergeStringLists(observed, observed, desired) = desired
BY DEF mergeStringLists, Removed, Added

\* The author's changes are made, and every id the author did not touch is in
\* the list exactly if peers left it there.
THEOREM ListKeepsPeers ==
    ASSUME NEW current, NEW observed, NEW desired, NEW id
    PROVE  LET merged == mergeStringLists(current, observed, desired)
           IN  /\ id \in Added(observed, desired) => id \in merged
               /\ id \in Removed(observed, desired) => id \notin merged
               /\ (id \in observed <=> id \in desired) =>
                     (id \in merged <=> id \in current)
BY DEF mergeStringLists, Removed, Added

\* A request that was stored, and is sent again because its answer was lost,
\* changes nothing.
THEOREM ListRepeated ==
    ASSUME NEW current, NEW observed, NEW desired
    PROVE  LET merged == mergeStringLists(current, observed, desired)
           IN  mergeStringLists(merged, observed, desired) = merged
BY DEF mergeStringLists, Removed, Added

\* Two requests may be stored in either order, unless one removes what the
\* other adds; two authors who saw the same list never do.
THEOREM ListsCommute ==
    ASSUME NEW current, NEW observed1, NEW desired1, NEW observed2, NEW desired2,
           Removed(observed1, desired1) \cap Added(observed2, desired2) = {},
           Removed(observed2, desired2) \cap Added(observed1, desired1) = {}
    PROVE  mergeStringLists(mergeStringLists(current, observed1, desired1),
                            observed2, desired2)
         = mergeStringLists(mergeStringLists(current, observed2, desired2),
                            observed1, desired1)
BY DEF mergeStringLists, Removed, Added

\* Two authors who saw the same list never disagree about one item: what one of them
\* removes the other cannot add, since it was on the list (mergeStringLists).
THEOREM SameListNoConflict ==
    ASSUME NEW observed, NEW desired1, NEW desired2
    PROVE  Removed(observed, desired1) \cap Added(observed, desired2) = {}
BY DEF Removed, Added

-----------------------------------------------------------------------------

\* The keys and the values of a merged record.
LEMMA MergedKeys ==
    ASSUME NEW current, NEW observed, NEW desired
    PROVE  DOMAIN mergeRecords(current, observed, desired) =
              (DOMAIN current \ Removed(DOMAIN observed, DOMAIN desired))
                \cup Changed(observed, desired)
BY DEF mergeRecords

LEMMA MergedValue ==
    ASSUME NEW current, NEW observed, NEW desired,
           NEW key \in DOMAIN mergeRecords(current, observed, desired)
    PROVE  mergeRecords(current, observed, desired)[key] =
              IF key \in Changed(observed, desired) THEN desired[key] ELSE current[key]
BY DEF mergeRecords

LEMMA MergedIsRecord ==
    ASSUME NEW current, NEW observed, NEW desired
    PROVE  IsRecord(mergeRecords(current, observed, desired))
BY DEF mergeRecords, IsRecord

\* Records with the same values of the same keys are the same.
LEMMA SameRecords ==
    ASSUME NEW f, NEW g, IsRecord(f), IsRecord(g), DOMAIN f = DOMAIN g,
           \A key \in DOMAIN f : f[key] = g[key]
    PROVE  f = g
<1>1. [key \in DOMAIN f |-> f[key]] = [key \in DOMAIN g |-> g[key]]
  OBVIOUS
<1> QED
  BY <1>1 DEF IsRecord

\* An unopposed request stores the record its author desired.
THEOREM RecordUnopposed ==
    ASSUME NEW observed, NEW desired, IsRecord(desired)
    PROVE  mergeRecords(observed, observed, desired) = desired
<1> DEFINE merged == mergeRecords(observed, observed, desired)
<1>1. /\ IsRecord(merged)
      /\ DOMAIN merged = (DOMAIN observed \ Removed(DOMAIN observed, DOMAIN desired))
                            \cup Changed(observed, desired)
  BY MergedIsRecord, MergedKeys
<1>2. \A key \in DOMAIN merged :
         merged[key] = IF key \in Changed(observed, desired) THEN desired[key]
                                                             ELSE observed[key]
  BY MergedValue
<1> HIDE DEF merged
<1>3. DOMAIN merged = DOMAIN desired
  BY <1>1 DEF Removed, Changed
<1>4. \A key \in DOMAIN merged : merged[key] = desired[key]
  BY <1>2, <1>3 DEF Changed
<1>5. merged = desired
  BY <1>1, <1>3, <1>4, SameRecords
<1> QED
  BY <1>5 DEF merged

\* A key the author did not touch keeps what peers made of it.
THEOREM RecordKeepsPeers ==
    ASSUME NEW current, NEW observed, NEW desired, NEW key,
           key \notin Changed(observed, desired),
           key \notin Removed(DOMAIN observed, DOMAIN desired)
    PROVE  /\ key \in DOMAIN mergeRecords(current, observed, desired)
                 <=> key \in DOMAIN current
           /\ key \in DOMAIN current =>
                 mergeRecords(current, observed, desired)[key] = current[key]
<1>0. DOMAIN mergeRecords(current, observed, desired) =
         (DOMAIN current \ Removed(DOMAIN observed, DOMAIN desired))
           \cup Changed(observed, desired)
  BY MergedKeys
<1>1. key \in DOMAIN mergeRecords(current, observed, desired) <=> key \in DOMAIN current
  BY <1>0
<1>2. ASSUME key \in DOMAIN current
      PROVE  mergeRecords(current, observed, desired)[key] = current[key]
  BY <1>1, <1>2, MergedValue
<1> QED
  BY <1>1, <1>2

\* A request that is sent again changes nothing.
THEOREM RecordRepeated ==
    ASSUME NEW current, NEW observed, NEW desired
    PROVE  mergeRecords(mergeRecords(current, observed, desired), observed, desired)
         = mergeRecords(current, observed, desired)
<1> DEFINE merged == mergeRecords(current, observed, desired)
           again == mergeRecords(merged, observed, desired)
           changed == Changed(observed, desired)
           deleted == Removed(DOMAIN observed, DOMAIN desired)
<1>1. /\ IsRecord(merged)
      /\ DOMAIN merged = (DOMAIN current \ deleted) \cup changed
      /\ \A key \in DOMAIN merged :
            merged[key] = IF key \in changed THEN desired[key] ELSE current[key]
  <2>1. IsRecord(merged)
    BY MergedIsRecord
  <2>2. DOMAIN merged = (DOMAIN current \ deleted) \cup changed
    BY MergedKeys
  <2>3. \A key \in DOMAIN merged :
            merged[key] = IF key \in changed THEN desired[key] ELSE current[key]
    BY MergedValue
  <2> QED
    BY <2>1, <2>2, <2>3
<1> HIDE DEF merged
<1>2. /\ IsRecord(again)
      /\ DOMAIN again = (DOMAIN merged \ deleted) \cup changed
      /\ \A key \in DOMAIN again :
            again[key] = IF key \in changed THEN desired[key] ELSE merged[key]
  <2>1. IsRecord(again)
    BY MergedIsRecord
  <2>2. DOMAIN again = (DOMAIN merged \ deleted) \cup changed
    BY MergedKeys
  <2>3. \A key \in DOMAIN again :
            again[key] = IF key \in changed THEN desired[key] ELSE merged[key]
    BY MergedValue
  <2> QED
    BY <2>1, <2>2, <2>3
<1>3. deleted \cap changed = {}
  BY DEF Removed, Changed
<1> HIDE DEF again, changed, deleted
<1>4. DOMAIN again = DOMAIN merged
  BY <1>1, <1>2, <1>3
<1>5. \A key \in DOMAIN again : again[key] = merged[key]
  BY <1>1, <1>2, <1>4
<1>6. again = merged
  BY <1>1, <1>2, <1>4, <1>5, SameRecords
<1> QED
  BY <1>6 DEF merged, again

\* Two requests that change no key in two ways may be stored in either order.
THEOREM RecordsCommute ==
    ASSUME NEW current, NEW observed1, NEW desired1, NEW observed2, NEW desired2,
           Removed(DOMAIN observed1, DOMAIN desired1) \cap Changed(observed2, desired2) = {},
           Removed(DOMAIN observed2, DOMAIN desired2) \cap Changed(observed1, desired1) = {},
           \A key \in Changed(observed1, desired1) \cap Changed(observed2, desired2) :
               desired1[key] = desired2[key]
    PROVE  mergeRecords(mergeRecords(current, observed1, desired1), observed2, desired2)
         = mergeRecords(mergeRecords(current, observed2, desired2), observed1, desired1)
<1> DEFINE first == mergeRecords(current, observed1, desired1)
           second == mergeRecords(current, observed2, desired2)
           one == mergeRecords(first, observed2, desired2)
           two == mergeRecords(second, observed1, desired1)
           changed1 == Changed(observed1, desired1)
           changed2 == Changed(observed2, desired2)
           deleted1 == Removed(DOMAIN observed1, DOMAIN desired1)
           deleted2 == Removed(DOMAIN observed2, DOMAIN desired2)
<1>1. /\ DOMAIN first = (DOMAIN current \ deleted1) \cup changed1
      /\ \A key \in DOMAIN first :
            first[key] = IF key \in changed1 THEN desired1[key] ELSE current[key]
  <2>1. DOMAIN first = (DOMAIN current \ deleted1) \cup changed1
    BY MergedKeys
  <2>2. \A key \in DOMAIN first :
            first[key] = IF key \in changed1 THEN desired1[key] ELSE current[key]
    BY MergedValue
  <2> QED
    BY <2>1, <2>2
<1>2. /\ DOMAIN second = (DOMAIN current \ deleted2) \cup changed2
      /\ \A key \in DOMAIN second :
            second[key] = IF key \in changed2 THEN desired2[key] ELSE current[key]
  <2>1. DOMAIN second = (DOMAIN current \ deleted2) \cup changed2
    BY MergedKeys
  <2>2. \A key \in DOMAIN second :
            second[key] = IF key \in changed2 THEN desired2[key] ELSE current[key]
    BY MergedValue
  <2> QED
    BY <2>1, <2>2
<1> HIDE DEF first, second
<1>3. /\ IsRecord(one)
      /\ DOMAIN one = (DOMAIN first \ deleted2) \cup changed2
      /\ \A key \in DOMAIN one :
            one[key] = IF key \in changed2 THEN desired2[key] ELSE first[key]
  <2>1. IsRecord(one)
    BY MergedIsRecord
  <2>2. DOMAIN one = (DOMAIN first \ deleted2) \cup changed2
    BY MergedKeys
  <2>3. \A key \in DOMAIN one :
            one[key] = IF key \in changed2 THEN desired2[key] ELSE first[key]
    BY MergedValue
  <2> QED
    BY <2>1, <2>2, <2>3
<1>4. /\ IsRecord(two)
      /\ DOMAIN two = (DOMAIN second \ deleted1) \cup changed1
      /\ \A key \in DOMAIN two :
            two[key] = IF key \in changed1 THEN desired1[key] ELSE second[key]
  <2>1. IsRecord(two)
    BY MergedIsRecord
  <2>2. DOMAIN two = (DOMAIN second \ deleted1) \cup changed1
    BY MergedKeys
  <2>3. \A key \in DOMAIN two :
            two[key] = IF key \in changed1 THEN desired1[key] ELSE second[key]
    BY MergedValue
  <2> QED
    BY <2>1, <2>2, <2>3
<1>5. /\ deleted1 \cap changed2 = {}
      /\ deleted2 \cap changed1 = {}
      /\ \A key \in changed1 \cap changed2 : desired1[key] = desired2[key]
  OBVIOUS
<1> HIDE DEF one, two, changed1, changed2, deleted1, deleted2
<1>6. DOMAIN one = DOMAIN two
  BY <1>1, <1>2, <1>3, <1>4, <1>5
<1>7. ASSUME NEW key \in DOMAIN one
      PROVE  one[key] = two[key]
  <2>1. CASE key \in changed1
    BY <2>1, <1>1, <1>3, <1>4, <1>5, <1>6
  <2>2. CASE key \in changed2
    BY <2>2, <1>2, <1>3, <1>4, <1>5, <1>6
  <2>3. CASE key \notin changed1 /\ key \notin changed2
    BY <2>3, <1>1, <1>2, <1>3, <1>4, <1>6
  <2> QED
    BY <2>1, <2>2, <2>3
<1>8. one = two
  BY <1>3, <1>4, <1>6, <1>7, SameRecords
<1> QED
  BY <1>8 DEF first, second, one, two
=============================================================================
