----------------------------- MODULE MetadataMerge -----------------------------
(***************************************************************************)
(* How a room applies a member's metadata request to values that peers may *)
(* have changed since the member saw them                                  *)
(* (lib/collaboration/resident-metadata-merge.ts).                         *)
(*                                                                         *)
(* A request carries the collection its author `observed` and the one it   *)
(* `desired`; the room has the `current` one.  Collections are lists of    *)
(* ids (categories, tags, labels) or records (credit notes, social links,  *)
(* a page's layout).                                                       *)
(*                                                                         *)
(* Abstractions.  A list is the set of its ids: their order, and the place *)
(* of an id that is added, are left out.  The values of a record are       *)
(* scalars: the code compares them with !==, so a nested value always      *)
(* counts as changed.  Values that are no collections, which the code      *)
(* refuses, are not modelled.                                              *)
(***************************************************************************)

\* What the author took out, and put in.
Removed(observed, desired) == observed \ desired
Added(observed, desired) == desired \ observed

mergeStringLists(current, observed, desired) ==
    (current \ Removed(observed, desired)) \cup Added(observed, desired)

\* The keys of a record that the author set.
Changed(observed, desired) ==
    {key \in DOMAIN desired : key \notin DOMAIN observed \/ observed[key] # desired[key]}

mergeRecords(current, observed, desired) ==
    LET deleted == Removed(DOMAIN observed, DOMAIN desired)
        changed == Changed(observed, desired)
    IN  [key \in (DOMAIN current \ deleted) \cup changed |->
            IF key \in changed THEN desired[key] ELSE current[key]]
=============================================================================
