----------------------- MODULE MCResidentPersistence -----------------------
(***************************************************************************)
(* Instances of ResidentPersistence for TLC: how often each kind of event  *)
(* may happen in each run, and the symmetry of blocks and values.          *)
(***************************************************************************)
EXTENDS ResidentPersistence, FiniteSets, TLC

\* At most `bounds[kind]` events of each kind named, none of the others.
Bounded(bounds) == [kind \in Kinds |-> IF kind \in DOMAIN bounds THEN bounds[kind] ELSE 0]

MaxFailures == Bounded([edit |-> 2, failure |-> 2, write |-> 1])
MaxRelays == Bounded([edit |-> 1, failure |-> 1, relay |-> 2, reject |-> 1, unload |-> 1])
MaxWriters == Bounded([edit |-> 2, failure |-> 1, write |-> 1, reject |-> 1, metadata |-> 1])
MaxDroppedBatch == Bounded([edit |-> 1, failure |-> 1, relay |-> 1])
MaxLostChange == Bounded([edit |-> 1, reject |-> 1])

Symmetry == Permutations(Blocks) \cup Permutations(Values)
=============================================================================
