------------------------------ MODULE MCFormRoom ------------------------------
(***************************************************************************)
(* An instance of FormRoom for TLC: a form that is patched, one that is    *)
(* also written behind, one that is loaded often, and every other type of  *)
(* document.                                                               *)
(***************************************************************************)
EXTENDS FormRoom, TLC

\* At most `bounds[kind]` events of each kind named, none of the others.
Bounded(bounds) ==
    [kind \in Kinds |-> IF kind \in DOMAIN bounds THEN bounds[kind] ELSE 0]

Patched == Bounded([load |-> 2, edit |-> 1, store |-> 1, patch |-> 3, fault |-> 1])
Reloaded == Bounded([load |-> 2, edit |-> 1, store |-> 1, patch |-> 2, foreign |-> 1,
                     fault |-> 1])
Reopened == Bounded([load |-> 3, edit |-> 1, store |-> 1, patch |-> 2])
Written == Bounded([load |-> 2, edit |-> 2, store |-> 2, foreign |-> 1, fault |-> 1])

Instances ==
    [type : {"form"}, left : {Patched, Reloaded, Reopened}]
        \cup [type : DocumentTypes, left : {Written}]

Symmetry == Permutations(Requests)
=============================================================================
