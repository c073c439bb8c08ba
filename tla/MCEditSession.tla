--------------------------- MODULE MCEditSession ---------------------------
(***************************************************************************)
(* EditSession for TLC: symmetry of the members, for runs without liveness.*)
(***************************************************************************)
EXTENDS EditSession, TLC

Symmetry == Permutations(Members)
=============================================================================
