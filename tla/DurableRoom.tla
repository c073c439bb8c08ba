---------------------------- MODULE DurableRoom ----------------------------
(***************************************************************************)
(* What a resident room promises its clients, without saying how: a        *)
(* history of committed contents that only grows, and acknowledgements     *)
(* that never run ahead of it or behind an earlier acknowledgement.        *)
(* ResidentPersistence implements it, by the acknowledgements of the loads *)
(* of a room that neither refused a change set nor applied a relayed       *)
(* mutation over what is not stored (theorem RoomImplementsDurableRoom of  *)
(* ResidentPersistence_proofs; the run room_relays shows it).              *)
(***************************************************************************)
EXTENDS Naturals, Sequences

CONSTANTS
    Blocks,   \* block identifiers of the document
    Values,   \* what a block can hold
    NoAck

VARIABLES
    log,       \* the committed contents; a revision is a position
    persisted  \* the last acknowledgement: the values it covers, its revision

vars == <<log, persisted>>

Content == [Blocks -> Values]

\* The content of `revision` has, for every block, one of the values `held`.
Covers(revision, held) == \A b \in Blocks : log[revision][b] \in held[b]

Init ==
    /\ \E content \in Content : log = <<content>>
    /\ persisted = NoAck

Commit ==
    /\ \E content \in Content : log' = Append(log, content)
    /\ UNCHANGED persisted

\* The clients may drop their own copy of what an acknowledgement covers.
Acknowledge ==
    \E revision \in 1 .. Len(log), held \in [Blocks -> SUBSET Values] :
        /\ persisted # NoAck => persisted.revision <= revision
        /\ Covers(revision, held)
        /\ persisted' = [held |-> held, revision |-> revision]
        /\ UNCHANGED log

Next == Commit \/ Acknowledge

Spec == Init /\ [][Next]_vars
=============================================================================
