---------------------------- MODULE DurableQueue ----------------------------
(***************************************************************************)
(* What the service's queue promises whoever sends a message, without      *)
(* workers, visibility or processes: the message is settled once and for   *)
(* good; it is completed only when what it asks for is done, which happens *)
(* once however often it is delivered; and it is archived only when no     *)
(* delivery could have used it, or when its handler failed after all its   *)
(* deliveries.  CollabService implements it (theorem                       *)
(* ServiceImplementsDurableQueue of CollabService_proofs; the run service  *)
(* shows it).                                                              *)
(***************************************************************************)
EXTENDS Naturals

CONSTANTS
    Messages,
    Shapes,       \* what a message may be; "sound" ones can be done
    MaxRetries    \* deliveries after the first

VARIABLES
    place,        \* where each message is
    shape,        \* what each message is
    deliveries,   \* how often each was delivered, up to MaxRetries + 1
    done,         \* messages whose effect is committed
    failed        \* messages given up

vars == <<place, shape, deliveries, done, failed>>

Init ==
    /\ place = [m \in Messages |-> "none"]
    /\ shape = [m \in Messages |-> "sound"]
    /\ deliveries = [m \in Messages |-> 0]
    /\ done = {}
    /\ failed = {}

Send(m) ==
    /\ place[m] = "none"
    /\ place' = [place EXCEPT ![m] = "queued"]
    /\ \E kind \in Shapes : shape' = [shape EXCEPT ![m] = kind]
    /\ UNCHANGED <<deliveries, done, failed>>

Deliver(m) ==
    /\ place[m] = "queued"
    /\ deliveries[m] <= MaxRetries
    /\ deliveries' = [deliveries EXCEPT ![m] = @ + 1]
    /\ UNCHANGED <<place, shape, done, failed>>

\* A delivery may do it after another one has settled the message.
Do(m) ==
    /\ deliveries[m] > 0
    /\ shape[m] = "sound"
    /\ m \notin done
    /\ done' = done \cup {m}
    /\ UNCHANGED <<place, shape, deliveries, failed>>

GiveUp(m) ==
    /\ deliveries[m] > MaxRetries
    /\ shape[m] # "contract"
    /\ failed' = failed \cup {m}
    /\ UNCHANGED <<place, shape, deliveries, done>>

Settle(m, end) ==
    /\ place[m] = "queued"
    /\ place' = [place EXCEPT ![m] = end]
    /\ UNCHANGED <<shape, deliveries, done, failed>>

Complete(m) == m \in done /\ Settle(m, "completed")

Archive(m) ==
    /\ deliveries[m] > 0
    /\ shape[m] = "contract" \/ m \in failed
    /\ Settle(m, "archived")

Next ==
    \E m \in Messages :
        Send(m) \/ Deliver(m) \/ Do(m) \/ GiveUp(m) \/ Complete(m) \/ Archive(m)

Spec == Init /\ [][Next]_vars
=============================================================================
