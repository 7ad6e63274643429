------------------------------ MODULE WholeFiles ------------------------------
(***************************************************************************)
(* What the transfer of a file promises, however many messages it takes:   *)
(* the receiver's copy is at every moment one of its own versions or a     *)
(* version the sender has offered, whole; and the sender is told of a      *)
(* version only if it has replaced the copy.                               *)
(***************************************************************************)
CONSTANTS Version, Own

VARIABLES
    copy,      \* what the receiver has on disk
    offered,   \* the versions the user of the sender has pushed
    applied,   \* the versions that have replaced the copy
    confirmed  \* those the sender has been told of

vars == <<copy, offered, applied, confirmed>>

Init == copy = Own /\ offered = {} /\ applied = {} /\ confirmed = {}

Offer(v) ==
    /\ offered' = offered \union {v}
    /\ UNCHANGED <<copy, applied, confirmed>>

Apply(v) ==
    /\ v \in offered
    /\ copy' = v /\ applied' = applied \union {v}
    /\ UNCHANGED <<offered, confirmed>>

Edit == copy' = Own /\ UNCHANGED <<offered, applied, confirmed>>

Confirm(v) ==
    /\ v \in applied
    /\ confirmed' = confirmed \union {v}
    /\ UNCHANGED <<copy, offered, applied>>

Next == (\E v \in Version : Offer(v) \/ Apply(v) \/ Confirm(v)) \/ Edit

Spec == Init /\ [][Next]_vars
==============================================================================
