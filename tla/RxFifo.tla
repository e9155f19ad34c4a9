------------------------------- MODULE RxFifo -------------------------------
(***************************************************************************)
(* What deferred reception promises: packets the interrupt handler accepts *)
(* are handed to the protocol layer in the order they arrived, each at     *)
(* most once; one may be lost on the way only when a copy fails, and       *)
(* shutting down throws away what is waiting.                              *)
(***************************************************************************)
EXTENDS Naturals, Sequences

CONSTANT MaxPackets   \* bound: packets that arrive

VARIABLES
    arrived,     \* packets seen so far, numbered from 1
    waiting,     \* accepted packets, oldest first
    delivered    \* packets handed to the protocol layer, in order

vars == <<arrived, waiting, delivered>>

Init == arrived = 0 /\ waiting = <<>> /\ delivered = <<>>

Accept ==
    /\ arrived < MaxPackets
    /\ arrived' = arrived + 1
    /\ waiting' = Append(waiting, arrived + 1)
    /\ UNCHANGED delivered

Refuse ==
    /\ arrived < MaxPackets
    /\ arrived' = arrived + 1
    /\ UNCHANGED <<waiting, delivered>>

Deliver ==
    /\ waiting # <<>>
    /\ delivered' = Append(delivered, Head(waiting))
    /\ waiting' = Tail(waiting)
    /\ UNCHANGED arrived

Lose ==
    /\ waiting # <<>>
    /\ waiting' = Tail(waiting)
    /\ UNCHANGED <<arrived, delivered>>

Flush ==
    /\ waiting # <<>>
    /\ waiting' = <<>>
    /\ UNCHANGED <<arrived, delivered>>

Next == Accept \/ Refuse \/ Deliver \/ Lose \/ Flush

Spec == Init /\ [][Next]_vars
=============================================================================
