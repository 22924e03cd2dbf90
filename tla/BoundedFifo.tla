----------------------------- MODULE BoundedFifo -----------------------------
(***************************************************************************)
(* What the message queue of libcedarc promises: messages come out in the   *)
(* order they were accepted, never more than Capacity wait, and a flush     *)
(* drops them all.                                                          *)
(***************************************************************************)
EXTENDS Naturals, Sequences

CONSTANTS Messages, Capacity

VARIABLE queue

Init == queue = <<>>

Accept(m) == Len(queue) < Capacity /\ queue' = Append(queue, m)

Deliver == queue # <<>> /\ queue' = Tail(queue)

Clear == queue' = <<>>

Next == Deliver \/ Clear \/ \E m \in Messages : Accept(m)

Spec == Init /\ [][Next]_queue
=============================================================================
