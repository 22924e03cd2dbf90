---------------------------- MODULE CaptureQueue ----------------------------
(***************************************************************************)
(* What a V4L2 capture device promises a streaming client: the buffers it  *)
(* queues are filled and come back in the order they were queued, each one *)
(* once; stopping the stream gives every buffer back at once.              *)
(***************************************************************************)
EXTENDS Sequences

CONSTANT Buffers

VARIABLES
  pending,   \* buffers queued and not filled yet, oldest first
  ready      \* buffers filled and not fetched yet, oldest first

vars == <<pending, ready>>

InSeq(b, s) == \E i \in DOMAIN s : s[i] = b

Init == pending = <<>> /\ ready = <<>>

Queue(b) == /\ ~InSeq(b, pending) /\ ~InSeq(b, ready)
            /\ pending' = Append(pending, b)
            /\ ready' = ready

Fill == /\ pending # <<>>
        /\ ready' = Append(ready, Head(pending))
        /\ pending' = Tail(pending)

Fetch == /\ ready # <<>>
         /\ ready' = Tail(ready)
         /\ pending' = pending

Stop == pending' = <<>> /\ ready' = <<>>

Next == (\E b \in Buffers : Queue(b)) \/ Fill \/ Fetch \/ Stop

Spec == Init /\ [][Next]_vars
=============================================================================
