----------------------------- MODULE HeaderQueue -----------------------------
(***************************************************************************)
(* What a port of omx_vdec promises the client: the buffer headers it gives *)
(* are worked on one at a time, in the order the component received them,   *)
(* one that could not be used yet being worked on again first, and every    *)
(* header is given back at the end of its work or by a flush.  It does not  *)
(* promise that to a header whose work fails, which is lost, nor, once a    *)
(* header comes back late into a queue that was flushed, to any.            *)
(***************************************************************************)
EXTENDS Sequences

CONSTANTS Headers, NoHeader

VARIABLES
  queue,    \* the headers received, oldest first
  work,     \* the one a worker has, or NoHeader
  flushed,  \* the queue was flushed since it was taken
  strayed,  \* one came back into a queue flushed since
  lost      \* those whose work failed

vars == <<queue, work, flushed, strayed, lost>>

Waits(h) == \E i \in DOMAIN queue : queue[i] = h

Init == queue = <<>> /\ work = NoHeader /\ flushed = FALSE /\ strayed = FALSE /\ lost = {}

Receive(h) ==
  /\ ~Waits(h) /\ h # work /\ h \notin lost
  /\ queue' = Append(queue, h)
  /\ UNCHANGED <<work, flushed, strayed, lost>>

Begin ==
  /\ work = NoHeader /\ queue # <<>>
  /\ work' = Head(queue) /\ queue' = Tail(queue)
  /\ UNCHANGED <<flushed, strayed, lost>>

End == work # NoHeader /\ work' = NoHeader /\ flushed' = FALSE

Done == End /\ UNCHANGED <<queue, strayed, lost>>

Lose == End /\ lost' = lost \cup {work} /\ UNCHANGED <<queue, strayed>>

TryLater == End /\ ~flushed /\ queue' = <<work>> \o queue /\ UNCHANGED <<strayed, lost>>

Stray == End /\ flushed /\ strayed' = TRUE /\ queue' = <<>> /\ UNCHANGED lost

GiveAllBack ==
  /\ queue' = <<>> /\ flushed' = (work # NoHeader)
  /\ UNCHANGED <<work, strayed, lost>>

Next ==
  /\ ~strayed
  /\ \/ Begin \/ Done \/ Lose \/ TryLater \/ Stray \/ GiveAllBack
     \/ \E h \in Headers : Receive(h)

Spec == Init /\ [][Next]_vars
=============================================================================
