----------------------------- MODULE FrameFifo -----------------------------
(***************************************************************************)
(* What the stream buffer manager of libcedarc promises its two users: a   *)
(* first-in first-out queue of frames with a cursor.  The entries before   *)
(* the cursor are in the decoder's hands, the others are unread.  The      *)
(* decoder takes the next unread frame, gives back the last one it took    *)
(* ("After returned, the stream data's sequence is the same as before") or *)
(* flushes the oldest one.                                                 *)
(***************************************************************************)
EXTENDS Integers, Sequences

CONSTANT Frame  \* the frames that can be queued

VARIABLES
  entries,      \* the frames queued and not flushed yet, oldest first
  cursor        \* how many of them the decoder has requested

vars == <<entries, cursor>>

Init == entries = <<>> /\ cursor = 0

Add(f) == entries' = Append(entries, f) /\ cursor' = cursor

Request == /\ cursor < Len(entries)
           /\ cursor' = cursor + 1
           /\ entries' = entries

Return == /\ cursor > 0
          /\ cursor' = cursor - 1
          /\ entries' = entries

Flush == /\ cursor > 0
         /\ cursor' = cursor - 1
         /\ entries' = Tail(entries)

Reset == entries' = <<>> /\ cursor' = 0

Next == \/ \E f \in Frame : Add(f)
        \/ Request
        \/ Return
        \/ Flush
        \/ Reset

Spec == Init /\ [][Next]_vars
=============================================================================
