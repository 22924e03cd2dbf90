----------------------------- MODULE FrameUsers -----------------------------
(***************************************************************************)
(* What the frame buffer manager promises its three users, the decoder,    *)
(* the renderer and the allocator that replaces buffers: a frame is given  *)
(* to the decoder, or back to the allocator, only while nobody uses it;    *)
(* pictures are shown in the order the decoder finished them, each at most *)
(* once; a flush forgets the pictures not shown yet.                       *)
(***************************************************************************)
EXTENDS Sequences

CONSTANT Frames

VARIABLES
  users,     \* who uses each frame: "decoder", "renderer", "allocator"
  shown,     \* frames in use by the decoder that were queued for display
  display    \* the pictures waiting to be shown, oldest first

vars == <<users, shown, display>>

Waits(f) == \E i \in DOMAIN display : display[i] = f
Free(f)  == users[f] = {} /\ ~Waits(f)

Init == users \in [Frames -> {{}, {"allocator"}}] /\ shown = {} /\ display = <<>>

Take(f, u) == /\ Free(f)
              /\ users' = [users EXCEPT ![f] = {u}]
              /\ UNCHANGED <<shown, display>>

\* A frame is queued for display while the decoder keeps it, or as it drops it.
Show(f) == /\ "decoder" \in users[f] /\ f \notin shown
           /\ display' = Append(display, f)
           /\ \/ shown' = shown \cup {f} /\ users' = users
              \/ shown' = shown /\ users' = [users EXCEPT ![f] = @ \ {"decoder"}]

Draw == /\ display # <<>>
        /\ display' = Tail(display)
        /\ users' = [users EXCEPT ![Head(display)] = @ \cup {"renderer"}]
        /\ shown' = shown

Drop(f, u) == /\ u \in users[f]
              /\ users' = [users EXCEPT ![f] = @ \ {u}]
              /\ shown' = IF u = "decoder" THEN shown \ {f} ELSE shown
              /\ display' = display

Flush == display' = <<>> /\ UNCHANGED <<users, shown>>

Next ==
  \/ \E f \in Frames : Show(f) \/ Take(f, "decoder") \/ Take(f, "allocator")
  \/ \E f \in Frames, u \in {"decoder", "renderer", "allocator"} : Drop(f, u)
  \/ Draw
  \/ Flush

Spec == Init /\ [][Next]_vars
=============================================================================
