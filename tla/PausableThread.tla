--------------------------- MODULE PausableThread ---------------------------
(***************************************************************************)
(* What the thread class of libcedarc/openmax/vdec/looper promises: a       *)
(* worker that calls its loop function over and over, can be parked and     *)
(* resumed, and can be made to leave.  Between a suspend that has returned  *)
(* and the resume that follows, the loop function is not being called.      *)
(***************************************************************************)
VARIABLES
  status,   \* "off", "running", "pausing" (asked to park) or "parked"
  busy      \* the worker is inside its loop function

vars == <<status, busy>>

Init == status = "off" /\ busy = FALSE

Start == status = "off" /\ status' = "running" /\ UNCHANGED busy

(* A worker asked to park may already be on its way into the loop function. *)
EnterLoop ==
  /\ status \in {"running", "pausing"}
  /\ ~busy
  /\ busy' = TRUE
  /\ UNCHANGED status

LeaveLoop == busy /\ busy' = FALSE /\ UNCHANGED status

AskToPark == status = "running" /\ status' = "pausing" /\ UNCHANGED busy

Park == status = "pausing" /\ ~busy /\ status' = "parked" /\ UNCHANGED busy

Unpark == status = "parked" /\ status' = "running" /\ UNCHANGED busy

Stop == status = "running" /\ ~busy /\ status' = "off" /\ UNCHANGED busy

Next == Start \/ EnterLoop \/ LeaveLoop \/ AskToPark \/ Park \/ Unpark \/ Stop

Spec == Init /\ [][Next]_vars
=============================================================================
