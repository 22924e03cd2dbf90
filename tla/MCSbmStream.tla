---------------------------- MODULE MCSbmStream ----------------------------
(* SbmStream on a four-byte buffer with three frame slots and frames of no,   *)
(* one and two bytes: every wrap of the buffer, of the array and of both at   *)
(* once occurs, and both fill up until requests are refused.                  *)
EXTENDS SbmStream

MCLens == {0, 1, 2}
=============================================================================
