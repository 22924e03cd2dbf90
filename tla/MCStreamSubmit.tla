--------------------------- MODULE MCStreamSubmit ---------------------------
(* StreamSubmit on a four-byte buffer with two frame slots and parts of no,   *)
(* one and two bytes.                                                         *)
EXTENDS StreamSubmit

MCLens == 0 .. 2
=============================================================================
