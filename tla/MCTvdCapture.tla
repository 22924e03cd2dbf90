---------------------------- MODULE MCTvdCapture ----------------------------
(* TvdCapture with three buffers, of which two start a stream.              *)
EXTENDS TvdCapture

CONSTANTS b1, b2, b3

MCBuffers == {b1, b2, b3}
=============================================================================
