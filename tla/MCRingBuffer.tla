--------------------------- MODULE MCRingBuffer ---------------------------
(***************************************************************************)
(* The ring buffer for TLC: four slots, so that three bytes fill it and a   *)
(* put of two wraps; records of two bytes; a character records start with.  *)
(***************************************************************************)
EXTENDS RingBuffer, TLC

CONSTANTS x, c   \* a byte, and the one records start with

TwoBytes == {x, c}
=============================================================================
