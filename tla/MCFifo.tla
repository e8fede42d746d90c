------------------------------- MODULE MCFifo -------------------------------
(* A short channel and a string that is no multiple of it. *)
EXTENDS Fifo

\* The values mElementNum is tried with when nothing initialises it.
SomeCounts == {-1, 0, 1, mSize}
=============================================================================
