---------------------------- MODULE MCDecoupled ----------------------------
(* The program with its own numbers; times in units of 5 ns. *)
EXTENDS Decoupled
=============================================================================
