----------------------------- MODULE MCDispatch -----------------------------
(* The program with its own numbers, but two of its four memories; times in *)
(* units of 5 ns. *)
EXTENDS Dispatch
=============================================================================
