------------------------------- MODULE MCAtBus -------------------------------
(* A few initiators and targets behind the bus. *)
EXTENDS AtBus, TLC

Symmetry == Permutations(Initiator) \cup Permutations(Target) \cup Permutations(Slot)
=============================================================================
