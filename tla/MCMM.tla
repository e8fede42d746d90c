-------------------------------- MODULE MCMM --------------------------------
(* The memory manager with a small number of transaction objects. *)
EXTENDS MM
=============================================================================
