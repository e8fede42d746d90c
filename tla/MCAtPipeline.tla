---------------------------- MODULE MCAtPipeline ----------------------------
(* The two-deep pipeline with a few transactions. *)
EXTENDS AtPipeline
=============================================================================
