---------------------------- MODULE MCHandshake ----------------------------
(* Every stimulus of six samples; the last value overflows sixteen bits. *)
EXTENDS Handshake
=============================================================================
