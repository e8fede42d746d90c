----------------------------- MODULE MCRiscCpu -----------------------------
(* The processor over every program of two free instructions, each of any   *)
(* kind, at addresses 3 and 4: the bios ends at address 2, and the cache at *)
(* address 5 with an addition that uses what the two have computed.         *)
EXTENDS RiscCpu, TLC

MCRegs == 0 .. 1

Ops == Opcodes \ {"quit"}

\* The first of the two writes register 1, which the second reads.
MCPrograms ==
  { 1 :> Instr("mov", 1, 1, 0, 0) @@ 2 :> Instr("movi", 0, 0, 0, -1)
      @@ 3 :> Instr(x, 1, 0, 1, 2) @@ 4 :> Instr(y, 1, 1, 0, 1)
      @@ 5 :> Instr("add", 0, 1, 0, 0) : x \in Ops, y \in Ops }

\* Above and below the -1 it is compared with and divided by: 1, and the least int.
MCOperands == {1, 128}

\* What the type of the registers rests on.
ASSUME UnitsComputeWords
=============================================================================
