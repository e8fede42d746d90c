SPECIFICATION Spec
CONSTANTS
  LaneBits = 2
  ExpBits = 3
  BootLength = 3
  CodeLength = 6
  Latencies = {2}
  Regs <- MCRegs
  Operands <- MCOperands
  Programs <- MCPrograms
INVARIANT BranchReachesTarget
CHECK_DEADLOCK FALSE
