SPECIFICATION Spec
CONSTANTS
  LaneBits = 2
  ExpBits = 3
  BootLength = 3
  CodeLength = 6
  Latencies = {2, 4}
  Regs <- MCRegs
  Operands <- MCOperands
  Programs <- MCPrograms
INVARIANTS
  TypeOK
  StrobesSeen
  OperandsCurrent
  RightInstruction
PROPERTIES
  ProgramEnds
  InSequence
CHECK_DEADLOCK FALSE
