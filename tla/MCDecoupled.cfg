SPECIFICATION Spec
CONSTANTS
  Targets = 4
  Words = 16
  MemSize = 64
  Quantum = 200
  Inc = 20
  Latency = 2
  DmiLatency = 1
  Start = 200
  Last = 400
  Period = 600
INVARIANTS
  TypeOK
  WritesLand
  ReadsSeeWrites
  LeadBounded
CHECK_DEADLOCK FALSE
