SPECIFICATION Spec
CONSTANTS
  Targets = 2
  Words = 64
  MemSize = 256
  First = 48
  Last = 80
  Latency = 2
  DmiLatency = 1
  Waits = 96
  Every = 8
INVARIANT AccessRouted
CHECK_DEADLOCK FALSE
