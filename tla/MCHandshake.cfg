SPECIFICATION Spec
CONSTANTS
  Samples = 6
  Values = {0, 256, 32767}
  Limit = 32768
INVARIANTS
  TypeOK
  SamplesTakenOnce
  Convolved
PROPERTIES
  NoOutputLost
  SinkEnds
CHECK_DEADLOCK FALSE
