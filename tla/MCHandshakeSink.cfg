SPECIFICATION Spec
CONSTANTS
  Samples = 6
  Values = {0, 256, 32767}
  Limit = 32768
INVARIANT OutputsReadOnce
CHECK_DEADLOCK FALSE
