CONSTANTS
  NULL = NULL
  Initiator = {a, b, c}
  Target = {x, y}
  Slot = {s1, s2}
  NbTransactions = 2
SPECIFICATION Spec
SYMMETRY Symmetry
INVARIANTS TypeOK NoReport PipelineCount OnlyOverwrittenLost RequestExclusion NoDanglingReference
