CONSTANTS
  NULL = NULL
  Initiator = {a, b}
  Target = {x}
  Slot = {s1, s2}
  NbTransactions = 2
SPECIFICATION FairSpec
PROPERTIES DeferredIsIssued
