CONSTANTS
  NULL = NULL
  Trans = {t1, t2, t3, t4}
SPECIFICATION Spec
INVARIANTS TypeOK Linked NeverSharedOrLost NodesRecycled
PROPERTIES ImplementsPool
