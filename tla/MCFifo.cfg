CONSTANTS
  mSize = 3
  Length = 5
  InitialElementNum = {0}
SPECIFICATION FairSpec
INVARIANTS TypeOK CountExact
PROPERTIES ReadsInOrder WaitsEnd ImplementsQueue
