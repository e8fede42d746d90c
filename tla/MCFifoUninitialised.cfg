CONSTANTS
  mSize = 3
  Length = 5
  InitialElementNum <- SomeCounts
SPECIFICATION Spec
PROPERTIES ReadsInOrder
