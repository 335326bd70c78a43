SPECIFICATION FairSpec
CONSTANTS
  Word <- MCWord
  Input <- AnyStatus
  Filter <- AllWords
  Client = {alice}
  RootNames = {"trunk"}
  MaxRev = 5
  MaxId = 1
INVARIANTS
  SuccessMeansResolved
  NoConflict
  UnsavedIsMarked
PROPERTIES
  ResolvedStays
  HandlersReturn
