SPECIFICATION Spec
CONSTANTS
  Word <- MCWord
  Input <- OnlyLabelled
  Filter <- OnlyActive
  Client = {alice}
  RootNames = {"trunk"}
  MaxRev = 4
  MaxId = 2
INVARIANTS
  DialogTypeOK
  IncreasingIds
  NamedGetResolved
PROPERTIES
  NoIssueLost
  DeletedStays
  OnlyNamedGetResolved
