SPECIFICATION Spec
CONSTANTS
  Word <- MCWord
  Input <- OnlyLabelled
  Filter <- OnlyActive
  Client = {alice}
  RootNames = {"trunk"}
  MaxRev = 4
  MaxId = 1
INVARIANT ChosenGetResolved
