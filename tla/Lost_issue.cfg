SPECIFICATION Spec
CONSTANTS
  Word <- MCWord
  Input <- OnlyLabelled
  Filter <- OnlyActive
  Client = {alice, bob}
  RootNames = {"trunk"}
  MaxRev = 3
  MaxId = 1
PROPERTY NoIssueLost
