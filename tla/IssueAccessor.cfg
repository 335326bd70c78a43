SPECIFICATION AccessorSpec
CONSTANTS
  Word <- MCWord
  Input <- MCInput
  Client = {alice, bob}
  RootNames = {"trunk"}
  MaxRev = 3
  MaxId = 1
SYMMETRY Users
VIEW Distinct
INVARIANTS
  TypeOK
  CommittedIsOwnList
PROPERTY StoreSpec
