SPECIFICATION Spec
CONSTANTS
  Word <- MCWord
  Input <- AnyText
  MaxIssues = 1
INVARIANT RoundTripExact
PROPERTY LoadedIsClean
