SPECIFICATION RetrySpec
CONSTANTS
  Session = {"a", "b"}
  Project = {"a", "b"}
  Dir = {"a"}
  ProjectOf <- Own
  TempOf <- OneForAll
  Content = {"empty", "x", "y"}
  AtOnce = 1
  MaxRev = 4
INVARIANTS
  OwnIssuesOnly
  CommittedIsOwnText
PROPERTY SavingEnds
