SPECIFICATION RetrySpec
CONSTANTS
  Session = {"a", "b"}
  Project = {"a"}
  Dir = {"a", "b"}
  ProjectOf <- OneForAll
  TempOf <- Own
  Content = {"empty", "x", "y"}
  AtOnce = 1
  MaxRev = 4
PROPERTY SavingEnds
