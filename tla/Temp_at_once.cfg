SPECIFICATION Spec
CONSTANTS
  Session = {"a", "b"}
  Project = {"a", "b"}
  Dir = {"a"}
  ProjectOf <- Own
  TempOf <- OneForAll
  Content = {"empty", "x"}
  AtOnce = 2
  MaxRev = 3
INVARIANT OwnIssuesOnly
