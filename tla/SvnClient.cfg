SPECIFICATION Spec
CONSTANT Provider = {p1, p2}
INVARIANT CallsHaveClient
PROPERTY NoLoginOnlyAfterFailure
