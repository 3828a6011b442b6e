CONSTANTS
  Calls = {c1, c2, c3}
  FailureThreshold = 1
  MaxRetries = 0
SPECIFICATION Spec
INVARIANT
  ExclusiveProbe
