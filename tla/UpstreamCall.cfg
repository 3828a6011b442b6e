CONSTANTS
  Calls = {c1, c2, c3}
  FailureThreshold = 2
  MaxRetries = 1
SPECIFICATION FairSpec
INVARIANTS
  TypeOK
  ReservationHeld
  CountMatchesState
  NeverResent
PROPERTY
  NeverPinned
