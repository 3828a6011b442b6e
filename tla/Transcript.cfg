SPECIFICATION BoundedSpec
CONSTANTS
  Texts = {"hello", "data"}
  Reprs = {"plain", "parts"}
  CallIds = {"c1"}
  MaxScan = 2
  MaxTranscript = 4
  Projections <- MCProjections
INVARIANTS ReplayIdempotent AnchoredAppend ForksRefused
