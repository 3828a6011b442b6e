SPECIFICATION Spec
CONSTANTS
  Texts = {"hello", "data"}
  Reprs = {"plain", "parts"}
  CallIds = {"c1"}
  MaxScan = 128
  Writers = {w1, w2}
  MaxBegins = 3
  Projections <- MCProjections
INVARIANT NewestCall
