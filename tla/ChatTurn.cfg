SPECIFICATION Spec
CONSTANTS
  Texts = {"hello", "data"}
  Reprs = {"plain", "parts"}
  CallIds = {"c1"}
  MaxScan = 128
  Requests = {r1, r2}
  MaxTurns = 3
  Histories <- MCHistories
  Replies <- MCReplies
  Projections <- MCProjections
INVARIANTS TypeOK FullReplay FullLoserDropped
PROPERTY ReplyInPlace
