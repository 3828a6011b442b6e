SPECIFICATION FairSpec
CONSTANTS
  Texts = {"hello", "data"}
  Reprs = {"plain", "parts"}
  CallIds = {"c1"}
  MaxScan = 128
  Writers = {w1, w2}
  MaxBegins = 4
  Projections <- MCProjections
INVARIANTS TypeOK DecisionFresh SeqFollows RefsSound
PROPERTIES ImplementsTranscript EveryTransactionEnds
