SPECIFICATION FairSpec
CONSTANTS
  Tasks = {t1, t2}
  PassLimit = 3
  EmbedBatchSize = 2
  Refused = {0}
  MaxMessages = 5
  MaxMishaps = 2
INVARIANTS TypeOK ChunksExact MarkedIsStored
PROPERTIES EventuallyIndexed
