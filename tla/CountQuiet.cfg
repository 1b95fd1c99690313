SPECIFICATION Spec
CONSTANTS
  t1 = t1  c1 = c1  k1 = k1
  NumLots = 2  NumInvs = 2  NumDocs = 0
  Quantities = {1, 2}
  Diffs <- UpToTwo
  MaxStock = 4
  Countable <- AllPairs
  Txs <- OneTx
  Kinds <- Movements
  SnapshotAtBegin = FALSE
  Counts <- OneCount
  Clerks <- OneClerk
  Counted = {0, 1, 2}
  Scopes <- FullScope
  Crashes = FALSE
  QuietOpening = TRUE
INVARIANTS TypeOK TargetsStable FullyCounted FullCoverage UnsettledIsPostable
PROPERTIES FinalCountImmutable PostingReachesCount
CHECK_DEADLOCK FALSE
