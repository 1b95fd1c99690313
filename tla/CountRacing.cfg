SPECIFICATION Spec
CONSTANTS
  t1 = t1  c1 = c1  k1 = k1
  NumLots = 1  NumInvs = 2  NumDocs = 1
  Quantities = {1}
  Diffs <- UpToTwo
  MaxStock = 2
  Countable <- AllPairs
  Txs <- OneTx
  Kinds <- MovementsAndReturns
  SnapshotAtBegin = TRUE
  Counts <- OneCount
  Clerks <- OneClerk
  Counted = {0, 1}
  Scopes <- BothScopes
  Crashes = TRUE
  QuietOpening = FALSE
PROPERTIES DiscrepancyStaysFrozen ImplementsLedger
CHECK_DEADLOCK FALSE
