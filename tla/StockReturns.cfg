CONSTANTS
  t1 = t1
  t2 = t2
  NumLots = 1
  NumInvs = 1
  NumDocs = 2
  Quantities = {1, 2}
  Diffs <- UnitDiffs
  MaxStock = 3
  Countable <- NoPairs
  Txs <- TwoTxs
  Kinds <- MostKinds
  SnapshotAtBegin = FALSE
SYMMETRY TxSymmetry
SPECIFICATION Spec
INVARIANTS NoOverReturn
CHECK_DEADLOCK FALSE
