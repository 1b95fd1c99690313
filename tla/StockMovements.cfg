CONSTANTS
  t1 = t1
  t2 = t2
  NumLots = 2
  NumInvs = 2
  NumDocs = 1
  Quantities = {1}
  Diffs <- UnitDiffs
  MaxStock = 2
  Countable <- FirstRecord
  Txs <- TwoTxs
  Kinds <- MovementKinds
  SnapshotAtBegin = TRUE
SYMMETRY TxSymmetry
SPECIFICATION Spec
INVARIANTS TypeOK QuantityMatchesLots RemainingMatchesBalances
PROPERTY ImplementsBook
