CONSTANTS
  t1 = t1
  t2 = t2
  NumLots = 2
  NumInvs = 1
  NumDocs = 1
  Quantities = {1}
  Diffs <- UnitDiffs
  MaxStock = 2
  Countable <- NoPairs
  Txs <- TwoTxs
  Kinds <- ReturnKinds
  SnapshotAtBegin = FALSE
SYMMETRY TxSymmetry
SPECIFICATION Spec
INVARIANTS QuantityMatchesLots
