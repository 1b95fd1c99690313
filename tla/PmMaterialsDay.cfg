CONSTANTS
  c1 = c1
  c2 = c2
  i1 = i1
  i2 = i2
  None = None
  Clerks = {c1, c2}
  Items = {i1, i2}
  NumLots = 2
  Shared = {1}
  StartStocks <- Stocks
  Required = {2}
  MaxRoutes = 2
  MaxDeliveries = 2
SYMMETRY Interchangeable
SPECIFICATION Spec
INVARIANTS TypeOK LinkedOnce ReadyMeansIssued UsageWrittenOnce RecordedWasReturned
CHECK_DEADLOCK FALSE
