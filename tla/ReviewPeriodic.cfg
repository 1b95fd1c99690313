SPECIFICATION Spec
CONSTANTS
  clerk = clerk  clerk2 = clerk2  manager = manager  owner = owner
  null = null  i1 = i1  i2 = i2
  Preparers <- ClerkOwner
  Reviewers <- OnlyOwner
  Privileged <- OnlyOwner
  Null = null
  Items <- OneItem
  Quantities = {0, 1}
  System <- ExpectedOne
  Costs = {1}
  OpeningBalance = FALSE
  MaxVersion = 6
  MaxOpen = 2
INVARIANTS SegregationOfDuties PostedOnce PendingMeansReturned PendingIsCompletable
