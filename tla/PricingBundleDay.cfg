SPECIFICATION Spec
CONSTANTS
  d1 = d1  d2 = d2  c1 = c1  c2 = c2
  None = None
  Items = {1, 2}
  Orders = {1, 2}
  OrderOf <- TwoOrders
  Delegates <- TwoDelegates
  Clients <- TwoClients
  UnitCosts = {2}
  Quantities = {2}
  StartOwners <- FirstOwnsAll
  StartCosts <- AllPriced
  MaxRequests = 2
  MaxBundles = 2
  MaxRevision = 2
  Limit = 2
SYMMETRY Interchangeable
INVARIANTS SentAsSeen SentRowsAddUp DoneMeansAnnounced
PROPERTIES ReservedKeepsPrice SentPriceEditedKnowingly
CHECK_DEADLOCK FALSE
