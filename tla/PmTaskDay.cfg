SPECIFICATION FairSpec
CONSTANTS
  i1 = i1  i2 = i2  m1 = m1  m2 = m2  job = job  manual = manual
  None = None
  BasicResults = {"fixed"}
  Items <- TwoItems
  LateItems <- LateItem
  Members <- TwoMembers
  Runners <- OneRunner
  MaxVisits = 2
  MaxTickets = 2
  MaxFails = 1
  MaxOpen = 2
INVARIANTS OneOpenVisit WorkHasVisit ClosedTicketCompletes
PROPERTIES ImplementsLife Generated
CHECK_DEADLOCK FALSE
