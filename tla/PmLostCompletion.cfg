SPECIFICATION Spec
CONSTANTS
  i1 = i1  i2 = i2  m1 = m1  m2 = m2  job = job  manual = manual
  None = None
  BasicResults = {"fixed"}
  Items <- TwoItems
  LateItems <- NoItems
  Members <- TwoMembers
  Runners <- OneRunner
  MaxVisits = 2
  MaxTickets = 1
  MaxFails = 1
  MaxOpen = 1
INVARIANTS DoneTaskIsCompleted
CHECK_DEADLOCK FALSE
