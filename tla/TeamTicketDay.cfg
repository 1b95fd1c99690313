SPECIFICATION Spec
CONSTANTS
  s1 = s1  s2 = s2  k1 = k1  k2 = k2  m1 = m1  m2 = m2  a = a
  None = None
  Sessions <- TwoSessions
  Keys <- TwoKeys
  Members <- TwoMembers
  Items <- OneItem
  Departments = {"team", "it"}
  Quantities = {2}
  Reasons = {"ok", "fixed", "external", "blocked"}
  Repeated = {"waiting_gate_exit"}
  MaxNeeds = 2
  MaxRevision = 8
SYMMETRY Interchangeable
VIEW Relevant
INVARIANTS FreshLedger OneOpenVisit ReceiptDrivesStage MaterialsAccounted TransferCoversShortage RouteConsistent
CHECK_DEADLOCK FALSE
