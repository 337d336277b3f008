SPECIFICATION Spec
CONSTANTS
  o1 = o1
  o2 = o2
  o3 = o3
  None = None
  Orders <- TwoOrders
  Gtc = o1
  Closers = {c1}
  Syncs = {s1}
  Qty = 1
  OtcWorkers = 2
  MaxSubmit = 2
  RetryBudget = 2
  DuplicateIdFirst = FALSE
  Sweeping = TRUE
  MaxFaults = 1
  MaxCrashes = 1
INVARIANTS ClosedIsFlat
CHECK_DEADLOCK FALSE
