SPECIFICATION Spec
CONSTANTS
  o1 = o1
  o2 = o2
  o3 = o3
  None = None
  Orders <- TwoOrders
  Gtc = None
  Closers = {c1}
  Syncs = {s1}
  Qty = 2
  OtcWorkers = 2
  MaxSubmit = 2
  RetryBudget = 2
  DuplicateIdFirst = TRUE
  Sweeping = TRUE
  MaxFaults = 0
  MaxCrashes = 0
INVARIANTS ClosedIsFlat
CHECK_DEADLOCK FALSE
