SPECIFICATION FairSpec
CONSTANTS
  o1 = o1
  o2 = o2
  o3 = o3
  None = None
  Orders <- TwoOrders
  Gtc = None
  Closers = {c1}
  Syncs = {s1}
  Qty = 1
  OtcWorkers = 1
  MaxSubmit = 3
  RetryBudget = 2
  DuplicateIdFirst = TRUE
  Sweeping = FALSE
  MaxFaults = 3
  MaxCrashes = 0
PROPERTIES FillIsBooked ExitsRearm
CHECK_DEADLOCK FALSE
