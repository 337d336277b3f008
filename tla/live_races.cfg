SPECIFICATION Spec
CONSTANTS
  o1 = o1
  o2 = o2
  o3 = o3
  None = None
  Orders <- ThreeOrders
  Gtc = o1
  Closers = {c1, c2}
  Syncs = {s1, s2}
  Qty = 2
  OtcWorkers = 2
  MaxSubmit = 2
  RetryBudget = 2
  DuplicateIdFirst = FALSE
  Sweeping = FALSE
  MaxFaults = 1
  MaxCrashes = 0
SYMMETRY Symmetry
PROPERTIES BookFollowsBroker
INVARIANTS TypeOK FillsAreSold NothingForgotten WithinReach
CHECK_DEADLOCK FALSE
