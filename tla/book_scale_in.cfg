SPECIFICATION Spec
CONSTANTS
  e1 = e1
  e2 = e2
  Entries = {e1,e2}
  Manual = {}
  Internal = {}
  Keys = {e1, e2}
  Key <- SameKey
  Qty <- Sizes
  Positions = {p1, p2, p3}
  Runs = {r1}
  Closers = {}
  None = None
  Start = 3
  MaxTroubles = 0
PROPERTIES RepairMeansFailure
CHECK_DEADLOCK FALSE
