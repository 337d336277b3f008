SPECIFICATION Spec
CONSTANTS
  s1 = s1
  s2 = s2
  y1 = y1
  Suggestions = {s1}
  Symbols = {y1}
  Symbol <- SameSymbol
  Cap = 2
  Qty = 2
  MaxSubmit = 2
  None = None
  N = 1
  MaxOrders = 2
  MaxDays = 1
  MaxTroubles = 0
INVARIANTS EnteredOnce
CHECK_DEADLOCK FALSE
