SPECIFICATION Spec
CONSTANTS
  s1 = s1
  s2 = s2
  y1 = y1
  Suggestions = {s1, s2}
  Symbols = {y1}
  Symbol <- SameSymbol
  Cap = 2
  Qty = 1
  MaxSubmit = 2
  None = None
  N = 1
  MaxOrders = 2
  MaxDays = 2
  MaxTroubles = 1
SYMMETRY Alike
INVARIANTS TypeOK EnteredOnce CancelledIsOver
PROPERTIES ReentryOverReview StoppedStaysOut NoTradeThroughStreak
CHECK_DEADLOCK FALSE
