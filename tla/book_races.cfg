SPECIFICATION FairSpec
CONSTANTS
  e1 = e1
  e2 = e2
  Entries = {e1}
  Manual = {m1}
  Internal = {x1, x2}
  Keys = {e1, e2}
  Key <- OwnKeys
  Qty <- Sizes
  Positions = {p1, p2, p3}
  Runs = {r1, r2}
  Closers = {c1, c2}
  None = None
  Start = 3
  MaxTroubles = 1
INVARIANTS TypeOK BooksAgree PaidOnce
PROPERTIES FilledIsLinked
CHECK_DEADLOCK FALSE
