SPECIFICATION Spec
CONSTANTS
  a1 = a1
  d1 = d1
  d2 = d2
  r1 = r1
  r2 = r2
  k1 = k1
  k2 = k2
  k3 = k3
  s1 = s1
  s2 = s2
  m1 = m1
  m2 = m2
  Arms = {a1}
  Decisions = {d1, d2}
  Runs = {r1, r2}
  Decision <- TwoDecisions
  Policy <- SamePolicy
  Candidates = {k1, k2, k3}
  Run <- TwoAndOne
  Tapes <- SomeTapes
  Start = 2
  Payoffs = {2}
  Scans = {s1, s2}
  Settlers = {m1, m2}
  None = None
  MaxTroubles = 1
SYMMETRY Alike
INVARIANTS
  TypeOK
  CashIsEvents
  NetLiqIsWorth
  ReplayGetsReceipt
  PauseStops
  CandidatesResolved
PROPERTY RPCsAreAtomic
