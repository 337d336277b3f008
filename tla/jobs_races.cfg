SPECIFICATION Spec
CONSTANTS
  otcWorker = otcWorker
  backgroundWorker = backgroundWorker
  Jobs = {j1}
  LiveJobs = {j1}
  Registered = {j1}
  Background = {j1}
  Callers = {c1, c2}
  Runners = {otcWorker, backgroundWorker}
  Serves <- TwoWorkers
  Pollers = {p1}
  None = None
  MaxAttempts = 3
  RetryBelow = 2
  ScanLimit = 5
  DeadLimit = 10
  MaxCalls = 2
  MaxRetries = 1
  MaxFaults = 1
SYMMETRY Symmetry
INVARIANTS TypeOK CancelledInert QueuedIsCarried
