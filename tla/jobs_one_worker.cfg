SPECIFICATION Spec
CONSTANTS
  otcWorker = otcWorker
  backgroundWorker = backgroundWorker
  Jobs = {j1}
  LiveJobs = {j1}
  Registered = {j1}
  Background = {}
  Callers = {c1, c2}
  Runners = {otcWorker}
  Serves <- OneWorker
  Pollers = {}
  None = None
  MaxAttempts = 5
  RetryBelow = 2
  ScanLimit = 5
  DeadLimit = 10
  MaxCalls = 5
  MaxRetries = 1
  MaxFaults = 1
SYMMETRY Symmetry
INVARIANTS RetryableHasBudget
PROPERTIES ResultStands
