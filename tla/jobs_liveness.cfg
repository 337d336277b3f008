SPECIFICATION FairSpec
CONSTANTS
  otcWorker = otcWorker
  backgroundWorker = backgroundWorker
  Jobs = {j1, j2}
  LiveJobs = {}
  Registered = {j1}
  Background = {j2}
  Callers = {c1, c2}
  Runners = {otcWorker, backgroundWorker}
  Serves <- TwoWorkers
  Pollers = {}
  None = None
  MaxAttempts = 5
  RetryBelow = 2
  ScanLimit = 5
  DeadLimit = 10
  MaxCalls = 3
  MaxRetries = 0
  MaxFaults = 0
PROPERTIES QueuedRunSettles ExhaustedIsResolved
