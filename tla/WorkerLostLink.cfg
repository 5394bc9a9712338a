SPECIFICATION Spec
CONSTANTS
  Jobs = {j1}
  Workers = {w1}
  NoJob = NoJob
  NoWorker = NoWorker
  Attempts = 2
  MaxStalled = 1
  ThreadPool = 1
  MaxExits = 0
  MaxExpiries = 0
  MaxFaults = 1
  MaxWithdrawn = 0
INVARIANT
  ExhaustedJobIsFailed
CHECK_DEADLOCK FALSE
