SPECIFICATION FairSpec
CONSTANTS
  Jobs = {j1}
  Workers = {w1, w2}
  NoJob = NoJob
  NoWorker = NoWorker
  Attempts = 3
  MaxStalled = 1
  ThreadPool = 1
  MaxExits = 1
  MaxExpiries = 1
  MaxFaults = 0
  MaxWithdrawn = 0
INVARIANT
  FailedEntryIsDecided
PROPERTY
  EveryJobIsDecided
CHECK_DEADLOCK FALSE
