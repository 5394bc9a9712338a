SPECIFICATION Spec
CONSTANTS
  Jobs = {j1}
  Workers = {w1, w2}
  NoJob = NoJob
  NoWorker = NoWorker
  Attempts = 2
  MaxStalled = 1
  ThreadPool = 1
  MaxExits = 2
  MaxExpiries = 2
  MaxFaults = 1
  MaxWithdrawn = 1
SYMMETRY Interchangeable
INVARIANTS
  TypeOK
  ResultIsBacked
  CompletedEntryIsDecided
  DeliveriesBounded
PROPERTIES
  DecisionIsFinal
  KeepsPromise
CHECK_DEADLOCK FALSE
