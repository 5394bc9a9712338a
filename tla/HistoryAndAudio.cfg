SPECIFICATION Spec
CONSTANTS
  Jobs = {1, 2, 3}
  NoCursor = NoCursor
  MaxLimit = 2
  MaxTime = 2
  MaxUndone = 1
INVARIANTS
  TypeOK
  NoJobListedTwice
  LastingJobsAreListed
  LinkLeadsToAudio
CHECK_DEADLOCK FALSE
