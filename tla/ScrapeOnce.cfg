SPECIFICATION Spec
CONSTANTS
  Jobs = {j1, j2, j3}
  Scrapes = {s1, s2}
  Skews <- RightOrOff
  MaxTime = 3
  MaxBoots = 1
SYMMETRY Interchangeable
INVARIANTS
  TypeOK
  NoJobCountedTwice
  OnlyOvertakenAreMissed
CHECK_DEADLOCK FALSE
