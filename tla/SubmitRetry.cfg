SPECIFICATION FairSpec
CONSTANTS
  r1 = r1
  r2 = r2
  r3 = r3
  r4 = r4
  ann = ann
  bob = bob
  k1 = k1
  g1 = g1
  g2 = g2
  MaxTextLength = 4
  Jobs = {r1, r2, r3, r4}
  Users = {ann, bob}
  Owner <- OneOwner
  NoKey = NoKey
  Key <- OneKey
  Text <- RetryTexts
  Malformed = Malformed
  NoJob = NoJob
  PendingCap = 2
  Capacity = 2
  PoolSize = 1
  Gateways = {g1, g2}
  On <- PairsOn
  MaxDeaths = 2
  MaxAddFaults = 0
  MaxLost = 0
INVARIANTS
  KeyNamesOneJob
  RowsAreSpeakable
PROPERTY
  EveryRequestEnds
CHECK_DEADLOCK FALSE
