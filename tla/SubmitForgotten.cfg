SPECIFICATION Spec
CONSTANTS
  r1 = r1
  r2 = r2
  r3 = r3
  r4 = r4
  ann = ann
  bob = bob
  k1 = k1
  g1 = g1
  g2 = g2
  MaxTextLength = 4
  Jobs = {r1, r2, r3, r4}
  Users = {ann, bob}
  Owner <- MixedOwner
  NoKey = NoKey
  Key <- MixedKey
  Text <- OneText
  Malformed = Malformed
  NoJob = NoJob
  PendingCap = 2
  Capacity = 2
  PoolSize = 2
  Gateways = {g1, g2}
  On <- MixedOn
  MaxDeaths = 0
  MaxAddFaults = 1
  MaxLost = 0
INVARIANT
  KeyNamesOneJob
CHECK_DEADLOCK FALSE
