SPECIFICATION FairSpec
CONSTANTS
  Gateways = {g1, g2}
  Dependencies = {Database, Redis, Storage}
  Storage = Storage
  MaxFlips = 2
INVARIANTS
  TypeOK
  StartIsHonest
  ReadyIsEarned
PROPERTY
  NobodyWaitsForever
CHECK_DEADLOCK FALSE
