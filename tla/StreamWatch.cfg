SPECIFICATION FairSpec
CONSTANTS
  Streams = {s1}
  Slots = {k1, k2}
  MaxMoves = 3
INVARIANTS
  TypeOK
  TerminalIsLast
  HubHoldsLive
  EventsKeepOrder
PROPERTY
  StreamIsReleased
CHECK_DEADLOCK FALSE
