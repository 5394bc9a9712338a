SPECIFICATION Spec
CONSTANTS
  Limit = 2
  Minute = 5
  Second = 2
  Horizon = 10
  MaxBacksteps = 1
  MaxLosses = 1
INVARIANTS
  TypeOK
  RateIsBounded
  ExpiryForgetsNothing
  RetryAfterIsHonoured
CHECK_DEADLOCK FALSE
