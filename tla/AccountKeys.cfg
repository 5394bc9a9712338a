SPECIFICATION Spec
CONSTANTS
  Emails = {ann, bob}
  Registrations = {g1, g2}
  Managements = {m1, m2, m3}
  Uses = {u1, u2}
  Nobody = Nobody
SYMMETRY Interchangeable
INVARIANTS
  TypeOK
  CreatedOpensAccount
  RevocationStands
  RevokedIsRefused
CHECK_DEADLOCK FALSE
