SPECIFICATION Spec
SYMMETRY Symmetry
CONSTANTS
  Reqs = {r1, r2}
  Keys = {k1, k2}
  OwnLines = {own}
  Passwords = {p1, p2}
  None = None
  MaxRequests = 4
  MaxFaults = 2
INVARIANTS PasswordInForce SSHAsSaved
PROPERTIES KeysByRequest SetupOnce
CHECK_DEADLOCK FALSE
