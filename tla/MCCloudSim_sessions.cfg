SPECIFICATION Spec
CONSTANTS
  Props = {p1}
  Values = {v1, v2}
  Unset = Unset
  Invalid = Invalid
  None = None
  Setters = {s1, s2}
  Ordered = TRUE
  MaxSets = 2
  MaxFaults = 2
INVARIANTS SessionIsServed StoredWasSent
PROPERTIES SessionFound ReplaySettles
CHECK_DEADLOCK FALSE
