SPECIFICATION Spec
CONSTANTS
  Brokers = {ha, bad}
  Reachable = {ha, bad}
  NoBroker = NoBroker
  Passwords = {p1, p2}
  Keep = Keep
  None = None
  Handlers = {h1}
  Publishers = {pub}
  Serial = TRUE
  MaxPuts = 2
  MaxFaults = 1
INVARIANT SettledAgrees
PROPERTIES TakesEffect LinkUp StopHonoured
CHECK_DEADLOCK FALSE
