SPECIFICATION Spec
CONSTANTS
  Brokers = {ha, bad}
  Reachable = {ha}
  NoBroker = NoBroker
  Passwords = {p1, p2}
  Keep = Keep
  None = None
  Handlers = {h1}
  Publishers = {}
  Serial = TRUE
  MaxPuts = 1
  MaxFaults = 0
PROPERTIES TakesEffect
CHECK_DEADLOCK FALSE
