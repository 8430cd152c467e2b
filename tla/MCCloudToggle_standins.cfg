SPECIFICATION Spec
CONSTANTS
  Serial = TRUE
  Faults = {"power", "tear", "exit", "nosim"}
  Reqs = {r1}
  MaxToggles = 4
  MaxFaults = 3
INVARIANT StandInsActive
CHECK_DEADLOCK FALSE
