SPECIFICATION Spec
CONSTANTS
  Serial = TRUE
  Faults = {"power", "exit", "file", "unlink", "unit", "app"}
  Reqs = {r1}
  MaxToggles = 4
  MaxFaults = 2
INVARIANTS TypeOK VendorKept VendorKeyStaysPrivate ToggleComplete
CHECK_DEADLOCK FALSE
