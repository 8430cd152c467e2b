SPECIFICATION Spec
CONSTANTS
  Callers = {c1, c2}
  Pollers = {p1}
  None = None
  MaxCalls = 3
  MaxProbes = 1
  MaxFaults = 2
INVARIANTS TypeOK AnswersOwn ExecutedOnce QuietCallSucceeds
PROPERTIES CallsEnd
CHECK_DEADLOCK FALSE
