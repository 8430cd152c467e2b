SPECIFICATION Spec
CONSTANTS
  v1 = v1
  v2 = v2
  bad = bad
  Builds = {v1, v2, bad}
  GoodBuilds = {v1, v2}
  InitBuild = v1
  None = None
  Torn = Torn
  r1 = r1
  r2 = r2
  Reqs = {r1, r2}
  FreshInstall = TRUE
  Serial = FALSE
  FirstAlone = TRUE
  Patient = FALSE
  Faults = {"power", "exit", "exitCut", "slotWrite", "markerWrite", "switch", "web", "unlink", "noapi", "webFail", "cli"}
  MaxInstalls = 3
  MaxFaults = 2
SYMMETRY Perms
INVARIANT TypeOK
INVARIANT RunningIntact
INVARIANT KeepsAGoodBuild
CHECK_DEADLOCK FALSE
