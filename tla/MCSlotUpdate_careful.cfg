SPECIFICATION FairSpec
CONSTANTS
  v1 = v1
  v2 = v2
  bad = bad
  Builds = {v1, v2, bad}
  GoodBuilds = {v1, v2}
  InitBuild = v1
  None = None
  Torn = Torn
  r1 = r1
  Reqs = {r1}
  FreshInstall = FALSE
  Serial = TRUE
  FirstAlone = FALSE
  Patient = TRUE
  Faults = {"power", "exit", "slotWrite", "markerWrite", "switch", "web", "noapi", "webFail"}
  MaxInstalls = 3
  MaxFaults = 3
INVARIANT WayBack
INVARIANT RestartReady
PROPERTY NoDowngrade
PROPERTY BackInService
PROPERTY ImplementsAtomicUpdate
CHECK_DEADLOCK FALSE
