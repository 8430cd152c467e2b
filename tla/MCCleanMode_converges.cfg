SPECIFICATION Spec
CONSTANTS
  Fans = {1, 2}
  Waters = {1}
  DefaultMode <- Default
  ZeroMode = ZeroMode
  Refreshers = {tick}
  Setters = {ha, web}
  MaxSets = 2
  MaxForeign = 1
  MaxFaults = 1
PROPERTIES Converges
CHECK_DEADLOCK FALSE
