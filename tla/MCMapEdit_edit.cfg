SPECIFICATION Spec
CONSTANTS
  Width = 4
  Height = 3
  OriginX <- Origin
  OriginY <- Origin
  Editors = {e1, e2}
  m1 = m1
  m2 = m2
  n1 = n1
  k1 = k1
  Maps = {m1, m2}
  Names = {n1}
  Kinds = {k1}
  Lines <- OneLine
  Redraw <- Redrawn
  Halves <- Cut
  FirstRooms <- Drawn
  FirstZones <- Marked
  Torn = Torn
  MaxEdits = 3
  MaxFaults = 2
SYMMETRY EditorsAlike
INVARIANTS TypeOK IdsUnique GraphMatches
PROPERTIES RoomsStayOnMap AloneIsAtomic
CHECK_DEADLOCK FALSE
