SPECIFICATION Spec
CONSTANTS
  Width = 4
  Height = 3
  OriginX <- Origin
  OriginY = 5
INVARIANTS OutlineEncloses RoomKept RoomStays SplitApart
CHECK_DEADLOCK FALSE
