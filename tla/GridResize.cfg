CONSTANTS
  NItems = 5
  Hidden <- MCNoHidden
  Sizes <- MCShrinking
  LateEvents = FALSE
  AnyOrder = FALSE
  MaxSelected = 0
  MaxEvents = 4
SPECIFICATION Spec
INVARIANT PositionsOnGrid
CHECK_DEADLOCK FALSE
