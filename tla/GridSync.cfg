CONSTANTS
  NItems = 3
  Hidden <- MCNoHidden
  Sizes <- MCOneSize
  LateEvents = TRUE
  AnyOrder = TRUE
  MaxSelected = 1
  MaxEvents = 4
SPECIFICATION Spec
INVARIANT DataInSync
CHECK_DEADLOCK FALSE
