CONSTANTS
  NItems = 3
  Hidden <- MCHidden
  Sizes <- MCSizes
  LateEvents = FALSE
  AnyOrder = TRUE
  MaxSelected = 1
  MaxEvents = 5
SPECIFICATION Spec
CHECK_DEADLOCK FALSE
INVARIANTS
  TypeOK
  Consistent
  SavedIsShown
  ArrangedIsPacked
PROPERTIES
  IconsFollowFiles
  RoundTrip
