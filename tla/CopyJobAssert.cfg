CONSTANTS
  Sources = 1
  MaxFaults = 1
  FaultPlaces = {"FileExists"}
  Repeats = {}
SPECIFICATION Spec
PROPERTY RememberedWhilePaused
CHECK_DEADLOCK FALSE
