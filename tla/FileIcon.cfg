CONSTANTS
  Infos <- MCInfos
  Keys <- MCKeys
  FileOf <- MCFileOf
  MaxChanges = 1
  MaxQueue = 2
SPECIFICATION Spec
INVARIANTS
  TypeOK
  WakesMatchQueue
  GivesUpOnAnswer
PROPERTIES
  ThumbnailShown
CHECK_DEADLOCK FALSE
