CONSTANTS
  Files <- MCFiles
  MaxAsked = 2
  MaxRefreshed = 1
SPECIFICATION Spec
INVARIANTS
  TypeOK
  DestroyedAreMarked
  AskedOrLoaded
  QueueIsServed
PROPERTY Loads
CHECK_DEADLOCK FALSE
