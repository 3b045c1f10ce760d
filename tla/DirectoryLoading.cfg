CONSTANTS
  Entries = 2
  Iterators <- MCIterator
  MaxRequests = 2
SPECIFICATION Spec
INVARIANTS
  TypeOK
  OwnFiles
  ListedIsComplete
  OneListing
CHECK_DEADLOCK FALSE
