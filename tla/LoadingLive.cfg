CONSTANTS
  Entries = 2
  Iterators <- MCEither
  MaxRequests = 1
SPECIFICATION Spec
PROPERTIES
  FetchUnblocks
  GetsListed
CHECK_DEADLOCK FALSE
