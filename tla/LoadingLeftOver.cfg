CONSTANTS
  Entries = 3
  Iterators <- MCEither
  MaxRequests = 0
SPECIFICATION Spec
PROPERTIES
  FilesGetHandled
CHECK_DEADLOCK FALSE
