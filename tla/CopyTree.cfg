CONSTANTS
  Nodes <- MCNodes
  Parent <- MCParent
  Kind <- MCKind
  Top <- MCTop
  MaxFaults = 2
SPECIFICATION Spec
INVARIANTS
  TypeOK
  NothingLost
  ReportedIsDone
  CompleteUnlessSkipped
PROPERTY OnlyAgreedReplaced
CHECK_DEADLOCK FALSE
