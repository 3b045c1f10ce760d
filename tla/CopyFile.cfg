CONSTANTS
  Size <- MCSize
  Block <- MCBlock
  MaxFaults <- MCMaxFaults
SPECIFICATION Spec
INVARIANTS
  TypeOK
  NeverLost
  WrittenInOrder
  CountedOnce
PROPERTY ImplementsTransfer
CHECK_DEADLOCK FALSE
