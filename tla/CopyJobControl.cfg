CONSTANTS
  Sources = 1
  MaxFaults = 2
  FaultPlaces <- Places
  Repeats <- MCRepeats
SPECIFICATION Spec
INVARIANTS
  TypeOK
  CleanEndIsComplete
  CancelHasCause
  AnswerFits
  QuestionStaysUp
PROPERTIES
  CancelEndsJob
  ImplementsDialogue
  StopHonoured
  AnswerTaken
CHECK_DEADLOCK FALSE
