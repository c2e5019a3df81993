CONSTANTS
  Operand = {3, 255}
  Repeats = 5
SPECIFICATION Spec
INVARIANTS
  NoFalseError
PROPERTIES
  EveryAnswerIsCompared
  NeverTwoSkipped
  DoneRisesAtTheClock
  SendOpReturnsItsResult
  TesterStops
CHECK_DEADLOCK FALSE
