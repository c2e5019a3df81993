CONSTANTS
  Operand = {3, 255}
  RandomItems = 3
  NoCommand <- NoItem
  Command <- AnyCommand
SPECIFICATION Spec
INVARIANTS
  TypeOK
  FibonacciIsRight
  ResultReachesItsSequence
  TakesTurns
  OnlyTheLastIsLost
PROPERTIES
  FirstItemIsReset
  TestEnds
CHECK_DEADLOCK FALSE
