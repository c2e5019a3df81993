CONSTANTS
  Operand = {3, 255}
  FifoBound = 2
SPECIFICATION Spec
INVARIANTS
  NeverBlamesTheALU
  OneCommandInFlight
  ReturnsTheResult
  BenchInv
PROPERTIES
  SwitchesOnlyWhenIdle
  EveryItemIsDone
  EveryCommandIsScored
  ImplementsService
