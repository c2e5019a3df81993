CONSTANTS
  Limit = 256
  Adder <- Adder8b
  Expected <- Sum
SPECIFICATION Spec
INVARIANTS
  NoneIncorrect
  EveryPairDriven
CHECK_DEADLOCK FALSE
