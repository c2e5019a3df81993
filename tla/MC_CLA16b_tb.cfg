CONSTANTS
  Limit = 512
  Adder <- Adder16b
  Expected <- Sum16
SPECIFICATION Spec
INVARIANTS
  NoneIncorrect
CHECK_DEADLOCK FALSE
