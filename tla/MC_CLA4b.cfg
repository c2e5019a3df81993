CONSTANTS
  Limit = 16
  Adder <- Adder4b
  Expected <- Sum4
SPECIFICATION Spec
INVARIANT GGHighIfAnyBitGenerates
CHECK_DEADLOCK FALSE
