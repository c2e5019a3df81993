CONSTANTS
  Operand = {0, 3, 171, 255}
  Opcode = {1, 4}
SPECIFICATION MulSpec
INVARIANTS
  MulTypeOK
PROPERTIES
  ImplementsPipeline
