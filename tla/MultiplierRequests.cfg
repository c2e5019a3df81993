CONSTANTS
  Operand = {171, 255}
  Opcode = {1, 4}
SPECIFICATION RequestSpec
INVARIANTS
  AnswersAHeldRequest
  HeldRequestIsAnswered
