------------------------------ MODULE ALU_pkg -------------------------------
(***************************************************************************)
(* The operations of the testbench and what they should return.            *)
(***************************************************************************)
EXTENDS Bits

no_op  == 0
add_op == 1
and_op == 2
xor_op == 3
mul_op == 4
rst_op == 7

operation_t == {no_op, add_op, and_op, xor_op, mul_op, rst_op}

\* The operations that the ALU answers with done.
RealOp == {add_op, and_op, xor_op, mul_op}

\* The scoreboard's prediction, for an operation the ALU answers.
predict_result(cmd) ==
  IF cmd.op = add_op THEN cmd.A + cmd.B
  ELSE IF cmd.op = and_op THEN And8(cmd.A, cmd.B)
  ELSE IF cmd.op = xor_op THEN Xor8(cmd.A, cmd.B)
  ELSE cmd.A * cmd.B
=============================================================================
