-------------------------------- MODULE ALU ---------------------------------
(***************************************************************************)
(* The device under test: the adder, the logic operations, the multiplier  *)
(* iMul, one flip-flop for the single-cycle operations, and the two        *)
(* multiplexers on opcode that select result and done.  The multiplexers   *)
(* look at the opcode of now, the flip-flops remember those of earlier     *)
(* edges: changing opcode while a flip-flop is up shows the done of        *)
(* another operation.                                                      *)
(***************************************************************************)
EXTENDS CarryLookahead

VARIABLES mul_A, sum_reg_pair, sum_reg_quad, done3, done2, done1,
          multi_cycle_done, single_cycle_done

iMul == INSTANCE Multiplier8b WITH Operand <- Byte, Opcode <- 0..7,
                                   done <- multi_cycle_done

aluVars == <<mul_A, sum_reg_pair, sum_reg_quad, done3, done2, done1,
             multi_cycle_done, single_cycle_done>>

ALUTypeOK == iMul!MulTypeOK /\ single_cycle_done \in BOOLEAN

ALUInit == iMul!MulInit /\ single_cycle_done = FALSE

\* The five always_ff blocks, which may sample different values of a reset that
\* changes at the clock edge itself.
AlwaysFF == {"mul_A", "sum_pair", "sum_quad", "done", "single"}

\* MUTANTS of SingleCycleDone: only odd opcodes taken for operations; done is kept.
SingleCycleDone_Kept(start, opcode, rst_n) ==
  single_cycle_done' = (rst_n /\ (single_cycle_done \/ (start /\ opcode # 0)))

SingleCycleDone_OddOnly(start, opcode, rst_n) ==
  single_cycle_done' = (rst_n /\ start /\ opcode % 2 = 1)

SingleCycleDone(start, opcode, rst_n) ==
  single_cycle_done' = (rst_n /\ start /\ opcode # 0)

ALUPosedgeClk(A, B, start, opcode, rst_n) ==
  /\ iMul!PartialProducts(A, B, rst_n["mul_A"])
  /\ iMul!FirstLevel(rst_n["sum_pair"])
  /\ iMul!SecondLevel(rst_n["sum_quad"])
  /\ iMul!DonePipeline(start, opcode, rst_n["done"])
  /\ SingleCycleDone(start, opcode, rst_n["single"])
-----------------------------------------------------------------------------
\* The adder's output, through the gates.
add_result(A, B) == Val16(CLA8b(ToWord(A, 8), ToWord(B, 8), 0))

\* opcode[2] and opcode[1:0].
Msb(opcode) == opcode >= 4
Lsbs(opcode) == opcode % 4

ALUresult(A, B, opcode) ==
  IF Msb(opcode) THEN iMul!result
  ELSE IF Lsbs(opcode) = 1 THEN add_result(A, B)
  ELSE IF Lsbs(opcode) = 2 THEN And8(A, B)
  ELSE IF Lsbs(opcode) = 3 THEN Xor8(A, B)
  ELSE 0

ALUdone(opcode) == IF Msb(opcode) THEN multi_cycle_done ELSE single_cycle_done
-----------------------------------------------------------------------------
(* What the invariants of the benches say of the ALU's registers. *)

MulFlagUp == done3 \/ done2 \/ done1 \/ multi_cycle_done
NoFlagUp == ~MulFlagUp /\ ~single_cycle_done

\* The multiplier's flags are those of requests for the product of A and B, which is
\* ahead of its flag by one stage.
ProductAhead(A, B) ==
  /\ done3 \/ done2 => iMul!Products[1] = A * B
  /\ done1 => iMul!Products[2] = A * B
  /\ multi_cycle_done => iMul!Products[3] = A * B
=============================================================================
