---------------------------- MODULE Multiplier8b ----------------------------
(***************************************************************************)
(* The pipelined multiplier at register level: partial products, two       *)
(* levels of sums, a combinational last sum, and beside them the four      *)
(* flip-flops of the done signal.  The data and the done pipeline share    *)
(* nothing but the clock: that they agree is what is to be shown.          *)
(*                                                                         *)
(* There is one operator per always_ff block; each takes the reset it      *)
(* samples as a parameter, since the blocks are separate processes.        *)
(* A register is 0 or FALSE in Init where the simulator has X: the         *)
(* registers are reset at the first clock edges, before anything reads     *)
(* them.                                                                   *)
(***************************************************************************)
EXTENDS Bits

CONSTANTS Operand,        \* the values the inputs A and B take
          Opcode          \* the values the input opcode takes

ASSUME OperandAssumption == Operand \subseteq Byte
ASSUME OpcodeAssumption == Opcode \subseteq 0..7

VARIABLES mul_A,          \* mul_A0 .. mul_A7
          sum_reg_pair,   \* sum_reg_bit01, 23, 45, 67
          sum_reg_quad,   \* sum_reg_bit0123, 4567
          done3, done2, done1, done

mulVars == <<mul_A, sum_reg_pair, sum_reg_quad, done3, done2, done1, done>>

\* The registers are 16 bits wide: the partial products are not sign-extended and
\* no sum is kept with its carry (Multiplier8b.sv 13-78).
MulTypeOK ==
  /\ mul_A \in [0..7 -> Short]
  /\ sum_reg_pair \in [0..3 -> Short]
  /\ sum_reg_quad \in [0..1 -> Short]
  /\ done3 \in BOOLEAN /\ done2 \in BOOLEAN /\ done1 \in BOOLEAN /\ done \in BOOLEAN

MulInit ==
  /\ mul_A = [i \in 0..7 |-> 0]
  /\ sum_reg_pair = [k \in 0..3 |-> 0]
  /\ sum_reg_quad = [k \in 0..1 |-> 0]
  /\ done3 = FALSE /\ done2 = FALSE /\ done1 = FALSE /\ done = FALSE
-----------------------------------------------------------------------------
\* MUTANT of PartialProduct: A taken as a signed byte.
PartialProduct_Signed(A, B, i) ==
  IF BitOf(B, i) = 1 THEN (IF A > 127 THEN A - 256 ELSE A) * Weight[i + 1] ELSE 0

\* A shifted by i where bit i of B is set.
PartialProduct(A, B, i) == IF BitOf(B, i) = 1 THEN A * Weight[i + 1] ELSE 0

PartialProducts(A, B, rst_n) ==
  mul_A' = [i \in 0..7 |-> IF rst_n THEN PartialProduct(A, B, i) ELSE 0]

FirstLevel(rst_n) ==
  sum_reg_pair' = [k \in 0..3 |->
                     IF rst_n THEN Add16(mul_A[2 * k], mul_A[2 * k + 1]) ELSE 0]

\* MUTANT of SecondLevel: the second sum takes its operands one register early.
SecondLevel_Overlap(rst_n) ==
  sum_reg_quad' = [k \in 0..1 |->
                     IF rst_n THEN Add16(sum_reg_pair[k], sum_reg_pair[k + 1]) ELSE 0]

SecondLevel(rst_n) ==
  sum_reg_quad' = [k \in 0..1 |->
                     IF rst_n THEN Add16(sum_reg_pair[2 * k], sum_reg_pair[2 * k + 1])
                              ELSE 0]

\* The combinational sum of the last two registers.
result == Add16(sum_reg_quad[0], sum_reg_quad[1])

\* MUTANTS of DonePipeline: done does not clear the stages behind it; a stage is
\* missing, as the three stages of data would suggest.
DonePipeline_NoFlush(start, opcode, rst_n) ==
  /\ done3' = (rst_n /\ start /\ opcode = 4)
  /\ done2' = (rst_n /\ done3)
  /\ done1' = (rst_n /\ done2)
  /\ done'  = (rst_n /\ done1)

DonePipeline_ThreeStages(start, opcode, rst_n) ==
  /\ done3' = (rst_n /\ start /\ ~done /\ opcode = 4)
  /\ done2' = (rst_n /\ done3 /\ ~done)
  /\ done1' = FALSE
  /\ done'  = (rst_n /\ done2 /\ ~done)

\* The done pipeline: done, once up, clears every stage behind it, so that a
\* start that is held until done is seen leaves no second pulse behind.
DonePipeline(start, opcode, rst_n) ==
  /\ done3' = (rst_n /\ start /\ ~done /\ opcode = 4)
  /\ done2' = (rst_n /\ done3 /\ ~done)
  /\ done1' = (rst_n /\ done2 /\ ~done)
  /\ done'  = (rst_n /\ done1 /\ ~done)

\* A rising clock edge at which every block samples the same reset.
PosedgeClk(A, B, start, opcode, rst_n) ==
  /\ PartialProducts(A, B, rst_n)
  /\ FirstLevel(rst_n)
  /\ SecondLevel(rst_n)
  /\ DonePipeline(start, opcode, rst_n)

\* Nothing is assumed of the inputs from one edge to the next.
MulNext ==
  \E A, B \in Operand, start \in BOOLEAN, opcode \in Opcode, rst_n \in BOOLEAN :
    PosedgeClk(A, B, start, opcode, rst_n)

MulSpec == MulInit /\ [][MulNext]_mulVars
-----------------------------------------------------------------------------
(* The abstract pipeline it implements. *)

\* The three products in flight, youngest first, read back from the stages.
Products ==
  <<Add16(Add16(Add16(mul_A[0], mul_A[1]), Add16(mul_A[2], mul_A[3])),
          Add16(Add16(mul_A[4], mul_A[5]), Add16(mul_A[6], mul_A[7]))),
    Add16(Add16(sum_reg_pair[0], sum_reg_pair[1]),
          Add16(sum_reg_pair[2], sum_reg_pair[3])),
    result>>

\* The ages, in edges, of the requests in flight.
Requests == (IF done3 THEN {1} ELSE {}) \cup (IF done2 THEN {2} ELSE {})
              \cup (IF done1 THEN {3} ELSE {})

Pipeline == INSTANCE MulPipeline WITH products <- Products, requests <- Requests

\* At register level the multiplier does what the abstract pipeline does: each
\* edge takes in the exact product of the operands it samples, shows it three
\* edges later, and done follows an accepted start after four edges
\* (Multiplier8b.sv, all of its always_ff blocks and the seven adders).
ImplementsPipeline == Pipeline!PipeSpec
=============================================================================
