------------------------- MODULE MultiplierRequests -------------------------
(***************************************************************************)
(* The multiplier with a history variable: what its inputs were at the     *)
(* last four clock edges.  It relates an answer (done and result) to the   *)
(* request it answers.                                                     *)
(***************************************************************************)
EXTENDS Multiplier8b, Sequences

VARIABLE past             \* the inputs at the last edges, newest first

requestVars == <<mulVars, past>>

\* No request is in flight or being answered.
Idle == ~done3 /\ ~done2 /\ ~done1 /\ ~done

\* What is recorded of an edge.
Sample(a, b, start, opcode) ==
  [A |-> a, B |-> b, request |-> start /\ opcode = 4, idle |-> Idle]

Prefix(s, n) == SubSeq(s, 1, IF Len(s) < n THEN Len(s) ELSE n)

RequestInit == MulInit /\ past = <<>>

RequestNext ==
  \E a, b \in Operand, start \in BOOLEAN, opcode \in Opcode, rst_n \in BOOLEAN :
    /\ PosedgeClk(a, b, start, opcode, rst_n)
    /\ past' = IF rst_n THEN <<Sample(a, b, start, opcode)>> \o Prefix(past, 3)
                        ELSE <<>>

RequestSpec == RequestInit /\ [][RequestNext]_requestVars
-----------------------------------------------------------------------------
SameOperands(k, l) == past[k].A = past[l].A /\ past[k].B = past[l].B
Product(k) == past[k].A * past[k].B

\* done answers a request made four edges ago and, if the operands were held
\* for one edge more than the request, with their product: the data pipeline is
\* one stage shorter than the done pipeline (Multiplier8b.sv 82, 95-98).
AnswersAHeldRequest ==
  done => /\ Len(past) = 4
          /\ past[4].request
          /\ SameOperands(3, 4) => result = Product(4)

\* A request made of an idle multiplier and held with its operands, as the
\* testbenches do, is answered at its fourth edge with the product, and not
\* earlier; nothing of an earlier request spoils it (Multiplier8b.sv 95-98).
HeldRequestIsAnswered ==
  \A n \in 1..Len(past) :
    (past[n].idle /\ \A k \in 1..n : past[k].request /\ SameOperands(k, n))
      => /\ done <=> n = 4
         /\ done => result = Product(n)

\* "Asserted done when finish multiplying (4 cycles)" (Multiplier8b.sv 85), and
\* "the result will be available after 4 cycels" (Multiplier8b.sv 1), of any
\* accepted request, also one of a single cycle.
DoneWhenFinished == done => result = Product(4)
=============================================================================
