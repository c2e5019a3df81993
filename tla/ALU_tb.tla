------------------------------- MODULE ALU_tb -------------------------------
(***************************************************************************)
(* The rounds of ALU_tb, an initial block that issues random operations.   *)
(*                                                                         *)
(* It waits for done with the level-sensitive wait(done).  It comes back   *)
(* at the clock edge that raises done and issues the next operation half a *)
(* period later, while done is still up: that operation's wait is over at  *)
(* once, start is low again before any clock edge, and the ALU never sees  *)
(* it.                                                                     *)
(***************************************************************************)
EXTENDS DoneBench

IssueNoOp ==
  /\ op_set' = no_op /\ start' = TRUE
  /\ pc' = "no_op"
  /\ UNCHANGED <<rst_n, left, fate>>

IssueReset ==
  /\ op_set' = rst_op /\ start' = FALSE /\ rst_n' = FALSE
  /\ pc' = "rst_op"
  /\ UNCHANGED <<left, fate>>

\* wait(done) looks at done as it is before the new opcode has reached the ALU, or
\* as it is after.
IssueReal(op) ==
  /\ op_set' = op
  /\ UNCHANGED rst_n
  /\ \E seen \in {done, ALUdone(op)} :
       IF seen
       THEN start' = FALSE /\ EndOperation("skipped")
       ELSE start' = TRUE /\ pc' = "wait(done)" /\ UNCHANGED <<left, fate>>

Issue ==
  /\ TesterWakes("next")
  /\ A' \in Operand /\ B' \in Operand /\ compared' = 0
  /\ \/ IssueNoOp
     \/ IssueReset
     \/ \E op \in RealOp : IssueReal(op)

EndNoOp ==
  /\ TesterWakes("no_op")
  /\ start' = FALSE
  /\ EndOperation("none")
  /\ UNCHANGED <<A, B, op_set, rst_n, compared>>

EndReset ==
  /\ TesterWakes("rst_op")
  /\ rst_n' = TRUE
  /\ EndOperation("none")
  /\ UNCHANGED <<A, B, op_set, start, compared>>

\* wait(done) is over.
EndWait ==
  /\ pc = "wait(done)" /\ opcode = op_set /\ done
  /\ start' = FALSE
  /\ EndOperation("answered")
  /\ UNCHANGED <<slot, todo, A, B, op_set, rst_n, opcode, boardVars, aluVars>>

WaitNext == Issue \/ EndNoOp \/ EndReset \/ EndWait
=============================================================================
