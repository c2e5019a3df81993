------------------------------- MODULE SendOp -------------------------------
(***************************************************************************)
(* The rounds of ALU_tb_separate_modules and of chapters 10 to 13: the     *)
(* tester calls send_op of their interface, a task that assigns op_set at  *)
(* once and the other pins at the next clock edges.  A call begins at the  *)
(* instant at which the last one returned, so the opcode changes while the *)
(* done of the last operation is still up.                                 *)
(***************************************************************************)
EXTENDS DoneBench

\* send_op is called.
Call(op) ==
  /\ pc = "call" /\ opcode = op_set
  /\ op_set' = op /\ compared' = 0
  /\ pc' = IF op = rst_op THEN "rst fall" ELSE "drive"
  /\ UNCHANGED <<slot, todo, A, B, start, rst_n, opcode, left, fate, scoreboard, errors, aluVars>>

PullReset ==
  /\ TesterWakes("rst fall")
  /\ rst_n' = FALSE /\ start' = FALSE
  /\ pc' = "rst hold"
  /\ UNCHANGED <<A, B, op_set, left, fate, compared>>

\* An @(posedge clk) that is only followed by "#1".
AwaitEdge ==
  /\ \/ TesterWakes("rst hold") /\ pc' = "rst rise"
     \/ TesterWakes("nop hold") /\ pc' = "nop end"
  /\ UNCHANGED <<pinVars, left, fate, compared>>

ReleaseReset ==
  /\ TesterWakes("rst rise")
  /\ rst_n' = TRUE
  /\ EndOperation("none")
  /\ UNCHANGED <<A, B, op_set, start, compared>>

DriveOp ==
  /\ TesterWakes("drive")
  /\ A' \in Operand /\ B' \in Operand
  /\ start' = TRUE
  /\ pc' = IF op_set = no_op THEN "nop hold" ELSE "poll"
  /\ UNCHANGED <<op_set, rst_n, left, fate, compared>>

FinishNoOp ==
  /\ TesterWakes("nop end")
  /\ start' = FALSE
  /\ EndOperation("none")
  /\ UNCHANGED <<A, B, op_set, rst_n, compared>>

\* MUTANT of PollDone: while(done == 0) is left out.
PollDone_Once ==
  /\ TesterWakes("poll")
  /\ start' = FALSE /\ EndOperation("answered")
  /\ UNCHANGED <<A, B, op_set, rst_n, compared>>

PollDone ==
  /\ TesterWakes("poll")
  /\ IF done THEN start' = FALSE /\ EndOperation("answered")
             ELSE UNCHANGED <<start, testVars>>
  /\ UNCHANGED <<A, B, op_set, rst_n, compared>>

SendOpNext ==
  \/ \E op \in operation_t : Call(op)
  \/ PullReset \/ AwaitEdge \/ ReleaseReset
  \/ DriveOp \/ FinishNoOp \/ PollDone
=============================================================================
