----------------------------- MODULE DoneBenches -----------------------------
(***************************************************************************)
(* The benches whose scoreboard waits for posedge done, around the ALU:    *)
(* the same questions asked of ALU_tb, which waits for done itself, and of *)
(* those that call send_op.                                                *)
(***************************************************************************)
EXTENDS ALU_tb, SendOp

Init == bench \in {"ALU_tb", "send_op"} /\ BenchInit

Next ==
  /\ pc # "stopped"
  /\ BenchNext \/ WaitNext \/ SendOpNext
  /\ UNCHANGED bench

\* The simulator takes the next step until $stop.
Spec == Init /\ [][Next]_vars /\ WF_vars(Next)
-----------------------------------------------------------------------------
(* What is checked. *)

\* Every signal has its type, and repeat counts down to $stop.
TypeOK ==
  /\ bench \in {"ALU_tb", "send_op"}
  /\ slot \in DOMAIN NextSlot /\ todo \subseteq {"alu", "tester"}
  /\ A \in Operand \cup {0} /\ B \in Operand \cup {0}
  /\ op_set \in operation_t /\ opcode \in operation_t
  /\ start \in BOOLEAN /\ rst_n \in BOOLEAN
  /\ pc \in {"wait(done)", "call", "stopped"} \cup UNION {EndsWait[s] : s \in DOMAIN EndsWait}
  /\ left \in 0..Repeats /\ (left = 0 <=> pc = "stopped")
  /\ scoreboard \in {"armed", "#1"} /\ errors \in BOOLEAN
  /\ fate \in {"none", "skipped", "answered"} /\ compared \in 0..CompareBound
  /\ ALUTypeOK

\* The comparison, one nanosecond after done rose, finds the operands and the operation
\* that done is of: no false error (ALU_tb.sv 147-160).  It never meets a no_op or a
\* reset, although the scoreboard of chapter 10 would compare those, too, with the
\* prediction of an operation long over.
NoFalseError == ~errors /\ (scoreboard = "#1" => op_set \in RealOp)

\* The answer that ends a wait is compared: that of wait(done) by the scoreboard it has
\* woken, not still busy with the last one (ALU_tb.sv 147, 189), that of send_op before
\* send_op returns, once.
EveryAnswerIsCompared ==
  [][ (pc \in {"wait(done)", "poll"} /\ pc' # pc)
        => IF bench = "ALU_tb" THEN scoreboard = "#1" ELSE compared = 1 ]_vars

\* ALU_tb loses operations to a done that is still up, but never two in a row: the edge
\* between them has start low (ALU_tb.sv 189-190).
NeverTwoSkipped ==
  [][fate = "skipped" /\ left' # left => fate' # "skipped"]_vars

\* done rises only at the clock, never because the opcode switches the multiplexer
\* (ALU.sv 39, ALU_tb.sv 173), even when it switches while done is up.
DoneRisesAtTheClock == [][~done /\ done' => slot = "posedge"]_vars

\* send_op returns the result of its operation, although it has switched the opcode while
\* the last one was still being answered (Ch.10 ALU_BFM.sv 38-64).
SendOpReturnsItsResult ==
  [][ (pc = "poll" /\ pc' # pc)
        => result = predict_result([A |-> A, B |-> B, op |-> op_set]) ]_vars

\* The benches come to their $stop: no wait is endless (ALU_tb.sv 171-194).
TesterStops == <>(pc = "stopped")
=============================================================================
