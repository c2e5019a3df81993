------------------------------ MODULE DoneBench ------------------------------
(***************************************************************************)
(* What the benches have in common whose scoreboard waits for posedge      *)
(* done: ALU_tb, ALU_tb_separate_modules and chapters 10 to 13.  The ALU,  *)
(* the clock, the scoreboard, and the tester's first reset and the end of  *)
(* its rounds; what a round does is in ALU_tb and in SendOp.               *)
(*                                                                         *)
(* Time is a sequence of instants: the clock's edges and, one nanosecond   *)
(* after each, the "#1" of the scoreboard and of send_op.                  *)
(***************************************************************************)
EXTENDS ALU, ALU_pkg

CONSTANTS Operand,        \* the operands get_data returns
          Repeats         \* how many operations are issued: 1000

ASSUME BenchAssumption == Operand \subseteq Byte /\ Repeats \in Nat \ {0}

VARIABLES
  bench,                                   \* "ALU_tb", or "send_op": the others
  slot, todo,                              \* the instant, who still has to run
  A, B, op_set, start, rst_n,              \* what the tester assigns
  opcode,                                  \* op_set as it has reached the ALU
  pc,                                      \* where the tester waits
  left,                                    \* how often repeat still goes round
  scoreboard,                              \* waits for posedge done, or in its #1
  errors,                                  \* $error was called
  fate,                                    \* history: how the last operation ended
  compared                                 \* history: comparisons since op_set was assigned last

pinVars == <<A, B, op_set, start, rst_n>>
boardVars == <<scoreboard, errors, compared>>
testVars == <<pc, left, fate>>
vars == <<bench, slot, todo, pinVars, opcode, testVars, boardVars, aluVars>>

done == ALUdone(opcode)
result == ALUresult(A, B, opcode)
CompareBound == 2

\* The clock is high and low one nanosecond after its edges.
NextSlot == [posedge |-> "high", high |-> "negedge", negedge |-> "low", low |-> "posedge"]

\* The waits of the testers: the first reset, and those of a round; wait(done) ends at
\* no particular instant, and "call" is no wait.
EndsWait == [posedge |-> {"no_op", "rst fall", "rst hold", "nop hold"},
             high    |-> {"rst rise", "nop end"},
             negedge |-> {"reset 1", "reset 2", "next", "rst_op", "drive", "poll"},
             low     |-> {}]

\* Where a round begins.
RoundBegins == IF bench = "ALU_tb" THEN "next" ELSE "call"

BenchInit ==
  /\ slot = "low" /\ todo = {}             \* time 0
  /\ A = 0 /\ B = 0 /\ op_set = no_op /\ start = FALSE /\ rst_n = FALSE
  /\ opcode = no_op
  /\ pc = "reset 1" /\ left = Repeats
  /\ scoreboard = "armed" /\ errors = FALSE
  /\ fate = "none" /\ compared = 0
  /\ ALUInit
-----------------------------------------------------------------------------
(* The clock, the ALU and the scoreboard. *)

\* The wire has settled, and whoever waits for this instant or for done has run.
Settled ==
  /\ todo = {} /\ opcode = op_set
  /\ pc # "call" /\ ~(pc = "wait(done)" /\ done)
  /\ ~(slot \in {"high", "low"} /\ scoreboard = "#1")

NextInstant ==
  /\ Settled
  /\ slot' = NextSlot[slot]
  /\ todo' = (IF slot' = "posedge" THEN {"alu"} ELSE {})
               \cup (IF pc \in EndsWait[slot'] THEN {"tester"} ELSE {})
  /\ UNCHANGED <<pinVars, opcode, testVars, boardVars, aluVars>>

\* MUTANT of WakeScoreboard: an initial block, which compares once.
WakeScoreboard_Initial ==
  scoreboard' = IF ~done /\ done' /\ scoreboard = "armed" /\ left = Repeats
                THEN "#1" ELSE scoreboard

\* always @(posedge done): not while it is still in the #1 of the last one.
WakeScoreboard ==
  scoreboard' = IF ~done /\ done' /\ scoreboard = "armed" THEN "#1" ELSE scoreboard

\* What a block may sample of rst_n: any value at the edge at which send_op has pulled it
\* by a blocking assignment.
Sampled == IF pc = "rst hold" /\ "tester" \notin todo THEN BOOLEAN ELSE {rst_n}

\* The start that a no_op drops at this edge is sampled before or after; with that
\* opcode the ALU does not look at it.
ClockALU ==
  /\ "alu" \in todo
  /\ todo' = todo \ {"alu"}
  /\ \E r \in [AlwaysFF -> Sampled] : ALUPosedgeClk(A, B, start, opcode, r)
  /\ UNCHANGED <<slot, pinVars, opcode, testVars, errors, compared>>
  /\ WakeScoreboard

\* assign op = op_set
AssignOp ==
  /\ opcode # op_set
  /\ opcode' = op_set
  /\ UNCHANGED <<slot, todo, pinVars, testVars, errors, compared, aluVars>>
  /\ WakeScoreboard

\* That of chapter 10 has no "begin" and "end": there the question whether this is an
\* operation is only asked before $display.
Compare ==
  /\ slot \in {"high", "low"} /\ scoreboard = "#1"
  /\ scoreboard' = "armed"
  /\ errors' = (errors \/ /\ op_set \in RealOp
                          /\ predict_result([A |-> A, B |-> B, op |-> op_set]) # result)
  /\ compared' = IF compared < CompareBound THEN compared + 1 ELSE compared
  /\ UNCHANGED <<slot, todo, pinVars, opcode, testVars, aluVars>>
-----------------------------------------------------------------------------
(* The tester. *)

\* The next round of repeat, or $stop.
EndOperation(f) ==
  /\ fate' = f
  /\ left' = left - 1
  /\ pc' = IF left = 1 THEN "stopped" ELSE RoundBegins

TesterWakes(place) ==
  /\ "tester" \in todo /\ pc = place
  /\ todo' = todo \ {"tester"}
  /\ UNCHANGED <<slot, opcode, scoreboard, errors, aluVars>>

FirstReset ==
  /\ TesterWakes("reset 1")
  /\ pc' = "reset 2"
  /\ UNCHANGED <<pinVars, left, fate, compared>>

EndFirstReset ==
  /\ TesterWakes("reset 2")
  /\ pc' = RoundBegins
  /\ rst_n' = TRUE /\ start' = FALSE
  /\ UNCHANGED <<A, B, op_set, left, fate, compared>>

BenchNext == NextInstant \/ ClockALU \/ AssignOp \/ Compare \/ FirstReset \/ EndFirstReset
=============================================================================
