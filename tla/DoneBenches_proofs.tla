-------------------------- MODULE DoneBenches_proofs --------------------------
(***************************************************************************)
(* Theorems about the benches whose scoreboard waits for posedge done, for *)
(* every set of byte operands and any number of operations.                *)
(***************************************************************************)
EXTENDS DoneBenches, ALU_proofs

-----------------------------------------------------------------------------
(* The inductive invariant. *)

\* The testers wait for an answer here.
Awaiting == pc \in {"wait(done)", "poll"}

\* Each bench has its places; only who waits for an instant runs at it; the wire has
\* settled before the clock rises.
Schedule ==
  /\ bench = "ALU_tb" => pc \notin {"call", "rst fall", "rst hold", "rst rise",
                                    "nop hold", "nop end", "drive", "poll"}
  /\ bench = "send_op" => pc \notin {"next", "no_op", "rst_op", "wait(done)"}
  /\ "tester" \in todo => pc \in EndsWait[slot] /\ opcode = op_set
  /\ "alu" \in todo => slot = "posedge"
  /\ slot \in {"posedge", "low"} => opcode = op_set /\ pc # "call"

\* start is high only for a no_op and while an answer is awaited, and no reset is under
\* way then; send_op's comparisons are counted from the call.
Pins ==
  /\ pc \notin {"reset 1", "reset 2", "rst_op", "rst hold", "rst rise", "stopped"} => rst_n
  /\ start <=> Awaiting \/ pc \in {"no_op", "nop hold", "nop end"}
  /\ Awaiting => op_set \in RealOp
  /\ pc \in {"no_op", "nop hold", "nop end"} => op_set = no_op
  /\ pc = "drive" => op_set # rst_op /\ compared = 0

\* Between operations.
Quiet == NoFlagUp /\ ~Awaiting /\ scoreboard = "armed"

\* The half period before an edge.
BeforeEdge ==
  \/ slot = "negedge" /\ "tester" \notin todo
  \/ slot = "low"
  \/ slot = "posedge" /\ "alu" \in todo

\* ALU_tb has issued an operation; of a single-cycle operation before it the flag may
\* still be up, but does not count as done of a product.
Issued ==
  /\ pc = "wait(done)" /\ BeforeEdge
  /\ ~MulFlagUp
  /\ op_set # mul_op => ~single_cycle_done
  /\ opcode # op_set => done \/ NoFlagUp
  /\ scoreboard = "armed"

\* The ALU works on the operation; done wakes the scoreboard at the edge and, before
\* the next one, the tester.
Working ==
  /\ Awaiting /\ opcode = op_set
  /\ op_set # mul_op => ~MulFlagUp
  /\ op_set = mul_op => ProductAhead(A, B)
  /\ multi_cycle_done => single_cycle_done
  /\ IF done
     THEN \/ /\ slot = "posedge" /\ "alu" \notin todo
             /\ scoreboard = "#1" /\ (pc = "poll" => compared = 0)
          \/ /\ slot = "high" /\ pc = "poll"
             /\ compared = (IF scoreboard = "#1" THEN 0 ELSE 1)
          \/ /\ slot = "negedge" /\ "tester" \in todo /\ pc = "poll"
             /\ scoreboard = "armed" /\ compared = 1
     ELSE scoreboard = "armed" /\ (pc = "poll" => compared = 0)

\* The flags are those of an operation that is over, and fall at the next edge.
Spent == single_cycle_done /\ (multi_cycle_done \/ ~MulFlagUp)

\* The tester has seen done and has not begun its next round.
Answered ==
  /\ Spent /\ done /\ opcode = op_set /\ op_set \in RealOp
  /\ result = predict_result([A |-> A, B |-> B, op |-> op_set])
  /\ \/ pc = "next" /\ fate = "answered" /\ slot = "posedge" /\ "alu" \notin todo
     \/ pc = "next" /\ fate = "answered" /\ slot = "high"
     \/ /\ pc = "next" /\ fate = "answered" /\ slot = "negedge" /\ "tester" \in todo
        /\ scoreboard = "armed"
     \/ pc = "call" /\ slot = "negedge" /\ scoreboard = "armed"

\* The next round has begun.  The opcode may have changed, and with it done, which is
\* not high again once it has gone.
Fading ==
  /\ Spent /\ BeforeEdge
  /\ opcode # op_set => done
  /\ scoreboard = "armed"
  /\ \/ pc \in {"next", "no_op", "rst_op", "drive", "rst fall"}
     \/ pc = "rst hold" /\ slot = "posedge" /\ "tester" \notin todo

Stopped == pc = "stopped" /\ (scoreboard = "#1" => op_set \in RealOp)

\* An operation goes through Issued (ALU_tb only), Working, Answered and Fading, and
\* the flags and the scoreboard fit the phase (ALU_tb.sv 147-194, Ch.10 ALU_BFM.sv
\* 38-64, ALU.sv 20-39).
DoneInv ==
  /\ TypeOK
  /\ Schedule /\ Pins /\ ~errors
  /\ Quiet \/ Issued \/ Working \/ Answered \/ Fading \/ Stopped

-----------------------------------------------------------------------------
(* Where the testers wait. *)

Place == {"wait(done)", "call", "stopped"} \cup UNION {EndsWait[s] : s \in DOMAIN EndsWait}

LEMMA Waits ==
  /\ {"no_op", "rst fall", "rst hold", "nop hold"} \subseteq Place
  /\ {"rst rise", "nop end"} \subseteq Place
  /\ {"reset 1", "reset 2", "next", "rst_op", "drive", "poll"} \subseteq Place
  /\ {"wait(done)", "call", "stopped"} \subseteq Place
<1>1. /\ EndsWait["posedge"] = {"no_op", "rst fall", "rst hold", "nop hold"}
      /\ EndsWait["high"] = {"rst rise", "nop end"}
      /\ EndsWait["negedge"] = {"reset 1", "reset 2", "next", "rst_op", "drive", "poll"}
      /\ {"posedge", "high", "negedge"} \subseteq DOMAIN EndsWait
  BY DEF EndsWait
<1>2. \A s \in DOMAIN EndsWait : EndsWait[s] \subseteq Place
  BY DEF Place
<1>3. {"wait(done)", "call", "stopped"} \subseteq Place
  BY DEF Place
<1> QED
  BY <1>1, <1>2, <1>3

LEMMA SomePlaces == "stopped" \in Place /\ "reset 1" \in Place
<1>1. "stopped" \in {"wait(done)", "call", "stopped"}
  OBVIOUS
<1>2. "reset 1" \in {"reset 1", "reset 2", "next", "rst_op", "drive", "poll"}
  OBVIOUS
<1> QED
  BY <1>1, <1>2, Waits

LEMMA RoundIsPlace == RoundBegins \in Place /\ RoundBegins \in {"next", "call"}
<1>1. RoundBegins \in {"next", "call"}
  BY DEF RoundBegins
<1> QED
  BY <1>1, Waits

LEMMA RepeatsType == Repeats \in Nat /\ Repeats # 0 /\ Repeats \in 0..Repeats
<1>1. Repeats \in Nat /\ Repeats # 0
  BY BenchAssumption
<1>2. \A n \in Nat : n \in 0..n
  OBVIOUS
<1> QED
  BY <1>1, <1>2

\* What is on the pins are bytes.
LEMMA PinsAreBytes == TypeOK => A \in Byte /\ B \in Byte
<1>1. 0 \in Byte
  BY DEF Byte
<1> QED
  BY <1>1, BenchAssumption DEF TypeOK

\* The type invariant in parts, by who changes them.
ClockTypes == slot \in DOMAIN NextSlot /\ todo \subseteq {"alu", "tester"}
PinTypes ==
  /\ A \in Operand \cup {0} /\ B \in Operand \cup {0}
  /\ op_set \in operation_t /\ start \in BOOLEAN /\ rst_n \in BOOLEAN
TestTypes ==
  /\ pc \in Place /\ left \in 0..Repeats /\ (left = 0 <=> pc = "stopped")
  /\ fate \in {"none", "skipped", "answered"}
BoardTypes ==
  scoreboard \in {"armed", "#1"} /\ errors \in BOOLEAN /\ compared \in 0..CompareBound

LEMMA TypeParts ==
  TypeOK <=> /\ bench \in {"ALU_tb", "send_op"} /\ opcode \in operation_t
             /\ ClockTypes /\ PinTypes /\ TestTypes /\ BoardTypes /\ ALUTypeOK
BY DEF TypeOK, ClockTypes, PinTypes, TestTypes, BoardTypes, Place

LEMMA SameALU == UNCHANGED aluVars => ALUTypeOK' = ALUTypeOK
BY DEF aluVars, ALUTypeOK, iMul!MulTypeOK

\* The end of a round counts down, and comes to $stop at zero.
LEMMA EndOperationTypes ==
  ASSUME TestTypes, left # 0, NEW f \in {"none", "skipped", "answered"}, EndOperation(f)
  PROVE  TestTypes'
<1>1. left \in Nat /\ Repeats \in Nat
  BY BenchAssumption DEF TestTypes
<1>2. left' = left - 1 /\ left' \in 0..Repeats /\ fate' = f
  BY <1>1 DEF EndOperation, TestTypes
<1>3. CASE left = 1
  <2>1. left' = 0 /\ pc' = "stopped" /\ pc' \in Place
    <3>1. pc' = "stopped" /\ left' = left - 1
      BY <1>3 DEF EndOperation
    <3>2. left' = 0
      BY <1>3, <3>1
    <3> QED
      BY <3>1, <3>2, SomePlaces
  <2> QED
    BY <1>2, <2>1 DEF TestTypes
<1>4. CASE left # 1
  <2>1. pc' = RoundBegins
    BY <1>4 DEF EndOperation
  <2> QED
    BY <1>1, <1>2, <1>4, <2>1, RoundIsPlace DEF TestTypes
<1> QED
  BY <1>3, <1>4

\* Another wait in the same round.
LEMMA NextWaitTypes ==
  ASSUME TestTypes, left # 0, left' = left, fate' = fate, pc' \in Place, pc' # "stopped"
  PROVE  TestTypes'
BY DEF TestTypes

\* A step of the tester that is no more than a step of the tester.
LEMMA TesterTypes ==
  ASSUME TypeOK, NEW place, TesterWakes(place), bench' = bench,
         PinTypes', TestTypes', compared' \in {compared, 0}
  PROVE  TypeOK'
<1>1. ClockTypes' /\ opcode' \in operation_t /\ bench' \in {"ALU_tb", "send_op"}
  BY TypeParts DEF TesterWakes, ClockTypes
<1>2. BoardTypes'
  <2>1. compared' \in 0..CompareBound
    BY TypeParts DEF BoardTypes, CompareBound
  <2> QED
    BY <2>1, TypeParts DEF BoardTypes, TesterWakes
<1>3. ALUTypeOK'
  BY TypeParts, SameALU DEF TesterWakes
<1>4. /\ bench' \in {"ALU_tb", "send_op"} /\ opcode' \in operation_t
      /\ ClockTypes' /\ PinTypes' /\ TestTypes' /\ BoardTypes' /\ ALUTypeOK'
  BY <1>1, <1>2, <1>3
<1> QED
  BY <1>4 DEF TypeOK, ClockTypes, PinTypes, TestTypes, BoardTypes, Place
-----------------------------------------------------------------------------
(* The steps. *)

LEMMA BenchTypesInit == Init => TypeOK
<1> SUFFICES ASSUME Init PROVE TypeOK
  OBVIOUS
<1>1. ALUTypeOK
  BY ALUTypeInit DEF Init, BenchInit
<1>2. ClockTypes
  BY DEF Init, BenchInit, ClockTypes, NextSlot
<1>3. PinTypes /\ opcode \in operation_t
  BY DEF Init, BenchInit, PinTypes, operation_t
<1>4. TestTypes
  <2>1. Repeats \in Nat /\ Repeats # 0 /\ left = Repeats /\ pc = "reset 1" /\ fate = "none"
    BY BenchAssumption DEF Init, BenchInit
  <2> QED
    BY <2>1, RepeatsType, SomePlaces DEF TestTypes
<1>5. BoardTypes
  <2>1. errors \in BOOLEAN /\ scoreboard \in {"armed", "#1"}
    BY DEF Init, BenchInit
  <2>2. compared \in 0..CompareBound
    <3>1. compared = 0
      BY DEF Init, BenchInit
    <3>2. 0 \in 0..CompareBound
      BY DEF CompareBound
    <3> QED
      BY <3>1, <3>2
  <2> QED
    BY <2>1, <2>2 DEF BoardTypes
<1> QED
  BY <1>1, <1>2, <1>3, <1>4, <1>5, TypeParts DEF Init

\* The clock, the ALU and the scoreboard.
LEMMA ClockStepTypes ==
  ASSUME TypeOK, bench' = bench, NextInstant \/ ClockALU \/ AssignOp \/ Compare
  PROVE  TypeOK'
<1> USE TypeParts
<1> DEFINE Kept == /\ bench' \in {"ALU_tb", "send_op"} /\ opcode' \in operation_t
                   /\ ClockTypes' /\ PinTypes' /\ TestTypes' /\ BoardTypes' /\ ALUTypeOK'
<1>0. Kept => TypeOK'
  BY DEF TypeOK, ClockTypes, PinTypes, TestTypes, BoardTypes, Place
<1>1. CASE NextInstant
  <2>1. ClockTypes'
    <3>1. slot' \in DOMAIN NextSlot
      BY <1>1 DEF NextInstant, ClockTypes, NextSlot
    <3> QED
      BY <1>1, <3>1 DEF NextInstant, ClockTypes
  <2>2. PinTypes' /\ TestTypes' /\ BoardTypes' /\ opcode' = opcode
    BY <1>1 DEF NextInstant, PinTypes, TestTypes, BoardTypes, pinVars, testVars, boardVars
  <2>3. ALUTypeOK'
    BY <1>1, SameALU DEF NextInstant
  <2> QED
    BY <1>0, <2>1, <2>2, <2>3
<1>2. CASE ClockALU
  <2>1. ALUTypeOK'
    <3>1. PICK r \in [AlwaysFF -> Sampled] : ALUPosedgeClk(A, B, start, opcode, r)
      BY <1>2 DEF ClockALU
    <3>2. Sampled \subseteq BOOLEAN
      BY DEF Sampled, PinTypes
    <3>3. r \in [AlwaysFF -> BOOLEAN]
      BY <3>2
    <3> QED
      BY <3>1, <3>3, PinsAreBytes, ALUTypeStep DEF PinTypes
  <2>2. ClockTypes' /\ PinTypes' /\ TestTypes' /\ opcode' = opcode
    BY <1>2 DEF ClockALU, ClockTypes, PinTypes, TestTypes, pinVars, testVars
  <2>3. BoardTypes'
    BY <1>2 DEF ClockALU, WakeScoreboard, BoardTypes
  <2> QED
    BY <1>0, <2>1, <2>2, <2>3
<1>3. CASE AssignOp
  <2>1. ClockTypes' /\ PinTypes' /\ TestTypes' /\ opcode' \in operation_t
    BY <1>3 DEF AssignOp, ClockTypes, PinTypes, TestTypes, pinVars, testVars
  <2>2. BoardTypes'
    BY <1>3 DEF AssignOp, WakeScoreboard, BoardTypes
  <2>3. ALUTypeOK'
    BY <1>3, SameALU DEF AssignOp
  <2> QED
    BY <1>0, <2>1, <2>2, <2>3
<1>4. CASE Compare
  <2>1. ClockTypes' /\ PinTypes' /\ TestTypes' /\ opcode' = opcode
    BY <1>4 DEF Compare, ClockTypes, PinTypes, TestTypes, pinVars, testVars
  <2>2. BoardTypes'
    <3>1. compared' \in 0..CompareBound
      BY <1>4 DEF Compare, BoardTypes, CompareBound
    <3>2. errors' \in BOOLEAN
      BY <1>4 DEF Compare, BoardTypes
    <3> QED
      BY <1>4, <3>1, <3>2 DEF Compare, BoardTypes
  <2>3. ALUTypeOK'
    BY <1>4, SameALU DEF Compare
  <2> QED
    BY <1>0, <2>1, <2>2, <2>3
<1> QED
  BY <1>1, <1>2, <1>3, <1>4

\* The first reset, which all testers begin with.
LEMMA FirstResetTypes ==
  ASSUME TypeOK, bench' = bench, pc # "stopped", FirstReset \/ EndFirstReset
  PROVE  TypeOK'
<1>1. PinTypes /\ TestTypes /\ left # 0
  BY TypeParts DEF TestTypes
<1>2. CASE FirstReset
  <2>1. PinTypes'
    BY <1>1, <1>2 DEF FirstReset, pinVars, PinTypes
  <2>2. TestTypes'
    <3>1. pc' \in Place /\ pc' # "stopped"
      BY <1>2, Waits DEF FirstReset
    <3> QED
      BY <1>1, <1>2, <3>1, NextWaitTypes DEF FirstReset
  <2> QED
    BY <1>2, <2>1, <2>2, TesterTypes DEF FirstReset
<1>3. CASE EndFirstReset
  <2>1. PinTypes'
    BY <1>1, <1>3 DEF EndFirstReset, PinTypes
  <2>2. TestTypes'
    BY <1>1, <1>3, RoundIsPlace, NextWaitTypes DEF EndFirstReset
  <2> QED
    BY <1>3, <2>1, <2>2, TesterTypes DEF EndFirstReset
<1> QED
  BY <1>2, <1>3

\* The rounds of ALU_tb.
LEMMA WaitStepTypes ==
  ASSUME TypeOK, bench' = bench, pc # "stopped", WaitNext
  PROVE  TypeOK'
<1>1. PinTypes /\ TestTypes /\ left # 0
  BY TypeParts DEF TestTypes
<1>2. CASE Issue
  <2>1. A' \in Operand \cup {0} /\ B' \in Operand \cup {0} /\ compared' \in {compared, 0}
    BY <1>2 DEF Issue
  <2>2. CASE IssueNoOp
    <3>1. PinTypes'
      BY <1>1, <2>1, <2>2 DEF IssueNoOp, PinTypes, operation_t
    <3>2. TestTypes'
      <4>1. pc' \in Place /\ pc' # "stopped"
        BY <2>2, Waits DEF IssueNoOp
      <4> QED
        BY <1>1, <2>2, <4>1, NextWaitTypes DEF IssueNoOp
    <3> QED
      BY <1>2, <2>1, <3>1, <3>2, TesterTypes DEF Issue
  <2>3. CASE IssueReset
    <3>1. PinTypes'
      BY <1>1, <2>1, <2>3 DEF IssueReset, PinTypes, operation_t
    <3>2. TestTypes'
      <4>1. pc' \in Place /\ pc' # "stopped"
        BY <2>3, Waits DEF IssueReset
      <4> QED
        BY <1>1, <2>3, <4>1, NextWaitTypes DEF IssueReset
    <3> QED
      BY <1>2, <2>1, <3>1, <3>2, TesterTypes DEF Issue
  <2>4. ASSUME NEW op \in RealOp, IssueReal(op) PROVE TypeOK'
    <3>1. PICK seen \in {done, ALUdone(op)} :
            IF seen THEN start' = FALSE /\ EndOperation("skipped")
                    ELSE start' = TRUE /\ pc' = "wait(done)" /\ UNCHANGED <<left, fate>>
      BY <2>4 DEF IssueReal
    <3>2. PinTypes'
      <4>1. op \in operation_t
        BY DEF RealOp, operation_t
      <4> QED
        BY <1>1, <2>1, <2>4, <3>1, <4>1 DEF IssueReal, PinTypes
    <3>3. TestTypes'
      <4>1. CASE EndOperation("skipped")
        BY <1>1, <4>1, EndOperationTypes
      <4>2. CASE pc' = "wait(done)" /\ UNCHANGED <<left, fate>>
        BY <1>1, <4>2, Waits, NextWaitTypes
      <4> QED
        BY <3>1, <4>1, <4>2
    <3> QED
      BY <1>2, <2>1, <3>2, <3>3, TesterTypes DEF Issue
  <2> QED
    BY <1>2, <2>2, <2>3, <2>4 DEF Issue
<1>3. CASE EndNoOp
  <2>1. PinTypes' /\ TestTypes'
    BY <1>1, <1>3, EndOperationTypes DEF EndNoOp, PinTypes
  <2> QED
    BY <1>3, <2>1, TesterTypes DEF EndNoOp
<1>4. CASE EndReset
  <2>1. PinTypes' /\ TestTypes'
    BY <1>1, <1>4, EndOperationTypes DEF EndReset, PinTypes
  <2> QED
    BY <1>4, <2>1, TesterTypes DEF EndReset
<1>5. CASE EndWait
  <2>1. PinTypes' /\ TestTypes'
    BY <1>1, <1>5, EndOperationTypes DEF EndWait, PinTypes
  <2>2. ClockTypes' /\ BoardTypes' /\ opcode' = opcode /\ ALUTypeOK'
    BY <1>5, TypeParts, SameALU DEF EndWait, ClockTypes, BoardTypes, boardVars
  <2>3. bench' \in {"ALU_tb", "send_op"} /\ opcode' \in operation_t
    BY <2>2, TypeParts
  <2> QED
    BY <2>1, <2>2, <2>3
       DEF TypeOK, ClockTypes, PinTypes, TestTypes, BoardTypes, Place
<1> QED
  BY <1>2, <1>3, <1>4, <1>5 DEF WaitNext

\* send_op.
LEMMA SendOpStepTypes ==
  ASSUME TypeOK, bench' = bench, pc # "stopped", SendOpNext
  PROVE  TypeOK'
<1>1. PinTypes /\ TestTypes /\ left # 0
  BY TypeParts DEF TestTypes
<1>2. ASSUME NEW op \in operation_t, Call(op) PROVE TypeOK'
  <2>1. PinTypes' /\ ClockTypes' /\ opcode' \in operation_t /\ bench' \in {"ALU_tb", "send_op"}
    BY <1>1, <1>2, TypeParts DEF Call, PinTypes, ClockTypes
  <2>2. TestTypes'
    <3>1. pc' \in Place /\ pc' # "stopped" /\ left' = left /\ fate' = fate
      BY <1>2, Waits DEF Call
    <3> QED
      BY <1>1, <3>1, NextWaitTypes
  <2>3. BoardTypes'
    <3>1. compared' \in 0..CompareBound
      <4>1. compared' = 0
        BY <1>2 DEF Call
      <4>2. 0 \in 0..CompareBound
        BY DEF CompareBound
      <4> QED
        BY <4>1, <4>2
    <3> QED
      BY <1>2, <3>1, TypeParts DEF Call, BoardTypes
  <2>4. ALUTypeOK'
    BY <1>2, SameALU, TypeParts DEF Call
  <2> QED
    BY <2>1, <2>2, <2>3, <2>4
       DEF TypeOK, ClockTypes, PinTypes, TestTypes, BoardTypes, Place
<1>3. CASE PullReset
  <2>1. PinTypes'
    BY <1>1, <1>3 DEF PullReset, PinTypes
  <2>2. TestTypes'
    BY <1>1, <1>3, Waits, NextWaitTypes DEF PullReset
  <2> QED
    BY <1>3, <2>1, <2>2, TesterTypes DEF PullReset
<1>4. CASE AwaitEdge
  <2>1. PinTypes'
    BY <1>1, <1>4 DEF AwaitEdge, PinTypes, pinVars
  <2>2. TestTypes'
    BY <1>1, <1>4, Waits, NextWaitTypes DEF AwaitEdge
  <2> QED
    BY <1>4, <2>1, <2>2, TesterTypes DEF AwaitEdge
<1>5. CASE ReleaseReset
  <2>1. PinTypes' /\ TestTypes'
    BY <1>1, <1>5, EndOperationTypes DEF ReleaseReset, PinTypes
  <2> QED
    BY <1>5, <2>1, TesterTypes DEF ReleaseReset
<1>6. CASE DriveOp
  <2>1. PinTypes'
    BY <1>1, <1>6 DEF DriveOp, PinTypes
  <2>2. TestTypes'
    BY <1>1, <1>6, Waits, NextWaitTypes DEF DriveOp
  <2> QED
    BY <1>6, <2>1, <2>2, TesterTypes DEF DriveOp
<1>7. CASE FinishNoOp
  <2>1. PinTypes' /\ TestTypes'
    BY <1>1, <1>7, EndOperationTypes DEF FinishNoOp, PinTypes
  <2> QED
    BY <1>7, <2>1, TesterTypes DEF FinishNoOp
<1>8. CASE PollDone
  <2>1. CASE done
    <3>1. PinTypes' /\ TestTypes'
      BY <1>1, <1>8, <2>1, EndOperationTypes DEF PollDone, PinTypes
    <3> QED
      BY <1>8, <3>1, TesterTypes DEF PollDone
  <2>2. CASE ~done
    <3>1. PinTypes' /\ TestTypes'
      BY <1>1, <1>8, <2>2 DEF PollDone, PinTypes, TestTypes, testVars
    <3> QED
      BY <1>8, <3>1, TesterTypes DEF PollDone
  <2> QED
    BY <2>1, <2>2
<1> QED
  BY <1>2, <1>3, <1>4, <1>5, <1>6, <1>7, <1>8 DEF SendOpNext

LEMMA TypesStep == TypeOK /\ [Next]_vars => TypeOK'
<1> SUFFICES ASSUME TypeOK, [Next]_vars PROVE TypeOK'
  OBVIOUS
<1>1. CASE Next
  <2>1. bench' = bench /\ pc # "stopped"
    BY <1>1 DEF Next
  <2>2. CASE BenchNext
    BY <2>1, <2>2, ClockStepTypes, FirstResetTypes DEF BenchNext
  <2> QED
    BY <1>1, <2>1, <2>2, WaitStepTypes, SendOpStepTypes DEF Next
<1>2. CASE UNCHANGED vars
  <2>1. ALUTypeOK'
    BY <1>2, SameALU, TypeParts DEF vars
  <2> QED
    BY <1>2, <2>1 DEF vars, TypeOK, pinVars, testVars, boardVars
<1> QED
  BY <1>1, <1>2

\* Every signal, register and process of these benches keeps its type, for all byte
\* operands and any number of rounds; left counts down to $stop (ALU_tb.sv 171-194).
THEOREM BenchesTypes == Spec => []TypeOK
<1> QED
  BY TypesStep, BenchTypesInit, PTL DEF Spec
-----------------------------------------------------------------------------
(* The phases of an operation: what each action does to them. *)

Phase == Quiet \/ Issued \/ Working \/ Answered \/ Fading \/ Stopped
Rest == Schedule /\ Pins /\ ~errors /\ Phase

\* The types the proofs below use.
LEMMA InvTypes ==
  ASSUME DoneInv
  PROVE  /\ slot \in {"posedge", "high", "negedge", "low"}
         /\ todo \subseteq {"alu", "tester"}
         /\ start \in BOOLEAN /\ rst_n \in BOOLEAN
         /\ scoreboard \in {"armed", "#1"} /\ errors = FALSE
         /\ bench \in {"ALU_tb", "send_op"}
         /\ op_set \in operation_t
         /\ A \in Byte /\ B \in Byte
<1>1. TypeOK /\ ~errors
  BY DEF DoneInv
<1>2. A \in Byte /\ B \in Byte
  BY <1>1, PinsAreBytes
<1>3. slot \in {"posedge", "high", "negedge", "low"} /\ todo \subseteq {"alu", "tester"}
  BY <1>1 DEF TypeOK, NextSlot
<1> QED
  BY <1>1, <1>2, <1>3 DEF TypeOK

\* The tester runs at the instant that ends its wait.
LEMMA TestersInstant ==
  ASSUME DoneInv, "tester" \in todo
  PROVE  /\ slot = "posedge" => pc \in {"no_op", "rst fall", "rst hold", "nop hold"}
         /\ slot = "high" => pc \in {"rst rise", "nop end"}
         /\ slot = "negedge" => pc \in {"reset 1", "reset 2", "next", "rst_op", "drive", "poll"}
         /\ slot # "low"
         /\ opcode = op_set
<1>1. pc \in EndsWait[slot] /\ opcode = op_set
  BY DEF DoneInv, Schedule
<1>2. slot = "posedge" => EndsWait[slot] = {"no_op", "rst fall", "rst hold", "nop hold"}
  BY DEF EndsWait
<1>3. slot = "high" => EndsWait[slot] = {"rst rise", "nop end"}
  BY DEF EndsWait
<1>4. slot = "negedge" =>
        EndsWait[slot] = {"reset 1", "reset 2", "next", "rst_op", "drive", "poll"}
  BY DEF EndsWait
<1>5. slot = "low" => EndsWait[slot] = {}
  BY DEF EndsWait
<1> QED
  BY <1>1, <1>2, <1>3, <1>4, <1>5

\* What the ALU shows depends on the opcode and the registers, its result on the
\* operands, too.
LEMMA SameView ==
  ASSUME UNCHANGED aluVars
  PROVE  /\ UNCHANGED <<done3, done2, done1, multi_cycle_done, single_cycle_done>>
         /\ MulFlagUp' = MulFlagUp /\ NoFlagUp' = NoFlagUp /\ Spent' = Spent
         /\ opcode' = opcode => done' = done
         /\ UNCHANGED <<A, B>> => ProductAhead(A, B)' = ProductAhead(A, B)
         /\ UNCHANGED <<A, B, opcode>> => result' = result
<1>1. UNCHANGED <<mul_A, sum_reg_pair, sum_reg_quad, done3, done2, done1,
                  multi_cycle_done, single_cycle_done>>
  BY DEF aluVars
<1>2. MulFlagUp' = MulFlagUp /\ NoFlagUp' = NoFlagUp /\ Spent' = Spent
  BY <1>1 DEF MulFlagUp, NoFlagUp, Spent
<1>3. opcode' = opcode => done' = done
  BY <1>1 DEF done, ALUdone, Msb
<1>4. iMul!Products' = iMul!Products /\ iMul!result' = iMul!result
  BY <1>1 DEF iMul!result, iMul!Products
<1>5. UNCHANGED <<A, B>> => ProductAhead(A, B)' = ProductAhead(A, B)
  BY <1>1, <1>4 DEF ProductAhead
<1>6. UNCHANGED <<A, B, opcode>> => result' = result
  BY <1>4 DEF result, ALUresult, Msb, Lsbs
<1> QED
  BY <1>1, <1>2, <1>3, <1>5, <1>6

\* An operation that ends without flags, or one that was only skipped or answered.
LEMMA NoFlags ==
  ASSUME NoFlagUp
  PROVE  ~done /\ ~single_cycle_done /\ ~MulFlagUp /\ ~multi_cycle_done /\ ~Spent
         /\ \A op : ~ALUdone(op)
<1>1. \A op : ~ALUdone(op)
  BY NoFlagNoDone
<1> QED
  BY <1>1 DEF NoFlagUp, MulFlagUp, Spent, done

\* At first no flag is up.
LEMMA DoneInvInit == Init => DoneInv
<1> SUFFICES ASSUME Init PROVE DoneInv
  OBVIOUS
<1>1. NoFlagUp
  BY DEF Init, BenchInit, NoFlagUp, MulFlagUp, ALUInit, iMul!MulInit
<1>2. Schedule
  BY DEF Init, BenchInit, Schedule
<1>3. Pins
  BY DEF Init, BenchInit, Pins, Awaiting
<1>4. Quiet
  BY <1>1 DEF Init, BenchInit, Quiet, Awaiting
<1>5. ~errors
  BY DEF Init, BenchInit
<1> QED
  BY <1>2, <1>3, <1>4, <1>5, BenchTypesInit DEF DoneInv
-----------------------------------------------------------------------------
\* The next instant carries every phase on; Settled keeps a done that is up from
\* being carried over an edge.
LEMMA NextInstantKeeps ==
  ASSUME DoneInv, pc # "stopped", bench' = bench, NextInstant
  PROVE  Rest'
<1>1. /\ UNCHANGED <<A, B, op_set, start, rst_n, opcode, pc, left, fate, scoreboard,
                     errors, compared, aluVars>>
      /\ todo = {} /\ opcode = op_set /\ pc # "call" /\ ~(pc = "wait(done)" /\ done)
      /\ ~(slot \in {"high", "low"} /\ scoreboard = "#1")
  BY DEF NextInstant, Settled, pinVars, testVars, boardVars
<1>2. /\ slot = "posedge" => slot' = "high"
      /\ slot = "high" => slot' = "negedge"
      /\ slot = "negedge" => slot' = "low"
      /\ slot = "low" => slot' = "posedge"
      /\ slot' \in {"posedge", "high", "negedge", "low"}
  BY InvTypes DEF NextInstant, NextSlot
<1>3. /\ "tester" \in todo' <=> pc \in EndsWait[slot']
      /\ "alu" \in todo' <=> slot' = "posedge"
  BY DEF NextInstant
<1>4. /\ done' = done /\ result' = result /\ Spent' = Spent /\ NoFlagUp' = NoFlagUp
      /\ MulFlagUp' = MulFlagUp /\ ProductAhead(A, B)' = ProductAhead(A, B)
      /\ UNCHANGED <<multi_cycle_done, single_cycle_done>>
  BY <1>1, SameView
<1>5. Schedule'
  BY <1>1, <1>3 DEF DoneInv, Schedule
<1>6. Pins' /\ ~errors'
  BY <1>1 DEF DoneInv, Pins, Awaiting
<1>7. BeforeEdge => BeforeEdge' /\ (slot = "negedge" \/ slot = "low")
  <2>1. EndsWait["low"] = {}
    BY DEF EndsWait
  <2>2. "alu" \notin todo
    BY <1>1
  <2> QED
    BY <1>2, <1>3, <2>1, <2>2 DEF BeforeEdge
<1>8. Quiet => Quiet'
  BY <1>1, <1>4 DEF Quiet, Awaiting
<1>9. Issued => Issued'
  BY <1>1, <1>4, <1>7 DEF Issued
<1>10. ASSUME Working PROVE Working'
  <2>1. Awaiting' /\ opcode' = op_set'
    BY <1>1, <1>10 DEF Working, Awaiting
  <2>2. CASE ~done
    BY <1>1, <1>4, <1>10, <2>1, <2>2 DEF Working
  <2>3. CASE done
    <3>1. pc = "poll" /\ "tester" \notin todo
      BY <1>1, <1>10, <2>3 DEF Working, Awaiting
    <3>2. CASE slot = "posedge"
      <4>1. slot' = "high" /\ scoreboard' = "#1" /\ compared' = 0
        BY <1>1, <1>2, <1>10, <2>3, <3>1, <3>2 DEF Working
      <4> QED
        BY <1>1, <1>4, <1>10, <2>1, <2>3, <3>1, <4>1 DEF Working
    <3>3. CASE slot = "high"
      <4>1. scoreboard = "armed" /\ compared = 1
        BY <1>1, <1>10, <2>3, <3>3, InvTypes DEF Working
      <4>2. slot' = "negedge" /\ "tester" \in todo'
        <5>1. "poll" \in EndsWait["negedge"]
          BY DEF EndsWait
        <5> QED
          BY <1>2, <1>3, <3>1, <3>3, <5>1
      <4> QED
        BY <1>1, <1>4, <1>10, <2>1, <2>3, <3>1, <4>1, <4>2 DEF Working
    <3> QED
      BY <1>10, <2>3, <3>1, <3>2, <3>3 DEF Working
  <2> QED
    BY <2>2, <2>3
<1>11. ASSUME Answered PROVE Answered'
  <2>1. pc = "next" /\ fate = "answered" /\ slot \in {"posedge", "high"}
    BY <1>1, <1>11 DEF Answered
  <2>2. CASE slot = "posedge"
    BY <1>1, <1>2, <1>4, <1>11, <2>1, <2>2 DEF Answered
  <2>3. CASE slot = "high"
    <3>1. scoreboard = "armed"
      BY <1>1, <2>3, InvTypes
    <3>2. slot' = "negedge" /\ "tester" \in todo'
      <4>1. "next" \in EndsWait["negedge"]
        BY DEF EndsWait
      <4> QED
        BY <1>2, <1>3, <2>1, <2>3, <4>1
    <3> QED
      BY <1>1, <1>4, <1>11, <2>1, <3>1, <3>2 DEF Answered
  <2> QED
    BY <2>1, <2>2, <2>3
<1>12. ASSUME Fading PROVE Fading'
  <2>1. slot # "posedge"
    BY <1>7, <1>12 DEF Fading
  <2> QED
    BY <1>1, <1>4, <1>7, <1>12, <2>1 DEF Fading
<1>13. Phase'
  BY <1>8, <1>9, <1>10, <1>11, <1>12 DEF DoneInv, Phase, Stopped
<1> QED
  BY <1>5, <1>6, <1>13 DEF Rest

\* What a clock edge does to the flags when no answer is awaited.
LEMMA IdleEdge ==
  ASSUME DoneInv, ClockALU, ~Awaiting, multi_cycle_done \/ ~MulFlagUp
  PROVE  NoFlagUp'
<1>1. PICK r \in [AlwaysFF -> Sampled] : ALUPosedgeClk(A, B, start, opcode, r)
  BY DEF ClockALU
<1>2. slot = "posedge" /\ opcode = op_set
  BY DEF ClockALU, DoneInv, Schedule
<1>3. ~start \/ opcode = no_op
  BY <1>2 DEF DoneInv, Pins
<1>4. start \in BOOLEAN
  BY InvTypes
<1> QED
  BY <1>1, <1>3, <1>4, FlagsFall

\* What it does to the operation of which an answer is awaited.
LEMMA AwaitingEdge ==
  ASSUME DoneInv, ClockALU, Awaiting,
         op_set # mul_op => ~MulFlagUp, op_set = mul_op => ProductAhead(A, B)
  PROVE  /\ single_cycle_done'
         /\ op_set # mul_op => ~MulFlagUp'
         /\ op_set = mul_op => ProductAhead(A, B)'
<1>1. PICK r \in [AlwaysFF -> Sampled] : ALUPosedgeClk(A, B, start, opcode, r)
  BY DEF ClockALU
<1>2. slot = "posedge" /\ opcode = op_set
  BY DEF ClockALU, DoneInv, Schedule
<1>3. start = TRUE /\ op_set \in RealOp
  BY InvTypes DEF DoneInv, Pins
<1>4. rst_n = TRUE /\ Sampled = {TRUE}
  BY InvTypes DEF DoneInv, Pins, Awaiting, Sampled
<1>5. r = [x \in AlwaysFF |-> TRUE]
  BY <1>4
<1>6. /\ ALUPosedgeClk(A, B, TRUE, op_set, [x \in AlwaysFF |-> TRUE])
      /\ A \in Byte /\ B \in Byte
  BY <1>1, <1>2, <1>3, <1>5, InvTypes
<1>7. /\ single_cycle_done'
      /\ op_set # mul_op => ~MulFlagUp'
      /\ op_set = mul_op =>
           /\ done3' \/ done2' => iMul!Products'[1] = A * B
           /\ done1' => iMul!Products'[2] = A * B
           /\ multi_cycle_done' => iMul!Products'[3] = A * B
  BY <1>3, <1>6, OperationEdge
<1>8. A' = A /\ B' = B
  BY DEF ClockALU, pinVars
<1> QED
  BY <1>7, <1>8 DEF ProductAhead

\* The clock edge: what is over falls, what is worked on goes on, and done, when it
\* rises, finds the scoreboard waiting.
LEMMA ClockALUKeeps ==
  ASSUME DoneInv, pc # "stopped", bench' = bench, ClockALU
  PROVE  Rest'
<1>1. /\ UNCHANGED <<slot, A, B, op_set, start, rst_n, opcode, pc, left, fate, errors,
                     compared>>
      /\ "alu" \in todo /\ todo' = todo \ {"alu"}
      /\ scoreboard' = IF ~done /\ done' /\ scoreboard = "armed" THEN "#1" ELSE scoreboard
  BY DEF ClockALU, pinVars, testVars, WakeScoreboard
<1>2. slot = "posedge" /\ opcode = op_set
  BY <1>1 DEF DoneInv, Schedule
<1>3. Schedule'
  BY <1>1 DEF DoneInv, Schedule
<1>4. Pins' /\ ~errors'
  BY <1>1 DEF DoneInv, Pins, Awaiting
<1>5. ASSUME Quiet \/ Fading PROVE Quiet'
  <2>1. ~Awaiting /\ scoreboard = "armed" /\ (multi_cycle_done \/ ~MulFlagUp)
    BY <1>5 DEF Quiet, Fading, Awaiting, Spent, NoFlagUp
  <2>2. NoFlagUp'
    BY <2>1, IdleEdge
  <2>3. ~done'
    BY <2>2 DEF done, ALUdone, NoFlagUp, MulFlagUp
  <2> QED
    BY <1>1, <2>1, <2>2, <2>3 DEF Quiet, Awaiting
<1>6. ASSUME Issued \/ Working PROVE Working'
  <2>1. Awaiting /\ Awaiting'
    BY <1>1, <1>6 DEF Issued, Working, Awaiting
  <2>2. /\ op_set # mul_op => ~MulFlagUp
        /\ op_set = mul_op => ProductAhead(A, B)
    BY <1>6 DEF Issued, Working, ProductAhead, MulFlagUp
  <2>3. /\ single_cycle_done'
        /\ op_set # mul_op => ~MulFlagUp'
        /\ op_set = mul_op => ProductAhead(A, B)'
    BY <2>1, <2>2, AwaitingEdge
  <2>4. ~done
    <3>1. CASE Issued
      <4>1. op_set \in {1, 2, 3, 4}
        BY <2>1 DEF DoneInv, Pins, RealOp, add_op, and_op, xor_op, mul_op
      <4> QED
        BY <1>2, <3>1, <4>1 DEF Issued, done, ALUdone, Msb, mul_op, MulFlagUp
    <3>2. CASE Working
      BY <1>1, <1>2, <3>2 DEF Working
    <3> QED
      BY <1>6, <3>1, <3>2
  <2>5. scoreboard = "armed" /\ (pc = "poll" => compared = 0)
    BY <1>6, <2>4 DEF Issued, Working
  <2>6. "alu" \notin todo' /\ slot' = "posedge" /\ opcode' = op_set'
    BY <1>1, <1>2
  <2>7. IF done' THEN scoreboard' = "#1" ELSE scoreboard' = "armed"
    BY <1>1, <2>4, <2>5
  <2> QED
    BY <1>1, <2>1, <2>3, <2>5, <2>6, <2>7 DEF Working
<1>7. ~Answered
  BY <1>1, <1>2 DEF Answered
<1> QED
  BY <1>3, <1>4, <1>5, <1>6, <1>7 DEF DoneInv, Rest, Phase, Stopped

\* The opcode reaches the ALU: done may go, but does not come.
LEMMA AssignOpKeeps ==
  ASSUME DoneInv, pc # "stopped", bench' = bench, AssignOp
  PROVE  Rest' /\ (done' => done)
<1>1. /\ UNCHANGED <<slot, todo, A, B, op_set, start, rst_n, pc, left, fate, errors,
                     compared, aluVars>>
      /\ opcode # op_set /\ opcode' = op_set
      /\ scoreboard' = IF ~done /\ done' /\ scoreboard = "armed" THEN "#1" ELSE scoreboard
  BY DEF AssignOp, pinVars, testVars, WakeScoreboard
<1>2. /\ Spent' = Spent /\ NoFlagUp' = NoFlagUp /\ MulFlagUp' = MulFlagUp
      /\ UNCHANGED <<multi_cycle_done, single_cycle_done>>
  BY <1>1, SameView
<1>3. Schedule'
  BY <1>1 DEF DoneInv, Schedule
<1>4. Pins' /\ ~errors'
  BY <1>1 DEF DoneInv, Pins, Awaiting
<1>5. NoFlagUp => ~done'
  BY <1>2 DEF done, ALUdone, NoFlagUp, MulFlagUp
<1>6. ASSUME Quiet PROVE Quiet' /\ ~done'
  BY <1>1, <1>2, <1>5, <1>6 DEF Quiet, Awaiting
<1>7. ASSUME Issued PROVE Issued' /\ (done' => done)
  <2>1. done \/ ~done'
    BY <1>1, <1>5, <1>7 DEF Issued
  <2>2. scoreboard' = "armed"
    BY <1>1, <1>7, <2>1 DEF Issued
  <2>3. BeforeEdge'
    BY <1>1, <1>7 DEF Issued, BeforeEdge
  <2> QED
    BY <1>1, <1>2, <1>7, <2>1, <2>2, <2>3 DEF Issued
<1>8. ASSUME Fading PROVE Fading' /\ done
  <2>1. done
    BY <1>1, <1>8 DEF Fading
  <2>2. scoreboard' = "armed" /\ BeforeEdge'
    BY <1>1, <1>8, <2>1 DEF Fading, BeforeEdge
  <2> QED
    BY <1>1, <1>2, <1>8, <2>1, <2>2 DEF Fading
<1>9. ~Working /\ ~Answered
  BY <1>1 DEF Working, Answered
<1>10. Phase' /\ (done' => done)
  BY <1>6, <1>7, <1>8, <1>9 DEF DoneInv, Phase, Stopped
<1> QED
  BY <1>3, <1>4, <1>10 DEF Rest

\* While an answer is awaited done shows the result of the operation on the pins.
LEMMA DoneShowsTheResult ==
  ASSUME DoneInv, Working, done
  PROVE  result = predict_result([A |-> A, B |-> B, op |-> op_set])
<1>1. op_set \in RealOp /\ opcode = op_set
  BY DEF DoneInv, Pins, Working
<1>2. ALUdone(op_set) /\ (op_set = mul_op => ProductAhead(A, B))
  BY <1>1 DEF Working, done
<1>3. ALUresult(A, B, op_set) = predict_result([A |-> A, B |-> B, op |-> op_set])
  BY <1>1, <1>2, DoneMeansResult, InvTypes
<1> QED
  BY <1>1, <1>3 DEF result

\* The comparison finds the operation that done is of, and its result.
LEMMA CompareKeeps ==
  ASSUME DoneInv, pc # "stopped", bench' = bench, Compare
  PROVE  Rest'
<1>1. /\ UNCHANGED <<slot, todo, A, B, op_set, start, rst_n, opcode, pc, left, fate,
                     aluVars>>
      /\ slot \in {"high", "low"} /\ scoreboard = "#1" /\ scoreboard' = "armed"
      /\ errors' = (errors \/ /\ op_set \in RealOp
                              /\ predict_result([A |-> A, B |-> B, op |-> op_set]) # result)
      /\ compared = 0 => compared' = 1
  BY DEF Compare, pinVars, testVars, CompareBound
<1>2. /\ done' = done /\ result' = result /\ Spent' = Spent
      /\ MulFlagUp' = MulFlagUp /\ ProductAhead(A, B)' = ProductAhead(A, B)
      /\ UNCHANGED <<multi_cycle_done, single_cycle_done>>
  BY <1>1, SameView
<1>3. Working \/ Answered
  BY <1>1 DEF DoneInv, Quiet, Issued, Fading, Stopped
<1>4. pc # "drive"
  BY <1>3 DEF Working, Answered, Awaiting
<1>5. Schedule'
  BY <1>1 DEF DoneInv, Schedule
<1>6. Pins'
  BY <1>1, <1>4 DEF DoneInv, Pins, Awaiting
<1>7. ASSUME Working PROVE Working' /\ ~errors'
  <2>1. done /\ slot = "high" /\ pc = "poll" /\ compared = 0
    BY <1>1, <1>7 DEF Working
  <2>2. ~errors'
    BY <1>1, <1>7, <2>1, DoneShowsTheResult, InvTypes
  <2>3. compared' = 1 /\ done' /\ slot' = "high" /\ pc' = "poll" /\ scoreboard' = "armed"
    BY <1>1, <1>2, <2>1
  <2> QED
    BY <1>1, <1>2, <1>7, <2>2, <2>3 DEF Working, Awaiting
<1>8. ASSUME Answered PROVE Answered' /\ ~errors'
  <2>1. slot = "high" /\ pc = "next" /\ fate = "answered"
    BY <1>1, <1>8 DEF Answered
  <2>2. ~errors'
    BY <1>1, <1>8, InvTypes DEF Answered
  <2> QED
    BY <1>1, <1>2, <1>8, <2>1, <2>2 DEF Answered
<1> QED
  BY <1>3, <1>5, <1>6, <1>7, <1>8 DEF Rest, Phase
-----------------------------------------------------------------------------
(* The steps of the testers. *)

\* What they leave alone.
LEMMA TesterKeeps ==
  ASSUME DoneInv, NEW place, TesterWakes(place), bench' = bench
  PROVE  /\ UNCHANGED <<slot, opcode, scoreboard, errors, aluVars>>
         /\ "tester" \in todo /\ pc = place /\ todo' = todo \ {"tester"}
         /\ "tester" \notin todo' /\ ("alu" \in todo' <=> "alu" \in todo)
         /\ opcode = op_set
         /\ done' = done /\ Spent' = Spent /\ NoFlagUp' = NoFlagUp
         /\ MulFlagUp' = MulFlagUp
         /\ UNCHANGED <<multi_cycle_done, single_cycle_done>>
         /\ ~errors'
<1>1. /\ UNCHANGED <<slot, opcode, scoreboard, errors, aluVars>>
      /\ "tester" \in todo /\ pc = place /\ todo' = todo \ {"tester"}
  BY DEF TesterWakes
<1>2. /\ done' = done /\ Spent' = Spent /\ NoFlagUp' = NoFlagUp
      /\ MulFlagUp' = MulFlagUp
      /\ UNCHANGED <<multi_cycle_done, single_cycle_done>>
  BY <1>1, SameView
<1>3. opcode = op_set
  BY <1>1, TestersInstant
<1>4. ~errors'
  BY <1>1, InvTypes
<1> QED
  BY <1>1, <1>2, <1>3, <1>4

\* The places of a bench after one of its rounds.
LEMMA RoundEnds ==
  ASSUME NEW f, EndOperation(f), bench \in {"ALU_tb", "send_op"}
  PROVE  /\ pc' = "stopped" \/ pc' = RoundBegins
         /\ fate' = f
         /\ bench = "ALU_tb" => RoundBegins = "next"
         /\ bench = "send_op" => RoundBegins = "call"
BY DEF EndOperation, RoundBegins

\* The schedule after a step of the tester at its instant.
LEMMA TesterSchedule ==
  ASSUME DoneInv, NEW place, TesterWakes(place), bench' = bench,
         bench = "ALU_tb" => pc' \notin {"call", "rst fall", "rst hold", "rst rise",
                                         "nop hold", "nop end", "drive", "poll"},
         bench = "send_op" => pc' \notin {"next", "no_op", "rst_op", "wait(done)"},
         slot = "posedge" => op_set' = op_set /\ pc' # "call"
  PROVE  Schedule'
<1>1. /\ UNCHANGED <<slot, opcode>> /\ "tester" \in todo /\ todo' = todo \ {"tester"}
  BY DEF TesterWakes
<1>2. slot # "low"
  BY <1>1, TestersInstant
<1> QED
  BY <1>1, <1>2 DEF DoneInv, Schedule

LEMMA FirstResetKeeps ==
  ASSUME DoneInv, pc # "stopped", bench' = bench, FirstReset \/ EndFirstReset
  PROVE  Rest'
<1>1. CASE FirstReset
  <2>1. /\ TesterWakes("reset 1") /\ pc' = "reset 2"
        /\ UNCHANGED <<A, B, op_set, start, rst_n, left, fate, compared>>
    BY <1>1 DEF FirstReset, pinVars
  <2>2. pc = "reset 1" /\ scoreboard' = scoreboard /\ NoFlagUp' = NoFlagUp /\ ~errors'
    BY <2>1, TesterKeeps
  <2>3. Schedule'
    BY <2>1, TesterSchedule
  <2>4. Pins'
    BY <2>1, <2>2 DEF DoneInv, Pins, Awaiting
  <2>5. Quiet
    BY <2>2 DEF DoneInv, Issued, Working, Answered, Fading, Stopped, Awaiting
  <2>6. Quiet'
    BY <2>1, <2>2, <2>5 DEF Quiet, Awaiting
  <2> QED
    BY <2>2, <2>3, <2>4, <2>6 DEF Rest, Phase
<1>2. CASE EndFirstReset
  <2>1. /\ TesterWakes("reset 2") /\ pc' = RoundBegins
        /\ rst_n' = TRUE /\ start' = FALSE
        /\ UNCHANGED <<A, B, op_set, left, fate, compared>>
    BY <1>2 DEF EndFirstReset
  <2>2. /\ bench = "ALU_tb" => pc' = "next"
        /\ bench = "send_op" => pc' = "call"
        /\ bench \in {"ALU_tb", "send_op"}
    BY <2>1, InvTypes DEF RoundBegins
  <2>3. /\ pc = "reset 2" /\ scoreboard' = scoreboard /\ NoFlagUp' = NoFlagUp /\ ~errors'
        /\ "tester" \in todo
    BY <2>1, TesterKeeps
  <2>4. slot # "posedge"
    BY <2>3, TestersInstant
  <2>5. Schedule'
    BY <2>1, <2>2, <2>4, TesterSchedule
  <2>6. Pins'
    BY <2>1, <2>2 DEF Pins, Awaiting
  <2>7. Quiet
    BY <2>3 DEF DoneInv, Issued, Working, Answered, Fading, Stopped, Awaiting
  <2>8. Quiet'
    BY <2>2, <2>3, <2>7 DEF Quiet, Awaiting
  <2> QED
    BY <2>3, <2>5, <2>6, <2>8 DEF Rest, Phase
<1> QED
  BY <1>1, <1>2

\* ALU_tb issues its next operation with no flag up, or while done is still that of
\* the last one, which was answered.
LEMMA IssueFrom ==
  ASSUME DoneInv, pc = "next", "tester" \in todo
  PROVE  /\ slot = "negedge" /\ rst_n /\ ~start /\ bench = "ALU_tb" /\ scoreboard = "armed"
         /\ Quiet \/ (Answered /\ fate = "answered")
<1>1. slot = "negedge"
  BY TestersInstant, InvTypes
<1>2. rst_n /\ ~start
  BY InvTypes DEF DoneInv, Pins, Awaiting
<1>3. bench = "ALU_tb"
  BY InvTypes DEF DoneInv, Schedule
<1>4. Quiet \/ (Answered /\ fate = "answered")
  BY <1>1 DEF DoneInv, Issued, Working, Answered, Fading, BeforeEdge, Stopped, Awaiting
<1>5. scoreboard = "armed"
  BY <1>1, <1>4 DEF Quiet, Answered
<1> QED
  BY <1>1, <1>2, <1>3, <1>4, <1>5

\* It skips the operation only when the last one was answered.
LEMMA SkipsAfterAnswer ==
  ASSUME DoneInv, pc = "next", "tester" \in todo,
         NEW op \in RealOp, NEW seen \in {done, ALUdone(op)}
  PROVE  /\ seen => Answered /\ fate = "answered"
         /\ ~seen /\ Answered => op = mul_op /\ ~MulFlagUp
<1>1. Quiet \/ (Answered /\ fate = "answered")
  BY IssueFrom
<1>2. Quiet => ~seen
  BY NoFlags DEF Quiet
<1>3. ASSUME ~seen, Answered PROVE op = mul_op /\ ~MulFlagUp
  <2>1. done /\ Spent
    BY <1>3 DEF Answered
  <2>2. ~ALUdone(op)
    BY <1>3, <2>1
  <2>3. op \in {1, 2, 3, 4}
    BY DEF RealOp, add_op, and_op, xor_op, mul_op
  <2>4. Msb(op) /\ ~multi_cycle_done
    BY <2>1, <2>2 DEF ALUdone, Spent
  <2>5. op = 4
    BY <2>3, <2>4 DEF Msb
  <2> QED
    BY <2>1, <2>4, <2>5 DEF Spent, mul_op
<1> QED
  BY <1>1, <1>2, <1>3

LEMMA IssueKeeps ==
  ASSUME DoneInv, pc # "stopped", bench' = bench, Issue
  PROVE  Rest'
<1>1. TesterWakes("next") /\ compared' = 0
  BY DEF Issue
<1>2. /\ UNCHANGED <<slot, opcode, scoreboard, errors, aluVars>>
      /\ "tester" \in todo /\ pc = "next" /\ "tester" \notin todo'
      /\ opcode = op_set
      /\ done' = done /\ Spent' = Spent /\ NoFlagUp' = NoFlagUp /\ MulFlagUp' = MulFlagUp
      /\ UNCHANGED <<multi_cycle_done, single_cycle_done>>
      /\ ~errors'
  BY <1>1, TesterKeeps
<1>3. /\ slot = "negedge" /\ rst_n /\ ~start /\ bench = "ALU_tb" /\ scoreboard = "armed"
      /\ Quiet \/ Answered
  BY <1>2, IssueFrom
<1>4. BeforeEdge'
  BY <1>2, <1>3 DEF BeforeEdge
<1>5. ASSUME pc' \in {"next", "no_op", "rst_op"}
      PROVE  Schedule' /\ (Quiet' \/ Fading')
  <2>1. Schedule'
    BY <1>1, <1>3, <1>5, TesterSchedule
  <2>2. Quiet => Quiet'
    BY <1>2, <1>5 DEF Quiet, Awaiting
  <2>3. Answered => Fading'
    BY <1>2, <1>3, <1>4, <1>5 DEF Answered, Fading
  <2> QED
    BY <1>3, <2>1, <2>2, <2>3
<1>6. CASE IssueNoOp
  <2>1. op_set' = no_op /\ start' = TRUE /\ pc' = "no_op" /\ rst_n' = rst_n
    BY <1>6 DEF IssueNoOp
  <2>2. Pins'
    BY <1>3, <2>1 DEF Pins, Awaiting
  <2> QED
    BY <1>2, <1>5, <2>1, <2>2 DEF Rest, Phase
<1>7. CASE IssueReset
  <2>1. start' = FALSE /\ pc' = "rst_op"
    BY <1>7 DEF IssueReset
  <2>2. Pins'
    BY <2>1 DEF Pins, Awaiting
  <2> QED
    BY <1>2, <1>5, <2>1, <2>2 DEF Rest, Phase
<1>8. ASSUME NEW op \in RealOp, IssueReal(op) PROVE Rest'
  <2>1. op_set' = op /\ rst_n' = rst_n
    BY <1>8 DEF IssueReal
  <2>2. PICK seen \in {done, ALUdone(op)} :
          IF seen THEN start' = FALSE /\ EndOperation("skipped")
                  ELSE start' = TRUE /\ pc' = "wait(done)" /\ UNCHANGED <<left, fate>>
    BY <1>8 DEF IssueReal
  <2>3. CASE seen
    <3>1. start' = FALSE /\ (pc' = "stopped" \/ pc' = "next")
      BY <1>3, <2>2, <2>3, RoundEnds
    <3>2. Pins'
      BY <1>3, <2>1, <3>1 DEF Pins, Awaiting
    <3>3. CASE pc' = "next"
      BY <1>2, <1>5, <3>2, <3>3 DEF Rest, Phase
    <3>4. CASE pc' = "stopped"
      <4>1. Schedule'
        BY <1>1, <1>3, <3>4, TesterSchedule
      <4>2. Stopped'
        BY <1>2, <1>3, <3>4 DEF Stopped
      <4> QED
        BY <1>2, <3>2, <4>1, <4>2 DEF Rest, Phase
    <3> QED
      BY <3>1, <3>3, <3>4
  <2>4. CASE ~seen
    <3>1. start' = TRUE /\ pc' = "wait(done)"
      BY <2>2, <2>4
    <3>2. Pins'
      BY <1>3, <2>1, <3>1 DEF Pins, Awaiting
    <3>3. Schedule'
      BY <1>1, <1>3, <3>1, TesterSchedule
    <3>4. Issued'
      <4>1. CASE Quiet
        BY <1>2, <1>3, <1>4, <3>1, <4>1, NoFlags DEF Quiet, Issued
      <4>2. CASE Answered
        <5>1. op = mul_op /\ ~MulFlagUp /\ done
          BY <1>2, <2>4, <4>2, SkipsAfterAnswer DEF Answered
        <5> QED
          BY <1>2, <1>3, <1>4, <2>1, <3>1, <5>1 DEF Issued
      <4> QED
        BY <1>3, <4>1, <4>2
    <3> QED
      BY <1>2, <3>2, <3>3, <3>4 DEF Rest, Phase
  <2> QED
    BY <2>3, <2>4
<1> QED
  BY <1>6, <1>7, <1>8 DEF Issue

\* A no_op or a reset of ALU_tb ends, the flags of the operation before it perhaps
\* still up when a no_op does.
LEMMA EndNoOpKeeps ==
  ASSUME DoneInv, pc # "stopped", bench' = bench, EndNoOp
  PROVE  Rest'
<1>1. /\ TesterWakes("no_op") /\ start' = FALSE /\ EndOperation("none")
      /\ UNCHANGED <<A, B, op_set, rst_n, compared>>
  BY DEF EndNoOp
<1>2. /\ UNCHANGED <<slot, opcode, scoreboard, errors, aluVars>>
      /\ "tester" \in todo /\ pc = "no_op" /\ "tester" \notin todo'
      /\ "alu" \in todo' <=> "alu" \in todo
      /\ done' = done /\ Spent' = Spent /\ NoFlagUp' = NoFlagUp
      /\ ~errors'
  BY <1>1, TesterKeeps
<1>3. bench = "ALU_tb" /\ rst_n
  BY <1>2, InvTypes DEF DoneInv, Schedule, Pins
<1>4. pc' = "stopped" \/ pc' = "next"
  BY <1>1, <1>3, RoundEnds
<1>5. Schedule'
  BY <1>1, <1>3, <1>4, TesterSchedule
<1>6. Pins'
  BY <1>1, <1>3, <1>4 DEF Pins, Awaiting
<1>7. Quiet \/ Fading
  BY <1>2 DEF DoneInv, Issued, Working, Answered, Stopped, Awaiting
<1>8. Quiet => Quiet'
  BY <1>2, <1>4 DEF Quiet, Awaiting
<1>9. ASSUME Fading PROVE Fading' \/ Stopped'
  <2>1. scoreboard' = "armed" /\ BeforeEdge'
    BY <1>2, <1>9 DEF Fading, BeforeEdge
  <2> QED
    BY <1>1, <1>2, <1>4, <1>9, <2>1 DEF Fading, Stopped
<1> QED
  BY <1>2, <1>5, <1>6, <1>7, <1>8, <1>9 DEF Rest, Phase

LEMMA EndResetKeeps ==
  ASSUME DoneInv, pc # "stopped", bench' = bench, EndReset
  PROVE  Rest'
<1>1. /\ TesterWakes("rst_op") /\ rst_n' = TRUE /\ EndOperation("none")
      /\ UNCHANGED <<A, B, op_set, start, compared>>
  BY DEF EndReset
<1>2. /\ UNCHANGED <<slot, opcode, scoreboard, errors, aluVars>>
      /\ "tester" \in todo /\ pc = "rst_op" /\ "tester" \notin todo'
      /\ NoFlagUp' = NoFlagUp /\ ~errors'
  BY <1>1, TesterKeeps
<1>3. bench = "ALU_tb" /\ ~start
  BY <1>2, InvTypes DEF DoneInv, Schedule, Pins, Awaiting
<1>4. pc' = "stopped" \/ pc' = "next"
  BY <1>1, <1>3, RoundEnds
<1>5. Schedule'
  BY <1>1, <1>3, <1>4, TesterSchedule
<1>6. Pins'
  BY <1>1, <1>3, <1>4 DEF Pins, Awaiting
<1>7. slot = "negedge"
  BY <1>2, TestersInstant, InvTypes
<1>8. Quiet
  BY <1>2, <1>7 DEF DoneInv, Issued, Working, Answered, Fading, BeforeEdge, Stopped, Awaiting
<1>9. Quiet'
  BY <1>2, <1>4, <1>8 DEF Quiet, Awaiting
<1> QED
  BY <1>2, <1>5, <1>6, <1>9 DEF Rest, Phase

\* wait(done) is over at the edge that raised done, when the scoreboard was woken.
LEMMA EndWaitFrom ==
  ASSUME DoneInv, EndWait
  PROVE  /\ Working /\ done /\ scoreboard = "#1"
         /\ slot = "posedge" /\ "alu" \notin todo /\ bench = "ALU_tb"
<1>1. pc = "wait(done)" /\ opcode = op_set /\ done
  BY DEF EndWait
<1>2. ~Issued
  <2>1. op_set \in {1, 2, 3, 4}
    BY <1>1 DEF DoneInv, Pins, Awaiting, RealOp, add_op, and_op, xor_op, mul_op
  <2> QED
    BY <1>1, <2>1 DEF Issued, done, ALUdone, Msb, mul_op, MulFlagUp
<1>3. Working
  BY <1>1, <1>2 DEF DoneInv, Quiet, Answered, Fading, Stopped, Awaiting
<1>4. bench = "ALU_tb"
  BY <1>1, InvTypes DEF DoneInv, Schedule
<1> QED
  BY <1>1, <1>3, <1>4 DEF Working

\* done of the operation worked on leaves no flag behind that outlasts an edge.
LEMMA DoneIsSpent ==
  ASSUME DoneInv, Working, done
  PROVE  Spent
<1>1. opcode = op_set /\ op_set \in {1, 2, 3, 4}
  BY DEF Working, DoneInv, Pins, RealOp, add_op, and_op, xor_op, mul_op
<1>2. CASE op_set = 4
  BY <1>1, <1>2 DEF Working, done, ALUdone, Msb, Spent
<1>3. CASE op_set # 4
  BY <1>1, <1>3 DEF Working, done, ALUdone, Msb, Spent, mul_op
<1> QED
  BY <1>2, <1>3

LEMMA EndWaitKeeps ==
  ASSUME DoneInv, pc # "stopped", bench' = bench, EndWait
  PROVE  Rest'
<1>1. /\ pc = "wait(done)" /\ opcode = op_set /\ start' = FALSE /\ EndOperation("answered")
      /\ UNCHANGED <<slot, todo, A, B, op_set, rst_n, opcode, scoreboard, errors,
                     compared, aluVars>>
  BY DEF EndWait, boardVars
<1>2. /\ Working /\ done /\ scoreboard = "#1"
      /\ slot = "posedge" /\ "alu" \notin todo /\ bench = "ALU_tb"
  BY EndWaitFrom
<1>3. (pc' = "stopped" \/ pc' = "next") /\ fate' = "answered"
  BY <1>1, <1>2, RoundEnds
<1>4. done' = done /\ result' = result /\ Spent' = Spent
  BY <1>1, SameView
<1>5. rst_n /\ op_set \in RealOp /\ ~errors'
  BY <1>1, InvTypes DEF DoneInv, Pins, Awaiting
<1>6. "tester" \notin todo
  BY <1>1, <1>2, TestersInstant
<1>7. Schedule'
  BY <1>1, <1>2, <1>3, <1>6 DEF DoneInv, Schedule
<1>8. Pins'
  BY <1>1, <1>3, <1>5 DEF Pins, Awaiting
<1>9. CASE pc' = "next"
  <2>1. Spent /\ result = predict_result([A |-> A, B |-> B, op |-> op_set])
    BY <1>2, DoneIsSpent, DoneShowsTheResult
  <2>2. Answered'
    BY <1>1, <1>2, <1>3, <1>4, <1>5, <1>9, <2>1 DEF Answered
  <2> QED
    BY <1>5, <1>7, <1>8, <2>2 DEF Rest, Phase
<1>10. CASE pc' = "stopped"
  <2>1. Stopped'
    BY <1>1, <1>5, <1>10 DEF Stopped
  <2> QED
    BY <1>5, <1>7, <1>8, <2>1 DEF Rest, Phase
<1> QED
  BY <1>3, <1>9, <1>10
-----------------------------------------------------------------------------
(* The steps of send_op. *)

\* send_op is called between operations, or while done of the last one is still up.
LEMMA CallKeeps ==
  ASSUME DoneInv, pc # "stopped", bench' = bench, NEW op \in operation_t, Call(op)
  PROVE  Rest'
<1>1. /\ pc = "call" /\ opcode = op_set /\ op_set' = op /\ compared' = 0
      /\ pc' = IF op = rst_op THEN "rst fall" ELSE "drive"
      /\ UNCHANGED <<slot, todo, A, B, start, rst_n, opcode, left, fate, scoreboard,
                     errors, aluVars>>
  BY DEF Call
<1>2. pc' \in {"rst fall", "drive"} /\ (pc' = "drive" => op # rst_op)
  BY <1>1
<1>3. slot \in {"high", "negedge"} /\ rst_n /\ ~start
  BY <1>1, InvTypes DEF DoneInv, Schedule, Pins, Awaiting
<1>4. "tester" \notin todo
  BY <1>1, <1>3, TestersInstant
<1>5. bench = "send_op"
  BY <1>1, InvTypes DEF DoneInv, Schedule
<1>6. done' = done /\ Spent' = Spent /\ NoFlagUp' = NoFlagUp
  BY <1>1, SameView
<1>7. Schedule'
  BY <1>1, <1>2, <1>3, <1>4, <1>5 DEF DoneInv, Schedule
<1>8. Pins'
  BY <1>1, <1>2, <1>3 DEF Pins, Awaiting
<1>9. ~errors'
  BY <1>1, InvTypes
<1>10. Quiet \/ Answered
  BY <1>1 DEF DoneInv, Issued, Working, Fading, Stopped, Awaiting
<1>11. Quiet => Quiet'
  BY <1>1, <1>2, <1>6 DEF Quiet, Awaiting
<1>12. ASSUME Answered PROVE Fading'
  <2>1. slot = "negedge" /\ scoreboard = "armed" /\ done
    BY <1>1, <1>12 DEF Answered
  <2>2. BeforeEdge'
    BY <1>1, <1>4, <2>1 DEF BeforeEdge
  <2> QED
    BY <1>1, <1>2, <1>6, <1>12, <2>1, <2>2 DEF Answered, Fading
<1> QED
  BY <1>7, <1>8, <1>9, <1>10, <1>11, <1>12 DEF Rest, Phase

\* A reset is pulled at the edge that clears the flags of the operation before it.
LEMMA PullResetKeeps ==
  ASSUME DoneInv, pc # "stopped", bench' = bench, PullReset
  PROVE  Rest'
<1>1. /\ TesterWakes("rst fall") /\ start' = FALSE /\ pc' = "rst hold"
      /\ UNCHANGED <<A, B, op_set, left, fate, compared>>
  BY DEF PullReset
<1>2. /\ UNCHANGED <<slot, opcode, scoreboard, errors, aluVars>>
      /\ "tester" \in todo /\ pc = "rst fall" /\ "tester" \notin todo'
      /\ "alu" \in todo' <=> "alu" \in todo
      /\ done' = done /\ Spent' = Spent /\ NoFlagUp' = NoFlagUp
      /\ ~errors'
  BY <1>1, TesterKeeps
<1>3. bench = "send_op" /\ slot = "posedge"
  BY <1>2, InvTypes, TestersInstant DEF DoneInv, Schedule
<1>4. Schedule'
  BY <1>1, <1>3, TesterSchedule
<1>5. Pins'
  BY <1>1 DEF Pins, Awaiting
<1>6. Quiet \/ Fading
  BY <1>2 DEF DoneInv, Issued, Working, Answered, Stopped, Awaiting
<1>7. Quiet => Quiet'
  BY <1>1, <1>2 DEF Quiet, Awaiting
<1>8. ASSUME Fading PROVE Fading'
  <2>1. scoreboard' = "armed" /\ BeforeEdge'
    BY <1>2, <1>3, <1>8 DEF Fading, BeforeEdge
  <2> QED
    BY <1>1, <1>2, <1>3, <1>8, <2>1 DEF Fading
<1> QED
  BY <1>2, <1>4, <1>5, <1>6, <1>7, <1>8 DEF Rest, Phase

LEMMA AwaitEdgeKeeps ==
  ASSUME DoneInv, pc # "stopped", bench' = bench, AwaitEdge
  PROVE  Rest'
<1>1. PICK place \in {"rst hold", "nop hold"} :
        /\ TesterWakes(place)
        /\ pc' = IF place = "rst hold" THEN "rst rise" ELSE "nop end"
        /\ UNCHANGED <<A, B, op_set, start, rst_n, left, fate, compared>>
  BY DEF AwaitEdge, pinVars
<1>2. /\ UNCHANGED <<slot, opcode, scoreboard, errors, aluVars>>
      /\ "tester" \in todo /\ pc = place /\ NoFlagUp' = NoFlagUp /\ ~errors'
  BY <1>1, TesterKeeps
<1>3. pc' \in {"rst rise", "nop end"} /\ pc \in {"rst hold", "nop hold"}
  BY <1>1, <1>2
<1>4. bench = "send_op"
  BY <1>3, InvTypes DEF DoneInv, Schedule
<1>5. Schedule'
  BY <1>1, <1>3, <1>4, TesterSchedule
<1>6. Pins'
  <2>1. CASE place = "rst hold"
    BY <1>1, <1>2, <2>1 DEF DoneInv, Pins, Awaiting
  <2>2. CASE place = "nop hold"
    BY <1>1, <1>2, <2>2 DEF DoneInv, Pins, Awaiting
  <2> QED
    BY <2>1, <2>2
<1>7. Quiet
  BY <1>2, <1>3 DEF DoneInv, Issued, Working, Answered, Fading, Stopped, Awaiting
<1>8. Quiet'
  BY <1>2, <1>3, <1>7 DEF Quiet, Awaiting
<1> QED
  BY <1>2, <1>5, <1>6, <1>8 DEF Rest, Phase

\* A reset or a no_op of send_op ends, the flags having fallen long before.
LEMMA ReturnKeeps ==
  ASSUME DoneInv, pc # "stopped", bench' = bench, ReleaseReset \/ FinishNoOp
  PROVE  Rest'
<1>1. PICK place \in {"rst rise", "nop end"} :
        /\ TesterWakes(place) /\ EndOperation("none")
        /\ IF place = "rst rise" THEN rst_n' = TRUE /\ start' = start
                                 ELSE start' = FALSE /\ rst_n' = rst_n
        /\ UNCHANGED <<A, B, op_set, compared>>
  BY DEF ReleaseReset, FinishNoOp
<1>2. /\ UNCHANGED <<slot, opcode, scoreboard, errors, aluVars>>
      /\ "tester" \in todo /\ pc = place /\ NoFlagUp' = NoFlagUp /\ ~errors'
  BY <1>1, TesterKeeps
<1>3. bench = "send_op" /\ slot # "posedge"
  BY <1>2, InvTypes, TestersInstant DEF DoneInv, Schedule
<1>4. pc' = "stopped" \/ pc' = "call"
  BY <1>1, <1>3, RoundEnds
<1>5. rst_n' /\ ~start'
  BY <1>1, <1>2, InvTypes DEF DoneInv, Pins, Awaiting
<1>6. Schedule'
  BY <1>1, <1>3, <1>4, TesterSchedule
<1>7. Pins'
  BY <1>1, <1>4, <1>5 DEF Pins, Awaiting
<1>8. Quiet
  BY <1>2 DEF DoneInv, Issued, Working, Answered, Fading, Stopped, Awaiting
<1>9. Quiet'
  BY <1>2, <1>4, <1>8 DEF Quiet, Awaiting
<1> QED
  BY <1>2, <1>6, <1>7, <1>9 DEF Rest, Phase

\* The operation is driven once no flag is up.
LEMMA DriveOpKeeps ==
  ASSUME DoneInv, pc # "stopped", bench' = bench, DriveOp
  PROVE  Rest'
<1>1. /\ TesterWakes("drive") /\ start' = TRUE
      /\ pc' = IF op_set = no_op THEN "nop hold" ELSE "poll"
      /\ UNCHANGED <<op_set, rst_n, left, fate, compared>>
  BY DEF DriveOp
<1>2. /\ UNCHANGED <<slot, opcode, scoreboard, errors, aluVars>>
      /\ "tester" \in todo /\ pc = "drive" /\ opcode = op_set
      /\ NoFlagUp' = NoFlagUp /\ ~errors'
  BY <1>1, TesterKeeps
<1>3. bench = "send_op" /\ slot = "negedge"
  BY <1>2, InvTypes, TestersInstant DEF DoneInv, Schedule
<1>4. rst_n /\ op_set # rst_op /\ compared = 0
  BY <1>2 DEF DoneInv, Pins
<1>5. pc' = "poll" => op_set \in RealOp
  BY <1>1, <1>4, InvTypes DEF operation_t, RealOp
<1>6. pc' = "nop hold" => op_set = no_op
  BY <1>1
<1>7. pc' \in {"nop hold", "poll"}
  BY <1>1
<1>8. Schedule'
  BY <1>1, <1>3, <1>7, TesterSchedule
<1>9. Pins'
  BY <1>1, <1>4, <1>5, <1>6, <1>7 DEF Pins, Awaiting
<1>10. Quiet
  BY <1>2, <1>3 DEF DoneInv, Issued, Working, Answered, Fading, BeforeEdge, Stopped,
                    Awaiting
<1>11. CASE pc' = "nop hold"
  <2>1. Quiet'
    BY <1>2, <1>10, <1>11 DEF Quiet, Awaiting
  <2> QED
    BY <1>2, <1>8, <1>9, <2>1 DEF Rest, Phase
<1>12. CASE pc' = "poll"
  <2>1. NoFlagUp'
    BY <1>2, <1>10 DEF Quiet
  <2>2. ~done' /\ ~MulFlagUp' /\ ~multi_cycle_done'
    BY <2>1 DEF NoFlagUp, MulFlagUp, done, ALUdone
  <2>3. ProductAhead(A, B)'
    BY <2>2 DEF ProductAhead, MulFlagUp
  <2>4. scoreboard' = "armed" /\ compared' = 0 /\ opcode' = op_set'
    BY <1>1, <1>2, <1>4, <1>10 DEF Quiet
  <2>5. Awaiting'
    BY <1>12 DEF Awaiting
  <2>6. Working'
    BY <2>2, <2>3, <2>4, <2>5 DEF Working
  <2> QED
    BY <1>2, <1>8, <1>9, <2>6 DEF Rest, Phase
<1> QED
  BY <1>7, <1>11, <1>12

\* send_op looks for done of the operation worked on.
LEMMA PollFrom ==
  ASSUME DoneInv, PollDone
  PROVE  Working /\ bench = "send_op" /\ slot = "negedge" /\ (done => compared = 1)
<1>1. "tester" \in todo /\ pc = "poll"
  BY DEF PollDone, TesterWakes
<1>2. bench = "send_op" /\ slot = "negedge"
  BY <1>1, InvTypes, TestersInstant DEF DoneInv, Schedule
<1>3. Working
  BY <1>1 DEF DoneInv, Quiet, Issued, Answered, Fading, Stopped, Awaiting
<1>4. done => compared = 1
  BY <1>2, <1>3 DEF Working
<1> QED
  BY <1>2, <1>3, <1>4

LEMMA PollDoneKeeps ==
  ASSUME DoneInv, pc # "stopped", bench' = bench, PollDone
  PROVE  Rest'
<1>1. /\ TesterWakes("poll")
      /\ IF done THEN start' = FALSE /\ EndOperation("answered")
                 ELSE UNCHANGED <<start, pc, left, fate>>
      /\ UNCHANGED <<A, B, op_set, rst_n, compared>>
  BY DEF PollDone, testVars
<1>2. /\ UNCHANGED <<slot, opcode, scoreboard, errors, aluVars>>
      /\ "tester" \in todo /\ pc = "poll" /\ opcode = op_set
      /\ done' = done /\ Spent' = Spent /\ MulFlagUp' = MulFlagUp /\ ~errors'
      /\ UNCHANGED <<multi_cycle_done, single_cycle_done>>
  BY <1>1, TesterKeeps
<1>3. /\ result' = result /\ ProductAhead(A, B)' = ProductAhead(A, B)
  BY <1>1, <1>2, SameView
<1>4. Working /\ bench = "send_op" /\ slot = "negedge"
  BY PollFrom
<1>5. rst_n /\ op_set \in RealOp /\ start
  BY <1>2 DEF DoneInv, Pins, Awaiting
<1>6. CASE ~done
  <2>1. UNCHANGED <<start, pc, left, fate>>
    BY <1>1, <1>6
  <2>2. Schedule'
    BY <1>1, <1>2, <1>4, <2>1, TesterSchedule
  <2>3. Pins'
    BY <1>1, <1>2, <1>5, <2>1 DEF Pins, Awaiting
  <2>4. Working'
    BY <1>1, <1>2, <1>3, <1>4, <1>6, <2>1 DEF Working, Awaiting
  <2> QED
    BY <1>2, <2>2, <2>3, <2>4 DEF Rest, Phase
<1>7. CASE done
  <2>1. start' = FALSE /\ (pc' = "stopped" \/ pc' = "call")
    BY <1>1, <1>4, <1>7, RoundEnds
  <2>2. Schedule'
    BY <1>1, <1>4, <2>1, TesterSchedule
  <2>3. Pins'
    BY <1>1, <1>5, <2>1 DEF Pins, Awaiting
  <2>4. Spent /\ result = predict_result([A |-> A, B |-> B, op |-> op_set])
    BY <1>4, <1>7, DoneIsSpent, DoneShowsTheResult
  <2>5. scoreboard = "armed"
    BY <1>4, <1>7 DEF Working
  <2>6. CASE pc' = "call"
    <3>1. Answered'
      BY <1>1, <1>2, <1>3, <1>4, <1>5, <1>7, <2>4, <2>5, <2>6 DEF Answered
    <3> QED
      BY <1>2, <2>2, <2>3, <3>1 DEF Rest, Phase
  <2>7. CASE pc' = "stopped"
    <3>1. Stopped'
      BY <1>2, <2>5, <2>7 DEF Stopped
    <3> QED
      BY <1>2, <2>2, <2>3, <3>1 DEF Rest, Phase
  <2> QED
    BY <2>1, <2>6, <2>7
<1> QED
  BY <1>6, <1>7
-----------------------------------------------------------------------------
\* Nothing in the invariant looks beyond the variables.
LEMMA StutterKeeps == DoneInv /\ UNCHANGED vars => Rest'
<1> SUFFICES ASSUME DoneInv, UNCHANGED vars PROVE Rest'
  OBVIOUS
<1>1. UNCHANGED <<bench, slot, todo, A, B, op_set, start, rst_n, opcode, pc, left, fate,
                  scoreboard, errors, compared, aluVars>>
  BY DEF vars, pinVars, testVars, boardVars
<1>2. /\ done' = done /\ result' = result /\ Spent' = Spent /\ NoFlagUp' = NoFlagUp
      /\ MulFlagUp' = MulFlagUp /\ ProductAhead(A, B)' = ProductAhead(A, B)
      /\ UNCHANGED <<multi_cycle_done, single_cycle_done>>
  BY <1>1, SameView
<1>3. Schedule' /\ Pins' /\ ~errors'
  BY <1>1 DEF DoneInv, Schedule, Pins, Awaiting
<1>4. Quiet => Quiet'
  BY <1>1, <1>2 DEF Quiet, Awaiting
<1>5. Issued => Issued'
  BY <1>1, <1>2 DEF Issued, BeforeEdge
<1>6. Working => Working'
  BY <1>1, <1>2 DEF Working, Awaiting
<1>7. Answered => Answered'
  BY <1>1, <1>2 DEF Answered
<1>8. Fading => Fading'
  BY <1>1, <1>2 DEF Fading, BeforeEdge
<1>9. Stopped => Stopped'
  BY <1>1 DEF Stopped
<1> QED
  BY <1>3, <1>4, <1>5, <1>6, <1>7, <1>8, <1>9 DEF DoneInv, Rest, Phase

LEMMA DoneInvStep == DoneInv /\ [Next]_vars => DoneInv'
<1> SUFFICES ASSUME DoneInv, [Next]_vars PROVE DoneInv'
  OBVIOUS
<1>1. TypeOK'
  BY TypesStep DEF DoneInv
<1>2. Rest'
  <2>1. CASE Next
    <3>1. bench' = bench /\ pc # "stopped"
      BY <2>1 DEF Next
    <3>2. CASE BenchNext
      BY <3>1, <3>2, NextInstantKeeps, ClockALUKeeps, AssignOpKeeps, CompareKeeps,
         FirstResetKeeps DEF BenchNext
    <3>3. CASE WaitNext
      BY <3>1, <3>3, IssueKeeps, EndNoOpKeeps, EndResetKeeps, EndWaitKeeps DEF WaitNext
    <3>4. CASE SendOpNext
      BY <3>1, <3>4, CallKeeps, PullResetKeeps, AwaitEdgeKeeps, ReturnKeeps, DriveOpKeeps,
         PollDoneKeeps DEF SendOpNext
    <3> QED
      BY <2>1, <3>2, <3>3, <3>4 DEF Next
  <2>2. CASE UNCHANGED vars
    BY <2>2, StutterKeeps
  <2> QED
    BY <2>1, <2>2
<1> QED
  BY <1>1, <1>2 DEF DoneInv, Rest, Phase

\* The phases of an operation, with what the flags, the scoreboard and the pins are in
\* each of them, hold throughout, for any bytes, any number of rounds and any order of
\* the processes (ALU_tb.sv 147-194, Ch.10 ALU_BFM.sv 38-64).
THEOREM BenchesAlwaysInPhase == Spec => []DoneInv
<1> QED
  BY DoneInvInit, DoneInvStep, PTL DEF Spec

\* The scoreboards of these benches never report an error of a correct ALU, and never
\* compare a no_op or a reset (ALU_tb.sv 147-160).
THEOREM ScoreboardsAreSound == Spec => []NoFalseError
<1>1. DoneInv => NoFalseError
  <2> SUFFICES ASSUME DoneInv PROVE NoFalseError
    OBVIOUS
  <2>1. ~errors
    BY DEF DoneInv
  <2>2. ASSUME scoreboard = "#1" PROVE op_set \in RealOp
    <3>1. Working \/ Answered \/ Stopped
      BY <2>2 DEF DoneInv, Quiet, Issued, Fading
    <3>2. Working => op_set \in RealOp
      BY DEF DoneInv, Pins, Working
    <3> QED
      BY <2>2, <3>1, <3>2 DEF Answered, Stopped
  <2> QED
    BY <2>1, <2>2 DEF NoFalseError
<1> QED
  BY <1>1, BenchesAlwaysInPhase, PTL

\* Only the end of a wait takes the tester from it, with done up.
LEMMA AnswerEndsWait ==
  ASSUME DoneInv, Next, pc \in {"wait(done)", "poll"}, pc' # pc
  PROVE  EndWait \/ (PollDone /\ done)
<1>1. CASE BenchNext
  <2>1. pc' = pc
    BY <1>1 DEF BenchNext, NextInstant, ClockALU, AssignOp, Compare, FirstReset,
                EndFirstReset, TesterWakes, testVars
  <2> QED
    BY <2>1
<1>2. CASE WaitNext
  BY <1>2 DEF WaitNext, Issue, EndNoOp, EndReset, TesterWakes
<1>3. CASE SendOpNext
  <2>1. PollDone
    BY <1>3 DEF SendOpNext, Call, PullReset, AwaitEdge, ReleaseReset, DriveOp, FinishNoOp,
                TesterWakes
  <2> QED
    BY <2>1 DEF PollDone, testVars
<1> QED
  BY <1>1, <1>2, <1>3 DEF Next

\* The answer that ends a wait is compared, by the scoreboard it has woken or before
\* send_op returns (ALU_tb.sv 147, 189).
THEOREM AnswersAreCompared == Spec => EveryAnswerIsCompared
<1> DEFINE Ends == pc \in {"wait(done)", "poll"} /\ pc' # pc
           Compared == IF bench = "ALU_tb" THEN scoreboard = "#1" ELSE compared = 1
<1>1. DoneInv /\ [Next]_vars => [Ends => Compared]_vars
  <2> SUFFICES ASSUME DoneInv, Next, Ends PROVE Compared
    OBVIOUS
  <2>1. EndWait \/ (PollDone /\ done)
    BY AnswerEndsWait
  <2>2. CASE EndWait
    BY <2>2, EndWaitFrom
  <2>3. CASE PollDone /\ done
    BY <2>3, PollFrom
  <2> QED
    BY <2>1, <2>2, <2>3
<1> QED
  BY <1>1, BenchesAlwaysInPhase, PTL DEF Spec, EveryAnswerIsCompared

\* send_op returns the result of its operation, for all operands (Ch.10 ALU_BFM.sv
\* 38-64).
THEOREM SendOpReturnsTheResult == Spec => SendOpReturnsItsResult
<1> DEFINE Ends == pc = "poll" /\ pc' # pc
           Right == result = predict_result([A |-> A, B |-> B, op |-> op_set])
<1>1. DoneInv /\ [Next]_vars => [Ends => Right]_vars
  <2> SUFFICES ASSUME DoneInv, Next, Ends PROVE Right
    OBVIOUS
  <2>1. EndWait \/ (PollDone /\ done)
    BY AnswerEndsWait
  <2>2. Working /\ done
    BY <2>1, EndWaitFrom, PollFrom
  <2> QED
    BY <2>2, DoneShowsTheResult
<1> QED
  BY <1>1, BenchesAlwaysInPhase, PTL DEF Spec, SendOpReturnsItsResult

\* ALU_tb never loses two operations in a row: a done that is still up is that of an
\* operation that was answered (ALU_tb.sv 189-190).
THEOREM SkipsAreSingle == Spec => NeverTwoSkipped
<1> DEFINE Ends == fate = "skipped" /\ left' # left
           Other == fate' # "skipped"
<1>1. DoneInv /\ [Next]_vars => [Ends => Other]_vars
  <2> SUFFICES ASSUME DoneInv, Next, Ends, ~Other PROVE FALSE
    OBVIOUS
  <2>1. Issue
    BY DEF Next, BenchNext, NextInstant, ClockALU, AssignOp, Compare, FirstReset,
           EndFirstReset, WaitNext, EndNoOp, EndReset, EndWait, SendOpNext, Call, PullReset,
           AwaitEdge, ReleaseReset, DriveOp, FinishNoOp, PollDone, EndOperation, testVars
  <2>2. pc = "next" /\ "tester" \in todo
    BY <2>1 DEF Issue, TesterWakes
  <2>3. PICK op \in RealOp : IssueReal(op)
    BY <2>1 DEF Issue, IssueNoOp, IssueReset
  <2>4. PICK seen \in {done, ALUdone(op)} : seen
    BY <2>3 DEF IssueReal
  <2>5. fate = "answered"
    BY <2>2, <2>4, SkipsAfterAnswer
  <2> QED
    BY <2>5
<1> QED
  BY <1>1, BenchesAlwaysInPhase, PTL DEF Spec, NeverTwoSkipped

\* done rises only at the clock: the opcode that switches the multiplexer shows no flag
\* that was hidden before (ALU.sv 39, ALU_tb.sv 173).
THEOREM DoneRisesWithTheClock == Spec => DoneRisesAtTheClock
<1> DEFINE Rises == ~done /\ done'
           AtEdge == slot = "posedge"
<1>1. DoneInv /\ [Next]_vars => [Rises => AtEdge]_vars
  <2> SUFFICES ASSUME DoneInv, Next, Rises PROVE AtEdge
    OBVIOUS
  <2>1. bench' = bench /\ pc # "stopped"
    BY DEF Next
  <2>2. CASE ClockALU
    BY <2>2 DEF ClockALU, DoneInv, Schedule
  <2>3. CASE AssignOp
    BY <2>1, <2>3, AssignOpKeeps
  <2>4. CASE ~ClockALU /\ ~AssignOp
    <3>1. UNCHANGED <<opcode, aluVars>>
      BY <2>4 DEF Next, BenchNext, NextInstant, Compare, FirstReset, EndFirstReset,
                  WaitNext, Issue, EndNoOp, EndReset, EndWait, SendOpNext, Call, PullReset,
                  AwaitEdge, ReleaseReset, DriveOp, FinishNoOp, PollDone, TesterWakes
    <3> QED
      BY <3>1, SameView
  <2> QED
    BY <2>2, <2>3, <2>4
<1> QED
  BY <1>1, BenchesAlwaysInPhase, PTL DEF Spec, DoneRisesAtTheClock
=============================================================================
