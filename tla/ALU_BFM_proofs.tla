--------------------------- MODULE ALU_BFM_proofs ---------------------------
(***************************************************************************)
(* The bench is right, for every set of byte operands: BenchInv is         *)
(* inductive.  There is one lemma per action; each says what the action    *)
(* does to the phase an operation is in (Quiet, Driven, Working, Answered) *)
(* and that the schedule, the resets and the item still fit.               *)
(***************************************************************************)
EXTENDS ALU_BFM, ALU_proofs, SequenceTheorems

Entry == [A : Operand \cup {0}, B : Operand \cup {0}, op : operation_t]
Fifo == Seq(Entry)

\* The places of the driver are distinct; the products ahead of their flags are said
\* of the pins.
USE DEF Ready, OpWait, NopWait, NopTail, DoneWait, RstWait, RstHold, RstTail, ProductAhead

\* What is on the pins are bytes.
LEMMA PinsAreBytes == TypeOK => A \in Byte /\ B \in Byte
<1>1. 0 \in Byte
  BY DEF Byte
<1>2. QED
  BY <1>1, BFMAssumption DEF TypeOK

\* A command without result leaves the scoreboard waiting for what it waited for.
LEMMA AppendUnreal ==
  ASSUME cmd_fifo \in Fifo, NEW c, c.op \notin RealOp, cmd_fifo' = Append(cmd_fifo, c)
  PROVE  /\ Unscored' = Unscored
         /\ \A i \in Unscored : cmd_fifo'[i] = cmd_fifo[i]
         /\ Len(cmd_fifo') = Len(cmd_fifo) + 1
<1>1. Len(cmd_fifo) \in Nat
  BY DEF Fifo
<1>2. /\ Len(cmd_fifo') = Len(cmd_fifo) + 1
      /\ \A i \in 1..Len(cmd_fifo) : cmd_fifo'[i] = cmd_fifo[i]
      /\ cmd_fifo'[Len(cmd_fifo) + 1] = c
  BY <1>1 DEF Fifo
<1>3. \A i : i \in 1..Len(cmd_fifo') <=> i \in 1..Len(cmd_fifo) \/ i = Len(cmd_fifo) + 1
  BY <1>1, <1>2
<1>4. Unscored' = {i \in 1..Len(cmd_fifo') : cmd_fifo'[i].op \in RealOp}
  BY DEF Unscored, Real
<1>5. QED
  BY <1>2, <1>3, <1>4 DEF Unscored, Real

\* An operation becomes the one the scoreboard waits for.
LEMMA AppendReal ==
  ASSUME cmd_fifo \in Fifo, Unscored = {}, NEW c, c.op \in RealOp,
         cmd_fifo' = Append(cmd_fifo, c)
  PROVE  \E i \in 1..Len(cmd_fifo') : Unscored' = {i} /\ cmd_fifo'[i] = c
<1>1. Len(cmd_fifo) \in Nat
  BY DEF Fifo
<1>2. /\ Len(cmd_fifo') = Len(cmd_fifo) + 1
      /\ \A i \in 1..Len(cmd_fifo) : cmd_fifo'[i] = cmd_fifo[i]
      /\ cmd_fifo'[Len(cmd_fifo) + 1] = c
  BY <1>1 DEF Fifo
<1>3. \A i : i \in 1..Len(cmd_fifo') <=> i \in 1..Len(cmd_fifo) \/ i = Len(cmd_fifo) + 1
  BY <1>1, <1>2
<1>4. Unscored' = {i \in 1..Len(cmd_fifo') : cmd_fifo'[i].op \in RealOp}
  BY DEF Unscored, Real
<1>5. Unscored' = {Len(cmd_fifo) + 1}
  BY <1>2, <1>3, <1>4 DEF Unscored, Real
<1>6. QED
  BY <1>2, <1>3, <1>5

\* Scoring the one operation that waits leaves none, and compares it with r.
LEMMA ScoreTheOne ==
  ASSUME cmd_fifo \in Fifo, AwaitsPins, NEW r, Score(r)
  PROVE  /\ cmd_fifo' \in Fifo /\ Unscored' = {}
         /\ predict_result(Pins) = r => verdict' = verdict
<1>1. PICK n \in 1..Len(cmd_fifo) : Unscored = {n} /\ cmd_fifo[n] = Pins
  BY DEF AwaitsPins
<1>2. \A i \in 1..Len(cmd_fifo) : Real(cmd_fifo, i) <=> i = n
  BY <1>1 DEF Unscored
<1> DEFINE IsFirst(i) == /\ Real(cmd_fifo, i)
                         /\ \A j \in 1..(i - 1) : ~Real(cmd_fifo, j)
           first == CHOOSE i \in 1..Len(cmd_fifo) : IsFirst(i)
<1>3. Len(cmd_fifo) \in Nat
  BY DEF Fifo
<1>4. IsFirst(n)
  BY <1>2, <1>3
<1>5. first = n
  BY <1>2, <1>4
<1>6. /\ cmd_fifo' = SubSeq(cmd_fifo, n + 1, Len(cmd_fifo))
      /\ verdict' = IF predict_result(cmd_fifo[n]) = r THEN verdict ELSE "failed"
  BY <1>2, <1>5 DEF Score
<1>7. cmd_fifo' \in Fifo
  <2>1. \A i \in (n + 1)..Len(cmd_fifo) : cmd_fifo[i] \in Entry
    BY <1>3 DEF Fifo
  <2>2. n + 1 \in Int /\ Len(cmd_fifo) \in Int
    BY <1>3
  <2>3. QED
    BY <1>6, <2>1, <2>2, SubSeqProperties DEF Fifo
<1>8. Unscored' = {}
  <2>1. /\ Len(cmd_fifo') = Len(cmd_fifo) - n
        /\ \A i \in 1..(Len(cmd_fifo) - n) : cmd_fifo'[i] = cmd_fifo[n + i]
    BY <1>3, <1>6 DEF Fifo
  <2>2. \A i \in 1..Len(cmd_fifo') : cmd_fifo'[i].op \notin RealOp
    BY <1>2, <1>3, <2>1 DEF Real
  <2>3. QED
    BY <2>2 DEF Unscored, Real
<1>9. QED
  BY <1>1, <1>6, <1>7, <1>8
-----------------------------------------------------------------------------
\* The flags depend on the ALU's registers only, the commands without a result on
\* the FIFO only.
LEMMA SameRegisters ==
  ASSUME UNCHANGED <<cmd_fifo, aluVars>>
  PROVE  /\ MulFlagUp' = MulFlagUp /\ NoFlagUp' = NoFlagUp /\ ALUTypeOK' = ALUTypeOK
         /\ Unscored' = Unscored
<1>1. /\ UNCHANGED <<mul_A, sum_reg_pair, sum_reg_quad, done3, done2, done1,
                     multi_cycle_done, single_cycle_done>>
  BY DEF aluVars
<1>2. MulFlagUp' = MulFlagUp /\ NoFlagUp' = NoFlagUp
  BY <1>1 DEF MulFlagUp, NoFlagUp
<1>3. ALUTypeOK' = ALUTypeOK
  BY <1>1 DEF ALUTypeOK, iMul!MulTypeOK
<1>4. Unscored' = Unscored
  BY DEF Unscored, Real
<1>5. QED
  BY <1>2, <1>3, <1>4

\* What the ALU shows and what the scoreboard waits for depend on the pins, the
\* registers and the FIFO only.
LEMMA SameView ==
  ASSUME UNCHANGED <<A, B, op_set, cmd_fifo, aluVars>>
  PROVE  /\ done' = done /\ result' = result
         /\ Unscored' = Unscored /\ Pins' = Pins /\ AwaitsPins' = AwaitsPins
         /\ iMul!Products' = iMul!Products
         /\ MulFlagUp' = MulFlagUp /\ NoFlagUp' = NoFlagUp
         /\ ALUTypeOK' = ALUTypeOK
<1>1. /\ UNCHANGED <<mul_A, sum_reg_pair, sum_reg_quad, done3, done2, done1,
                     multi_cycle_done, single_cycle_done>>
  BY DEF aluVars
<1>2. done' = done
  BY <1>1 DEF done, ALUdone, Msb
<1>3. result' = result /\ iMul!Products' = iMul!Products
  BY <1>1 DEF result, ALUresult, Msb, Lsbs, iMul!result, iMul!Products
<1>4. Pins' = Pins
  BY DEF Pins, MonitoredCommand
<1>5. AwaitsPins' = AwaitsPins
  BY <1>4, SameRegisters DEF AwaitsPins
<1>6. /\ MulFlagUp' = MulFlagUp /\ NoFlagUp' = NoFlagUp /\ ALUTypeOK' = ALUTypeOK
      /\ Unscored' = Unscored
  BY SameRegisters
<1>7. QED
  BY <1>2, <1>3, <1>4, <1>5, <1>6

\* The places of the driver, and the instants they wait for.
Place == {Ready, OpWait, NopWait, NopTail, DoneWait, RstWait, RstHold, RstTail}

\* The set of places that TypeOK builds from EndsWait is Place.
LEMMA Places == {Ready} \cup UNION {EndsWait[s] : s \in DOMAIN EndsWait} = Place
<1>1. DOMAIN EndsWait = {"posedge", "after", "negedge"}
  BY DEF EndsWait
<1>2. /\ EndsWait["posedge"] = {NopWait, RstWait, RstHold}
      /\ EndsWait["after"] = {NopTail, RstTail}
      /\ EndsWait["negedge"] = {OpWait, DoneWait}
  BY DEF EndsWait
<1>3. \A x : (\E s \in DOMAIN EndsWait : x \in EndsWait[s])
               <=> \/ x \in {NopWait, RstWait, RstHold}
                   \/ x \in {NopTail, RstTail}
                   \/ x \in {OpWait, DoneWait}
  BY <1>1, <1>2
<1>4. \A x : x \in UNION {EndsWait[s] : s \in DOMAIN EndsWait}
               <=> \E s \in DOMAIN EndsWait : x \in EndsWait[s]
  OBVIOUS
<1>5. \A x : x \in {Ready} \cup UNION {EndsWait[s] : s \in DOMAIN EndsWait} <=> x \in Place
  <2>1. TAKE x
  <2>2. x \in Place <=> \/ x = Ready
                        \/ x \in {NopWait, RstWait, RstHold}
                        \/ x \in {NopTail, RstTail}
                        \/ x \in {OpWait, DoneWait}
    BY DEF Place
  <2>3. QED
    BY <1>3, <1>4, <2>2
<1>6. QED
  BY <1>5

\* The driver runs only at the instant that ends its wait, at a posedge before the ALU.
LEMMA DriversInstant ==
  ASSUME BenchInv, DriverRuns
  PROVE  /\ pc \in {NopWait, RstWait, RstHold} => slot = "posedge" /\ "alu" \in todo
         /\ pc \in {NopTail, RstTail} => slot = "after"
         /\ pc \in {OpWait, DoneWait} => slot = "negedge"
         /\ todo \ {"driver"} \subseteq {"cmd_mon", "res_mon", "rst_mon", "alu"}
<1>1. /\ slot \in {"posedge", "after", "negedge"}
      /\ todo \subseteq {"cmd_mon", "res_mon", "rst_mon", "alu", "driver"}
  BY DEF BenchInv, TypeOK, NextSlot
<1>2. pc \in EndsWait[slot]
  BY DEF BenchInv, Schedule
<1>3. slot = "posedge" => "alu" \in todo
  BY DEF BenchInv, Schedule, DriverRuns
<1>4. CASE slot = "posedge"
  <2>1. pc \in {NopWait, RstWait, RstHold}
    BY <1>2, <1>4 DEF EndsWait
  <2>2. QED
    BY <1>1, <1>3, <1>4, <2>1
<1>5. CASE slot = "after"
  <2>1. pc \in {NopTail, RstTail}
    BY <1>2, <1>5 DEF EndsWait
  <2>2. QED
    BY <1>1, <1>5, <2>1
<1>6. CASE slot = "negedge"
  <2>1. pc \in {OpWait, DoneWait}
    BY <1>2, <1>6 DEF EndsWait
  <2>2. QED
    BY <1>1, <1>6, <2>1
<1>7. QED
  BY <1>1, <1>4, <1>5, <1>6

\* The types of a step of the driver that leaves the interface's data alone.
LEMMA DriverTypes ==
  ASSUME TypeOK, UNCHANGED <<slot, op_set, A, B, rst_n_before, new_command, cmd_fifo,
                             verdict, aluVars>>,
         todo' \subseteq {"cmd_mon", "res_mon", "rst_mon", "alu", "driver"},
         start' \in BOOLEAN, rst_n' \in BOOLEAN, pc' \in Place,
         cmd' \in Command \cup {NoCommand}, alu_result' \in Short
  PROVE  TypeOK'
<1>1. ALUTypeOK'
  BY SameView DEF TypeOK
<1>2. pc' \in {Ready} \cup UNION {EndsWait[s] : s \in DOMAIN EndsWait}
  BY Places
<1>3. QED
  BY <1>1, <1>2 DEF TypeOK

\* The bench starts Quiet, its reset pulled.
LEMMA BenchInit == Init => BenchInv
<1> SUFFICES ASSUME Init
             PROVE  BenchInv
  OBVIOUS
<1>1. TypeOK
  <2>1. 0 \in Short
    BY DEF Short
  <2>2. ALUTypeOK
    BY ALUTypeInit DEF Init
  <2>3. cmd_fifo \in Fifo
    BY DEF Init, Fifo
  <2>4. cmd \in Command \cup {NoCommand} /\ pc = Ready
    BY DEF Init
  <2>5. op_set \in operation_t /\ slot \in DOMAIN NextSlot
    BY DEF Init, operation_t, NextSlot
  <2>6. QED
    BY <2>1, <2>2, <2>3, <2>4, <2>5 DEF Init, TypeOK, Fifo, Entry
<1>2. Unscored = {}
  BY DEF Init, Unscored
<1>3. Quiet
  BY <1>2 DEF Init, Quiet, NoFlagUp, MulFlagUp, ALUInit, iMul!MulInit
<1>4. Schedule /\ Resets /\ Rearmed
  BY DEF Init, Schedule, Resets, Rearmed, DriverRuns
<1>5. Items
  BY DEF Init, Items, ReturnsTheResult, NoCommand, RealOp, add_op, and_op, xor_op, mul_op
<1>6. QED
  BY <1>1, <1>3, <1>4, <1>5 DEF Init, BenchInv
-----------------------------------------------------------------------------
\* The next instant finds every phase where its timing wants it: an operation in
\* progress is only carried over a posedge with done down.
LEMMA NextInstantKeeps ==
  ASSUME BenchInv, NextInstant
  PROVE  BenchInv'
<1>1. UNCHANGED <<A, B, op_set, start, rst_n, new_command, pc, cmd, alu_result,
                  cmd_fifo, verdict, aluVars>>
  BY DEF NextInstant, pinVars, driverVars, boardVars
<1>2. /\ slot \in {"posedge", "after", "negedge"}
      /\ todo = {} /\ rst_n_before' = rst_n
      /\ slot' = NextSlot[slot] /\ todo' = Woken(slot')
  BY DEF NextInstant, BenchInv, TypeOK, NextSlot
<1>3. /\ slot' = "posedge" => /\ slot = "negedge"
                              /\ {"cmd_mon", "res_mon", "alu"} \subseteq todo'
      /\ slot' = "after" => slot = "posedge"
      /\ slot' = "negedge" => slot = "after"
      /\ slot' \in {"posedge", "after", "negedge"}
      /\ todo' \subseteq {"cmd_mon", "res_mon", "alu", "driver"}
      /\ slot' # "posedge" => todo' \subseteq {"driver"}
      /\ "driver" \in todo' <=> pc \in EndsWait[slot']
  BY <1>2 DEF NextSlot, Woken
<1>11. /\ done' = done /\ result' = result
       /\ Unscored' = Unscored /\ Pins' = Pins /\ AwaitsPins' = AwaitsPins
       /\ iMul!Products' = iMul!Products
       /\ MulFlagUp' = MulFlagUp /\ NoFlagUp' = NoFlagUp
       /\ UNCHANGED <<done3, done2, done1, multi_cycle_done>>
  BY <1>1, SameView DEF aluVars
<1>4. TypeOK'
  BY <1>1, <1>2, <1>3, SameView DEF BenchInv, TypeOK, NextSlot
<1>5. Schedule'
  BY <1>1, <1>3 DEF Schedule, DriverRuns
<1>6. Resets'
  BY <1>1, <1>2 DEF Resets, BenchInv
<1>7. Items'
  BY <1>1, SameView DEF Items, BenchInv, ReturnsTheResult
<1>8. Rearmed'
  BY <1>1, <1>2, <1>3 DEF Rearmed, BenchInv, DriverRuns
<1>9. (Quiet \/ Driven \/ Working \/ Answered)'
  <2>1. ASSUME Quiet PROVE Quiet'
    BY <1>1, <2>1, SameView DEF Quiet
  <2>2. ASSUME Driven PROVE Driven'
    BY <1>1, <1>2, <1>3, <2>2, SameView DEF Driven, NextSlot
  <2>3. ASSUME Working PROVE Working'
    <3>4. pc = DoneWait /\ DoneWait \in EndsWait["negedge"]
      BY <2>3 DEF Working, EndsWait
    <3>1. slot' = "negedge" => "driver" \in todo'
      BY <1>3, <3>4
    <3>2. ~done \/ slot' # "posedge"
      BY <1>2, <1>3, <2>3 DEF Working, DriverRuns
    <3>3. QED
      BY <1>1, <1>3, <1>11, <2>3, <3>1, <3>2 DEF Working, DriverRuns
  <2>4. ASSUME Answered PROVE Answered'
    <3>1. slot = "negedge" /\ AwaitsPins /\ pc \in {Ready, OpWait, RstWait}
      BY <1>2, <2>4 DEF Answered
    <3>2. slot' = "posedge" /\ "alu" \in todo' /\ "res_mon" \in todo'
      BY <1>2, <1>3, <3>1 DEF NextSlot
    <3>3. AwaitsPins' /\ pc' \in {Ready, OpWait, RstWait}
      BY <1>1, <3>1, SameView
    <3>4. /\ ~start' /\ op_set' \in RealOp /\ done' /\ result' = predict_result(Pins')
          /\ op_set' # mul_op => ~MulFlagUp'
      BY <1>1, <1>11, <2>4 DEF Answered
    <3>5. QED
      BY <3>2, <3>3, <3>4 DEF Answered
  <2>5. QED
    BY <2>1, <2>2, <2>3, <2>4 DEF BenchInv
<1>10. QED
  BY <1>1, <1>4, <1>5, <1>6, <1>7, <1>8, <1>9 DEF BenchInv
-----------------------------------------------------------------------------
\* While an operation is worked on, every block samples rst_n high: single-cycle
\* operations leave the multiplier's flags down, products move one stage ahead of
\* their flags.
LEMMA WorkingEdge ==
  ASSUME BenchInv, ClockALU, Working
  PROVE  Working'
<1>1. /\ slot = "posedge" /\ slot' = "posedge" /\ todo' = {}
      /\ UNCHANGED <<A, B, op_set, start, new_command, pc, cmd_fifo>>
  BY DEF ClockALU, BenchInv, Schedule, pinVars, driverVars, boardVars, TypeOK
<1>2. rst_n /\ rst_n_before /\ rst_n \in BOOLEAN /\ rst_n_before \in BOOLEAN
  BY <1>1 DEF BenchInv, Working, Resets, TypeOK
<1>3. PICK r \in [AlwaysFF -> {rst_n_before, rst_n}] : ALUPosedgeClk(A, B, start, op_set, r)
  BY DEF ClockALU
<1>4. r = [x \in AlwaysFF |-> TRUE]
  BY <1>2
<1>5. /\ iMul!Products'[1] = A * B
      /\ iMul!Products'[2] = iMul!Products[1]
      /\ iMul!Products'[3] = iMul!Products[2]
  BY <1>3, <1>4, ProductsStep, PinsAreBytes DEF BenchInv
<1>6. /\ done3' = (start /\ ~multi_cycle_done /\ op_set = 4)
      /\ done2' = (done3 /\ ~multi_cycle_done)
      /\ done1' = (done2 /\ ~multi_cycle_done)
      /\ multi_cycle_done' = (done1 /\ ~multi_cycle_done)
  BY <1>3, <1>4 DEF ALUPosedgeClk, iMul!DonePipeline, AlwaysFF
<1>7. Unscored' = Unscored /\ Pins' = Pins
  BY <1>1 DEF Unscored, Real, Pins, MonitoredCommand
<1>8. AwaitsPins'
  BY <1>1, <1>7 DEF AwaitsPins, Working
<1>9. op_set' # mul_op => ~MulFlagUp'
  BY <1>1, <1>6 DEF Working, MulFlagUp, mul_op
<1>10. op_set' = mul_op => ProductAhead(A, B)'
  BY <1>1, <1>5, <1>6 DEF Working, ProductAhead
<1>11. QED
  BY <1>1, <1>8, <1>9, <1>10 DEF Working

\* The ALU's nonblocking assignments, the last of a posedge.
LEMMA ClockALUKeeps ==
  ASSUME BenchInv, ClockALU
  PROVE  BenchInv'
<1>1. /\ UNCHANGED <<A, B, op_set, start, rst_n, rst_n_before, new_command, pc, cmd,
                     alu_result, cmd_fifo, verdict, slot>>
      /\ slot = "posedge" /\ todo = {"alu"} /\ todo' = {}
  BY DEF ClockALU, pinVars, driverVars, boardVars, BenchInv, Schedule, TypeOK
<1>2. PICK r \in [AlwaysFF -> {rst_n_before, rst_n}] : ALUPosedgeClk(A, B, start, op_set, r)
  BY DEF ClockALU
<1>3. TypeOK'
  <2>1. ALUTypeOK'
    BY <1>2, ALUTypeStep, PinsAreBytes DEF BenchInv, TypeOK
  <2>2. QED
    BY <1>1, <2>1 DEF BenchInv, TypeOK
<1>4. Schedule' /\ Resets' /\ Items' /\ Rearmed'
  <2>1. Pins' = Pins
    BY <1>1 DEF Pins, MonitoredCommand
  <2>2. Items'
    BY <1>1, <2>1 DEF Items, BenchInv, ReturnsTheResult
  <2>3. Schedule' /\ Resets' /\ Rearmed'
    BY <1>1 DEF Schedule, Resets, Rearmed, BenchInv, DriverRuns
  <2>4. QED
    BY <2>2, <2>3
<1>5. (Quiet \/ Driven \/ Working \/ Answered)'
  <2>1. start \in BOOLEAN /\ Unscored' = Unscored
    BY <1>1 DEF BenchInv, TypeOK, Unscored, Real
  <2>2. ASSUME Quiet PROVE Quiet'
    <3>1. NoFlagUp'
      <4>1. (~start \/ op_set = no_op) /\ ~MulFlagUp
        BY <2>2 DEF Quiet, NoFlagUp
      <4>2. QED
        BY <1>2, <2>1, <4>1, FlagsFall
    <3>2. QED
      BY <1>1, <2>1, <2>2, <3>1 DEF Quiet
  <2>3. ASSUME Driven PROVE FALSE
    BY <1>1, <2>3 DEF Driven
  <2>4. ASSUME Working PROVE Working'
    BY <2>4, WorkingEdge
  <2>5. ASSUME Answered PROVE Quiet'
    <3>1. multi_cycle_done \/ ~MulFlagUp
      <4>1. CASE op_set = mul_op
        <5>1. done = multi_cycle_done
          BY <4>1 DEF done, ALUdone, Msb, mul_op
        <5>2. QED
          BY <2>5, <5>1 DEF Answered
      <4>2. CASE op_set # mul_op
        BY <2>5, <4>2 DEF Answered
      <4>3. QED
        BY <4>1, <4>2
    <3>2. NoFlagUp'
      BY <1>2, <2>1, <2>5, <3>1, FlagsFall DEF Answered
    <3>3. Unscored = {} /\ ~start /\ pc \in {Ready, OpWait, RstWait, RstHold}
      BY <1>1, <2>5 DEF Answered
    <3>4. QED
      BY <1>1, <2>1, <3>2, <3>3 DEF Quiet
  <2>6. QED
    BY <2>2, <2>3, <2>4, <2>5 DEF BenchInv
<1>6. QED
  BY <1>1, <1>3, <1>4, <1>5 DEF BenchInv
-----------------------------------------------------------------------------
\* The next item finds the bench between operations, the last result perhaps still
\* to be scored, and after the first reset finds rst_n high.
LEMMA GetItemKeeps ==
  ASSUME BenchInv, NEW c \in Command, GetItem(c)
  PROVE  BenchInv'
<1>1. /\ UNCHANGED <<A, B, op_set, start, rst_n, rst_n_before, new_command,
                     alu_result, cmd_fifo, verdict, slot, todo, aluVars>>
      /\ pc = Ready /\ todo = {} /\ slot # "posedge"
      /\ cmd' = c /\ pc' = IF c.op = rst_op THEN RstWait ELSE OpWait
      /\ cmd = NoCommand => c.op = rst_op
  BY DEF GetItem, FirstIsReset, timeVars, pinVars, boardVars
<1>2. TypeOK'
  <2>1. TypeOK
    BY DEF BenchInv
  <2>2. pc' \in Place
    BY <1>1 DEF Place
  <2>3. cmd' \in Command \cup {NoCommand}
    BY <1>1
  <2>4. /\ todo' \subseteq {"cmd_mon", "res_mon", "rst_mon", "alu", "driver"}
        /\ start' \in BOOLEAN /\ rst_n' \in BOOLEAN /\ alu_result' \in Short
    BY <1>1, <2>1 DEF TypeOK
  <2>5. QED
    BY <1>1, <2>1, <2>2, <2>3, <2>4, DriverTypes
<1>3. Schedule' /\ Rearmed'
  BY <1>1 DEF BenchInv, Schedule, Rearmed, DriverRuns
<1>4. Resets' /\ Items'
  BY <1>1 DEF BenchInv, Resets, Items, ReturnsTheResult
<1>5. (Quiet \/ Answered)'
  <2>1. ASSUME Quiet PROVE Quiet'
    BY <1>1, <2>1, SameView DEF Quiet
  <2>2. ASSUME Answered PROVE Answered'
    <3>1. slot = "negedge" /\ ~DriverRuns /\ AwaitsPins
      BY <1>1, <2>2 DEF Answered
    <3>2. done' = done /\ result' = result /\ Pins' = Pins /\ MulFlagUp' = MulFlagUp
          /\ AwaitsPins' = AwaitsPins
      BY <1>1, SameView
    <3>3. QED
      BY <1>1, <2>2, <3>1, <3>2 DEF Answered, DriverRuns
  <2>3. ~Driven /\ ~Working
    BY <1>1 DEF Driven, Working
  <2>4. QED
    BY <2>1, <2>2, <2>3 DEF BenchInv
<1>6. QED
  BY <1>1, <1>2, <1>3, <1>4, <1>5 DEF BenchInv

\* The reset is pulled between operations; a result still to be scored is not
\* touched before its posedge is over.
LEMMA PullResetKeeps ==
  ASSUME BenchInv, PullReset
  PROVE  BenchInv'
<1>1. /\ UNCHANGED <<A, B, op_set, rst_n_before, new_command, cmd, alu_result,
                     cmd_fifo, verdict, slot, aluVars>>
      /\ pc = RstWait /\ pc' = RstHold /\ start' = FALSE /\ rst_n' = FALSE
      /\ DriverRuns
      /\ todo' = (todo \ {"driver"}) \cup (IF rst_n THEN {"rst_mon"} ELSE {})
  BY DEF PullReset, boardVars
<1>2. slot = "posedge" /\ "alu" \in todo
  BY <1>1, DriversInstant
<1>3. TypeOK'
  <2>1. TypeOK
    BY DEF BenchInv
  <2>2. pc' \in Place
    BY <1>1 DEF Place
  <2>3. todo' \subseteq {"cmd_mon", "res_mon", "rst_mon", "alu", "driver"}
    BY <1>1, DriversInstant
  <2>4. /\ cmd' \in Command \cup {NoCommand} /\ alu_result' \in Short
        /\ start' \in BOOLEAN /\ rst_n' \in BOOLEAN
    BY <1>1, <2>1 DEF TypeOK
  <2>5. QED
    BY <1>1, <2>1, <2>2, <2>3, <2>4, DriverTypes
<1>4. ~start
  BY <1>1 DEF BenchInv, Quiet, Driven, Working, Answered
<1>5. Schedule' /\ Resets' /\ Items' /\ Rearmed'
  <2>1. Schedule'
    BY <1>1, <1>2 DEF Schedule, DriverRuns
  <2>2. Resets' /\ Items'
    BY <1>1 DEF BenchInv, Resets, Items, ReturnsTheResult
  <2>3. Rearmed'
    BY <1>1, <1>2, <1>4 DEF BenchInv, Rearmed
  <2>4. QED
    BY <2>1, <2>2, <2>3
<1>6. (Quiet \/ Answered)'
  <2>0. /\ done' = done /\ result' = result /\ Pins' = Pins /\ MulFlagUp' = MulFlagUp
        /\ AwaitsPins' = AwaitsPins /\ Unscored' = Unscored /\ NoFlagUp' = NoFlagUp
    BY <1>1, SameView
  <2>1. ASSUME Quiet PROVE Quiet'
    BY <1>1, <2>0, <2>1 DEF Quiet
  <2>2. ASSUME Answered PROVE Answered'
    <3>1. /\ "alu" \in todo' /\ "driver" \notin todo'
          /\ "res_mon" \in todo' <=> "res_mon" \in todo
      BY <1>1, <1>2
    <3>2. QED
      BY <1>1, <1>2, <2>0, <2>2, <3>1 DEF Answered, DriverRuns
  <2>3. ~Driven /\ ~Working
    BY <1>1 DEF Driven, Working
  <2>4. QED
    BY <2>1, <2>2, <2>3 DEF BenchInv
<1>7. QED
  BY <1>1, <1>3, <1>5, <1>6 DEF BenchInv

\* The waits of a reset and of a no_op happen between operations.
LEMMA AwaitEdgeKeeps ==
  ASSUME BenchInv, AwaitEdge
  PROVE  BenchInv'
<1>1. /\ UNCHANGED <<A, B, op_set, start, rst_n, rst_n_before, new_command, cmd,
                     alu_result, cmd_fifo, verdict, slot, aluVars>>
      /\ pc \in {RstHold, NopWait} /\ pc' = (IF pc = RstHold THEN RstTail ELSE NopTail)
      /\ DriverRuns /\ todo' = todo \ {"driver"}
  BY DEF AwaitEdge, pinVars, boardVars
<1>2. slot = "posedge" /\ "alu" \in todo
  BY <1>1, DriversInstant
<1>3. TypeOK'
  <2>1. TypeOK
    BY DEF BenchInv
  <2>2. pc' \in Place
    BY <1>1 DEF Place
  <2>3. todo' \subseteq {"cmd_mon", "res_mon", "rst_mon", "alu", "driver"}
    BY <1>1, DriversInstant
  <2>4. /\ cmd' \in Command \cup {NoCommand} /\ alu_result' \in Short
        /\ start' \in BOOLEAN /\ rst_n' \in BOOLEAN
    BY <1>1, <2>1 DEF TypeOK
  <2>5. QED
    BY <1>1, <2>1, <2>2, <2>3, <2>4, DriverTypes
<1>4. Schedule' /\ Rearmed'
  BY <1>1, <1>2 DEF BenchInv, Schedule, Rearmed, DriverRuns
<1>5. Resets' /\ Items'
  BY <1>1 DEF BenchInv, Resets, Items, ReturnsTheResult
<1>6. Quiet'
  <2>1. Quiet
    BY <1>1 DEF BenchInv, Driven, Working, Answered
  <2>2. Unscored' = Unscored /\ NoFlagUp' = NoFlagUp
    BY <1>1, SameView
  <2>3. QED
    BY <1>1, <2>1, <2>2 DEF Quiet
<1>7. QED
  BY <1>1, <1>3, <1>4, <1>5, <1>6 DEF BenchInv

\* The end of a reset returns nothing, and leaves rst_n high for the next item.
LEMMA ReleaseResetKeeps ==
  ASSUME BenchInv, ReleaseReset
  PROVE  BenchInv'
<1>1. /\ UNCHANGED <<A, B, op_set, start, rst_n_before, new_command, cmd,
                     alu_result, cmd_fifo, verdict, slot, aluVars>>
      /\ pc = RstTail /\ pc' = Ready /\ rst_n' = TRUE
      /\ DriverRuns /\ todo' = todo \ {"driver"}
  BY DEF ReleaseReset, pinVars, boardVars
<1>2. slot = "after"
  BY <1>1, DriversInstant
<1>3. TypeOK'
  <2>1. TypeOK
    BY DEF BenchInv
  <2>2. pc' \in Place
    BY <1>1 DEF Place
  <2>3. todo' \subseteq {"cmd_mon", "res_mon", "rst_mon", "alu", "driver"}
    BY <1>1, DriversInstant
  <2>4. /\ cmd' \in Command \cup {NoCommand} /\ alu_result' \in Short
        /\ start' \in BOOLEAN /\ rst_n' \in BOOLEAN
    BY <1>1, <2>1 DEF TypeOK
  <2>5. QED
    BY <1>1, <2>1, <2>2, <2>3, <2>4, DriverTypes
<1>4. Schedule' /\ Rearmed'
  BY <1>1, <1>2 DEF BenchInv, Schedule, Rearmed, DriverRuns
<1>5. Resets' /\ Items'
  <2>0. cmd.op = rst_op
    BY <1>1 DEF BenchInv, Items
  <2>1. cmd.op \notin RealOp
    BY <2>0 DEF RealOp, rst_op, add_op, and_op, xor_op, mul_op
  <2>2. Items'
    BY <1>1, <2>1 DEF Items, ReturnsTheResult
  <2>3. Resets'
    BY <1>1 DEF Resets
  <2>4. QED
    BY <2>2, <2>3
<1>6. Quiet'
  <2>1. Quiet
    BY <1>1 DEF BenchInv, Driven, Working, Answered
  <2>2. Unscored' = Unscored /\ NoFlagUp' = NoFlagUp
    BY <1>1, SameView
  <2>3. QED
    BY <1>1, <2>1, <2>2 DEF Quiet
<1>7. QED
  BY <1>1, <1>3, <1>4, <1>5, <1>6 DEF BenchInv

\* An operation is driven between operations: no flag of the ALU is up, and start
\* was low at a posedge since the last one.
LEMMA DriveFromQuiet ==
  ASSUME BenchInv, DriveOp
  PROVE  Quiet /\ ~start /\ new_command /\ slot = "negedge" /\ rst_n /\ cmd \in Command
<1>1. pc = OpWait /\ DriverRuns
  BY DEF DriveOp
<1>2. slot = "negedge"
  BY <1>1, DriversInstant
<1>3. Quiet
  BY <1>1, <1>2 DEF BenchInv, Driven, Working, Answered
<1>4. ~start
  BY <1>1, <1>3 DEF Quiet
<1>5. new_command
  BY <1>1, <1>2, <1>4 DEF BenchInv, Rearmed
<1>6. rst_n /\ cmd \in Command
  BY <1>1 DEF BenchInv, Resets, Items
<1>7. QED
  BY <1>2, <1>3, <1>4, <1>5, <1>6

\* Driving an operation begins it; driving a no_op only raises start.
LEMMA DriveOpKeeps ==
  ASSUME BenchInv, DriveOp
  PROVE  BenchInv'
<1>1. /\ UNCHANGED <<rst_n, rst_n_before, new_command, cmd, alu_result, cmd_fifo,
                     verdict, slot, aluVars>>
      /\ pc = OpWait /\ pc' = (IF cmd.op = no_op THEN NopWait ELSE DoneWait)
      /\ op_set' = cmd.op /\ A' = cmd.A /\ B' = cmd.B /\ start' = TRUE
      /\ DriverRuns /\ todo' = todo \ {"driver"}
  BY DEF DriveOp, boardVars
<1>2. Quiet /\ ~start /\ new_command /\ slot = "negedge" /\ rst_n /\ cmd \in Command
  BY DriveFromQuiet
<1>3. /\ cmd.A \in Operand /\ cmd.B \in Operand /\ cmd.op \in operation_t
      /\ cmd = [A |-> cmd.A, B |-> cmd.B, op |-> cmd.op]
  BY <1>2 DEF Command
<1>4. /\ MulFlagUp' = MulFlagUp /\ NoFlagUp' = NoFlagUp /\ ALUTypeOK' = ALUTypeOK
      /\ Unscored' = Unscored
  BY <1>1, SameRegisters
<1>5. Pins' = cmd
  BY <1>1, <1>3 DEF Pins, MonitoredCommand
<1>6. cmd.op # no_op => cmd.op \in RealOp
  <2>1. cmd.op # rst_op
    BY <1>1 DEF BenchInv, Items
  <2>2. QED
    BY <1>3, <2>1 DEF operation_t, RealOp
<1>7. TypeOK'
  <2>1. pc' \in {Ready} \cup UNION {EndsWait[s] : s \in DOMAIN EndsWait}
    <3>1. pc' \in Place
      BY <1>1 DEF Place
    <3>2. QED
      BY <3>1, Places
  <2>2. todo' \subseteq {"cmd_mon", "res_mon", "rst_mon", "alu", "driver"}
    BY <1>1, DriversInstant
  <2>3. TypeOK
    BY DEF BenchInv
  <2>4. QED
    BY <1>1, <1>3, <1>4, <2>1, <2>2, <2>3 DEF TypeOK
<1>8. Schedule' /\ Resets' /\ Rearmed'
  BY <1>1, <1>2 DEF BenchInv, Schedule, Resets, Rearmed, DriverRuns
<1>9. Items'
  BY <1>1, <1>2, <1>5, <1>6 DEF Items, ReturnsTheResult, BenchInv
<1>10. (Quiet \/ Driven)'
  <2>1. CASE cmd.op = no_op
    BY <1>1, <1>2, <1>4, <2>1 DEF Quiet
  <2>2. CASE cmd.op # no_op
    BY <1>1, <1>2, <1>4, <2>2 DEF Quiet, Driven, DriverRuns
  <2>3. QED
    BY <2>1, <2>2
<1>11. QED
  BY <1>1, <1>7, <1>8, <1>9, <1>10 DEF BenchInv

\* What Return returns is a 16-bit number.
LEMMA ResultIsShort == TypeOK => result \in Short
<1>1. TypeOK => ALUTypeOK
  BY DEF TypeOK
<1>2. QED
  BY <1>1, PinsAreBytes, ALUresultType DEF result

\* A no_op ends as it began: nothing is up, and the next command counts as new.
LEMMA FinishNoOpKeeps ==
  ASSUME BenchInv, FinishNoOp
  PROVE  BenchInv'
<1>1. /\ UNCHANGED <<A, B, op_set, rst_n, rst_n_before, new_command, cmd, cmd_fifo,
                     verdict, slot, aluVars>>
      /\ pc = NopTail /\ pc' = Ready /\ start' = FALSE /\ alu_result' = result
      /\ DriverRuns /\ todo' = todo \ {"driver"}
  BY DEF FinishNoOp, Return, boardVars
<1>2. slot = "after"
  BY <1>1, DriversInstant
<1>3. Quiet
  BY <1>1 DEF BenchInv, Driven, Working, Answered
<1>4. new_command
  BY <1>1, <1>3 DEF Quiet
<1>5. rst_n /\ cmd \in Command /\ cmd.op = no_op
  BY <1>1 DEF BenchInv, Resets, Items
<1>6. TypeOK'
  <2>1. TypeOK
    BY DEF BenchInv
  <2>2. pc' \in Place
    BY <1>1 DEF Place
  <2>3. todo' \subseteq {"cmd_mon", "res_mon", "rst_mon", "alu", "driver"}
    BY <1>1, DriversInstant
  <2>4. alu_result' \in Short
    BY <1>1, <2>1, ResultIsShort
  <2>5. cmd' \in Command \cup {NoCommand} /\ start' \in BOOLEAN /\ rst_n' \in BOOLEAN
    BY <1>1, <2>1 DEF TypeOK
  <2>6. QED
    BY <1>1, <2>1, <2>2, <2>3, <2>4, <2>5, DriverTypes
<1>7. Schedule' /\ Resets' /\ Rearmed'
  BY <1>1, <1>2, <1>4, <1>5 DEF BenchInv, Schedule, Resets, Rearmed, DriverRuns
<1>8. Items'
  <2>1. cmd.op \notin RealOp
    BY <1>5 DEF RealOp, no_op, add_op, and_op, xor_op, mul_op
  <2>2. QED
    BY <1>1, <2>1 DEF Items, ReturnsTheResult
<1>9. Quiet'
  <2>1. Unscored' = Unscored /\ NoFlagUp' = NoFlagUp
    BY <1>1, SameView
  <2>2. QED
    BY <1>1, <1>3, <2>1 DEF Quiet
<1>10. QED
  BY <1>1, <1>6, <1>7, <1>8, <1>9 DEF BenchInv

\* While an operation is worked on, done comes with its result.
LEMMA DoneShowsTheResult ==
  ASSUME TypeOK, Working, done, op_set \in RealOp
  PROVE  result = predict_result(Pins)
<1>1. ALUdone(op_set) /\ (op_set = mul_op => ProductAhead(A, B))
  BY DEF Working, done
<1>2. ALUresult(A, B, op_set) = predict_result([A |-> A, B |-> B, op |-> op_set])
  BY <1>1, DoneMeansResult, PinsAreBytes
<1>3. QED
  BY <1>2 DEF result, Pins, MonitoredCommand

\* The driver's look at done, at a negedge, finds an operation worked on; it either
\* returns its result or waits on.
LEMMA PollDoneKeeps ==
  ASSUME BenchInv, PollDone
  PROVE  BenchInv'
<1>1. /\ UNCHANGED <<A, B, op_set, rst_n, rst_n_before, new_command, cmd, cmd_fifo,
                     verdict, slot, aluVars>>
      /\ pc = DoneWait
      /\ DriverRuns /\ todo' = todo \ {"driver"}
  BY DEF PollDone, boardVars
<1>2. slot = "negedge"
  BY <1>1, DriversInstant
<1>3. Working
  BY <1>1, <1>2 DEF BenchInv, Quiet, Driven, Answered
<1>4. rst_n /\ cmd \in Command /\ Pins = cmd /\ cmd.op \in RealOp
  BY <1>1 DEF BenchInv, Resets, Items
<1>5. op_set \in RealOp
  BY <1>4 DEF Pins, MonitoredCommand
<1>6. /\ done' = done /\ result' = result /\ Pins' = Pins /\ MulFlagUp' = MulFlagUp
      /\ AwaitsPins' = AwaitsPins /\ iMul!Products' = iMul!Products
      /\ UNCHANGED <<done3, done2, done1, multi_cycle_done>>
  BY <1>1, SameView DEF aluVars
<1>7. TypeOK
  BY DEF BenchInv
<1>8. todo' \subseteq {"cmd_mon", "res_mon", "rst_mon", "alu", "driver"}
  BY <1>1, DriversInstant
<1>9. CASE done
  <2>1. pc' = Ready /\ start' = FALSE /\ alu_result' = result
    BY <1>9 DEF PollDone, Return
  <2>2. result = predict_result(Pins)
    BY <1>3, <1>5, <1>7, <1>9, DoneShowsTheResult
  <2>3. TypeOK'
    <3>1. pc' \in Place
      BY <2>1 DEF Place
    <3>2. alu_result' \in Short
      BY <1>7, <2>1, ResultIsShort
    <3>3. cmd' \in Command \cup {NoCommand} /\ start' \in BOOLEAN /\ rst_n' \in BOOLEAN
      BY <1>1, <1>7, <2>1 DEF TypeOK
    <3>4. QED
      BY <1>1, <1>7, <1>8, <3>1, <3>2, <3>3, DriverTypes
  <2>4. Schedule' /\ Resets' /\ Rearmed'
    BY <1>1, <1>2, <1>4, <2>1 DEF BenchInv, Schedule, Resets, Rearmed, DriverRuns
  <2>5. Items'
    BY <1>1, <1>4, <2>1, <2>2 DEF Items, ReturnsTheResult
  <2>6. Answered'
    <3>1. op_set # mul_op => ~MulFlagUp
      BY <1>3 DEF Working
    <3>2. AwaitsPins
      BY <1>3 DEF Working
    <3>3. QED
      BY <1>1, <1>2, <1>5, <1>6, <1>9, <2>1, <2>2, <3>1, <3>2 DEF Answered, DriverRuns
  <2>7. QED
    BY <1>1, <2>3, <2>4, <2>5, <2>6 DEF BenchInv
<1>10. CASE ~done
  <2>1. UNCHANGED <<start, alu_result, pc>>
    BY <1>10 DEF PollDone
  <2>2. TypeOK'
    <3>1. pc' \in Place
      BY <1>1, <2>1 DEF Place
    <3>2. /\ cmd' \in Command \cup {NoCommand} /\ alu_result' \in Short
          /\ start' \in BOOLEAN /\ rst_n' \in BOOLEAN
      BY <1>1, <1>7, <2>1 DEF TypeOK
    <3>3. QED
      BY <1>1, <1>7, <1>8, <3>1, <3>2, DriverTypes
  <2>3. Schedule' /\ Resets'
    BY <1>1, <1>2, <1>4, <2>1 DEF BenchInv, Schedule, Resets, DriverRuns
  <2>4. Rearmed'
    BY <1>3, <2>1 DEF Rearmed, Working
  <2>5. Items'
    BY <1>1, <1>4, <1>6, <2>1 DEF Items, ReturnsTheResult
  <2>6. Working'
    BY <1>1, <1>3, <1>6, <1>10, <2>1 DEF Working
  <2>7. QED
    BY <1>1, <2>2, <2>3, <2>4, <2>5, <2>6 DEF BenchInv
<1>11. QED
  BY <1>9, <1>10
-----------------------------------------------------------------------------
\* The monitors run at a posedge before the ALU, and see done only of an operation
\* the driver has returned.
LEMMA MonitorsInstant ==
  ASSUME BenchInv, NEW m \in {"cmd_mon", "rst_mon", "res_mon"}, m \in todo
  PROVE  /\ slot = "posedge" /\ "alu" \in todo
         /\ ~Answered => ~done
<1>1. slot = "posedge" /\ "alu" \in todo
  BY DEF BenchInv, Schedule
<1>2. NoFlagUp => ~done
  BY DEF NoFlagUp, MulFlagUp, done, ALUdone
<1>3. Quiet \/ Driven => ~done
  BY <1>2 DEF Quiet, Driven
<1>4. Working => ~done
  BY <1>1 DEF Working
<1>5. QED
  BY <1>1, <1>3, <1>4 DEF BenchInv

\* The conditions a monitor's step leaves alone, whatever it does to the FIFO.
LEMMA MonitorKeeps ==
  ASSUME BenchInv,
         NEW m \in {"cmd_mon", "rst_mon", "res_mon"}, m \in todo, todo' = todo \ {m},
         UNCHANGED <<A, B, op_set, start, rst_n, rst_n_before, pc, cmd, alu_result, slot,
                     aluVars>>,
         cmd_fifo' \in Fifo, new_command' \in BOOLEAN, verdict' = "ok"
  PROVE  /\ TypeOK' /\ Schedule' /\ Resets' /\ Items'
         /\ done' = done /\ result' = result /\ Pins' = Pins
         /\ MulFlagUp' = MulFlagUp /\ NoFlagUp' = NoFlagUp
         /\ iMul!Products' = iMul!Products
         /\ UNCHANGED <<done3, done2, done1, multi_cycle_done>>
<1>1. slot = "posedge" /\ "alu" \in todo
  BY MonitorsInstant
<1>2. TypeOK
  BY DEF BenchInv
<1>3. UNCHANGED <<mul_A, sum_reg_pair, sum_reg_quad, done3, done2, done1,
                  multi_cycle_done, single_cycle_done>>
  BY DEF aluVars
<1>4. done' = done
  BY <1>3 DEF done, ALUdone, Msb
<1>5. result' = result /\ iMul!Products' = iMul!Products
  BY <1>3 DEF result, ALUresult, Msb, Lsbs, iMul!result, iMul!Products
<1>6. Pins' = Pins
  BY DEF Pins, MonitoredCommand
<1>7. MulFlagUp' = MulFlagUp /\ NoFlagUp' = NoFlagUp
  BY <1>3 DEF MulFlagUp, NoFlagUp
<1>8. ALUTypeOK' = ALUTypeOK
  BY <1>3 DEF ALUTypeOK, iMul!MulTypeOK
<1>9. TypeOK'
  BY <1>2, <1>8 DEF TypeOK, Fifo, Entry
<1>10. Schedule' /\ Resets'
  BY <1>1 DEF BenchInv, Schedule, Resets, DriverRuns
<1>11. Items'
  BY <1>6 DEF BenchInv, Items, ReturnsTheResult
<1>12. QED
  BY <1>3, <1>4, <1>5, <1>6, <1>7, <1>9, <1>10, <1>11

\* What the command monitor writes fits the FIFO.
LEMMA AppendFits ==
  ASSUME TypeOK, NEW op \in operation_t
  PROVE  Append(cmd_fifo, MonitoredCommand(op)) \in Fifo
<1>1. MonitoredCommand(op) \in Entry
  BY DEF MonitoredCommand, Entry, TypeOK
<1>2. cmd_fifo \in Fifo
  BY DEF TypeOK, Fifo, Entry
<1>3. QED
  BY <1>1, <1>2 DEF Fifo

\* The command monitor writes an operation once, which makes it worked on; a no_op
\* it may write again leaves no trace.
LEMMA CommandMonitorKeeps ==
  ASSUME BenchInv, CommandMonitor
  PROVE  BenchInv'
<1>1. /\ UNCHANGED <<A, B, op_set, start, rst_n, rst_n_before, pc, cmd, alu_result,
                     verdict, slot, aluVars>>
      /\ "cmd_mon" \in todo /\ todo' = todo \ {"cmd_mon"}
  BY DEF CommandMonitor, pinVars, driverVars
<1>2. /\ ~start => new_command' = TRUE /\ cmd_fifo' = cmd_fifo
      /\ start /\ new_command => /\ cmd_fifo' = Append(cmd_fifo, Pins)
                                 /\ new_command' = (op_set = no_op)
      /\ start /\ ~new_command => UNCHANGED <<cmd_fifo, new_command>>
  BY DEF CommandMonitor, Pins
<1>3. slot = "posedge" /\ "alu" \in todo /\ (~Answered => ~done)
  BY <1>1, MonitorsInstant
<1>4. TypeOK /\ cmd_fifo \in Fifo /\ op_set \in operation_t /\ verdict = "ok"
      /\ new_command \in BOOLEAN
  BY DEF BenchInv, TypeOK, Fifo, Entry
<1>5. cmd_fifo' \in Fifo
  <2>1. Append(cmd_fifo, Pins) \in Fifo
    BY <1>4, AppendFits DEF Pins
  <2>2. QED
    BY <1>2, <1>4, <2>1
<1>6. new_command' \in BOOLEAN
  <2>1. (op_set = no_op) \in BOOLEAN
    OBVIOUS
  <2>2. QED
    BY <1>2, <1>4, <2>1
<1>7. /\ TypeOK' /\ Schedule' /\ Resets' /\ Items'
      /\ done' = done /\ result' = result /\ Pins' = Pins
      /\ MulFlagUp' = MulFlagUp /\ NoFlagUp' = NoFlagUp
      /\ iMul!Products' = iMul!Products
      /\ UNCHANGED <<done3, done2, done1, multi_cycle_done>>
  BY <1>1, <1>4, <1>5, <1>6, MonitorKeeps
<1>8. Rearmed'
  BY <1>1, <1>2 DEF Rearmed
<1>9. cmd_fifo' = cmd_fifo => Unscored' = Unscored /\ AwaitsPins' = AwaitsPins
  <2>1. cmd_fifo' = cmd_fifo => Unscored' = Unscored
    BY DEF Unscored, Real
  <2>2. QED
    BY <1>7, <2>1 DEF AwaitsPins
<1>10. (Quiet \/ Driven \/ Working \/ Answered)'
  <2>1. ASSUME Quiet PROVE Quiet'
    <3>1. CASE ~start
      BY <1>1, <1>2, <1>7, <1>9, <2>1, <3>1 DEF Quiet
    <3>2. CASE start
      <4>1. new_command /\ op_set = no_op /\ pc \in {NopWait, NopTail}
        BY <2>1, <3>2 DEF Quiet
      <4>2. Pins.op \notin RealOp
        <5>1. Pins.op = no_op
          BY <4>1 DEF Pins, MonitoredCommand
        <5>2. QED
          BY <5>1 DEF RealOp, no_op, add_op, and_op, xor_op, mul_op
      <4>3. Unscored' = Unscored
        BY <1>2, <1>4, <3>2, <4>1, <4>2, AppendUnreal
      <4>4. new_command'
        BY <1>2, <3>2, <4>1
      <4>5. QED
        BY <1>1, <1>7, <2>1, <3>2, <4>1, <4>3, <4>4 DEF Quiet
    <3>3. QED
      BY <1>4, <3>1, <3>2
  <2>2. ASSUME Driven PROVE Working'
    <3>1. pc = DoneWait /\ start /\ new_command /\ NoFlagUp /\ Unscored = {}
      BY <2>2 DEF Driven
    <3>2. Pins = cmd /\ cmd.op \in RealOp
      BY <3>1 DEF BenchInv, Items
    <3>3. op_set = cmd.op
      BY <3>2 DEF Pins, MonitoredCommand
    <3>4. op_set # no_op
      BY <3>2, <3>3 DEF RealOp, no_op, add_op, and_op, xor_op, mul_op
    <3>5. ~new_command'
      BY <1>2, <3>1, <3>4
    <3>6. AwaitsPins'
      <4>1. \E i \in 1..Len(cmd_fifo') : Unscored' = {i} /\ cmd_fifo'[i] = Pins
        BY <1>2, <1>4, <3>1, <3>2, AppendReal
      <4>2. QED
        BY <1>7, <4>1 DEF AwaitsPins
    <3>7. ~done'
      BY <1>7, <3>1 DEF NoFlagUp, MulFlagUp, done, ALUdone
    <3>8. ~done3' /\ ~done2' /\ ~done1' /\ ~multi_cycle_done' /\ ~MulFlagUp'
      BY <1>7, <3>1 DEF NoFlagUp, MulFlagUp
    <3>9. QED
      BY <1>1, <3>1, <3>5, <3>6, <3>7, <3>8 DEF Working
  <2>3. ASSUME Working PROVE Working'
    <3>1. start /\ ~new_command
      BY <2>3 DEF Working
    <3>2. ~done'
      BY <1>3, <1>7, <2>3 DEF Working
    <3>3. UNCHANGED <<cmd_fifo, new_command>>
      BY <1>2, <3>1
    <3>4. QED
      BY <1>1, <1>7, <1>9, <2>3, <3>2, <3>3 DEF Working
  <2>4. ASSUME Answered PROVE Answered'
    <3>1. ~start
      BY <2>4 DEF Answered
    <3>2. cmd_fifo' = cmd_fifo
      BY <1>2, <3>1
    <3>3. /\ slot' = "posedge" /\ "alu" \in todo'
          /\ "res_mon" \in todo' <=> "res_mon" \in todo
          /\ "driver" \in todo' <=> "driver" \in todo
      BY <1>1, <1>3
    <3>4. /\ ~start' /\ op_set' \in RealOp /\ done' /\ result' = predict_result(Pins')
          /\ op_set' # mul_op => ~MulFlagUp'
      BY <1>1, <1>7, <2>4 DEF Answered
    <3>5. pc' \in {Ready, OpWait, RstWait} \/ (pc' = RstHold /\ "driver" \notin todo')
      BY <1>1, <1>3, <2>4, <3>3 DEF Answered, DriverRuns
    <3>6. IF "res_mon" \in todo' THEN AwaitsPins' ELSE Unscored' = {}
      <4>1. IF "res_mon" \in todo THEN AwaitsPins ELSE Unscored = {}
        BY <1>3, <2>4 DEF Answered
      <4>2. Unscored' = Unscored /\ (AwaitsPins => AwaitsPins')
        BY <1>9, <3>2
      <4>3. QED
        BY <3>3, <4>1, <4>2
    <3>7. QED
      BY <3>3, <3>4, <3>5, <3>6 DEF Answered, DriverRuns
  <2>5. QED
    BY <2>1, <2>2, <2>3, <2>4 DEF BenchInv
<1>11. QED
  BY <1>1, <1>4, <1>7, <1>8, <1>10 DEF BenchInv

\* A reset the monitor writes is no operation: every phase survives it.
LEMMA ResetMonitorKeeps ==
  ASSUME BenchInv, ResetMonitor
  PROVE  BenchInv'
<1>1. /\ UNCHANGED <<A, B, op_set, start, rst_n, rst_n_before, new_command, pc, cmd,
                     alu_result, verdict, slot, aluVars>>
      /\ "rst_mon" \in todo /\ todo' = todo \ {"rst_mon"}
      /\ cmd_fifo' = Append(cmd_fifo, MonitoredCommand(rst_op))
  BY DEF ResetMonitor, pinVars, driverVars
<1>2. slot = "posedge" /\ "alu" \in todo /\ (~Answered => ~done)
  BY <1>1, MonitorsInstant
<1>3. TypeOK /\ cmd_fifo \in Fifo /\ verdict = "ok" /\ new_command \in BOOLEAN
  BY DEF BenchInv, TypeOK, Fifo, Entry
<1>4. cmd_fifo' \in Fifo
  BY <1>1, <1>3, AppendFits DEF operation_t
<1>5. /\ TypeOK' /\ Schedule' /\ Resets' /\ Items'
      /\ done' = done /\ result' = result /\ Pins' = Pins
      /\ MulFlagUp' = MulFlagUp /\ NoFlagUp' = NoFlagUp
      /\ iMul!Products' = iMul!Products
      /\ UNCHANGED <<done3, done2, done1, multi_cycle_done>>
  BY <1>1, <1>3, <1>4, MonitorKeeps
<1>6. /\ Unscored' = Unscored
      /\ \A i \in Unscored : cmd_fifo'[i] = cmd_fifo[i]
      /\ Len(cmd_fifo') = Len(cmd_fifo) + 1
  <2>1. MonitoredCommand(rst_op).op \notin RealOp
    BY DEF MonitoredCommand, RealOp, rst_op, add_op, and_op, xor_op, mul_op
  <2>2. QED
    BY <1>1, <1>3, <2>1, AppendUnreal
<1>7. AwaitsPins => AwaitsPins'
  <2>1. SUFFICES ASSUME AwaitsPins
                 PROVE  AwaitsPins'
    OBVIOUS
  <2>2. PICK n \in 1..Len(cmd_fifo) : Unscored = {n} /\ cmd_fifo[n] = Pins
    BY <2>1 DEF AwaitsPins
  <2>3. n \in 1..Len(cmd_fifo')
    BY <1>3, <1>6 DEF Fifo
  <2>4. QED
    BY <1>5, <1>6, <2>2, <2>3 DEF AwaitsPins
<1>8. Rearmed'
  BY <1>1 DEF BenchInv, Rearmed, DriverRuns
<1>9. (Quiet \/ Driven \/ Working \/ Answered)'
  <2>1. ASSUME Quiet PROVE Quiet'
    BY <1>1, <1>5, <1>6, <2>1 DEF Quiet
  <2>2. ASSUME Driven PROVE Driven'
    BY <1>1, <1>5, <1>6, <2>2 DEF Driven, DriverRuns
  <2>3. ASSUME Working PROVE Working'
    <3>1. ~done'
      BY <1>2, <1>5, <2>3 DEF Working
    <3>2. QED
      BY <1>1, <1>5, <1>7, <2>3, <3>1 DEF Working
  <2>4. ASSUME Answered PROVE Answered'
    <3>1. /\ slot' = "posedge" /\ "alu" \in todo'
          /\ "res_mon" \in todo' <=> "res_mon" \in todo
          /\ "driver" \in todo' <=> "driver" \in todo
      BY <1>1, <1>2
    <3>2. /\ ~start' /\ op_set' \in RealOp /\ done' /\ result' = predict_result(Pins')
          /\ op_set' # mul_op => ~MulFlagUp'
      BY <1>1, <1>5, <2>4 DEF Answered
    <3>3. pc' \in {Ready, OpWait, RstWait} \/ (pc' = RstHold /\ "driver" \notin todo')
      BY <1>1, <1>2, <2>4, <3>1 DEF Answered, DriverRuns
    <3>4. IF "res_mon" \in todo' THEN AwaitsPins' ELSE Unscored' = {}
      BY <1>2, <1>6, <1>7, <2>4, <3>1 DEF Answered
    <3>5. QED
      BY <3>1, <3>2, <3>3, <3>4 DEF Answered, DriverRuns
  <2>5. QED
    BY <2>1, <2>2, <2>3, <2>4 DEF BenchInv
<1>10. QED
  BY <1>1, <1>3, <1>5, <1>8, <1>9 DEF BenchInv

\* The result monitor finds done only when the scoreboard waits for the operation
\* on the pins, whose result it is.
LEMMA ResultMonitorKeeps ==
  ASSUME BenchInv, ResultMonitor
  PROVE  BenchInv'
<1>1. /\ UNCHANGED <<A, B, op_set, start, rst_n, rst_n_before, new_command, pc, cmd,
                     alu_result, slot, aluVars>>
      /\ "res_mon" \in todo /\ todo' = todo \ {"res_mon"}
      /\ IF done THEN Score(result) ELSE UNCHANGED <<cmd_fifo, verdict>>
  BY DEF ResultMonitor, pinVars, driverVars, boardVars
<1>2. slot = "posedge" /\ "alu" \in todo /\ (~Answered => ~done)
  BY <1>1, MonitorsInstant
<1>3. TypeOK /\ cmd_fifo \in Fifo /\ verdict = "ok" /\ new_command \in BOOLEAN
  BY DEF BenchInv, TypeOK, Fifo, Entry
<1>4. Answered => /\ done /\ AwaitsPins
                  /\ result = predict_result(Pins)
  BY <1>1 DEF Answered
<1>5. /\ cmd_fifo' \in Fifo /\ verdict' = "ok"
      /\ IF done THEN Answered /\ Unscored' = {} ELSE cmd_fifo' = cmd_fifo
  <2>1. CASE done
    BY <1>1, <1>2, <1>3, <1>4, <2>1, ScoreTheOne
  <2>2. CASE ~done
    BY <1>1, <1>3, <2>2
  <2>3. QED
    BY <2>1, <2>2
<1>6. /\ TypeOK' /\ Schedule' /\ Resets' /\ Items'
      /\ done' = done /\ result' = result /\ Pins' = Pins
      /\ MulFlagUp' = MulFlagUp /\ NoFlagUp' = NoFlagUp
      /\ iMul!Products' = iMul!Products
      /\ UNCHANGED <<done3, done2, done1, multi_cycle_done>>
  BY <1>1, <1>3, <1>5, MonitorKeeps
<1>7. Rearmed'
  BY <1>1 DEF BenchInv, Rearmed, DriverRuns
<1>8. (Quiet \/ Driven \/ Working \/ Answered)'
  <2>1. CASE ~done
    <3>1. Unscored' = Unscored /\ AwaitsPins' = AwaitsPins
      BY <1>5, <1>6, <2>1 DEF Unscored, Real, AwaitsPins
    <3>2. ASSUME Quiet PROVE Quiet'
      BY <1>1, <1>6, <3>1, <3>2 DEF Quiet
    <3>3. ASSUME Driven PROVE Driven'
      BY <1>1, <1>6, <3>1, <3>3 DEF Driven, DriverRuns
    <3>4. ASSUME Working PROVE Working'
      BY <1>1, <1>6, <2>1, <3>1, <3>4 DEF Working
    <3>5. QED
      BY <1>4, <2>1, <3>2, <3>3, <3>4 DEF BenchInv
  <2>2. CASE done
    <3>1. Answered /\ Unscored' = {}
      BY <1>5, <2>2
    <3>2. /\ slot' = "posedge" /\ "alu" \in todo' /\ "res_mon" \notin todo'
          /\ "driver" \in todo' <=> "driver" \in todo
      BY <1>1, <1>2
    <3>3. /\ ~start' /\ op_set' \in RealOp /\ done' /\ result' = predict_result(Pins')
          /\ op_set' # mul_op => ~MulFlagUp'
      BY <1>1, <1>6, <3>1 DEF Answered
    <3>4. pc' \in {Ready, OpWait, RstWait} \/ (pc' = RstHold /\ "driver" \notin todo')
      BY <1>1, <1>2, <3>1, <3>2 DEF Answered, DriverRuns
    <3>5. QED
      BY <3>1, <3>2, <3>3, <3>4 DEF Answered, DriverRuns
  <2>3. QED
    BY <2>1, <2>2
<1>9. QED
  BY <1>1, <1>5, <1>6, <1>7, <1>8 DEF BenchInv
-----------------------------------------------------------------------------
\* Nothing in the invariant looks beyond the variables.
LEMMA StutterKeeps ==
  ASSUME BenchInv, UNCHANGED vars
  PROVE  BenchInv'
<1>1. UNCHANGED <<slot, todo, rst_n_before, A, B, op_set, start, rst_n, new_command, pc,
                  cmd, alu_result, cmd_fifo, verdict, aluVars>>
  BY DEF vars, timeVars, pinVars, driverVars, boardVars
<1>2. /\ done' = done /\ result' = result
      /\ Unscored' = Unscored /\ Pins' = Pins /\ AwaitsPins' = AwaitsPins
      /\ iMul!Products' = iMul!Products
      /\ MulFlagUp' = MulFlagUp /\ NoFlagUp' = NoFlagUp /\ ALUTypeOK' = ALUTypeOK
      /\ UNCHANGED <<done3, done2, done1, multi_cycle_done>>
  <2>1. UNCHANGED <<A, B, op_set, cmd_fifo, aluVars>>
    BY <1>1
  <2>2. UNCHANGED <<done3, done2, done1, multi_cycle_done>>
    BY <1>1 DEF aluVars
  <2>3. /\ done' = done /\ result' = result
        /\ Unscored' = Unscored /\ Pins' = Pins /\ AwaitsPins' = AwaitsPins
        /\ iMul!Products' = iMul!Products
        /\ MulFlagUp' = MulFlagUp /\ NoFlagUp' = NoFlagUp /\ ALUTypeOK' = ALUTypeOK
    BY ONLY <2>1, SameView
  <2>4. QED
    BY ONLY <2>2, <2>3
<1>3. TypeOK' /\ Schedule' /\ Resets' /\ Rearmed'
  <2>1. TypeOK'
    BY <1>1, <1>2 DEF BenchInv, TypeOK
  <2>2. Schedule'
    BY <1>1, <1>2 DEF BenchInv, Schedule, DriverRuns
  <2>3. Resets'
    BY <1>1, <1>2 DEF BenchInv, Resets
  <2>4. Rearmed'
    BY <1>1, <1>2 DEF BenchInv, Rearmed, DriverRuns
  <2>5. QED
    BY <2>1, <2>2, <2>3, <2>4
<1>4. Items'
  BY <1>1, <1>2 DEF BenchInv, Items, ReturnsTheResult
<1>5. /\ Quiet => Quiet'
      /\ Driven => Driven'
      /\ Working => Working'
      /\ Answered => Answered'
  BY <1>1, <1>2 DEF Quiet, Driven, Working, Answered, DriverRuns
<1>6. QED
  BY <1>1, <1>3, <1>4, <1>5 DEF BenchInv

\* Every step of the bench keeps the invariant.
LEMMA BenchStep == BenchInv /\ [Next]_vars => BenchInv'
<1> SUFFICES ASSUME BenchInv, [Next]_vars
             PROVE  BenchInv'
  OBVIOUS
<1>1. CASE NextInstant
  BY <1>1, NextInstantKeeps
<1>2. CASE ClockALU
  BY <1>2, ClockALUKeeps
<1>3. CASE \E c \in Command : GetItem(c)
  BY <1>3, GetItemKeeps
<1>4. CASE Driver
  BY <1>4, PullResetKeeps, AwaitEdgeKeeps, ReleaseResetKeeps, DriveOpKeeps,
     FinishNoOpKeeps, PollDoneKeeps DEF Driver
<1>5. CASE CommandMonitor
  BY <1>5, CommandMonitorKeeps
<1>6. CASE ResetMonitor
  BY <1>6, ResetMonitorKeeps
<1>7. CASE ResultMonitor
  BY <1>7, ResultMonitorKeeps
<1>8. CASE UNCHANGED vars
  BY <1>8, StutterKeeps
<1>9. QED
  BY <1>1, <1>2, <1>3, <1>4, <1>5, <1>6, <1>7, <1>8 DEF Next

\* The phases of an operation, with what the flags, the FIFO and the item are in each
\* of them, hold throughout, for commands of any bytes and in any order of the
\* processes (ALU_BFM.sv 39-88).
THEOREM BenchAlwaysInPhase == Spec => []BenchInv
<1>1. QED
  BY BenchInit, BenchStep, PTL DEF Spec

\* Every signal and register of the bench keeps its type; results are 16 bits wide.
THEOREM BenchTypes == Spec => []TypeOK
<1>1. BenchInv => TypeOK
  BY DEF BenchInv
<1>2. QED
  BY <1>1, BenchAlwaysInPhase, PTL

\* No order of the bench's processes makes the scoreboard report an error of a
\* correct ALU: every result finds its own command (scoreboard.svh 32-50).
THEOREM ScoreboardIsSound == Spec => []NeverBlamesTheALU
<1>1. BenchInv => NeverBlamesTheALU
  BY DEF BenchInv, NeverBlamesTheALU
<1>2. QED
  BY <1>1, BenchAlwaysInPhase, PTL

\* At most one operation waits for its result, the one on the pins: none is
\* monitored twice while start is held (ALU_BFM.sv 70-78).
THEOREM NoneIsMonitoredTwice == Spec => []OneCommandInFlight
<1>1. BenchInv => OneCommandInFlight
  <2>1. ASSUME BenchInv PROVE Unscored = {} \/ AwaitsPins
    BY <2>1 DEF BenchInv, Quiet, Driven, Working, Answered
  <2>2. AwaitsPins => OneCommandInFlight
    BY DEF AwaitsPins, OneCommandInFlight, Pins
  <2>3. Unscored = {} => OneCommandInFlight
    BY DEF OneCommandInFlight
  <2>4. QED
    BY <2>1, <2>2, <2>3
<1>2. QED
  BY <1>1, BenchAlwaysInPhase, PTL

\* send_op returns each operation's own result, for all operands (ALU_BFM.sv 39-68).
THEOREM SendOpReturnsTheResult == Spec => []ReturnsTheResult
<1>1. BenchInv => ReturnsTheResult
  BY DEF BenchInv, Items
<1>2. QED
  BY <1>1, BenchAlwaysInPhase, PTL

\* The multiplexer of done never switches under a raised flip-flop: an operation is
\* driven only after the flags of the last one have fallen (ALU.sv 35-39).
THEOREM DoneIsNeverStale == Spec => SwitchesOnlyWhenIdle
<1> DEFINE Switch == <<A, B, op_set>>' # <<A, B, op_set>>
           Idle == ~(done3 \/ done2 \/ done1 \/ multi_cycle_done \/ single_cycle_done)
<1>1. BenchInv /\ [Next]_vars => [Switch => Idle]_vars
  <2> SUFFICES ASSUME BenchInv, Next, Switch
               PROVE  Idle
    OBVIOUS
  <2>1. CASE DriveOp
    BY <2>1, DriveFromQuiet DEF Quiet, NoFlagUp, MulFlagUp
  <2>2. CASE ~DriveOp
    <3>1. UNCHANGED <<A, B, op_set>>
      BY <2>2 DEF Next, NextInstant, ClockALU, GetItem, Driver, PullReset, AwaitEdge,
                  ReleaseReset, FinishNoOp, PollDone, CommandMonitor, ResetMonitor,
                  ResultMonitor, timeVars, pinVars
    <3>2. QED
      BY <3>1
  <2>3. QED
    BY <2>1, <2>2
<1>2. QED
  BY <1>1, BenchAlwaysInPhase, PTL DEF Spec, SwitchesOnlyWhenIdle
-----------------------------------------------------------------------------
(* The bench implements AluService, step by step: BenchInv says which phase a step
   is taken in, and so which step of the service it is. *)

\* The service's operations and predictions are the bench's.
LEMMA SameService ==
  /\ Service!RealOp = RealOp /\ Service!no_op = no_op
  /\ \A c : Service!predict_result(c) = predict_result(c)
<1>1. Service!RealOp = RealOp /\ Service!no_op = no_op
  BY DEF Service!RealOp, RealOp, Service!no_op, no_op, Service!add_op, add_op,
         Service!and_op, and_op, Service!xor_op, xor_op, Service!mul_op, mul_op
<1>2. \A i, w : Service!Nibble(w, i) = Nibble(w, i)
  BY DEF Service!Nibble, Nibble
<1>3. \A w : Service!Val8(w) = Val8(w)
  BY <1>2 DEF Service!Val8, Val8, Service!Val4, Val4
<1>4. \A v, i : Service!BitOf(v, i) = BitOf(v, i)
  BY DEF Service!BitOf, BitOf, Service!Weight, Weight
<1>5. \A c : Service!Wire(c) = Wire(c)
  BY DEF Service!Wire, Wire
<1>6. \A a, b : Service!And8(a, b) = And8(a, b) /\ Service!Xor8(a, b) = Xor8(a, b)
  BY <1>3, <1>4, <1>5 DEF Service!And8, And8, Service!Xor8, Xor8
<1>7. \A c : Service!predict_result(c) = predict_result(c)
  BY <1>6 DEF Service!predict_result, predict_result, Service!add_op, add_op,
              Service!and_op, and_op, Service!xor_op, xor_op
<1>8. QED
  BY <1>1, <1>7

\* What the service's state depends on.
LEMMA SameServiceState ==
  ASSUME UNCHANGED <<pc, new_command, cmd, alu_result, cmd_fifo>>
  PROVE  UNCHANGED Service!serviceVars
<1>1. Unscored' = Unscored
  BY DEF Unscored, Real
<1>2. QED
  BY <1>1 DEF Service!serviceVars, Stage, Unchecked

\* At first nothing is accepted, answered or left to check.
LEMMA ServiceStarts == Init => Service!ServiceInit
<1> SUFFICES ASSUME Init
             PROVE  Service!ServiceInit
  OBVIOUS
<1>1. Unchecked = {}
  BY DEF Init, Unchecked, Unscored
<1>2. Stage = "none"
  BY DEF Init, Stage
<1>3. QED
  BY <1>1, <1>2 DEF Init, Service!ServiceInit, Service!Nothing

\* An item that get_next_item returns is accepted.
LEMMA GetItemAccepts ==
  ASSUME NEW c \in Command, GetItem(c)
  PROVE  Service!Accept(c)
<1>1. pc = Ready /\ pc' \in {RstWait, OpWait}
  BY DEF GetItem
<1>2. Stage = "none" /\ Stage' = "accepted"
  BY <1>1 DEF Stage
<1>3. UNCHANGED cmd_fifo
  BY DEF GetItem, boardVars
<1>4. Unchecked' = Unchecked
  BY <1>3 DEF Unchecked, Unscored, Real
<1>5. QED
  BY <1>2, <1>4 DEF Service!Accept, GetItem

\* The end of a reset skips it, once nothing is left to check.
LEMMA ReleaseSkips ==
  ASSUME BenchInv, ReleaseReset
  PROVE  Service!Skip
<1>1. pc = RstTail /\ pc' = Ready /\ UNCHANGED <<cmd, alu_result, cmd_fifo>>
  BY DEF ReleaseReset, boardVars
<1>2. Quiet
  BY <1>1 DEF BenchInv, Driven, Working, Answered
<1>3. cmd.op = rst_op
  BY <1>1 DEF BenchInv, Items
<1>4. Stage = "accepted" /\ Stage' = "none"
  BY <1>1 DEF Stage
<1>5. Unchecked = {} /\ Unchecked' = Unchecked
  BY <1>1, <1>2 DEF Quiet, Unchecked, Unscored, Real
<1>6. cmd.op \notin RealOp /\ cmd.op # no_op
  BY <1>3 DEF RealOp, rst_op, no_op, add_op, and_op, xor_op, mul_op
<1>7. QED
  BY <1>1, <1>4, <1>5, <1>6, SameService DEF Service!Skip, Service!Nothing

\* The end of a no_op skips it and returns what the multiplexer shows for it, 0.
LEMMA FinishSkips ==
  ASSUME BenchInv, FinishNoOp
  PROVE  Service!Skip
<1>1. /\ pc = NopTail /\ pc' = Ready /\ alu_result' = result
      /\ UNCHANGED <<cmd, cmd_fifo>>
  BY DEF FinishNoOp, Return, boardVars
<1>2. Quiet
  BY <1>1 DEF BenchInv, Driven, Working, Answered
<1>3. cmd.op = no_op /\ op_set = no_op
  BY <1>1, <1>2 DEF BenchInv, Items, Quiet
<1>4. Stage = "accepted" /\ Stage' = "none"
  BY <1>1 DEF Stage
<1>5. Unchecked = {} /\ Unchecked' = Unchecked
  BY <1>1, <1>2 DEF Quiet, Unchecked, Unscored, Real
<1>6. result = 0
  BY <1>3 DEF result, ALUresult, Msb, Lsbs, no_op
<1>7. cmd.op \notin RealOp
  BY <1>3 DEF RealOp, no_op, add_op, and_op, xor_op, mul_op
<1>8. QED
  BY <1>1, <1>3, <1>4, <1>5, <1>6, <1>7, SameService DEF Service!Skip, Service!Nothing

\* The operation the driver puts on the pins has not been seen yet.
LEMMA DriveIsHidden ==
  ASSUME BenchInv, DriveOp
  PROVE  UNCHANGED Service!serviceVars
<1>1. /\ pc = OpWait /\ pc' \in {NopWait, DoneWait}
      /\ UNCHANGED <<new_command, cmd, alu_result, cmd_fifo>>
  BY DEF DriveOp, boardVars
<1>2. new_command
  BY DriveFromQuiet
<1>3. Stage' = Stage
  BY <1>1, <1>2 DEF Stage
<1>4. Unchecked' = Unchecked
  BY <1>1 DEF Unchecked, Unscored, Real
<1>5. QED
  BY <1>1, <1>3, <1>4 DEF Service!serviceVars

\* The driver that finds done answers an operation seen before, with its result.
LEMMA PollAnswers ==
  ASSUME BenchInv, PollDone
  PROVE  Service!Answer \/ UNCHANGED Service!serviceVars
<1>1. pc = DoneWait /\ DriverRuns /\ UNCHANGED <<cmd, new_command, cmd_fifo>>
  BY DEF PollDone, boardVars
<1>2. slot = "negedge"
  BY <1>1, DriversInstant
<1>3. Working
  BY <1>1, <1>2 DEF BenchInv, Quiet, Driven, Answered
<1>4. Pins = cmd /\ op_set \in RealOp
  <2>1. Pins = cmd /\ cmd.op \in RealOp
    BY <1>1 DEF BenchInv, Items
  <2>2. QED
    BY <2>1 DEF Pins, MonitoredCommand
<1>5. Stage = "seen"
  BY <1>1, <1>3 DEF Working, Stage
<1>6. Unchecked' = Unchecked
  BY <1>1 DEF Unchecked, Unscored, Real
<1>7. CASE done
  <2>1. pc' = Ready /\ alu_result' = result
    BY <1>7 DEF PollDone, Return
  <2>2. Stage' = "none"
    BY <2>1 DEF Stage
  <2>3. result = predict_result(cmd)
    BY <1>3, <1>4, <1>7, DoneShowsTheResult DEF BenchInv
  <2>4. QED
    BY <1>1, <1>5, <1>6, <2>1, <2>2, <2>3, SameService DEF Service!Answer
<1>8. CASE ~done
  <2>1. UNCHANGED <<pc, alu_result>>
    BY <1>8 DEF PollDone
  <2>2. QED
    BY <1>1, <2>1, SameServiceState
<1>9. QED
  BY <1>7, <1>8

\* The command monitor lets the scoreboard see the operation on the pins, once.
LEMMA MonitorSees ==
  ASSUME BenchInv, CommandMonitor
  PROVE  Service!See \/ UNCHANGED Service!serviceVars
<1>1. /\ UNCHANGED <<pc, cmd, alu_result>>
      /\ "cmd_mon" \in todo
      /\ ~start => new_command' = TRUE /\ cmd_fifo' = cmd_fifo
      /\ start /\ new_command => /\ cmd_fifo' = Append(cmd_fifo, Pins)
                                 /\ new_command' = (op_set = no_op)
      /\ start /\ ~new_command => UNCHANGED <<cmd_fifo, new_command>>
  BY DEF CommandMonitor, Pins, driverVars
<1>2. cmd_fifo \in Fifo /\ start \in BOOLEAN /\ new_command \in BOOLEAN
  BY DEF BenchInv, TypeOK, Fifo, Entry
<1>3. CASE start /\ ~new_command
  BY <1>1, <1>3, SameServiceState
<1>4. CASE ~start
  <2>1. pc # DoneWait
    BY <1>4 DEF BenchInv, Quiet, Driven, Working, Answered
  <2>2. Stage' = Stage
    BY <1>1, <2>1 DEF Stage
  <2>3. Unchecked' = Unchecked
    BY <1>1, <1>4 DEF Unchecked, Unscored, Real
  <2>4. QED
    BY <1>1, <2>2, <2>3 DEF Service!serviceVars
<1>5. CASE start /\ new_command /\ Quiet
  <2>1. op_set = no_op /\ pc \in {NopWait, NopTail} /\ Unscored = {}
    BY <1>5 DEF Quiet
  <2>2. Pins.op \notin RealOp
    <3>1. Pins.op = no_op
      BY <2>1 DEF Pins, MonitoredCommand
    <3>2. QED
      BY <3>1 DEF RealOp, no_op, add_op, and_op, xor_op, mul_op
  <2>3. Unscored' = {}
    BY <1>1, <1>2, <1>5, <2>1, <2>2, AppendUnreal
  <2>4. Unchecked = {} /\ Unchecked' = {}
    BY <2>1, <2>3 DEF Unchecked
  <2>5. Stage' = Stage
    BY <1>1, <2>1 DEF Stage
  <2>6. QED
    BY <1>1, <2>4, <2>5 DEF Service!serviceVars
<1>6. CASE start /\ new_command /\ Driven
  <2>1. pc = DoneWait /\ Unscored = {}
    BY <1>6 DEF Driven
  <2>2. Pins = cmd /\ cmd.op \in RealOp
    BY <2>1 DEF BenchInv, Items
  <2>3. op_set # no_op
    BY <2>2 DEF Pins, MonitoredCommand, RealOp, no_op, add_op, and_op, xor_op, mul_op
  <2>4. Stage = "accepted" /\ Stage' = "seen"
    BY <1>1, <1>6, <2>1, <2>3 DEF Stage
  <2>5. PICK i \in 1..Len(cmd_fifo') : Unscored' = {i} /\ cmd_fifo'[i] = cmd
    BY <1>1, <1>2, <1>6, <2>1, <2>2, AppendReal
  <2>6. Unchecked = {} /\ Unchecked' = {cmd}
    BY <2>1, <2>5 DEF Unchecked
  <2>7. QED
    BY <1>1, <2>2, <2>4, <2>6, SameService DEF Service!See, Service!Nothing
<1>7. QED
  BY <1>2, <1>3, <1>4, <1>5, <1>6 DEF BenchInv, Working, Answered

\* A reset that is monitored is nothing to check.
LEMMA ResetIsHidden ==
  ASSUME BenchInv, ResetMonitor
  PROVE  UNCHANGED Service!serviceVars
<1>1. /\ UNCHANGED <<pc, new_command, cmd, alu_result>>
      /\ cmd_fifo' = Append(cmd_fifo, MonitoredCommand(rst_op))
  BY DEF ResetMonitor, driverVars
<1>2. cmd_fifo \in Fifo
  BY DEF BenchInv, TypeOK, Fifo, Entry
<1>3. MonitoredCommand(rst_op).op \notin RealOp
  BY DEF MonitoredCommand, RealOp, rst_op, add_op, and_op, xor_op, mul_op
<1>4. Unscored' = Unscored /\ \A i \in Unscored : cmd_fifo'[i] = cmd_fifo[i]
  BY <1>1, <1>2, <1>3, AppendUnreal
<1>5. Unchecked' = Unchecked
  BY <1>4 DEF Unchecked
<1>6. QED
  BY <1>1, <1>5 DEF Service!serviceVars, Stage

\* A result that reaches the scoreboard checks what was seen.
LEMMA ResultChecks ==
  ASSUME BenchInv, ResultMonitor
  PROVE  Service!Check \/ UNCHANGED Service!serviceVars
<1>1. /\ UNCHANGED <<pc, new_command, cmd, alu_result>>
      /\ "res_mon" \in todo
      /\ IF done THEN Score(result) ELSE UNCHANGED <<cmd_fifo, verdict>>
  BY DEF ResultMonitor, driverVars, boardVars
<1>2. CASE ~done
  BY <1>1, <1>2, SameServiceState
<1>3. CASE done
  <2>1. Answered
    BY <1>1, <1>3, MonitorsInstant
  <2>2. AwaitsPins /\ pc # DoneWait
    BY <1>1, <2>1 DEF Answered
  <2>3. cmd_fifo \in Fifo
    BY DEF BenchInv, TypeOK, Fifo, Entry
  <2>4. Unscored' = {}
    BY <1>1, <1>3, <2>2, <2>3, ScoreTheOne
  <2>5. Unchecked # {} /\ Unchecked' = {}
    BY <2>2, <2>4 DEF AwaitsPins, Unchecked
  <2>6. Stage # "seen" /\ Stage' = Stage
    BY <1>1, <2>2 DEF Stage
  <2>7. QED
    BY <1>1, <2>5, <2>6 DEF Service!Check, Service!Nothing
<1>4. QED
  BY <1>2, <1>3

\* Every step of the bench is one of the service, or none.
LEMMA ServiceStep == BenchInv /\ [Next]_vars => [Service!ServiceNext]_(Service!serviceVars)
<1> SUFFICES ASSUME BenchInv, [Next]_vars
             PROVE  Service!ServiceNext \/ UNCHANGED Service!serviceVars
  OBVIOUS
<1> USE DEF Service!ServiceNext, Service!Work
<1>1. CASE NextInstant \/ ClockALU \/ UNCHANGED vars
  <2>1. UNCHANGED <<pc, new_command, cmd, alu_result, cmd_fifo>>
    BY <1>1 DEF NextInstant, ClockALU, vars, driverVars, boardVars
  <2>2. QED
    BY <2>1, SameServiceState
<1>2. CASE \E c \in Command : GetItem(c)
  BY <1>2, GetItemAccepts
<1>3. CASE PullReset \/ AwaitEdge
  <2>1. /\ UNCHANGED <<new_command, cmd, alu_result, cmd_fifo>>
        /\ pc # Ready /\ pc # DoneWait /\ pc' # Ready /\ pc' # DoneWait
    BY <1>3 DEF PullReset, AwaitEdge, boardVars
  <2>2. Stage' = Stage
    BY <2>1 DEF Stage
  <2>3. Unchecked' = Unchecked
    BY <2>1 DEF Unchecked, Unscored, Real
  <2>4. QED
    BY <2>1, <2>2, <2>3 DEF Service!serviceVars
<1>4. CASE ReleaseReset
  BY <1>4, ReleaseSkips
<1>5. CASE FinishNoOp
  BY <1>5, FinishSkips
<1>6. CASE DriveOp
  BY <1>6, DriveIsHidden
<1>7. CASE PollDone
  BY <1>7, PollAnswers
<1>8. CASE CommandMonitor
  BY <1>8, MonitorSees
<1>9. CASE ResetMonitor
  BY <1>9, ResetIsHidden
<1>10. CASE ResultMonitor
  BY <1>10, ResultChecks
<1>11. QED
  BY <1>1, <1>2, <1>3, <1>4, <1>5, <1>6, <1>7, <1>8, <1>9, <1>10 DEF Next, Driver

\* The safety part of ImplementsService, for every set of byte operands: clock, pins,
\* pipeline and the order of the processes aside, the bench answers items one at a time,
\* each operation with its result, seen and checked once (ALU_BFM.sv 39-88,
\* driver.svh 20-29, scoreboard.svh 32-50).
THEOREM BenchImplementsService == Spec => Service!ServiceSafety
<1>1. QED
  BY ServiceStarts, ServiceStep, BenchAlwaysInPhase, PTL DEF Spec, Service!ServiceSafety
=============================================================================
