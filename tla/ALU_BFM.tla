------------------------------ MODULE ALU_BFM -------------------------------
(***************************************************************************)
(* The UVM bench of chapter 23 below the sequencer, closed around the ALU: *)
(* the clock, the task send_op run by the driver, the three always blocks  *)
(* that call the monitors, and the scoreboard (chapter 21 has the same     *)
(* interface, monitors and scoreboard; 16 and 18 the same signals).        *)
(*                                                                         *)
(* Time is the sequence of the instants at which something happens:        *)
(*   posedge   the clock rises (5, 15, 25, ... ns)                         *)
(*   after     one nanosecond later: the "#1" of send_op                   *)
(*   negedge   the clock falls (10, 20, ...)                               *)
(* At an instant the processes waiting for it, "todo", run one by one in   *)
(* any order; the ALU's nonblocking assignments come last.  A process that *)
(* is woken by another at the same instant is added to todo.               *)
(***************************************************************************)
EXTENDS ALU, ALU_pkg, Sequences

CONSTANTS Operand,        \* the operands commands are made of
          FifoBound       \* no_op and rst_op commands are only issued while the
                          \* scoreboard's unbounded FIFO is shorter than this

ASSUME BFMAssumption == Operand \subseteq Byte /\ FifoBound \in Nat \ {0}

VARIABLES
  slot, todo,                              \* the instant, who still has to run
  A, B, op_set, start, rst_n,              \* the signals of the interface
  rst_n_before,                            \* rst_n when the instant began
  new_command,                             \* of the command monitor's block
  pc, cmd, alu_result,                     \* the driver in send_op
  cmd_fifo, verdict                        \* the scoreboard

timeVars   == <<slot, todo, rst_n_before>>
pinVars    == <<A, B, op_set, start>>
driverVars == <<pc, cmd, alu_result>>
boardVars  == <<cmd_fifo, verdict>>

vars == <<timeVars, pinVars, rst_n, new_command, driverVars, boardVars, aluVars>>

done == ALUdone(op_set)
result == ALUresult(A, B, op_set)

Command == [A : Operand, B : Operand, op : operation_t]
NoCommand == [A |-> 0, B |-> 0, op |-> -1]       \* cmd before the first item

\* Where the driver is: without an item, or at one of the waits of send_op.
Ready   == "ready"
OpWait  == "negedge to drive"         \* @(negedge clk), then drive the operation
NopWait == "no_op posedge"            \* @(posedge clk)
NopTail == "no_op #1"                 \* #1, then drop start
DoneWait == "negedge for done"        \* do @(negedge clk) while (done == 0)
RstWait == "rst_op posedge"           \* @(posedge clk), then pull rst_n
RstHold == "rst_op second posedge"    \* @(posedge clk)
RstTail == "rst_op #1"                \* #1, then release rst_n

\* The instant that follows, and the waits of the driver that an instant ends.
NextSlot == [posedge |-> "after", after |-> "negedge", negedge |-> "posedge"]
EndsWait == [posedge |-> {NopWait, RstWait, RstHold},
             after   |-> {NopTail, RstTail},
             negedge |-> {OpWait, DoneWait}]

\* The processes that run at an instant of kind s.
Woken(s) ==
  (IF s = "posedge" THEN {"cmd_mon", "res_mon", "alu"} ELSE {})
    \cup (IF pc \in EndsWait[s] THEN {"driver"} ELSE {})

Init ==
  /\ slot = "negedge" /\ todo = {}         \* time 0: the clock is low
  /\ A = 0 /\ B = 0 /\ op_set = no_op /\ start = FALSE
  /\ rst_n = FALSE /\ rst_n_before = FALSE
  /\ new_command = FALSE
  /\ pc = Ready /\ cmd = NoCommand /\ alu_result = 0
  /\ cmd_fifo = <<>> /\ verdict = "ok"
  /\ ALUInit
-----------------------------------------------------------------------------
(* The clock and the ALU. *)

\* Everything that waits for this instant has run: the next one comes.
NextInstant ==
  /\ todo = {}
  /\ slot' = NextSlot[slot]
  /\ todo' = Woken(slot')
  /\ rst_n_before' = rst_n
  /\ UNCHANGED <<pinVars, rst_n, new_command, driverVars, boardVars, aluVars>>

\* The nonblocking assignments of the ALU's always_ff blocks.  When the driver
\* pulls rst_n at this edge, each block may have sampled it before or after.
ClockALU ==
  /\ todo = {"alu"}
  /\ todo' = {}
  /\ \E r \in [AlwaysFF -> {rst_n_before, rst_n}] :
       ALUPosedgeClk(A, B, start, op_set, r)
  /\ UNCHANGED <<slot, rst_n_before, pinVars, rst_n, new_command, driverVars, boardVars>>
-----------------------------------------------------------------------------
(* The driver: send_op. *)

\* The first item of every sequence the tests run is a reset.
FirstIsReset(c) == cmd = NoCommand => c.op = rst_op

\* get_next_item returns an item, at the instant item_done ended the last one
\* or, if there was none, later; send_op begins to wait.
GetItem(c) ==
  /\ pc = Ready /\ todo = {} /\ slot # "posedge"
  /\ FirstIsReset(c)
  /\ c.op \notin RealOp => Len(cmd_fifo) < FifoBound
  /\ cmd' = c
  /\ pc' = IF c.op = rst_op THEN RstWait ELSE OpWait
  /\ UNCHANGED <<timeVars, pinVars, rst_n, new_command, alu_result, boardVars, aluVars>>

DriverRuns == "driver" \in todo

PullReset ==
  /\ DriverRuns /\ pc = RstWait
  /\ rst_n' = FALSE
  /\ start' = FALSE
  /\ todo' = (todo \ {"driver"}) \cup (IF rst_n THEN {"rst_mon"} ELSE {})
  /\ pc' = RstHold
  /\ UNCHANGED <<slot, rst_n_before, A, B, op_set, new_command, cmd, alu_result,
                 boardVars, aluVars>>

\* An @(posedge clk) that is only followed by "#1".
AwaitEdge ==
  /\ DriverRuns /\ pc \in {RstHold, NopWait}
  /\ todo' = todo \ {"driver"}
  /\ pc' = IF pc = RstHold THEN RstTail ELSE NopTail
  /\ UNCHANGED <<slot, rst_n_before, pinVars, rst_n, new_command, cmd, alu_result,
                 boardVars, aluVars>>

\* MUTANT of ReleaseReset: it returns what the ALU shows.
ReleaseReset_Returns ==
  /\ DriverRuns /\ pc = RstTail
  /\ rst_n' = TRUE
  /\ todo' = todo \ {"driver"}
  /\ pc' = Ready
  /\ alu_result' = result
  /\ UNCHANGED <<slot, rst_n_before, pinVars, new_command, cmd, boardVars, aluVars>>

\* The output argument is not assigned: the static task returns the last one.
ReleaseReset ==
  /\ DriverRuns /\ pc = RstTail
  /\ rst_n' = TRUE
  /\ todo' = todo \ {"driver"}
  /\ pc' = Ready
  /\ UNCHANGED <<slot, rst_n_before, pinVars, new_command, cmd, alu_result,
                 boardVars, aluVars>>

DriveOp ==
  /\ DriverRuns /\ pc = OpWait
  /\ op_set' = cmd.op /\ A' = cmd.A /\ B' = cmd.B
  /\ start' = TRUE
  /\ todo' = todo \ {"driver"}
  /\ pc' = IF cmd.op = no_op THEN NopWait ELSE DoneWait
  /\ UNCHANGED <<slot, rst_n_before, rst_n, new_command, cmd, alu_result,
                 boardVars, aluVars>>

\* MUTANT of Return: start is not dropped.
Return_KeepsStart ==
  /\ UNCHANGED start
  /\ alu_result' = result
  /\ pc' = Ready

\* start = 0, alu_result = result, and item_done.
Return ==
  /\ start' = FALSE
  /\ alu_result' = result
  /\ pc' = Ready

FinishNoOp ==
  /\ DriverRuns /\ pc = NopTail
  /\ Return
  /\ todo' = todo \ {"driver"}
  /\ UNCHANGED <<slot, rst_n_before, A, B, op_set, rst_n, new_command, cmd,
                 boardVars, aluVars>>

\* MUTANT of PollDone: every operation taken for a single-cycle one.
PollDone_OneCycle ==
  /\ DriverRuns /\ pc = DoneWait
  /\ todo' = todo \ {"driver"}
  /\ Return
  /\ UNCHANGED <<slot, rst_n_before, A, B, op_set, rst_n, new_command, cmd,
                 boardVars, aluVars>>

PollDone ==
  /\ DriverRuns /\ pc = DoneWait
  /\ todo' = todo \ {"driver"}
  /\ IF done THEN Return ELSE UNCHANGED <<start, alu_result, pc>>
  /\ UNCHANGED <<slot, rst_n_before, A, B, op_set, rst_n, new_command, cmd,
                 boardVars, aluVars>>
-----------------------------------------------------------------------------
(* The monitors and the scoreboard. *)

\* The command monitor writes a command to the scoreboard's FIFO.
MonitoredCommand(op) == [A |-> A, B |-> B, op |-> op]

\* MUTANT of CommandMonitor: new_command is not taken down.
CommandMonitor_Repeats ==
  /\ "cmd_mon" \in todo
  /\ todo' = todo \ {"cmd_mon"}
  /\ IF ~start
     THEN new_command' = TRUE /\ UNCHANGED cmd_fifo
     ELSE /\ cmd_fifo' = Append(cmd_fifo, MonitoredCommand(op_set))
          /\ UNCHANGED new_command
  /\ UNCHANGED <<slot, rst_n_before, pinVars, rst_n, driverVars, verdict, aluVars>>

CommandMonitor ==
  /\ "cmd_mon" \in todo
  /\ todo' = todo \ {"cmd_mon"}
  /\ IF ~start
     THEN new_command' = TRUE /\ UNCHANGED cmd_fifo
     ELSE IF new_command
     THEN /\ cmd_fifo' = Append(cmd_fifo, MonitoredCommand(op_set))
          /\ new_command' = (op_set = no_op)
     ELSE UNCHANGED <<cmd_fifo, new_command>>
  /\ UNCHANGED <<slot, rst_n_before, pinVars, rst_n, driverVars, verdict, aluVars>>

\* always @(negedge rst_n)
ResetMonitor ==
  /\ "rst_mon" \in todo
  /\ todo' = todo \ {"rst_mon"}
  /\ cmd_fifo' = Append(cmd_fifo, MonitoredCommand(rst_op))
  /\ UNCHANGED <<slot, rst_n_before, pinVars, rst_n, new_command, driverVars, verdict,
                 aluVars>>

Real(s, i) == s[i].op \in RealOp

\* scoreboard.write: take commands up to the first that the ALU answers, and
\* compare; uvm_fatal when there is none.
Score(r) ==
  IF \E i \in 1..Len(cmd_fifo) : Real(cmd_fifo, i)
  THEN LET first == CHOOSE i \in 1..Len(cmd_fifo) :
                      /\ Real(cmd_fifo, i)
                      /\ \A j \in 1..(i - 1) : ~Real(cmd_fifo, j)
       IN  /\ cmd_fifo' = SubSeq(cmd_fifo, first + 1, Len(cmd_fifo))
           /\ verdict' = IF predict_result(cmd_fifo[first]) = r THEN verdict ELSE "failed"
  ELSE /\ cmd_fifo' = <<>>
       /\ verdict' = "fatal"

\* MUTANT of ResultMonitor: a result counts only while start is high.
ResultMonitor_WhileStart ==
  /\ "res_mon" \in todo
  /\ todo' = todo \ {"res_mon"}
  /\ IF done /\ start THEN Score(result) ELSE UNCHANGED boardVars
  /\ UNCHANGED <<slot, rst_n_before, pinVars, rst_n, new_command, driverVars, aluVars>>

ResultMonitor ==
  /\ "res_mon" \in todo
  /\ todo' = todo \ {"res_mon"}
  /\ IF done THEN Score(result) ELSE UNCHANGED boardVars
  /\ UNCHANGED <<slot, rst_n_before, pinVars, rst_n, new_command, driverVars, aluVars>>
-----------------------------------------------------------------------------
Driver ==
  \/ PullReset \/ AwaitEdge \/ ReleaseReset
  \/ DriveOp \/ FinishNoOp \/ PollDone

\* uvm_fatal ends the simulation.
Next ==
  /\ verdict # "fatal"
  /\ \/ NextInstant
     \/ ClockALU
     \/ \E c \in Command : GetItem(c)
     \/ Driver
     \/ CommandMonitor
     \/ ResetMonitor
     \/ ResultMonitor

\* The simulator always takes the next step; whether there is another item is
\* up to the sequences, so nothing is assumed of GetItem.
Simulate ==
  /\ verdict # "fatal"
  /\ NextInstant \/ ClockALU \/ Driver \/ CommandMonitor \/ ResetMonitor \/ ResultMonitor

Spec == Init /\ [][Next]_vars /\ WF_vars(Simulate)
-----------------------------------------------------------------------------
(* What is checked. *)

\* Every signal, process and register holds a value of its declared type, results
\* are unsigned 16-bit numbers, and operands are those of commands or the initial 0
\* (ALU_BFM.sv 10-19 and the registers of the ALU).
TypeOK ==
  /\ slot \in DOMAIN NextSlot
  /\ todo \subseteq {"cmd_mon", "res_mon", "rst_mon", "alu", "driver"}
  /\ A \in Operand \cup {0} /\ B \in Operand \cup {0} /\ op_set \in operation_t
  /\ start \in BOOLEAN /\ rst_n \in BOOLEAN /\ rst_n_before \in BOOLEAN
  /\ new_command \in BOOLEAN
  /\ pc \in {Ready} \cup UNION {EndsWait[s] : s \in DOMAIN EndsWait}
  /\ cmd \in Command \cup {NoCommand} /\ alu_result \in Short
  /\ cmd_fifo \in Seq([A : Operand \cup {0}, B : Operand \cup {0}, op : operation_t])
  /\ verdict \in {"ok", "failed", "fatal"}
  /\ ALUTypeOK

\* The commands in the FIFO that still wait for their result.
Unscored == {i \in 1..Len(cmd_fifo) : Real(cmd_fifo, i)}

\* The bench reports no error on a correct ALU, in any order of its processes:
\* no result reaches the scoreboard without a command before it (scoreboard.svh
\* 39, uvm_fatal) or is compared with another command's (47, uvm_error).
NeverBlamesTheALU == verdict = "ok"

\* The FIFO never holds two commands that wait for a result, and the one it
\* holds is the operation still on the pins: none is monitored twice while start
\* is held (ALU_BFM.sv 70-78), and none is overtaken by the next.
OneCommandInFlight ==
  \A i, j \in Unscored : i = j /\ cmd_fifo[i] = MonitoredCommand(op_set)

\* When send_op returns from an operation, its output argument is that
\* operation's result, not the previous one's (ALU_BFM.sv 60-65).  The Fibonacci
\* sequence computes its next operands from it.
ReturnsTheResult ==
  pc = Ready /\ cmd.op \in RealOp => alu_result = predict_result(cmd)

\* The operation on the pins changes only while no done flip-flop of the ALU is
\* up, of the selected or the other kind: done is never that of an operation
\* already over (ALU.sv 35-39, Multiplier8b.sv 95-98, ALU_BFM.sv 49-63).
SwitchesOnlyWhenIdle ==
  [][<<A, B, op_set>>' # <<A, B, op_set>>
       => ~(done3 \/ done2 \/ done1 \/ multi_cycle_done \/ single_cycle_done)]_vars

\* send_op terminates: the wait for done is not endless (ALU_BFM.sv 60-62).
EveryItemIsDone == pc # Ready ~> pc = Ready

\* Every command that reaches the scoreboard is scored, provided the clock runs
\* on: a result follows it (scoreboard.svh 32-50).
EveryCommandIsScored == Unscored # {} ~> Unscored = {}

\* The bench implements AluService: an operation is seen when the command monitor
\* has written it, which takes new_command down.
Stage == IF pc = Ready THEN "none"
         ELSE IF pc = DoneWait /\ ~new_command THEN "seen" ELSE "accepted"
Unchecked == {cmd_fifo[i] : i \in Unscored}

Service == INSTANCE AluService WITH
  stage <- Stage, item <- cmd, answer <- alu_result, unchecked <- Unchecked

\* Items are answered in order, each operation with its result, seen once and
\* checked once, and none is left behind (ALU_BFM.sv, driver.svh, scoreboard.svh).
ImplementsService == Service!ServiceSpec
-----------------------------------------------------------------------------
(* Why it works: the inductive invariant of the proofs. *)

Pins == MonitoredCommand(op_set)

\* The scoreboard waits for the result of the operation on the pins, only.
AwaitsPins == \E i \in 1..Len(cmd_fifo) : Unscored = {i} /\ cmd_fifo[i] = Pins

\* Only the processes whose wait the instant ends have to run, and at a posedge
\* the ALU is the last of them.
Schedule ==
  /\ DriverRuns => pc \in EndsWait[slot]
  /\ slot # "posedge" => todo \subseteq {"driver"}
  /\ slot = "posedge" /\ todo # {} => "alu" \in todo

\* No reset is under way while an operation is.
Resets ==
  /\ pc \in {OpWait, NopWait, NopTail, DoneWait} => rst_n
  /\ pc = Ready /\ cmd # NoCommand => rst_n
  /\ pc = DoneWait /\ slot = "posedge" => rst_n_before

\* The item the driver is at fits its place in send_op and the pins.
Items ==
  /\ pc # Ready => cmd \in Command
  /\ pc = OpWait => cmd.op # rst_op
  /\ pc \in {NopWait, NopTail} => cmd.op = no_op
  /\ pc \in {RstWait, RstHold, RstTail} => cmd.op = rst_op
  /\ pc = DoneWait => Pins = cmd /\ cmd.op \in RealOp
  /\ ReturnsTheResult

\* start low for one posedge makes the next command a new one.
Rearmed ==
  ~start /\ ~new_command =>
    \/ slot = "negedge" /\ ~DriverRuns
    \/ slot = "posedge" /\ "cmd_mon" \in todo

\* Between operations; a no_op raises start and leaves no trace.
Quiet ==
  /\ NoFlagUp
  /\ Unscored = {}
  /\ \/ ~start /\ pc \in {Ready, OpWait, RstWait, RstHold, RstTail}
     \/ start /\ new_command /\ op_set = no_op /\ pc \in {NopWait, NopTail}

\* An operation is on the pins and not monitored yet.
Driven ==
  /\ pc = DoneWait /\ start /\ new_command
  /\ NoFlagUp
  /\ Unscored = {}
  /\ \/ slot = "negedge" /\ ~DriverRuns
     \/ slot = "posedge" /\ "cmd_mon" \in todo

\* The operation is monitored; once done is up, the driver looks before the
\* clock rises again.  A product is ahead of its flag by one stage.
Working ==
  /\ pc = DoneWait /\ start /\ ~new_command
  /\ AwaitsPins
  /\ done => \/ slot = "after"
             \/ slot = "posedge" /\ todo = {}
             \/ slot = "negedge" /\ DriverRuns
  /\ op_set # mul_op => ~MulFlagUp
  /\ op_set = mul_op => ProductAhead(A, B)

\* The driver has seen done; the posedge that clears it shows it to the result
\* monitor first.
Answered ==
  /\ ~start
  /\ op_set \in RealOp
  /\ done /\ result = predict_result(Pins)
  /\ op_set # mul_op => ~MulFlagUp
  /\ \/ slot = "negedge" /\ ~DriverRuns /\ pc \in {Ready, OpWait, RstWait}
     \/ /\ slot = "posedge" /\ "alu" \in todo
        /\ \/ pc \in {Ready, OpWait, RstWait}
           \/ pc = RstHold /\ ~DriverRuns
  /\ IF slot = "negedge" \/ "res_mon" \in todo THEN AwaitsPins ELSE Unscored = {}

\* An operation goes through Quiet, Driven, Working and Answered, and the flags,
\* the FIFO and the item fit the phase: the argument by which the bench is right
\* (ALU_BFM.sv 39-88, Multiplier8b.sv 85-100, ALU.sv 20-39).
BenchInv ==
  /\ TypeOK
  /\ verdict = "ok"
  /\ Schedule /\ Resets /\ Items /\ Rearmed
  /\ Quiet \/ Driven \/ Working \/ Answered
=============================================================================
