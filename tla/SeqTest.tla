------------------------------ MODULE SeqTest -------------------------------
(***************************************************************************)
(* Chapter 23 above the driver: a test runs sequences, alone, one after    *)
(* the other or in parallel; a sequence asks the sequencer for its turn,   *)
(* hands an item over and waits until it is done; the sequencer grants the *)
(* turns in the order they were asked for.  Below the driver is the bench, *)
(* of which only AluService, which ALU_BFM implements, is assumed.         *)
(*                                                                         *)
(* Sequences, sequencer and driver take no simulation time: the bench goes *)
(* on (Work) when none of them can.                                        *)
(***************************************************************************)
EXTENDS AluService, Sequences

CONSTANTS Operand,        \* the operands of random items
          RandomItems     \* how many the random sequence sends: 5000

\* What the driver can be handed.
Request == [A : Byte, B : Byte, op : operation_t]

ASSUME SeqAssumption ==
  Operand \subseteq Byte /\ RandomItems \in Nat \ {0} /\ NoCommand \notin Request

Reset == "reset_sequence"
Fibonacci == "fibonacci_sequence"
MaxMult == "maxmult_sequence"
Random == "random_sequence"
Sequence == {Reset, Fibonacci, MaxMult, Random}

\* What the tests run: the sequences of a step in parallel, the steps in order.
Plan == [fibonacci_test |-> <<{Fibonacci}>>,
         full_test      |-> <<{Reset}, {MaxMult}, {Random}>>,
         parallel_test  |-> <<{Reset}, {Fibonacci, Random}>>]

VARIABLES
  test, step,             \* +UVM_TESTNAME, and the step of its plan
  objection,              \* the test's objection to the end of run_phase
  at,                     \* where each sequence is in its body
  sent,                   \* how many of its items are done
  cmd,                    \* its item, with the result
  n2, n1,                 \* the Fibonacci sequence's last two numbers
  arb_sequence_q,         \* the sequencer's queue of requests
  serving                 \* whose item the driver has, or NoOne

NoOne == "none"

testVars == <<test, step, objection>>
seqVars  == <<at, sent, cmd, n2, n1>>
vars == <<testVars, seqVars, arb_sequence_q, serving, serviceVars>>

\* The places of a sequence: not running; before an item; in start_item; granted,
\* before it hands the item over; in finish_item; woken by item_done; ended.
Place == {"off", "ready", "asks", "granted", "waits", "done", "ended"}

Item(a, b, op) == [A |-> a, B |-> b, op |-> op]
NewItem == [A |-> 0, B |-> 0, op |-> no_op, result |-> 0]

Init ==
  /\ test \in DOMAIN Plan /\ step = 1 /\ objection = TRUE
  /\ at = [s \in Sequence |-> IF s \in Plan[test][1] THEN "ready" ELSE "off"]
  /\ sent = [s \in Sequence |-> 0]
  /\ cmd = [s \in Sequence |-> NewItem]
  /\ n2 = 0 /\ n1 = 1
  /\ arb_sequence_q = <<>> /\ serving = NoOne
  /\ ServiceInit
-----------------------------------------------------------------------------
(* The bodies of the sequences. *)

\* The reset and ff = 3 .. 14; repeat(5000).
Items(s) ==
  IF s = Fibonacci THEN 13 ELSE IF s = Random THEN RandomItems ELSE 1

\* MUTANT of GoesRound: "ff <= 15".
GoesRound_OnceMore(s) == sent[s] <= Items(s)

GoesRound(s) == sent[s] < Items(s)

\* MUTANT of NextItems: the Fibonacci sequence without its reset.
NextItems_NoReset(s) ==
  IF s = Reset THEN {Item(0, 0, rst_op)}
  ELSE IF s = Fibonacci THEN {Item(n2, n1, add_op)}
  ELSE IF s = MaxMult THEN {Item(255, 255, mul_op)}
  ELSE [A : Operand, B : Operand, op : operation_t]

\* What a sequence may put into the item it hands over.
NextItems(s) ==
  IF s = Reset THEN {Item(0, 0, rst_op)}
  ELSE IF s = Fibonacci
       THEN {IF sent[s] = 0 THEN Item(0, 0, rst_op) ELSE Item(n2, n1, add_op)}
  ELSE IF s = MaxMult THEN {Item(255, 255, mul_op)}
  ELSE [A : Operand, B : Operand, op : operation_t]

\* start_item: the request joins the queue, behind the others.
StartItem(s) ==
  /\ at[s] = "ready" /\ GoesRound(s)
  /\ at' = [at EXCEPT ![s] = "asks"]
  /\ arb_sequence_q' = Append(arb_sequence_q, s)
  /\ UNCHANGED <<testVars, sent, cmd, n2, n1, serving, serviceVars>>

\* finish_item, its first half: the item goes to the driver, which calls send_op.
SendRequest(s) ==
  /\ at[s] = "granted"
  /\ at' = [at EXCEPT ![s] = "waits"]
  /\ \E c \in NextItems(s) :
       /\ cmd' = [cmd EXCEPT ![s] =
                    [A |-> c.A, B |-> c.B, op |-> c.op,
                     result |-> IF s = Random THEN 0 ELSE @.result]]
       /\ Accept(c)
  /\ UNCHANGED <<testVars, sent, n2, n1, arb_sequence_q, serving>>

\* MUTANT of Remember: n2 is assigned after n1.
Remember_Swapped(s) ==
  /\ IF s = Fibonacci /\ sent[s] > 0
     THEN n1' = cmd[s].result % 256 /\ n2' = n1'
     ELSE UNCHANGED <<n2, n1>>
  /\ sent' = [sent EXCEPT ![s] = @ + 1]

\* n2 = n1; n1 = cmd.result, of which a byte keeps 8 bits.
Remember(s) ==
  /\ IF s = Fibonacci /\ sent[s] > 0
     THEN n2' = n1 /\ n1' = cmd[s].result % 256
     ELSE UNCHANGED <<n2, n1>>
  /\ sent' = [sent EXCEPT ![s] = @ + 1]

\* finish_item returns.
ItemFinished(s) ==
  /\ at[s] = "done"
  /\ Remember(s)
  /\ at' = [at EXCEPT ![s] = "ready"]
  /\ UNCHANGED <<testVars, cmd, arb_sequence_q, serving, serviceVars>>

EndBody(s) ==
  /\ at[s] = "ready" /\ ~GoesRound(s)
  /\ at' = [at EXCEPT ![s] = "ended"]
  /\ UNCHANGED <<testVars, sent, cmd, n2, n1, arb_sequence_q, serving, serviceVars>>

SequenceStep == \E s \in Sequence :
  StartItem(s) \/ SendRequest(s) \/ ItemFinished(s) \/ EndBody(s)
-----------------------------------------------------------------------------
(* The sequencer and the driver. *)

\* A sequence that can go on does so before the sequencer looks for a request.
NoneCanGoOn == \A s \in Sequence : at[s] \notin {"ready", "granted", "done"}

\* MUTANT of Grant: the latest request wins.
Grant_Latest ==
  /\ serving = NoOne /\ NoneCanGoOn
  /\ arb_sequence_q # <<>>
  /\ LET n == Len(arb_sequence_q)
     IN  /\ serving' = arb_sequence_q[n]
         /\ at' = [at EXCEPT ![arb_sequence_q[n]] = "granted"]
         /\ arb_sequence_q' = SubSeq(arb_sequence_q, 1, n - 1)
  /\ UNCHANGED <<testVars, sent, cmd, n2, n1, serviceVars>>

\* get_next_item: m_select_sequence grants the first request.
Grant ==
  /\ serving = NoOne /\ NoneCanGoOn
  /\ arb_sequence_q # <<>>
  /\ serving' = Head(arb_sequence_q)
  /\ at' = [at EXCEPT ![Head(arb_sequence_q)] = "granted"]
  /\ arb_sequence_q' = Tail(arb_sequence_q)
  /\ UNCHANGED <<testVars, sent, cmd, n2, n1, serviceVars>>

SendOpReturned == serving # NoOne /\ at[serving] = "waits" /\ stage = "none"

\* MUTANTS of ItemDone: item_done before send_op is over; no item_done.
ItemDone_Early ==
  /\ serving # NoOne /\ at[serving] = "waits"
  /\ cmd' = [cmd EXCEPT ![serving].result = answer]
  /\ at' = [at EXCEPT ![serving] = "done"]
  /\ serving' = NoOne
  /\ UNCHANGED <<testVars, sent, n2, n1, arb_sequence_q, serviceVars>>

ItemDone_Missing ==
  /\ SendOpReturned
  /\ cmd' = [cmd EXCEPT ![serving].result = answer]
  /\ serving' = NoOne
  /\ UNCHANGED <<testVars, at, sent, n2, n1, arb_sequence_q, serviceVars>>

\* send_op has returned: cmd.result = result, and item_done wakes the sequence.
ItemDone ==
  /\ SendOpReturned
  /\ cmd' = [cmd EXCEPT ![serving].result = answer]
  /\ at' = [at EXCEPT ![serving] = "done"]
  /\ serving' = NoOne
  /\ UNCHANGED <<testVars, sent, n2, n1, arb_sequence_q, serviceVars>>
-----------------------------------------------------------------------------
(* The test. *)

\* MUTANT of Joined: join_any.
Joined_Any == \E s \in Plan[test][step] : at[s] = "ended"

\* The sequences of this step have ended: start returns, fork .. join is over.
Joined == \A s \in Plan[test][step] : at[s] = "ended"

NextStep ==
  /\ Joined /\ step < Len(Plan[test])
  /\ step' = step + 1
  /\ at' = [s \in Sequence |-> IF s \in Plan[test][step'] THEN "ready" ELSE at[s]]
  /\ UNCHANGED <<test, objection, sent, cmd, n2, n1, arb_sequence_q, serving, serviceVars>>

\* drop_objection: the run phase ends, without any drain time.
DropObjection ==
  /\ Joined /\ step = Len(Plan[test])
  /\ objection' = FALSE
  /\ UNCHANGED <<test, step, seqVars, arb_sequence_q, serving, serviceVars>>

\* Time passes, and the bench goes on.
Bench ==
  /\ NoneCanGoOn /\ ~Joined
  /\ ~SendOpReturned /\ ~(serving = NoOne /\ arb_sequence_q # <<>>)
  /\ Work
  /\ UNCHANGED <<testVars, seqVars, arb_sequence_q, serving>>

Next ==
  /\ objection
  /\ SequenceStep \/ Grant \/ ItemDone \/ NextStep \/ DropObjection \/ Bench

\* No run is endless, so that something always happens is all there is to assume.
Spec == Init /\ [][Next]_vars /\ WF_vars(Next)
-----------------------------------------------------------------------------
(* What is checked. *)

\* Items carry bytes and a 16-bit result, the queue holds each request once, and no
\* sequence sends more items than its loop says (sequence_item.svh 5-8).
TypeOK ==
  /\ test \in DOMAIN Plan /\ step \in 1..Len(Plan[test]) /\ objection \in BOOLEAN
  /\ at \in [Sequence -> Place]
  /\ sent \in [Sequence -> Nat] /\ \A s \in Sequence : sent[s] <= Items(s)
  /\ cmd \in [Sequence -> [A : Byte, B : Byte, op : operation_t, result : Short]]
  /\ n2 \in Byte /\ n1 \in Byte
  /\ arb_sequence_q \in Seq(Sequence)
  /\ \A i, j \in DOMAIN arb_sequence_q :
       i # j => arb_sequence_q[i] # arb_sequence_q[j]
  /\ serving \in Sequence \cup {NoOne}

\* Fib(1) = 0 and Fib(2) = 1, as the sequence prints them.
Fib[n \in 1..14] == IF n <= 2 THEN n - 1 ELSE Fib[n - 1] + Fib[n - 2]

\* The Fibonacci sequence computes the Fibonacci numbers, whatever items and resets
\* the random sequence puts between its own, and none of those it computes is cut
\* to 8 bits (fibonacci_sequence.svh 24-33, parallel_sequence.svh 20-23).
FibonacciIsRight ==
  sent[Fibonacci] > 0 => /\ n2 = Fib[sent[Fibonacci]]
                         /\ n1 = Fib[sent[Fibonacci] + 1]

\* A sequence whose operation is done finds that operation's result in its item
\* (driver.svh 22-28).
ResultReachesItsSequence ==
  \A s \in Sequence :
    at[s] = "done" /\ cmd[s].op \in RealOp => cmd[s].result = predict_result(cmd[s])

Unfinished(s) == at[s] \notin {"off", "ended"}

\* Parallel sequences take turns: none gets ahead of another by two items while both
\* run (parallel_sequence.svh 20-23).
TakesTurns ==
  \A s, t \in Sequence :
    Unfinished(s) /\ Unfinished(t) => sent[s] <= sent[t] + 1

\* The end of the test loses the check of at most one operation, the last: every
\* sequence of the plan has ended and every other operation was checked
\* (parallel_test.svh 12-14, scoreboard.svh 31-52).
OnlyTheLastIsLost ==
  ~objection => /\ \A k \in DOMAIN Plan[test], s \in Sequence :
                     s \in Plan[test][k] => at[s] = "ended"
                /\ unchecked \subseteq {item}

\* The first item the bench gets is a reset: what ALU_BFM assumes of the sequences
\* (ALU_BFM.sv 40, the initial values of the interface).
FirstItemIsReset == [][item = NoCommand /\ item' # item => item'.op = rst_op]_vars

\* Every test ends (base_test.svh, the three run_phase tasks).
TestEnds == <>~objection
=============================================================================
