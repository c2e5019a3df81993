--------------------------- MODULE SeqTest_proofs ---------------------------
(***************************************************************************)
(* The sequences of chapter 23 get their results, take turns and end       *)
(* their tests, for every set of operands and number of random items.      *)
(*                                                                         *)
(* The invariant is SeqInv.  Two of its parts carry the rest: TurnIsKept,  *)
(* that while one sequence is granted, waits or is woken all others that   *)
(* run are in the queue, and ItemIsKept, that the bench works on the item  *)
(* of the sequence that waits.                                             *)
(***************************************************************************)
EXTENDS SeqTest, SequenceTheorems, TLAPS

-----------------------------------------------------------------------------
(* The inductive invariant. *)

\* The bench holds a request, or had none yet.
BenchState ==
  /\ stage \in {"none", "accepted", "seen"}
  /\ item \in Request \cup {NoCommand}
  /\ answer \in Short

\* The sequences of the steps before have ended, those of the steps after are off,
\* and the test gives its objection up when all have ended.
PlanIsKept ==
  /\ \A k \in DOMAIN Plan[test], s \in Sequence : s \in Plan[test][k] =>
       /\ k < step => at[s] = "ended"
       /\ k = step => at[s] # "off"
       /\ k > step => at[s] = "off"
  /\ \A s \in Sequence :
       at[s] # "off" => \E k \in DOMAIN Plan[test] : s \in Plan[test][k]
  /\ ~objection => step = Len(Plan[test]) /\ Joined

\* Between its request and the end of its item a sequence has that item still to
\* send; it ends when its loop has gone round.
LoopIsKept ==
  \A s \in Sequence :
    /\ at[s] = "off" => sent[s] = 0
    /\ at[s] \in {"asks", "granted", "waits", "done"} => GoesRound(s)
    /\ at[s] = "ended" => sent[s] = Items(s)

\* Granted, and not back before its next item.
Busy(s) == at[s] \in {"granted", "waits", "done"}

InQueue(s) == \E i \in DOMAIN arb_sequence_q : arb_sequence_q[i] = s

\* The driver has the item of the sequence that was granted, until it is done; the
\* queue holds those that ask; and while one is busy all others that run ask.
TurnIsKept ==
  /\ \A s \in Sequence : serving = s <=> at[s] \in {"granted", "waits"}
  /\ \A s \in Sequence : at[s] = "asks" <=> InQueue(s)
  /\ \A s, t \in Sequence : Busy(s) /\ s # t /\ Unfinished(t) => at[t] = "asks"

Before(s, t) ==
  \E i, j \in DOMAIN arb_sequence_q :
    i < j /\ arb_sequence_q[i] = s /\ arb_sequence_q[j] = t

\* The next item of s comes before that of t.
Ahead(s, t) ==
  \/ Busy(s)
  \/ at[s] = "asks" /\ (at[t] = "ready" \/ Before(s, t))

\* The one ahead has sent as many items as the other, or one less.
OrderIsKept ==
  \A s, t \in Sequence : s # t /\ Unfinished(s) /\ Unfinished(t) =>
    /\ at[s] = "ready" /\ at[t] = "ready" => sent[s] = sent[t]
    /\ Ahead(s, t) => sent[s] <= sent[t] /\ sent[t] <= sent[s] + 1

\* The bench works on the item of the sequence that waits and on no other; what it
\* returned is the result of that item, and lies in it when the sequence is woken.
ItemIsKept ==
  /\ stage # "none" => \E s \in Sequence : at[s] = "waits"
  /\ \A s \in Sequence : at[s] = "waits" =>
       /\ item = Item(cmd[s].A, cmd[s].B, cmd[s].op)
       /\ stage = "none" /\ item.op \in RealOp => answer = predict_result(item)
       /\ stage = "seen" => item.op \in RealOp
  /\ stage # "accepted" => unchecked \subseteq {item}
  /\ item = NoCommand =>
       \A s \in Sequence : sent[s] = 0 /\ at[s] \notin {"waits", "done"}

\* What Fibonacci has, and what it hands over.
NumbersAreKept ==
  /\ sent[Fibonacci] = 0 => n2 = 0 /\ n1 = 1
  /\ at[Fibonacci] \in {"waits", "done"} =>
       Item(cmd[Fibonacci].A, cmd[Fibonacci].B, cmd[Fibonacci].op) \in NextItems(Fibonacci)

SeqInv ==
  /\ TypeOK /\ BenchState
  /\ PlanIsKept /\ LoopIsKept /\ TurnIsKept /\ OrderIsKept
  /\ ItemIsKept /\ ResultReachesItsSequence
  /\ NumbersAreKept /\ FibonacciIsRight

-----------------------------------------------------------------------------
(* The plans. *)

USE DEF testVars, seqVars, serviceVars

\* The plans of the tests: no sequence is in two steps, and the first step has
\* only sequences that begin with a reset.
LEMMA PlanFacts ==
  ASSUME NEW t \in DOMAIN Plan
  PROVE  /\ Len(Plan[t]) \in Nat \ {0} /\ DOMAIN Plan[t] = 1..Len(Plan[t])
         /\ \A k \in DOMAIN Plan[t] : Plan[t][k] \subseteq Sequence /\ Plan[t][k] # {}
         /\ \A j, k \in DOMAIN Plan[t] : j # k => Plan[t][j] \cap Plan[t][k] = {}
         /\ Plan[t][1] \subseteq {Reset, Fibonacci}
<1>1. t \in {"fibonacci_test", "full_test", "parallel_test"}
  BY DEF Plan
<1>2. CASE t = "fibonacci_test"
  <2>1. Plan[t] = <<{Fibonacci}>>
    BY <1>2 DEF Plan
  <2>2. QED
    BY <2>1 DEF Sequence
<1>3. CASE t = "full_test"
  <2>1. Plan[t] = <<{Reset}, {MaxMult}, {Random}>>
    BY <1>3 DEF Plan
  <2>2. Len(Plan[t]) = 3 /\ DOMAIN Plan[t] = 1..3
    BY <2>1
  <2>3. Plan[t][1] = {Reset} /\ Plan[t][2] = {MaxMult} /\ Plan[t][3] = {Random}
    BY <2>1
  <2>4. \A k \in 1..3 : k = 1 \/ k = 2 \/ k = 3
    OBVIOUS
  <2>5. QED
    BY <2>2, <2>3, <2>4 DEF Sequence, Reset, MaxMult, Random
<1>4. CASE t = "parallel_test"
  <2>1. Plan[t] = <<{Reset}, {Fibonacci, Random}>>
    BY <1>4 DEF Plan
  <2>2. Len(Plan[t]) = 2 /\ DOMAIN Plan[t] = 1..2
    BY <2>1
  <2>3. Plan[t][1] = {Reset} /\ Plan[t][2] = {Fibonacci, Random}
    BY <2>1
  <2>4. \A k \in 1..2 : k = 1 \/ k = 2
    OBVIOUS
  <2>5. QED
    BY <2>2, <2>3, <2>4 DEF Sequence, Reset, Fibonacci, Random
<1>5. QED
  BY <1>1, <1>2, <1>3, <1>4

\* The numbers that Fibonacci is to compute, up to its last.
LEMMA FibValues ==
  /\ Fib[1] = 0 /\ Fib[2] = 1
  /\ \A n \in 1..12 : Fib[n] + Fib[n + 1] = Fib[n + 2] /\ Fib[n + 2] \in Byte
<1> DEFINE v == <<0, 1, 1, 2, 3, 5, 8, 13, 21, 34, 55, 89, 144, 233>>
           f == [n \in 1..14 |-> v[n]]
           IsFib(g) == g = [n \in 1..14 |-> IF n <= 2 THEN n - 1 ELSE g[n - 1] + g[n - 2]]
<1>1. /\ f[1] = 0 /\ f[2] = 1 /\ f[3] = 1 /\ f[4] = 2 /\ f[5] = 3 /\ f[6] = 5
      /\ f[7] = 8 /\ f[8] = 13 /\ f[9] = 21 /\ f[10] = 34 /\ f[11] = 55
      /\ f[12] = 89 /\ f[13] = 144 /\ f[14] = 233
  OBVIOUS
<1>2. f = [n \in 1..14 |-> f[n]]
  OBVIOUS
<1> HIDE DEF f
<1>3. \A n \in 1..14 : f[n] = IF n <= 2 THEN n - 1 ELSE f[n - 1] + f[n - 2]
  <2>1. \A n \in 1..14 : n \in {1, 2, 3, 4, 5, 6, 7, 8, 9, 10, 11, 12, 13, 14}
    OBVIOUS
  <2>2. QED
    BY <1>1, <2>1
<1>4. IsFib(f)
  BY <1>2, <1>3
<1>5. IsFib(Fib)
  <2>1. Fib = CHOOSE g : IsFib(g)
    BY DEF Fib
  <2> HIDE DEF IsFib
  <2>2. QED
    BY <1>4, <2>1
<1>6. /\ Fib[1] = 0 /\ Fib[2] = 1
      /\ Fib[3] = 1 /\ Fib[4] = 2 /\ Fib[5] = 3 /\ Fib[6] = 5
      /\ Fib[7] = 8 /\ Fib[8] = 13 /\ Fib[9] = 21 /\ Fib[10] = 34 /\ Fib[11] = 55
      /\ Fib[12] = 89 /\ Fib[13] = 144 /\ Fib[14] = 233
  <2>1. \A n \in 1..14 : Fib[n] = IF n <= 2 THEN n - 1 ELSE Fib[n - 1] + Fib[n - 2]
    BY <1>5
  <2>2. QED
    BY <2>1
<1>7. \A n \in 1..12 : n \in {1, 2, 3, 4, 5, 6, 7, 8, 9, 10, 11, 12}
  OBVIOUS
<1>8. QED
  BY <1>6, <1>7 DEF Byte
-----------------------------------------------------------------------------
(* Items and results. *)

\* The bit-wise operations return bytes.
LEMMA LogicType ==
  ASSUME NEW a, NEW b
  PROVE  And8(a, b) \in Short /\ Xor8(a, b) \in Short
<1>1. \A w \in Word(8) : Val8(w) \in Short
  <2> SUFFICES ASSUME NEW w \in Word(8)
               PROVE  Val8(w) \in Short
    OBVIOUS
  <2>1. \A i \in 0..7 : w[i] \in Bit
    BY DEF Word
  <2>2. \A k \in 0..1 : Val4(Nibble(w, k)) \in 0..15
    BY <2>1 DEF Val4, Nibble, Bit
  <2>3. QED
    BY <2>2 DEF Val8, Short
<1>2. /\ [i \in 0..7 |-> Wire(BitOf(a, i) = 1 /\ BitOf(b, i) = 1)] \in Word(8)
      /\ [i \in 0..7 |-> Wire(BitOf(a, i) # BitOf(b, i))] \in Word(8)
  BY DEF Word, Wire, Bit
<1>3. QED
  BY <1>1, <1>2 DEF And8, Xor8

\* What the scoreboard predicts fits 16 bits.
LEMMA PredictionType ==
  ASSUME NEW c \in Request
  PROVE  predict_result(c) \in Short
<1>1. c.A \in Nat /\ c.A <= 255 /\ c.B \in Nat /\ c.B <= 255
  BY DEF Request, Byte
<1>2. c.A + c.B \in Short
  BY <1>1 DEF Short
<1>3. c.A * c.B \in Short
  <2>1. c.A * c.B \in Nat /\ c.A * c.B <= 255 * c.B
    BY <1>1
  <2>2. QED
    BY <1>1, <2>1 DEF Short
<1>4. QED
  BY <1>2, <1>3, LogicType DEF predict_result

\* An item is a request, and a request is the item of its fields.
LEMMA ItemFacts ==
  /\ \A a, b \in Byte, op \in operation_t : Item(a, b, op) \in Request
  /\ \A c \in Request : /\ c.A \in Byte /\ c.B \in Byte /\ c.op \in operation_t
                        /\ c = Item(c.A, c.B, c.op)
  BY DEF Item, Request

\* Every sequence hands over requests.
LEMMA NextItemsType ==
  ASSUME TypeOK, NEW s \in Sequence
  PROVE  NextItems(s) \subseteq Request
<1>1. 0 \in Byte /\ 255 \in Byte /\ rst_op \in operation_t /\ add_op \in operation_t
      /\ mul_op \in operation_t
  BY DEF Byte, operation_t
<1>2. n2 \in Byte /\ n1 \in Byte
  BY DEF TypeOK
<1>3. [A : Operand, B : Operand, op : operation_t] \subseteq Request
  BY SeqAssumption DEF Request
<1>4. QED
  BY <1>1, <1>2, <1>3, ItemFacts DEF NextItems
-----------------------------------------------------------------------------
(* The sequencer's queue. *)

Distinct(q) == \A i, j \in DOMAIN q : i # j => q[i] # q[j]

\* A request goes to the end of the queue.
LEMMA QueueAppend ==
  ASSUME arb_sequence_q \in Seq(Sequence), Distinct(arb_sequence_q),
         NEW s \in Sequence, ~InQueue(s), arb_sequence_q' = Append(arb_sequence_q, s)
  PROVE  /\ arb_sequence_q' \in Seq(Sequence) /\ Distinct(arb_sequence_q')
         /\ \A t \in Sequence : InQueue(t)' <=> InQueue(t) \/ t = s
         /\ \A t, u \in Sequence : Before(t, u)' => Before(t, u) \/ (u = s /\ InQueue(t))
<1> DEFINE q == arb_sequence_q  r == arb_sequence_q'  n == Len(arb_sequence_q)
<1>1. /\ r \in Seq(Sequence) /\ Len(r) = n + 1 /\ n \in Nat
      /\ \A i \in 1..n : r[i] = q[i]
      /\ r[n + 1] = s
  BY AppendProperties
<1>2. DOMAIN q = 1..n /\ DOMAIN r = 1..(n + 1)
  BY <1>1
<1>3. \A i \in 1..n : q[i] # s
  BY <1>2 DEF InQueue
<1> HIDE DEF q, r, n
<1>4. Distinct(r)
  <2> SUFFICES ASSUME NEW i \in 1..(n + 1), NEW j \in 1..(n + 1), i # j
               PROVE  r[i] # r[j]
    BY <1>2 DEF Distinct
  <2>1. CASE i = n + 1
    <3>1. j \in 1..n
      BY <1>1, <2>1
    <3>2. QED
      BY <1>1, <1>3, <2>1, <3>1
  <2>2. CASE j = n + 1
    <3>1. i \in 1..n
      BY <1>1, <2>2
    <3>2. QED
      BY <1>1, <1>3, <2>2, <3>1
  <2>3. CASE i # n + 1 /\ j # n + 1
    <3>1. i \in 1..n /\ j \in 1..n
      BY <1>1, <2>3
    <3>2. q[i] # q[j]
      BY <1>2, <3>1 DEF Distinct, q
    <3>3. QED
      BY <1>1, <3>1, <3>2
  <2>4. QED
    BY <2>1, <2>2, <2>3
<1>5. ASSUME NEW t
      PROVE  (\E i \in DOMAIN r : r[i] = t) <=> (\E i \in DOMAIN q : q[i] = t) \/ t = s
  <2>1. \A i \in 1..(n + 1) : i \in 1..n \/ i = n + 1
    BY <1>1
  <2>2. n + 1 \in 1..(n + 1) /\ \A i \in 1..n : i \in 1..(n + 1)
    BY <1>1
  <2>3. QED
    BY <1>1, <1>2, <2>1, <2>2
<1>6. ASSUME NEW t \in Sequence, NEW u \in Sequence, Before(t, u)'
      PROVE  Before(t, u) \/ (u = s /\ InQueue(t))
  <2>1. PICK i \in DOMAIN r, j \in DOMAIN r : i < j /\ r[i] = t /\ r[j] = u
    BY <1>6 DEF Before, r
  <2>2. i \in 1..n /\ q[i] = t
    BY <1>1, <1>2, <2>1
  <2>3. CASE j = n + 1
    BY <1>1, <1>2, <2>1, <2>2, <2>3 DEF InQueue, q
  <2>4. CASE j # n + 1
    <3>1. j \in 1..n /\ q[j] = u
      BY <1>1, <1>2, <2>1, <2>4
    <3>2. QED
      BY <1>2, <2>1, <2>2, <3>1 DEF Before, q
  <2>5. QED
    BY <2>3, <2>4
<1>7. QED
  BY <1>1, <1>4, <1>5, <1>6 DEF q, r, InQueue

\* The first request leaves the queue; it came before all others.
LEMMA QueueTail ==
  ASSUME arb_sequence_q \in Seq(Sequence), Distinct(arb_sequence_q),
         arb_sequence_q # <<>>, arb_sequence_q' = Tail(arb_sequence_q)
  PROVE  /\ Head(arb_sequence_q) \in Sequence /\ InQueue(Head(arb_sequence_q))
         /\ arb_sequence_q' \in Seq(Sequence) /\ Distinct(arb_sequence_q')
         /\ \A t \in Sequence : InQueue(t)' <=> InQueue(t) /\ t # Head(arb_sequence_q)
         /\ \A t, u \in Sequence : Before(t, u)' => Before(t, u)
         /\ \A t \in Sequence : InQueue(t)' => Before(Head(arb_sequence_q), t)
<1> DEFINE q == arb_sequence_q  r == arb_sequence_q'  n == Len(arb_sequence_q)
           h == Head(arb_sequence_q)
<1>1. /\ r \in Seq(Sequence) /\ Len(r) = n - 1 /\ n \in Nat /\ n > 0
      /\ \A i \in 1..(n - 1) : r[i] = q[i + 1]
      /\ h = q[1] /\ h \in Sequence
  <2>1. n \in Nat /\ n > 0 /\ h = q[1]
    BY EmptySeq
  <2>2. h \in Sequence /\ r \in Seq(Sequence) /\ Len(r) = n - 1
        /\ \A i \in 1..Len(r) : r[i] = q[i + 1]
    BY HeadTailProperties
  <2>3. QED
    BY <2>1, <2>2
<1>2. DOMAIN q = 1..n /\ DOMAIN r = 1..(n - 1)
  BY <1>1
<1>3. \A i, j \in 1..n : i # j => q[i] # q[j]
  BY <1>2 DEF Distinct
<1> HIDE DEF q, r, n, h
<1>4. Distinct(r)
  <2> SUFFICES ASSUME NEW i \in 1..(n - 1), NEW j \in 1..(n - 1), i # j
               PROVE  r[i] # r[j]
    BY <1>2 DEF Distinct
  <2>1. i + 1 \in 1..n /\ j + 1 \in 1..n /\ i + 1 # j + 1
    BY <1>1
  <2>2. QED
    BY <1>1, <1>3, <2>1
<1>5. ASSUME NEW t
      PROVE  (\E i \in 1..(n - 1) : r[i] = t) <=> (\E i \in 1..n : q[i] = t) /\ t # h
  <2>1. ASSUME NEW i \in 1..(n - 1), r[i] = t
        PROVE  (\E j \in 1..n : q[j] = t) /\ t # h
    <3>1. i + 1 \in 1..n /\ 1 \in 1..n /\ i + 1 # 1 /\ q[i + 1] = t
      BY <1>1, <2>1
    <3>2. q[i + 1] # q[1]
      BY <1>3, <3>1
    <3>3. QED
      BY <1>1, <3>1, <3>2
  <2>2. ASSUME NEW i \in 1..n, q[i] = t, t # h
        PROVE  \E j \in 1..(n - 1) : r[j] = t
    <3>1. i # 1
      BY <1>1, <2>2
    <3>2. i - 1 \in 1..(n - 1) /\ (i - 1) + 1 = i
      BY <1>1, <3>1
    <3>3. r[i - 1] = t
      BY <1>1, <2>2, <3>2
    <3>4. QED
      BY <3>2, <3>3
  <2>3. QED
    BY <2>1, <2>2
<1>6. ASSUME NEW t, NEW i \in 1..(n - 1), r[i] = t
      PROVE  \E k, l \in 1..n : k < l /\ q[k] = h /\ q[l] = t
  <2>1. 1 \in 1..n /\ i + 1 \in 1..n /\ 1 < i + 1
    BY <1>1
  <2>2. q[1] = h /\ q[i + 1] = t
    BY <1>1, <1>6
  <2>3. QED
    BY <2>1, <2>2
<1>7. InQueue(h)
  <2>1. 1 \in DOMAIN q /\ q[1] = h
    BY <1>1, <1>2
  <2>2. QED
    BY <2>1 DEF InQueue, q
<1>8. \A t \in Sequence : InQueue(t)' <=> InQueue(t) /\ t # h
  BY <1>2, <1>5 DEF InQueue, q, r
<1>9. ASSUME NEW t \in Sequence, NEW u \in Sequence, Before(t, u)'
       PROVE  Before(t, u)
  <2>1. PICK i \in 1..(n - 1), j \in 1..(n - 1) : i < j /\ r[i] = t /\ r[j] = u
    BY <1>2, <1>9 DEF Before, r
  <2>2. i + 1 \in 1..n /\ j + 1 \in 1..n /\ i + 1 < j + 1
    BY <1>1, <2>1
  <2>3. q[i + 1] = t /\ q[j + 1] = u
    BY <1>1, <2>1
  <2>4. QED
    BY <1>2, <2>2, <2>3 DEF Before, q
<1>10. \A t \in Sequence : InQueue(t)' => Before(h, t)
  BY <1>2, <1>6 DEF InQueue, Before, q, r
<1>11. QED
  BY <1>1, <1>4, <1>7, <1>8, <1>9, <1>10 DEF q, r, h
-----------------------------------------------------------------------------
(* Parts of the invariant that the actions of a running sequence keep alike. *)

\* TypeOK says of the queue that it is distinct.
LEMMA TypeOKDistinct == TypeOK => Distinct(arb_sequence_q)
  BY DEF TypeOK, Distinct

\* A sequence that is neither off nor ended belongs to this step of the plan, and
\* may go anywhere but off.
LEMMA PlanMove ==
  ASSUME TypeOK, PlanIsKept, objection, NEW s \in Sequence, at[s] \notin {"off", "ended"},
         NEW place, place # "off", at' = [at EXCEPT ![s] = place], UNCHANGED testVars
  PROVE  PlanIsKept'
<1>1. \A t \in Sequence : at'[t] = IF t = s THEN place ELSE at[t]
  BY DEF TypeOK
<1>2. ASSUME NEW k \in DOMAIN Plan[test], NEW t \in Sequence, t \in Plan[test][k]
      PROVE  /\ k < step => at'[t] = "ended"
             /\ k = step => at'[t] # "off"
             /\ k > step => at'[t] = "off"
  BY <1>1, <1>2 DEF PlanIsKept
<1>3. \A t \in Sequence : at'[t] # "off" => \E k \in DOMAIN Plan[test] : t \in Plan[test][k]
  BY <1>1 DEF PlanIsKept
<1>4. QED
  BY <1>2, <1>3 DEF PlanIsKept

\* What Fibonacci has changes only when an item of its own is done.
LEMMA NumbersStay ==
  ASSUME NumbersAreKept, FibonacciIsRight, UNCHANGED <<n2, n1>>,
         sent'[Fibonacci] = sent[Fibonacci],
         at'[Fibonacci] \in {"waits", "done"} =>
           /\ at[Fibonacci] \in {"waits", "done"}
           /\ cmd'[Fibonacci].A = cmd[Fibonacci].A /\ cmd'[Fibonacci].B = cmd[Fibonacci].B
           /\ cmd'[Fibonacci].op = cmd[Fibonacci].op
  PROVE  NumbersAreKept' /\ FibonacciIsRight'
<1>1. NextItems(Fibonacci)' = NextItems(Fibonacci)
  BY DEF NextItems, Fibonacci, Reset
<1>2. NumbersAreKept'
  BY <1>1 DEF NumbersAreKept
<1>3. QED
  BY <1>2 DEF FibonacciIsRight

\* When the sequences of a step have ended nothing runs.
LEMMA JoinedMeansQuiet ==
  ASSUME TypeOK, PlanIsKept, Joined
  PROVE  \A s \in Sequence : at[s] \in {"off", "ended"}
<1> SUFFICES ASSUME NEW s \in Sequence, at[s] # "off"
             PROVE  at[s] = "ended"
  OBVIOUS
<1>1. PICK k \in DOMAIN Plan[test] : s \in Plan[test][k]
  BY DEF PlanIsKept
<1>2. k \in Int /\ step \in Int
  BY PlanFacts DEF TypeOK
<1>3. CASE k = step
  BY <1>1, <1>3 DEF Joined
<1>4. CASE k < step
  BY <1>1, <1>4 DEF PlanIsKept
<1>5. CASE k > step
  BY <1>1, <1>5 DEF PlanIsKept
<1>6. QED
  BY <1>2, <1>3, <1>4, <1>5

\* NoOne is not a sequence.
LEMMA NoOneServed == NoOne \notin Sequence
  BY DEF NoOne, Sequence, Reset, Fibonacci, MaxMult, Random
-----------------------------------------------------------------------------
(* The steps of the sequences. *)

\* A request joins the queue behind those that ask already.
LEMMA StartItemKeeps ==
  ASSUME SeqInv, objection, NEW s \in Sequence, StartItem(s)
  PROVE  SeqInv'
<1>1. /\ TypeOK /\ BenchState /\ PlanIsKept /\ LoopIsKept /\ TurnIsKept /\ OrderIsKept
      /\ ItemIsKept /\ ResultReachesItsSequence /\ NumbersAreKept /\ FibonacciIsRight
  BY DEF SeqInv
<1>2. /\ at[s] = "ready" /\ GoesRound(s)
      /\ \A t \in Sequence : at'[t] = IF t = s THEN "asks" ELSE at[t]
      /\ at' \in [Sequence -> Place]
      /\ UNCHANGED <<test, step, objection, sent, cmd, n2, n1, serving, serviceVars>>
  BY <1>1 DEF StartItem, TypeOK, Place
<1>3. /\ arb_sequence_q' \in Seq(Sequence) /\ Distinct(arb_sequence_q')
      /\ \A t \in Sequence : InQueue(t)' <=> InQueue(t) \/ t = s
      /\ \A t, u \in Sequence : Before(t, u)' => Before(t, u) \/ (u = s /\ InQueue(t))
  <2>1. ~InQueue(s)
    BY <1>1, <1>2 DEF TurnIsKept
  <2>2. arb_sequence_q \in Seq(Sequence) /\ arb_sequence_q' = Append(arb_sequence_q, s)
    BY <1>1 DEF TypeOK, StartItem
  <2>3. QED
    BY <1>1, <2>1, <2>2, TypeOKDistinct, QueueAppend
<1>4. TypeOK'
  BY <1>1, <1>2, <1>3 DEF TypeOK, Distinct
<1>5. BenchState'
  BY <1>1, <1>2 DEF BenchState
<1>6. PlanIsKept'
  <2>1. at' = [at EXCEPT ![s] = "asks"]
    BY DEF StartItem
  <2>2. QED
    BY <1>1, <1>2, <2>1, PlanMove
<1>7. LoopIsKept'
  BY <1>1, <1>2 DEF LoopIsKept, GoesRound
<1>8. TurnIsKept'
  <2>1. \A t \in Sequence : serving' = t <=> at'[t] \in {"granted", "waits"}
    BY <1>1, <1>2 DEF TurnIsKept
  <2>2. \A t \in Sequence : at'[t] = "asks" <=> InQueue(t)'
    BY <1>1, <1>2, <1>3 DEF TurnIsKept
  <2>3. \A t, u \in Sequence : Busy(t)' /\ t # u /\ Unfinished(u)' => at'[u] = "asks"
    BY <1>1, <1>2 DEF TurnIsKept, Busy, Unfinished
  <2>4. QED
    BY <2>1, <2>2, <2>3 DEF TurnIsKept
<1>9. OrderIsKept'
  <2> SUFFICES ASSUME NEW t \in Sequence, NEW u \in Sequence, t # u,
                      Unfinished(t)', Unfinished(u)'
               PROVE  /\ at'[t] = "ready" /\ at'[u] = "ready" => sent[t] = sent[u]
                      /\ Ahead(t, u)' => sent[t] <= sent[u] /\ sent[u] <= sent[t] + 1
    BY <1>2 DEF OrderIsKept
  <2>1. Unfinished(t) /\ Unfinished(u)
    BY <1>2 DEF Unfinished
  <2>2. /\ at[t] = "ready" /\ at[u] = "ready" => sent[t] = sent[u]
        /\ Ahead(t, u) => sent[t] <= sent[u] /\ sent[u] <= sent[t] + 1
    BY <1>1, <2>1 DEF OrderIsKept
  <2>3. at'[t] = "ready" /\ at'[u] = "ready" => sent[t] = sent[u]
    BY <1>2, <2>2
  <2>4. Ahead(t, u)' => Ahead(t, u) \/ (at[t] = "ready" /\ at[u] = "ready")
    <3>1. Busy(t)' => Busy(t)
      BY <1>2 DEF Busy
    <3>2. CASE t = s
      <4>1. ~Busy(t)' /\ ~Before(t, u)
        BY <1>1, <1>2, <3>2 DEF Busy, TurnIsKept, Before, InQueue
      <4>2. ~Before(t, u)'
        BY <1>3, <3>2, <4>1
      <4>3. QED
        BY <1>2, <3>2, <4>1, <4>2 DEF Ahead
    <3>3. CASE u = s
      BY <1>2, <3>1, <3>3 DEF Ahead
    <3>4. CASE t # s /\ u # s
      BY <1>2, <1>3, <3>1, <3>4 DEF Ahead
    <3>5. QED
      BY <3>2, <3>3, <3>4
  <2>5. sent[t] \in Int /\ sent[u] \in Int
    BY <1>1 DEF TypeOK
  <2>6. QED
    BY <2>2, <2>3, <2>4, <2>5
<1>10. ItemIsKept'
  BY <1>1, <1>2 DEF ItemIsKept
<1>11. ResultReachesItsSequence'
  BY <1>1, <1>2 DEF ResultReachesItsSequence
<1>12. NumbersAreKept' /\ FibonacciIsRight'
  BY <1>1, <1>2, NumbersStay DEF Sequence
<1>13. QED
  BY <1>4, <1>5, <1>6, <1>7, <1>8, <1>9, <1>10, <1>11, <1>12 DEF SeqInv

\* The driver takes the item of the sequence that was granted, and sends it.
LEMMA SendRequestKeeps ==
  ASSUME SeqInv, objection, NEW s \in Sequence, SendRequest(s)
  PROVE  SeqInv'
<1>1. /\ TypeOK /\ BenchState /\ PlanIsKept /\ LoopIsKept /\ TurnIsKept /\ OrderIsKept
      /\ ItemIsKept /\ ResultReachesItsSequence /\ NumbersAreKept /\ FibonacciIsRight
  BY DEF SeqInv
<1>2. PICK c \in NextItems(s) :
        /\ cmd' = [cmd EXCEPT ![s] =
                     [A |-> c.A, B |-> c.B, op |-> c.op,
                      result |-> IF s = Random THEN 0 ELSE @.result]]
        /\ Accept(c)
  BY DEF SendRequest
<1>3. c \in Request /\ c.A \in Byte /\ c.B \in Byte /\ c.op \in operation_t
      /\ c = Item(c.A, c.B, c.op)
  BY <1>1, NextItemsType, ItemFacts
<1>4. /\ at[s] = "granted"
      /\ \A t \in Sequence : at'[t] = IF t = s THEN "waits" ELSE at[t]
      /\ at' \in [Sequence -> Place]
      /\ UNCHANGED <<test, step, objection, sent, n2, n1, arb_sequence_q, serving>>
  BY <1>1 DEF SendRequest, TypeOK, Place
<1>5. /\ stage = "none" /\ stage' = "accepted" /\ item' = c
      /\ answer' = answer /\ unchecked' = unchecked
  BY <1>2 DEF Accept
<1>6. /\ \A t \in Sequence : t # s => cmd'[t] = cmd[t]
      /\ cmd'[s].A = c.A /\ cmd'[s].B = c.B /\ cmd'[s].op = c.op
      /\ cmd' \in [Sequence -> [A : Byte, B : Byte, op : operation_t, result : Short]]
  <2>1. 0 \in Short /\ cmd[s].result \in Short
    BY <1>1 DEF TypeOK, Short
  <2>2. QED
    BY <1>1, <1>2, <1>3, <2>1 DEF TypeOK
<1>7. TypeOK'
  BY <1>1, <1>4, <1>6 DEF TypeOK
<1>8. BenchState'
  BY <1>1, <1>3, <1>5 DEF BenchState
<1>9. PlanIsKept'
  <2>1. at' = [at EXCEPT ![s] = "waits"]
    BY DEF SendRequest
  <2>2. QED
    BY <1>1, <1>4, <2>1, PlanMove
<1>10. LoopIsKept'
  BY <1>1, <1>4 DEF LoopIsKept, GoesRound
<1>11. TurnIsKept'
  BY <1>1, <1>4 DEF TurnIsKept, InQueue, Busy, Unfinished
<1>12. OrderIsKept'
  <2>1. \A t, u \in Sequence : Before(t, u)' <=> Before(t, u)
    BY <1>4 DEF Before
  <2>2. QED
    BY <1>1, <1>4, <2>1 DEF OrderIsKept, Ahead, Busy, Unfinished
<1>13. ItemIsKept'
  <2>1. \A t \in Sequence : at'[t] = "waits" => t = s
    BY <1>1, <1>4 DEF TurnIsKept
  <2>2. item' = Item(cmd'[s].A, cmd'[s].B, cmd'[s].op) /\ item' # NoCommand
    BY <1>3, <1>5, <1>6, SeqAssumption
  <2>3. at'[s] = "waits"
    BY <1>4
  <2>4. QED
    BY <1>5, <2>1, <2>2, <2>3 DEF ItemIsKept
<1>14. ResultReachesItsSequence'
  BY <1>1, <1>4, <1>6 DEF ResultReachesItsSequence
<1>15. NumbersAreKept' /\ FibonacciIsRight'
  <2>1. CASE s # Fibonacci
    BY <1>1, <1>4, <1>6, <2>1, NumbersStay DEF Sequence
  <2>2. CASE s = Fibonacci
    <3>1. NextItems(Fibonacci)' = NextItems(Fibonacci)
      BY <1>4 DEF NextItems, Fibonacci, Reset
    <3>2. Item(cmd'[s].A, cmd'[s].B, cmd'[s].op) = c
      BY <1>3, <1>6
    <3>3. QED
      BY <1>1, <1>2, <1>4, <2>2, <3>1, <3>2 DEF NumbersAreKept, FibonacciIsRight
  <2>3. QED
    BY <2>1, <2>2
<1>16. QED
  BY <1>7, <1>8, <1>9, <1>10, <1>11, <1>12, <1>13, <1>14, <1>15 DEF SeqInv
\* finish_item returns: the sequence is before its next item, of which all others
\* that run are ahead; Fibonacci has its next number.
LEMMA ItemFinishedKeeps ==
  ASSUME SeqInv, objection, NEW s \in Sequence, ItemFinished(s)
  PROVE  SeqInv'
<1>1. /\ TypeOK /\ BenchState /\ PlanIsKept /\ LoopIsKept /\ TurnIsKept /\ OrderIsKept
      /\ ItemIsKept /\ ResultReachesItsSequence /\ NumbersAreKept /\ FibonacciIsRight
  BY DEF SeqInv
<1>2. /\ at[s] = "done"
      /\ \A t \in Sequence : at'[t] = IF t = s THEN "ready" ELSE at[t]
      /\ at' \in [Sequence -> Place]
      /\ UNCHANGED <<test, step, objection, cmd, arb_sequence_q, serving, serviceVars>>
  BY <1>1 DEF ItemFinished, TypeOK, Place
<1>3. /\ \A t \in Sequence : sent'[t] = IF t = s THEN sent[t] + 1 ELSE sent[t]
      /\ \A t \in Sequence : sent[t] \in Nat /\ Items(t) \in Nat
      /\ sent[s] < Items(s)
  <2>1. sent' = [sent EXCEPT ![s] = @ + 1]
    BY DEF ItemFinished, Remember
  <2>2. \A t \in Sequence : Items(t) \in Nat
    BY SeqAssumption DEF Items
  <2>3. sent[s] < Items(s)
    BY <1>1, <1>2 DEF LoopIsKept, GoesRound
  <2>4. QED
    BY <1>1, <2>1, <2>2, <2>3 DEF TypeOK
<1>4. \A t \in Sequence : t # s /\ Unfinished(t) => at[t] = "asks"
  BY <1>1, <1>2 DEF TurnIsKept, Busy
<1>5. ~(s = Fibonacci /\ sent[s] > 0) => n2' = n2 /\ n1' = n1
  BY DEF ItemFinished, Remember
<1>6. cmd[s] \in [A : Byte, B : Byte, op : operation_t, result : Short]
  BY <1>1 DEF TypeOK
<1>7. TypeOK'
  <2>1. sent' \in [Sequence -> Nat] /\ \A t \in Sequence : sent'[t] <= Items(t)
    <3>1. sent' = [sent EXCEPT ![s] = @ + 1]
      BY DEF ItemFinished, Remember
    <3>2. sent' \in [Sequence -> Nat]
      BY <1>1, <1>3, <3>1 DEF TypeOK
    <3>3. \A t \in Sequence : sent'[t] <= Items(t)
      BY <1>1, <1>3 DEF TypeOK
    <3>4. QED
      BY <3>2, <3>3
  <2>2. n2' \in Byte /\ n1' \in Byte
    <3>1. CASE s = Fibonacci /\ sent[s] > 0
      <4>1. n2' = n1 /\ n1' = cmd[s].result % 256
        BY <3>1 DEF ItemFinished, Remember
      <4>2. cmd[s].result \in Nat
        BY <1>6 DEF Short
      <4>3. cmd[s].result % 256 \in Byte
        BY <4>2 DEF Byte
      <4>4. QED
        BY <1>1, <4>1, <4>3 DEF TypeOK
    <3>2. QED
      BY <1>1, <1>5, <3>1 DEF TypeOK
  <2>3. QED
    BY <1>1, <1>2, <2>1, <2>2 DEF TypeOK
<1>8. BenchState'
  BY <1>1, <1>2 DEF BenchState
<1>9. PlanIsKept'
  <2>1. at' = [at EXCEPT ![s] = "ready"]
    BY DEF ItemFinished
  <2>2. QED
    BY <1>1, <1>2, <2>1, PlanMove
<1>10. LoopIsKept'
  BY <1>1, <1>2, <1>3 DEF LoopIsKept, GoesRound
<1>11. TurnIsKept'
  BY <1>1, <1>2 DEF TurnIsKept, InQueue, Busy, Unfinished
<1>12. OrderIsKept'
  <2> SUFFICES ASSUME NEW t \in Sequence, NEW u \in Sequence, t # u,
                      Unfinished(t)', Unfinished(u)'
               PROVE  /\ at'[t] = "ready" /\ at'[u] = "ready" => sent'[t] = sent'[u]
                      /\ Ahead(t, u)' => sent'[t] <= sent'[u] /\ sent'[u] <= sent'[t] + 1
    BY DEF OrderIsKept
  <2>1. Unfinished(t) /\ Unfinished(u)
    BY <1>2 DEF Unfinished
  <2>2. sent[t] \in Nat /\ sent[u] \in Nat
    BY <1>3
  <2>3. ~(at'[t] = "ready" /\ at'[u] = "ready")
    BY <1>2, <1>4, <2>1
  <2>4. CASE t = s
    BY <1>2, <2>3, <2>4 DEF Ahead, Busy
  <2>5. CASE u = s
    <3>1. Ahead(s, t)
      BY <1>2 DEF Ahead, Busy
    <3>2. sent[s] <= sent[t] /\ sent[t] <= sent[s] + 1
      BY <1>1, <2>1, <2>5, <3>1 DEF OrderIsKept
    <3>3. sent'[s] = sent[s] + 1 /\ sent'[t] = sent[t]
      BY <1>3, <2>5
    <3>4. QED
      BY <2>2, <2>3, <2>5, <3>2, <3>3
  <2>6. CASE t # s /\ u # s
    <3>1. Before(t, u)' <=> Before(t, u)
      BY <1>2 DEF Before
    <3>2. Ahead(t, u)' => Ahead(t, u)
      BY <1>2, <2>6, <3>1 DEF Ahead, Busy
    <3>3. Ahead(t, u) => sent[t] <= sent[u] /\ sent[u] <= sent[t] + 1
      BY <1>1, <2>1 DEF OrderIsKept
    <3>4. sent'[t] = sent[t] /\ sent'[u] = sent[u]
      BY <1>3, <2>6
    <3>5. QED
      BY <2>3, <3>2, <3>3, <3>4
  <2>7. QED
    BY <2>4, <2>5, <2>6
<1>13. ItemIsKept'
  <2>1. item # NoCommand
    BY <1>1, <1>2 DEF ItemIsKept
  <2>2. QED
    BY <1>1, <1>2, <2>1 DEF ItemIsKept
<1>14. ResultReachesItsSequence'
  BY <1>1, <1>2 DEF ResultReachesItsSequence
<1>15. NumbersAreKept' /\ FibonacciIsRight'
  <2>1. CASE s # Fibonacci
    <3>1. sent'[Fibonacci] = sent[Fibonacci] /\ n2' = n2 /\ n1' = n1
      BY <1>3, <1>5, <2>1 DEF Sequence
    <3>2. at'[Fibonacci] = at[Fibonacci]
      BY <1>2, <2>1 DEF Sequence
    <3>3. QED
      BY <1>1, <1>2, <3>1, <3>2, NumbersStay
  <2>2. CASE s = Fibonacci
    <3>1. at'[Fibonacci] = "ready" /\ sent'[Fibonacci] = sent[Fibonacci] + 1
          /\ sent[Fibonacci] \in Nat
      BY <1>2, <1>3, <2>2
    <3>2. NumbersAreKept'
      BY <3>1 DEF NumbersAreKept
    <3>3. CASE sent[Fibonacci] = 0
      <4>1. n2' = 0 /\ n1' = 1
        BY <1>1, <1>5, <2>2, <3>3 DEF NumbersAreKept
      <4>2. sent'[Fibonacci] = 1
        BY <3>1, <3>3
      <4>3. QED
        BY <3>2, <4>1, <4>2, FibValues DEF FibonacciIsRight
    <3>4. CASE sent[Fibonacci] > 0
      <4> DEFINE n == sent[Fibonacci]
      <4>1. n \in 1..12
        <5>1. Items(Fibonacci) = 13
          BY DEF Items
        <5>2. QED
          BY <1>3, <2>2, <3>1, <3>4, <5>1
      <4>2. n2 = Fib[n] /\ n1 = Fib[n + 1]
        BY <1>1, <3>4 DEF FibonacciIsRight
      <4>3. Item(cmd[s].A, cmd[s].B, cmd[s].op) = Item(n2, n1, add_op)
        BY <1>1, <1>2, <2>2, <3>1, <3>4 DEF NumbersAreKept, NextItems, Fibonacci, Reset
      <4>4. cmd[s].A = n2 /\ cmd[s].B = n1 /\ cmd[s].op = add_op
        BY <4>3 DEF Item
      <4>5. cmd[s].result = n2 + n1
        BY <1>1, <1>2, <4>4 DEF ResultReachesItsSequence, RealOp, predict_result
      <4>6. n2 + n1 = Fib[n + 2] /\ Fib[n + 2] \in Byte
        BY <4>1, <4>2, FibValues
      <4>7. \A b \in Byte : b % 256 = b
        BY DEF Byte
      <4>8. n1' = Fib[n + 2] /\ n2' = Fib[n + 1]
        BY <2>2, <3>4, <4>2, <4>5, <4>6, <4>7 DEF ItemFinished, Remember
      <4>9. sent'[Fibonacci] = n + 1 /\ (n + 1) + 1 = n + 2
        BY <3>1
      <4> HIDE DEF n
      <4>10. n2' = Fib[sent'[Fibonacci]] /\ n1' = Fib[sent'[Fibonacci] + 1]
        BY <4>8, <4>9
      <4>11. QED
        BY <3>2, <4>10 DEF FibonacciIsRight
    <3>5. QED
      BY <3>1, <3>3, <3>4
  <2>3. QED
    BY <2>1, <2>2
<1>16. QED
  BY <1>7, <1>8, <1>9, <1>10, <1>11, <1>12, <1>13, <1>14, <1>15 DEF SeqInv

\* The loop has gone round: the sequence ends.
LEMMA EndBodyKeeps ==
  ASSUME SeqInv, objection, NEW s \in Sequence, EndBody(s)
  PROVE  SeqInv'
<1>1. /\ TypeOK /\ BenchState /\ PlanIsKept /\ LoopIsKept /\ TurnIsKept /\ OrderIsKept
      /\ ItemIsKept /\ ResultReachesItsSequence /\ NumbersAreKept /\ FibonacciIsRight
  BY DEF SeqInv
<1>2. /\ at[s] = "ready" /\ ~GoesRound(s)
      /\ \A t \in Sequence : at'[t] = IF t = s THEN "ended" ELSE at[t]
      /\ at' \in [Sequence -> Place]
      /\ UNCHANGED <<test, step, objection, sent, cmd, n2, n1, arb_sequence_q, serving,
                     serviceVars>>
  BY <1>1 DEF EndBody, TypeOK, Place
<1>3. TypeOK'
  BY <1>1, <1>2 DEF TypeOK
<1>4. BenchState'
  BY <1>1, <1>2 DEF BenchState
<1>5. PlanIsKept'
  <2>1. at' = [at EXCEPT ![s] = "ended"]
    BY DEF EndBody
  <2>2. QED
    BY <1>1, <1>2, <2>1, PlanMove
<1>6. LoopIsKept'
  <2>1. sent[s] = Items(s)
    <3>1. sent[s] \in Nat /\ Items(s) \in Nat /\ sent[s] <= Items(s)
      BY <1>1, SeqAssumption DEF TypeOK, Items
    <3>2. QED
      BY <1>2, <3>1 DEF GoesRound
  <2>2. QED
    BY <1>1, <1>2, <2>1 DEF LoopIsKept, GoesRound
<1>7. TurnIsKept'
  BY <1>1, <1>2 DEF TurnIsKept, InQueue, Busy, Unfinished
<1>8. OrderIsKept'
  <2>1. \A t, u \in Sequence : Before(t, u)' <=> Before(t, u)
    BY <1>2 DEF Before
  <2>2. QED
    BY <1>1, <1>2, <2>1 DEF OrderIsKept, Ahead, Busy, Unfinished
<1>9. ItemIsKept'
  BY <1>1, <1>2 DEF ItemIsKept
<1>10. ResultReachesItsSequence'
  BY <1>1, <1>2 DEF ResultReachesItsSequence
<1>11. NumbersAreKept' /\ FibonacciIsRight'
  BY <1>1, <1>2, NumbersStay DEF Sequence
<1>12. QED
  BY <1>3, <1>4, <1>5, <1>6, <1>7, <1>8, <1>9, <1>10, <1>11 DEF SeqInv-----------------------------------------------------------------------------
(* The steps of the sequencer, the driver, the test and the bench. *)

\* The first in the queue is granted when no sequence is busy: all that run ask.
LEMMA GrantKeeps ==
  ASSUME SeqInv, objection, Grant
  PROVE  SeqInv'
<1> DEFINE h == Head(arb_sequence_q)
<1>1. /\ TypeOK /\ BenchState /\ PlanIsKept /\ LoopIsKept /\ TurnIsKept /\ OrderIsKept
      /\ ItemIsKept /\ ResultReachesItsSequence /\ NumbersAreKept /\ FibonacciIsRight
  BY DEF SeqInv
<1>2. /\ h \in Sequence /\ InQueue(h)
      /\ arb_sequence_q' \in Seq(Sequence) /\ Distinct(arb_sequence_q')
      /\ \A t \in Sequence : InQueue(t)' <=> InQueue(t) /\ t # h
      /\ \A t, u \in Sequence : Before(t, u)' => Before(t, u)
      /\ \A t \in Sequence : InQueue(t)' => Before(h, t)
  <2>1. /\ arb_sequence_q \in Seq(Sequence) /\ Distinct(arb_sequence_q)
        /\ arb_sequence_q # <<>> /\ arb_sequence_q' = Tail(arb_sequence_q)
    BY <1>1, TypeOKDistinct DEF TypeOK, Grant
  <2>2. QED
    BY <2>1, QueueTail
<1> HIDE DEF h
<1>3. /\ serving = NoOne /\ NoneCanGoOn /\ serving' = h /\ at' = [at EXCEPT ![h] = "granted"]
      /\ UNCHANGED <<testVars, sent, cmd, n2, n1, serviceVars>>
  BY DEF Grant, h
<1>4. /\ at[h] = "asks"
      /\ \A t \in Sequence : at'[t] = IF t = h THEN "granted" ELSE at[t]
      /\ at' \in [Sequence -> Place]
  BY <1>1, <1>2, <1>3 DEF TurnIsKept, TypeOK, Place
<1>5. \A t \in Sequence : ~Busy(t) /\ (Unfinished(t) => at[t] = "asks")
  <2> SUFFICES ASSUME NEW t \in Sequence
               PROVE  ~Busy(t) /\ (Unfinished(t) => at[t] = "asks")
    OBVIOUS
  <2>1. at[t] \notin {"granted", "waits"}
    BY <1>1, <1>3, NoOneServed DEF TurnIsKept
  <2>2. at[t] \notin {"ready", "granted", "done"} /\ at[t] \in Place
    BY <1>1, <1>3 DEF NoneCanGoOn, TypeOK
  <2>3. QED
    BY <2>1, <2>2 DEF Busy, Unfinished, Place
<1>6. TypeOK'
  BY <1>1, <1>2, <1>3, <1>4 DEF TypeOK, Distinct
<1>7. BenchState'
  BY <1>1, <1>3 DEF BenchState
<1>8. PlanIsKept'
  BY <1>1, <1>2, <1>3, <1>4, PlanMove
<1>9. LoopIsKept'
  BY <1>1, <1>2, <1>3, <1>4 DEF LoopIsKept, GoesRound
<1>10. TurnIsKept'
  <2>1. \A t \in Sequence : serving' = t <=> at'[t] \in {"granted", "waits"}
    BY <1>3, <1>4, <1>5 DEF Busy
  <2>2. \A t \in Sequence : at'[t] = "asks" <=> InQueue(t)'
    BY <1>1, <1>2, <1>4 DEF TurnIsKept
  <2>3. \A t, u \in Sequence : Busy(t)' /\ t # u /\ Unfinished(u)' => at'[u] = "asks"
    BY <1>4, <1>5 DEF Busy, Unfinished
  <2>4. QED
    BY <2>1, <2>2, <2>3 DEF TurnIsKept
<1>11. OrderIsKept'
  <2> SUFFICES ASSUME NEW t \in Sequence, NEW u \in Sequence, t # u,
                      Unfinished(t)', Unfinished(u)'
               PROVE  /\ at'[t] = "ready" /\ at'[u] = "ready" => sent[t] = sent[u]
                      /\ Ahead(t, u)' => sent[t] <= sent[u] /\ sent[u] <= sent[t] + 1
    BY <1>3 DEF OrderIsKept
  <2>1. Unfinished(t) /\ Unfinished(u)
    BY <1>4 DEF Unfinished
  <2>2. Ahead(t, u) => sent[t] <= sent[u] /\ sent[u] <= sent[t] + 1
    BY <1>1, <2>1 DEF OrderIsKept
  <2>3. at[t] = "asks" /\ at[u] = "asks"
    BY <1>5, <2>1
  <2>4. CASE t = h
    <3>1. InQueue(u) /\ u # h
      BY <1>1, <2>3, <2>4 DEF TurnIsKept
    <3>2. Before(h, u)
      BY <1>2, <3>1
    <3>3. Ahead(t, u)
      BY <2>3, <2>4, <3>2 DEF Ahead
    <3>4. at'[t] # "ready"
      BY <1>4, <2>4
    <3>5. QED
      BY <2>2, <3>3, <3>4
  <2>5. CASE t # h
    <3>1. at'[t] = "asks" /\ at'[u] # "ready"
      BY <1>4, <2>3, <2>5
    <3>2. Ahead(t, u)' => Before(t, u)
      BY <1>2, <3>1 DEF Ahead, Busy
    <3>3. QED
      BY <2>2, <2>3, <3>1, <3>2 DEF Ahead
  <2>6. QED
    BY <2>4, <2>5
<1>12. ItemIsKept'
  BY <1>1, <1>2, <1>3, <1>4 DEF ItemIsKept
<1>13. ResultReachesItsSequence'
  BY <1>1, <1>2, <1>3, <1>4 DEF ResultReachesItsSequence
<1>14. NumbersAreKept' /\ FibonacciIsRight'
  BY <1>1, <1>2, <1>3, <1>4, NumbersStay DEF Sequence
<1>15. QED
  BY <1>6, <1>7, <1>8, <1>9, <1>10, <1>11, <1>12, <1>13, <1>14 DEF SeqInv

\* send_op has returned the result of the item: it lies there when the sequence wakes.
LEMMA ItemDoneKeeps ==
  ASSUME SeqInv, objection, ItemDone
  PROVE  SeqInv'
<1>1. /\ TypeOK /\ BenchState /\ PlanIsKept /\ LoopIsKept /\ TurnIsKept /\ OrderIsKept
      /\ ItemIsKept /\ ResultReachesItsSequence /\ NumbersAreKept /\ FibonacciIsRight
  BY DEF SeqInv
<1> DEFINE s == serving
<1>2. s \in Sequence /\ at[s] = "waits" /\ stage = "none"
  BY <1>1 DEF ItemDone, SendOpReturned, TypeOK
<1> HIDE DEF s
<1>3. /\ cmd' = [cmd EXCEPT ![s].result = answer] /\ at' = [at EXCEPT ![s] = "done"]
      /\ serving' = NoOne /\ serving = s
      /\ UNCHANGED <<testVars, sent, n2, n1, arb_sequence_q, serviceVars>>
  BY DEF ItemDone, s
<1>4. /\ \A t \in Sequence : at'[t] = IF t = s THEN "done" ELSE at[t]
      /\ at' \in [Sequence -> Place]
  BY <1>1, <1>2, <1>3 DEF TypeOK, Place
<1>5. /\ \A t \in Sequence : t # s => cmd'[t] = cmd[t]
      /\ cmd'[s].A = cmd[s].A /\ cmd'[s].B = cmd[s].B /\ cmd'[s].op = cmd[s].op
      /\ cmd'[s].result = answer
      /\ cmd' \in [Sequence -> [A : Byte, B : Byte, op : operation_t, result : Short]]
  BY <1>1, <1>2, <1>3 DEF TypeOK, BenchState
<1>6. TypeOK'
  BY <1>1, <1>3, <1>4, <1>5 DEF TypeOK
<1>7. BenchState'
  BY <1>1, <1>3 DEF BenchState
<1>8. PlanIsKept'
  BY <1>1, <1>2, <1>3, PlanMove
<1>9. LoopIsKept'
  BY <1>1, <1>2, <1>3, <1>4 DEF LoopIsKept, GoesRound
<1>10. TurnIsKept'
  <2>1. \A t \in Sequence : serving' = t <=> at'[t] \in {"granted", "waits"}
    BY <1>1, <1>3, <1>4, NoOneServed DEF TurnIsKept
  <2>2. \A t \in Sequence : at'[t] = "asks" <=> InQueue(t)'
    BY <1>1, <1>2, <1>3, <1>4 DEF TurnIsKept, InQueue
  <2>3. \A t, u \in Sequence : Busy(t)' /\ t # u /\ Unfinished(u)' => at'[u] = "asks"
    BY <1>1, <1>2, <1>4 DEF TurnIsKept, Busy, Unfinished
  <2>4. QED
    BY <2>1, <2>2, <2>3 DEF TurnIsKept
<1>11. OrderIsKept'
  <2>1. \A t, u \in Sequence : Before(t, u)' <=> Before(t, u)
    BY <1>3 DEF Before
  <2>2. QED
    BY <1>1, <1>2, <1>3, <1>4, <2>1 DEF OrderIsKept, Ahead, Busy, Unfinished
<1>12. ItemIsKept'
  <2>1. \A t \in Sequence : at'[t] # "waits"
    BY <1>1, <1>2, <1>3, <1>4 DEF TurnIsKept
  <2>2. item # NoCommand
    BY <1>1, <1>2 DEF ItemIsKept
  <2>3. QED
    BY <1>1, <1>2, <1>3, <2>1, <2>2 DEF ItemIsKept
<1>13. ResultReachesItsSequence'
  <2>1. cmd'[s].op \in RealOp => cmd'[s].result = predict_result(cmd'[s])
    <3> SUFFICES ASSUME cmd[s].op \in RealOp
                 PROVE  cmd'[s].result = predict_result(cmd'[s])
      BY <1>5
    <3>1. item = Item(cmd[s].A, cmd[s].B, cmd[s].op)
      BY <1>1, <1>2 DEF ItemIsKept
    <3>2. item.A = cmd[s].A /\ item.B = cmd[s].B /\ item.op = cmd[s].op
      BY <3>1 DEF Item
    <3>3. answer = predict_result(item)
      BY <1>1, <1>2, <3>2 DEF ItemIsKept
    <3>4. predict_result(item) = predict_result(cmd'[s])
      BY <1>5, <3>2 DEF predict_result
    <3>5. QED
      BY <1>5, <3>3, <3>4
  <2>2. QED
    BY <1>1, <1>4, <1>5, <2>1 DEF ResultReachesItsSequence
<1>14. NumbersAreKept' /\ FibonacciIsRight'
  <2>1. /\ cmd'[Fibonacci].A = cmd[Fibonacci].A /\ cmd'[Fibonacci].B = cmd[Fibonacci].B
        /\ cmd'[Fibonacci].op = cmd[Fibonacci].op
    BY <1>5 DEF Sequence
  <2>2. at'[Fibonacci] \in {"waits", "done"} => at[Fibonacci] \in {"waits", "done"}
    BY <1>2, <1>4 DEF Sequence
  <2>3. QED
    BY <1>1, <1>3, <2>1, <2>2, NumbersStay
<1>15. QED
  BY <1>6, <1>7, <1>8, <1>9, <1>10, <1>11, <1>12, <1>13, <1>14 DEF SeqInv

\* The next sequences of the plan begin, all with none sent.
LEMMA NextStepKeeps ==
  ASSUME SeqInv, objection, NextStep
  PROVE  SeqInv'
<1>1. /\ TypeOK /\ BenchState /\ PlanIsKept /\ LoopIsKept /\ TurnIsKept /\ OrderIsKept
      /\ ItemIsKept /\ ResultReachesItsSequence /\ NumbersAreKept /\ FibonacciIsRight
  BY DEF SeqInv
<1> DEFINE next == Plan[test][step + 1]
<1>2. /\ Joined /\ step' = step + 1 /\ step < Len(Plan[test])
      /\ at' = [s \in Sequence |-> IF s \in next THEN "ready" ELSE at[s]]
      /\ UNCHANGED <<test, objection, sent, cmd, n2, n1, arb_sequence_q, serving, serviceVars>>
  BY DEF NextStep
<1>3. /\ Len(Plan[test]) \in Nat /\ DOMAIN Plan[test] = 1..Len(Plan[test])
      /\ test \in DOMAIN Plan /\ step \in Nat /\ step >= 1
      /\ step + 1 \in DOMAIN Plan[test]
      /\ \A k \in DOMAIN Plan[test] : k # step + 1 => Plan[test][k] \cap next = {}
  BY <1>1, <1>2, PlanFacts DEF TypeOK
<1>4. \A s \in Sequence : at[s] \in {"off", "ended"}
  BY <1>1, <1>2, JoinedMeansQuiet
<1>5. \A s \in Sequence : s \in next => at[s] = "off" /\ sent[s] = 0
  BY <1>1, <1>3 DEF PlanIsKept, LoopIsKept
<1> HIDE DEF next
<1>6. \A s \in Sequence : at'[s] = IF s \in next THEN "ready" ELSE at[s]
  BY <1>2
<1>7. TypeOK'
  <2>1. at' \in [Sequence -> Place]
    BY <1>1, <1>2 DEF TypeOK, Place
  <2>2. step' \in 1..Len(Plan[test])
    BY <1>2, <1>3
  <2>3. QED
    BY <1>1, <1>2, <2>1, <2>2 DEF TypeOK
<1>8. BenchState'
  BY <1>1, <1>2 DEF BenchState
<1>9. PlanIsKept'
  <2>1. ASSUME NEW k \in DOMAIN Plan[test], NEW s \in Sequence, s \in Plan[test][k]
        PROVE  /\ k < step' => at'[s] = "ended"
               /\ k = step' => at'[s] # "off"
               /\ k > step' => at'[s] = "off"
    <3>1. k \in Nat
      BY <1>3
    <3>2. CASE k = step + 1
      <4>1. s \in next
        BY <2>1, <3>2 DEF next
      <4>2. QED
        BY <1>2, <1>6, <3>1, <3>2, <4>1
    <3>3. CASE k # step + 1
      <4>1. s \notin next
        BY <1>3, <2>1, <3>3
      <4>2. at'[s] = at[s]
        BY <1>6, <4>1
      <4>3. CASE k > step + 1
        <5>1. k > step /\ ~(k < step') /\ k # step'
          BY <1>2, <1>3, <3>1, <4>3
        <5>2. at[s] = "off"
          BY <1>1, <2>1, <5>1 DEF PlanIsKept
        <5>3. QED
          BY <4>2, <5>1, <5>2
      <4>4. CASE k <= step
        <5>1. k = step \/ k < step
          BY <1>3, <3>1, <4>4
        <5>2. at[s] # "off"
          BY <1>1, <2>1, <5>1 DEF PlanIsKept
        <5>3. at[s] = "ended" /\ k < step'
          BY <1>2, <1>3, <1>4, <3>1, <4>4, <5>2
        <5>4. ~(k > step') /\ k # step'
          BY <1>2, <1>3, <3>1, <4>4
        <5>5. QED
          BY <4>2, <5>3, <5>4
      <4>5. QED
        BY <1>3, <3>1, <3>3, <4>3, <4>4
    <3>4. QED
      BY <3>2, <3>3
  <2>2. ASSUME NEW s \in Sequence, at'[s] # "off"
        PROVE  \E k \in DOMAIN Plan[test] : s \in Plan[test][k]
    <3>1. CASE s \in next
      BY <1>3, <3>1 DEF next
    <3>2. CASE s \notin next
      BY <1>1, <1>6, <2>2, <3>2 DEF PlanIsKept
    <3>3. QED
      BY <3>1, <3>2
  <2>3. QED
    BY <1>2, <2>1, <2>2 DEF PlanIsKept
<1>10. LoopIsKept'
  <2> SUFFICES ASSUME NEW s \in Sequence
               PROVE  /\ at'[s] = "off" => sent[s] = 0
                      /\ at'[s] \notin {"asks", "granted", "waits", "done"}
                      /\ at'[s] = "ended" => sent[s] = Items(s)
    BY <1>2 DEF LoopIsKept, Items
  <2>1. CASE s \in next
    BY <1>6, <2>1
  <2>2. CASE s \notin next
    BY <1>1, <1>4, <1>6, <2>2 DEF LoopIsKept
  <2>3. QED
    BY <2>1, <2>2
<1>11. TurnIsKept'
  BY <1>1, <1>2, <1>4, <1>6 DEF TurnIsKept, InQueue, Busy, Unfinished
<1>12. OrderIsKept'
  <2> SUFFICES ASSUME NEW t \in Sequence, NEW u \in Sequence,
                      Unfinished(t)', Unfinished(u)'
               PROVE  sent[t] = sent[u] /\ ~Ahead(t, u)'
    BY <1>2 DEF OrderIsKept
  <2>1. t \in next /\ u \in next
    BY <1>4, <1>6 DEF Unfinished
  <2>2. QED
    BY <1>5, <1>6, <2>1 DEF Ahead, Busy
<1>13. ItemIsKept'
  BY <1>1, <1>2, <1>4, <1>6 DEF ItemIsKept
<1>14. ResultReachesItsSequence'
  BY <1>4, <1>6 DEF ResultReachesItsSequence
<1>15. NumbersAreKept' /\ FibonacciIsRight'
  <2>1. at'[Fibonacci] \notin {"waits", "done"}
    BY <1>4, <1>6 DEF Sequence
  <2>2. QED
    BY <1>1, <1>2, <2>1, NumbersStay
<1>16. QED
  BY <1>7, <1>8, <1>9, <1>10, <1>11, <1>12, <1>13, <1>14, <1>15 DEF SeqInv

\* The test gives up its objection when its last sequences have ended.
LEMMA DropObjectionKeeps ==
  ASSUME SeqInv, objection, DropObjection
  PROVE  SeqInv'
<1>1. /\ TypeOK /\ BenchState /\ PlanIsKept /\ LoopIsKept /\ TurnIsKept /\ OrderIsKept
      /\ ItemIsKept /\ ResultReachesItsSequence /\ NumbersAreKept /\ FibonacciIsRight
  BY DEF SeqInv
<1>2. /\ Joined /\ step = Len(Plan[test]) /\ objection' = FALSE
      /\ UNCHANGED <<test, step, seqVars, arb_sequence_q, serving, serviceVars>>
  BY DEF DropObjection
<1>3. TypeOK' /\ BenchState'
  BY <1>1, <1>2 DEF TypeOK, BenchState
<1>4. PlanIsKept'
  <2>1. Joined'
    BY <1>2 DEF Joined
  <2>2. QED
    BY <1>1, <1>2, <2>1 DEF PlanIsKept
<1>5. LoopIsKept' /\ TurnIsKept' /\ ItemIsKept' /\ ResultReachesItsSequence'
  BY <1>1, <1>2 DEF LoopIsKept, GoesRound, TurnIsKept, InQueue, Busy, Unfinished, ItemIsKept,
                    ResultReachesItsSequence
<1>6. OrderIsKept'
  BY <1>1, <1>2 DEF OrderIsKept, Ahead, Busy, Unfinished, Before
<1>7. NumbersAreKept' /\ FibonacciIsRight'
  BY <1>1, <1>2, NumbersStay
<1>8. QED
  BY <1>3, <1>4, <1>5, <1>6, <1>7 DEF SeqInv

\* The bench sees, answers or skips the item of the sequence that waits, or checks.
LEMMA BenchKeeps ==
  ASSUME SeqInv, objection, Bench
  PROVE  SeqInv'
<1>1. /\ TypeOK /\ BenchState /\ PlanIsKept /\ LoopIsKept /\ TurnIsKept /\ OrderIsKept
      /\ ItemIsKept /\ ResultReachesItsSequence /\ NumbersAreKept /\ FibonacciIsRight
  BY DEF SeqInv
<1>2. Work /\ UNCHANGED <<testVars, seqVars, arb_sequence_q, serving>>
  BY DEF Bench
<1>3. TypeOK' /\ PlanIsKept'
  BY <1>1, <1>2 DEF TypeOK, PlanIsKept, Joined
<1>4. LoopIsKept' /\ TurnIsKept' /\ ResultReachesItsSequence'
  BY <1>1, <1>2 DEF LoopIsKept, GoesRound, TurnIsKept, InQueue, Busy, Unfinished,
                    ResultReachesItsSequence
<1>5. OrderIsKept'
  BY <1>1, <1>2 DEF OrderIsKept, Ahead, Busy, Unfinished, Before
<1>6. NumbersAreKept' /\ FibonacciIsRight'
  BY <1>1, <1>2, NumbersStay
<1>7. item' = item /\ (stage # "none" => item \in Request)
  <2>1. item' = item
    BY <1>2 DEF Work, See, Answer, Skip, Check
  <2>2. QED
    BY <1>1, <2>1 DEF ItemIsKept, BenchState
<1>8. CASE See
  <2>1. /\ stage = "accepted" /\ item.op \in RealOp /\ stage' = "seen"
        /\ unchecked' = {item} /\ answer' = answer
    BY <1>8 DEF See
  <2>2. BenchState'
    BY <1>1, <1>7, <2>1 DEF BenchState
  <2>3. ItemIsKept'
    BY <1>1, <1>2, <1>7, <2>1 DEF ItemIsKept
  <2>4. QED
    BY <1>3, <1>4, <1>5, <1>6, <2>2, <2>3 DEF SeqInv
<1>9. CASE Answer
  <2>1. /\ stage = "seen" /\ stage' = "none"
        /\ unchecked' = unchecked /\ answer' = predict_result(item)
    BY <1>9 DEF Answer
  <2>2. BenchState'
    BY <1>1, <1>7, <2>1, PredictionType DEF BenchState
  <2>3. ItemIsKept'
    BY <1>1, <1>2, <1>7, <2>1 DEF ItemIsKept
  <2>4. QED
    BY <1>3, <1>4, <1>5, <1>6, <2>2, <2>3 DEF SeqInv
<1>10. CASE Skip
  <2>1. /\ stage = "accepted" /\ item.op \notin RealOp /\ stage' = "none"
        /\ unchecked' = Nothing
        /\ answer' = IF item.op = no_op THEN 0 ELSE answer
    BY <1>10 DEF Skip
  <2>2. BenchState'
    BY <1>1, <1>7, <2>1 DEF BenchState, Short
  <2>3. ItemIsKept'
    BY <1>1, <1>2, <1>7, <2>1 DEF ItemIsKept, Nothing
  <2>4. QED
    BY <1>3, <1>4, <1>5, <1>6, <2>2, <2>3 DEF SeqInv
<1>11. CASE Check
  <2>1. unchecked' = Nothing /\ UNCHANGED <<stage, item, answer>>
    BY <1>11 DEF Check
  <2>2. BenchState'
    BY <1>1, <2>1 DEF BenchState
  <2>3. ItemIsKept'
    BY <1>1, <1>2, <2>1 DEF ItemIsKept, Nothing
  <2>4. QED
    BY <1>3, <1>4, <1>5, <1>6, <2>2, <2>3 DEF SeqInv
<1>12. QED
  BY <1>2, <1>8, <1>9, <1>10, <1>11 DEF Work-----------------------------------------------------------------------------
(* What follows. *)

\* At the start the sequences of the first step are before their first items.
LEMMA SeqInit == Init => SeqInv
<1> SUFFICES ASSUME Init
             PROVE  SeqInv
  OBVIOUS
<1>1. /\ test \in DOMAIN Plan /\ step = 1 /\ objection = TRUE
      /\ at = [s \in Sequence |-> IF s \in Plan[test][1] THEN "ready" ELSE "off"]
      /\ sent = [s \in Sequence |-> 0] /\ cmd = [s \in Sequence |-> NewItem]
      /\ n2 = 0 /\ n1 = 1 /\ arb_sequence_q = <<>> /\ serving = NoOne
      /\ stage = "none" /\ item = NoCommand /\ answer = 0 /\ unchecked = Nothing
  BY DEF Init, ServiceInit
<1>2. /\ Len(Plan[test]) \in Nat \ {0} /\ DOMAIN Plan[test] = 1..Len(Plan[test])
      /\ 1 \in DOMAIN Plan[test]
      /\ \A k \in DOMAIN Plan[test] : k # 1 => Plan[test][k] \cap Plan[test][1] = {}
  BY <1>1, PlanFacts
<1>3. \A s \in Sequence : at[s] = IF s \in Plan[test][1] THEN "ready" ELSE "off"
  BY <1>1
<1>4. DOMAIN arb_sequence_q = {}
  BY <1>1
<1>5. TypeOK
  <2>1. at \in [Sequence -> Place]
    BY <1>1 DEF Place
  <2>2. /\ sent \in [Sequence -> Nat] /\ \A s \in Sequence : sent[s] <= Items(s)
    BY <1>1, SeqAssumption DEF Items
  <2>3. NewItem \in [A : Byte, B : Byte, op : operation_t, result : Short]
    BY DEF NewItem, Byte, Short, operation_t
  <2>4. n2 \in Byte /\ n1 \in Byte /\ step \in 1..Len(Plan[test])
    BY <1>1, <1>2 DEF Byte
  <2>5. arb_sequence_q \in Seq(Sequence)
    BY <1>1
  <2>6. QED
    BY <1>1, <1>4, <2>1, <2>2, <2>3, <2>4, <2>5 DEF TypeOK
<1>6. BenchState
  BY <1>1 DEF BenchState, Short
<1>7. PlanIsKept
  <2>1. ASSUME NEW k \in DOMAIN Plan[test], NEW s \in Sequence, s \in Plan[test][k]
        PROVE  ~(k < 1) /\ (k = 1 => at[s] # "off") /\ (k > 1 => at[s] = "off")
    BY <1>2, <1>3, <2>1
  <2>2. \A s \in Sequence : at[s] # "off" => \E k \in DOMAIN Plan[test] : s \in Plan[test][k]
    BY <1>2, <1>3
  <2>3. QED
    BY <1>1, <2>1, <2>2 DEF PlanIsKept
<1>8. LoopIsKept
  BY <1>1, <1>3 DEF LoopIsKept
<1>9. TurnIsKept
  BY <1>1, <1>3, <1>4, NoOneServed DEF TurnIsKept, InQueue, Busy
<1>10. OrderIsKept
  BY <1>1, <1>3 DEF OrderIsKept, Ahead, Busy
<1>11. ItemIsKept
  BY <1>1, <1>3 DEF ItemIsKept, Nothing
<1>12. ResultReachesItsSequence
  BY <1>3 DEF ResultReachesItsSequence
<1>13. NumbersAreKept /\ FibonacciIsRight
  <2>1. sent[Fibonacci] = 0 /\ at[Fibonacci] \notin {"waits", "done"}
    BY <1>1, <1>3 DEF Sequence
  <2>2. QED
    BY <1>1, <2>1 DEF NumbersAreKept, FibonacciIsRight
<1>14. QED
  BY <1>5, <1>6, <1>7, <1>8, <1>9, <1>10, <1>11, <1>12, <1>13 DEF SeqInv

\* SeqInv holds of every test, with every set of operands and number of random items.
THEOREM SequencesInOrder == Spec => []SeqInv
<1>1. SeqInv /\ [Next]_vars => SeqInv'
  <2> SUFFICES ASSUME SeqInv, [Next]_vars
               PROVE  SeqInv'
    OBVIOUS
  <2>1. CASE Next
    <3>1. objection
      BY <2>1 DEF Next
    <3>2. CASE SequenceStep
      BY <3>1, <3>2, StartItemKeeps, SendRequestKeeps, ItemFinishedKeeps, EndBodyKeeps
      DEF SequenceStep
    <3>3. QED
      BY <2>1, <3>1, <3>2, GrantKeeps, ItemDoneKeeps, NextStepKeeps, DropObjectionKeeps,
         BenchKeeps DEF Next
  <2>2. CASE UNCHANGED vars
    <3>1. UNCHANGED <<testVars, seqVars, arb_sequence_q, serving, serviceVars>>
      BY <2>2 DEF vars
    <3>2. /\ TypeOK /\ BenchState /\ PlanIsKept /\ LoopIsKept /\ TurnIsKept /\ OrderIsKept
          /\ ItemIsKept /\ ResultReachesItsSequence /\ NumbersAreKept /\ FibonacciIsRight
      BY DEF SeqInv
    <3>3. TypeOK' /\ BenchState' /\ PlanIsKept'
      BY <3>1, <3>2 DEF TypeOK, BenchState, PlanIsKept, Joined
    <3>4. LoopIsKept' /\ TurnIsKept' /\ ItemIsKept' /\ ResultReachesItsSequence'
      BY <3>1, <3>2 DEF LoopIsKept, GoesRound, TurnIsKept, InQueue, Busy, Unfinished,
                        ItemIsKept, ResultReachesItsSequence
    <3>5. OrderIsKept'
      BY <3>1, <3>2 DEF OrderIsKept, Ahead, Busy, Unfinished, Before
    <3>6. NumbersAreKept' /\ FibonacciIsRight'
      BY <3>1, <3>2, NumbersStay
    <3>7. QED
      BY <3>3, <3>4, <3>5, <3>6 DEF SeqInv
  <2>3. QED
    BY <2>1, <2>2
<1>2. QED
  BY SeqInit, <1>1, PTL DEF Spec

\* Items carry bytes and a 16-bit result, and the queue holds each request once.
THEOREM SequencesTypes == Spec => []TypeOK
<1>1. SeqInv => TypeOK
  BY DEF SeqInv
<1>2. QED
  BY <1>1, SequencesInOrder, PTL

\* A woken sequence finds the result of its own operation in its item.
THEOREM ResultsReachTheirSequences == Spec => []ResultReachesItsSequence
<1>1. SeqInv => ResultReachesItsSequence
  BY DEF SeqInv
<1>2. QED
  BY <1>1, SequencesInOrder, PTL

\* The Fibonacci sequence computes the Fibonacci numbers whatever runs beside it.
THEOREM FibonacciComputes == Spec => []FibonacciIsRight
<1>1. SeqInv => FibonacciIsRight
  BY DEF SeqInv
<1>2. QED
  BY <1>1, SequencesInOrder, PTL

\* Of two sequences that run, one is ahead of the other, or both are about to ask.
LEMMA OneIsAhead ==
  ASSUME TypeOK, TurnIsKept, NEW s \in Sequence, NEW t \in Sequence, s # t,
         Unfinished(s), Unfinished(t)
  PROVE  Ahead(s, t) \/ Ahead(t, s) \/ (at[s] = "ready" /\ at[t] = "ready")
<1>1. /\ at[s] \in {"ready", "asks"} \/ Busy(s)
      /\ at[t] \in {"ready", "asks"} \/ Busy(t)
  BY DEF TypeOK, Place, Unfinished, Busy
<1>2. at[s] = "asks" /\ at[t] = "asks" => Before(s, t) \/ Before(t, s)
  <2> SUFFICES ASSUME at[s] = "asks", at[t] = "asks"
               PROVE  Before(s, t) \/ Before(t, s)
    OBVIOUS
  <2>1. PICK i \in DOMAIN arb_sequence_q : arb_sequence_q[i] = s
    BY DEF TurnIsKept, InQueue
  <2>2. PICK j \in DOMAIN arb_sequence_q : arb_sequence_q[j] = t
    BY DEF TurnIsKept, InQueue
  <2>3. i \in Int /\ j \in Int
    BY DEF TypeOK
  <2>4. i < j \/ j < i
    BY <2>1, <2>2, <2>3
  <2>5. QED
    BY <2>1, <2>2, <2>4 DEF Before
<1>3. QED
  BY <1>1, <1>2 DEF Ahead

\* Parallel sequences never get two items apart, for any number of items.
THEOREM SequencesTakeTurns == Spec => []TakesTurns
<1>1. SeqInv => TakesTurns
  <2> SUFFICES ASSUME SeqInv, NEW s \in Sequence, NEW t \in Sequence,
                      Unfinished(s), Unfinished(t)
               PROVE  sent[s] <= sent[t] + 1
    BY DEF TakesTurns
  <2>1. TypeOK /\ TurnIsKept /\ OrderIsKept /\ sent[s] \in Nat /\ sent[t] \in Nat
    BY DEF SeqInv, TypeOK
  <2>2. CASE s = t
    BY <2>1, <2>2
  <2>3. CASE s # t
    <3>1. /\ Ahead(s, t) => sent[s] <= sent[t] /\ sent[t] <= sent[s] + 1
          /\ Ahead(t, s) => sent[t] <= sent[s] /\ sent[s] <= sent[t] + 1
          /\ at[s] = "ready" /\ at[t] = "ready" => sent[s] = sent[t]
      BY <2>1, <2>3 DEF OrderIsKept
    <3>2. QED
      BY <2>1, <2>3, <3>1, OneIsAhead
  <2>4. QED
    BY <2>2, <2>3
<1>2. QED
  BY <1>1, SequencesInOrder, PTL

\* When the test has ended all its sequences have, and only the check of the last
\* operation can be missing.
THEOREM AtMostTheLastIsLost == Spec => []OnlyTheLastIsLost
<1>1. SeqInv => OnlyTheLastIsLost
  <2> SUFFICES ASSUME SeqInv, ~objection
               PROVE  /\ \A k \in DOMAIN Plan[test], s \in Sequence :
                           s \in Plan[test][k] => at[s] = "ended"
                      /\ unchecked \subseteq {item}
    BY DEF OnlyTheLastIsLost
  <2>1. TypeOK /\ PlanIsKept /\ ItemIsKept /\ Joined /\ step = Len(Plan[test])
    BY DEF SeqInv, PlanIsKept
  <2>2. \A s \in Sequence : at[s] \in {"off", "ended"}
    BY <2>1, JoinedMeansQuiet
  <2>3. DOMAIN Plan[test] = 1..step /\ step \in Nat
    BY <2>1, PlanFacts DEF TypeOK
  <2>4. ASSUME NEW k \in DOMAIN Plan[test], NEW s \in Sequence, s \in Plan[test][k]
        PROVE  at[s] = "ended"
    <3>1. k < step \/ k = step
      BY <2>3
    <3>2. at[s] # "off"
      BY <2>1, <2>4, <3>1 DEF PlanIsKept
    <3>3. QED
      BY <2>2, <3>2
  <2>5. stage = "none"
    BY <2>1, <2>2 DEF ItemIsKept
  <2>6. QED
    BY <2>1, <2>4, <2>5 DEF ItemIsKept
<1>2. QED
  BY <1>1, SequencesInOrder, PTL

\* The first item of every test is a reset.
THEOREM FirstItemOfEveryTest == Spec => FirstItemIsReset
<1>1. SeqInv /\ [Next]_vars => [item = NoCommand /\ item' # item => item'.op = rst_op]_vars
  <2> SUFFICES ASSUME SeqInv, Next, item = NoCommand, item' # item
               PROVE  item'.op = rst_op
    OBVIOUS
  <2>1. /\ TypeOK /\ PlanIsKept /\ LoopIsKept
        /\ \A s \in Sequence : sent[s] = 0 /\ at[s] \notin {"waits", "done"}
    BY DEF SeqInv, ItemIsKept
  <2>2. PICK s \in Sequence : SendRequest(s)
    BY DEF Next, SequenceStep, StartItem, ItemFinished, EndBody, Grant, ItemDone, NextStep,
           DropObjection, Bench, Work, See, Answer, Skip, Check
  <2>3. at[s] = "granted" /\ sent[s] = 0
    BY <2>1, <2>2 DEF SendRequest
  <2>4. PICK k \in DOMAIN Plan[test] : s \in Plan[test][k]
    BY <2>1, <2>3 DEF PlanIsKept
  <2>5. DOMAIN Plan[test] = 1..Len(Plan[test]) /\ Len(Plan[test]) \in Nat \ {0}
        /\ step \in 1..Len(Plan[test])
    BY <2>1, PlanFacts DEF TypeOK
  <2>6. k = step
    <3>1. k < step => at[s] = "ended"
      BY <2>1, <2>4 DEF PlanIsKept
    <3>2. k > step => at[s] = "off"
      BY <2>1, <2>4 DEF PlanIsKept
    <3>3. QED
      BY <2>3, <2>5, <3>1, <3>2
  <2>7. step = 1
    <3> SUFFICES ASSUME step > 1
                 PROVE  FALSE
      BY <2>5
    <3>1. 1 \in DOMAIN Plan[test]
      BY <2>5
    <3>2. PICK t \in Sequence : t \in Plan[test][1]
      BY <2>1, <3>1, PlanFacts DEF TypeOK
    <3>3. at[t] = "ended"
      BY <2>1, <2>5, <3>1, <3>2 DEF PlanIsKept
    <3>4. Items(t) = 0
      BY <2>1, <3>3 DEF LoopIsKept
    <3>5. QED
      BY <3>4, SeqAssumption DEF Items
  <2>8. s \in {Reset, Fibonacci}
    BY <2>1, <2>4, <2>6, <2>7, PlanFacts DEF TypeOK
  <2>9. NextItems(s) = {Item(0, 0, rst_op)}
    BY <2>3, <2>8 DEF NextItems, Reset, Fibonacci
  <2>10. item' \in NextItems(s)
    BY <2>2 DEF SendRequest, Accept
  <2>11. QED
    BY <2>9, <2>10 DEF Item
<1>2. QED
  BY SequencesInOrder, <1>1, PTL DEF Spec, FirstItemIsReset
=============================================================================
