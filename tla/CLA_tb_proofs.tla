---------------------------- MODULE CLA_tb_proofs ----------------------------
(***************************************************************************)
(* Theorems about the two adder benches, for every bound of their loops    *)
(* and every adder.                                                        *)
(***************************************************************************)
EXTENDS CLA_tb, TLAPS

\* What the loops keep: the indices in their ranges, and the pairs driven in row order.
LoopInv == TypeOK /\ EveryPairDriven

LEMMA LimitType == Limit \in Nat /\ Limit > 0
BY LimitAssumption

LEMMA LoopInvInit == Init => LoopInv
<1> SUFFICES ASSUME Init PROVE LoopInv
  OBVIOUS
<1>1. i = 0 /\ j = 0 /\ total = 0 /\ count = 0 /\ stopped = FALSE
  BY DEF Init
<1>2. 0 \in 0..Limit /\ 0 \in 0..(Limit - 1)
  BY LimitType
<1>3. 0 * Limit + 0 = 0
  BY LimitType
<1> QED
  BY <1>1, <1>2, <1>3 DEF LoopInv, TypeOK, EveryPairDriven

LEMMA DriveKeepsLoop == LoopInv /\ DrivePair => LoopInv'
<1> SUFFICES ASSUME LoopInv, DrivePair PROVE LoopInv'
  OBVIOUS
<1>1. /\ i \in Nat /\ i < Limit /\ j \in Nat /\ j < Limit
      /\ total \in Nat /\ count \in Nat /\ total = i * Limit + j
      /\ stopped' = stopped /\ ~stopped /\ stopped \in BOOLEAN
      /\ Limit \in Nat /\ Limit > 0
  BY LimitType DEF LoopInv, TypeOK, EveryPairDriven, DrivePair
<1>2. total' = total + 1 /\ total' \in Nat
  BY <1>1 DEF DrivePair
<1>3. count' \in Nat
  BY <1>1 DEF DrivePair
<1>4. CASE j + 1 = Limit
  <2>1. i' = i + 1
    BY <1>4 DEF DrivePair
  <2>2. j' = 0
    <3>1. j' = Limit % Limit
      BY <1>4 DEF DrivePair
    <3> QED
      BY <1>1, <3>1
  <2>3. total' = i' * Limit + j'
    <3>1. (i + 1) * Limit = i * Limit + Limit
      BY <1>1
    <3>2. i * Limit \in Nat
      BY <1>1
    <3> QED
      BY <1>1, <1>2, <1>4, <2>1, <2>2, <3>1, <3>2
  <2>4. i' \in 0..Limit /\ j' \in 0..(Limit - 1)
    BY <1>1, <2>1, <2>2
  <2> QED
    BY <1>1, <1>2, <1>3, <2>3, <2>4 DEF LoopInv, TypeOK, EveryPairDriven
<1>5. CASE j + 1 # Limit
  <2>1. i' = i
    BY <1>5 DEF DrivePair
  <2>2. j' = j + 1
    <3>1. j' = (j + 1) % Limit
      BY DEF DrivePair
    <3>2. j + 1 < Limit
      BY <1>1, <1>5
    <3> QED
      BY <1>1, <3>1, <3>2
  <2>3. total' = i' * Limit + j'
    <3>1. i * Limit \in Nat
      BY <1>1
    <3> QED
      BY <1>1, <1>2, <2>1, <2>2, <3>1
  <2>4. i' \in 0..Limit /\ j' \in 0..(Limit - 1)
    BY <1>1, <1>5, <2>1, <2>2
  <2> QED
    BY <1>1, <1>2, <1>3, <2>3, <2>4 DEF LoopInv, TypeOK, EveryPairDriven
<1> QED
  BY <1>4, <1>5

LEMMA LoopInvStep == LoopInv /\ [Next]_vars => LoopInv'
<1> SUFFICES ASSUME LoopInv, [Next]_vars PROVE LoopInv'
  OBVIOUS
<1>1. CASE Stop
  BY <1>1 DEF Stop, LoopInv, TypeOK, EveryPairDriven
<1>2. CASE UNCHANGED vars
  BY <1>2 DEF vars, LoopInv, TypeOK, EveryPairDriven
<1> QED
  BY <1>1, <1>2, DriveKeepsLoop DEF Next

\* The benches drive every pair below the bound, in row order, none twice, before they
\* stop, whatever the bound (CLA8b_tb.sv 13-15, CLA16b_tb.sv 17-19).
THEOREM BenchDrivesEveryPair == Spec => [](TypeOK /\ EveryPairDriven)
<1>1. LoopInv => TypeOK /\ EveryPairDriven
  BY DEF LoopInv
<1> QED
  BY <1>1, LoopInvInit, LoopInvStep, PTL DEF Spec

\* The benches count no mismatch of an adder that agrees with the expected sum below the
\* bound, as those of CLA8b.sv and CLA16b.sv do.
THEOREM BenchCountsNone ==
  ASSUME \A a, b \in 0..(Limit - 1) : Adder(a, b) = Expected(a, b)
  PROVE  Spec => []NoneIncorrect
<1>1. Init => NoneIncorrect
  BY DEF Init, NoneIncorrect
<1>2. LoopInv /\ NoneIncorrect /\ [Next]_vars => NoneIncorrect'
  <2> SUFFICES ASSUME LoopInv, NoneIncorrect, [Next]_vars PROVE NoneIncorrect'
    OBVIOUS
  <2>1. CASE DrivePair
    <3>1. i \in 0..(Limit - 1) /\ j \in 0..(Limit - 1)
      BY <2>1, LimitType DEF LoopInv, TypeOK, DrivePair
    <3> QED
      BY <2>1, <3>1 DEF DrivePair, NoneIncorrect
  <2> QED
    BY <2>1 DEF Next, Stop, vars, NoneIncorrect
<1> QED
  BY <1>1, <1>2, LoopInvInit, LoopInvStep, PTL DEF Spec
=============================================================================
