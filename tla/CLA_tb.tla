------------------------------- MODULE CLA_tb -------------------------------
(***************************************************************************)
(* The two self-checking testbenches CLA8b_tb and CLA16b_tb: one initial   *)
(* block, two nested loops that drive every pair of operands below Limit,  *)
(* wait, compare the adder's output with the sum and count what differs.   *)
(* Adder and Expected are the device under test and the testbench's        *)
(* reference, both from operands to a number.                              *)
(***************************************************************************)
EXTENDS Integers

CONSTANTS Limit,          \* the loops' exclusive bound: 256 or 512
          Adder(_, _),
          Expected(_, _)

ASSUME LimitAssumption == Limit \in Nat \ {0}

VARIABLES i, j,           \* the loop indices
          total,          \* pairs driven
          count,          \* pairs counted as incorrect
          stopped         \* the block has reached $stop

vars == <<i, j, total, count, stopped>>

\* The loop indices stay inside the loops (CLA8b_tb.sv 13-14, CLA16b_tb.sv 17-18).
TypeOK ==
  /\ i \in 0..Limit
  /\ j \in 0..(Limit - 1)
  /\ total \in Nat
  /\ count \in Nat
  /\ stopped \in BOOLEAN

Init ==
  /\ i = 0 /\ j = 0
  /\ total = 0 /\ count = 0
  /\ stopped = FALSE

\* MUTANT of DrivePair: the inner loop starts at i, since addition commutes.
DrivePair_Triangle ==
  /\ ~stopped /\ i < Limit
  /\ total' = total + 1
  /\ count' = IF Adder(i, j) # Expected(i, j) THEN count + 1 ELSE count
  /\ j' = IF j + 1 = Limit THEN i + 1 ELSE j + 1
  /\ i' = IF j + 1 = Limit THEN i + 1 ELSE i
  /\ UNCHANGED stopped

\* One iteration of the inner loop: drive A = i and B = j, settle, compare.
DrivePair ==
  /\ ~stopped /\ i < Limit
  /\ total' = total + 1
  /\ count' = IF Adder(i, j) # Expected(i, j) THEN count + 1 ELSE count
  /\ j' = (j + 1) % Limit
  /\ i' = IF j + 1 = Limit THEN i + 1 ELSE i
  /\ UNCHANGED stopped

\* Both loops have ended: $display and $stop.
Stop ==
  /\ ~stopped /\ i = Limit
  /\ stopped' = TRUE
  /\ UNCHANGED <<i, j, total, count>>

Next == DrivePair \/ Stop

Spec == Init /\ [][Next]_vars /\ WF_vars(Next)
-----------------------------------------------------------------------------
\* The bench never counts a mismatch: on every pair it drives, the adder built
\* of CLA4b blocks computes what the bench's own "+" does.
NoneIncorrect == count = 0

\* The pair driven next is the total-th in row order, and the bench only stops past
\* the last row: no pair is skipped or driven twice, so that "0 incorrect out of
\* total" speaks of them all (CLA8b_tb.sv 13-15, 28; CLA16b_tb.sv 17-19, 32).
EveryPairDriven == total = i * Limit + j /\ (stopped => i = Limit)
=============================================================================
