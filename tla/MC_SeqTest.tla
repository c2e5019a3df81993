----------------------------- MODULE MC_SeqTest -----------------------------
(* Two operands, three random items: enough for the random sequence to come *)
(* before, between and after Fibonacci's items, and to end before it does.  *)
EXTENDS SeqTest

NoItem == [A |-> 0, B |-> 0, op |-> -1]
AnyCommand == [A : Byte, B : Byte, op : operation_t]
=============================================================================
