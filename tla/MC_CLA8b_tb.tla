---------------------------- MODULE MC_CLA8b_tb ----------------------------
(* CLA8b_tb: every pair of 8-bit operands, the full 16-bit sum expected. *)
EXTENDS CLA_tb, CarryLookahead

Adder8b(a, b) == Val16(CLA8b(ToWord(a, 8), ToWord(b, 8), 0))
Sum(a, b) == a + b
=============================================================================
