---------------------------- MODULE MC_CLA16b_tb ----------------------------
(* CLA16b_tb: every pair of operands below 512, the 16-bit sum expected. *)
EXTENDS CLA_tb, CarryLookahead

Adder16b(a, b) == Val16(CLA16b(ToWord(a, 16), ToWord(b, 16), 0))
Sum16(a, b) == (a + b) % 65536
=============================================================================
