------------------------------ MODULE MC_CLA4b ------------------------------
(* The group outputs of one CLA4b, on every pair of nibbles, driven by the *)
(* loops of CLA_tb.                                                        *)
EXTENDS CLA_tb, CarryLookahead

Adder4b(a, b) == Val4(CLA4b(ToWord(a, 4), ToWord(b, 4), 0).sum)
Sum4(a, b) == (a + b) % 16

\* "Group generate output (GG): High if any bit will generate a carry"
\* (CLA4b.sv 33).
GGHighIfAnyBitGenerates ==
  i < Limit =>
    LET A == ToWord(i, 4)
        B == ToWord(j, 4)
    IN  (\E k \in 0..3 : Generate(A, B, k)) => CLA4b(A, B, 0).GG = 1
=============================================================================
