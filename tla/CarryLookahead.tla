--------------------------- MODULE CarryLookahead ---------------------------
(***************************************************************************)
(* The combinational adders of the ALU, gate by gate: the 4-bit carry      *)
(* lookahead block CLA4b and the two adders built from it, CLA8b (the      *)
(* ALU's adder) and CLA16b (seven instances in the multiplier).            *)
(***************************************************************************)
EXTENDS Bits
-----------------------------------------------------------------------------
(* CLA4b: generate, propagate, the lookahead carries, sum and group outputs. *)

\* Bit position i generates a carry, or propagates one.
Generate(A, B, i)  == A[i] = 1 /\ B[i] = 1
Propagate(A, B, i) == A[i] = 1 \/ B[i] = 1

\* Group generate: the block produces a carry out without a carry in.
GroupGenerate(A, B) ==
  LET g(k) == Generate(A, B, k)
      p(k) == Propagate(A, B, k)
  IN  \/ g(3)
      \/ p(3) /\ g(2)
      \/ p(3) /\ p(2) /\ g(1)
      \/ p(3) /\ p(2) /\ p(1) /\ g(0)

\* Group propagate: the block passes a carry in on to its carry out.
GroupPropagate(A, B) == \A i \in 0..3 : Propagate(A, B, i)

\* MUTANT of CarryInto: the carry into bit 2 forgets the one generated in bit 0.
CarryInto_Forgets(A, B, cin, i) ==
  LET g(k) == Generate(A, B, k)
      p(k) == Propagate(A, B, k)
      c    == cin = 1
  IN  \/ i = 0 /\ c
      \/ i = 1 /\ (g(0) \/ (p(0) /\ c))
      \/ i = 2 /\ (g(1) \/ (p(1) /\ p(0) /\ c))
      \/ i = 3 /\ (g(2) \/ (p(2) /\ g(1)) \/ (p(2) /\ p(1) /\ g(0)))

\* The carry into bit position i of the block, cin being the one into bit 0.
CarryInto(A, B, cin, i) ==
  LET g(k) == Generate(A, B, k)
      p(k) == Propagate(A, B, k)
      c    == cin = 1
  IN  \/ i = 0 /\ c
      \/ i = 1 /\ (g(0) \/ (p(0) /\ c))
      \/ i = 2 /\ (g(1) \/ (p(1) /\ g(0)) \/ (p(1) /\ p(0) /\ c))
      \/ i = 3 /\ (\/ g(2) \/ (p(2) /\ g(1)) \/ (p(2) /\ p(1) /\ g(0))
                   \/ (p(2) /\ p(1) /\ p(0) /\ c))

\* The exclusive or of the two operand bits and the carry into their position.
SumBit(A, B, cin, i) ==
  Wire((A[i] = B[i]) <=> CarryInto(A, B, cin, i))

CLA4b(A, B, cin) ==
  [sum  |-> [i \in 0..3 |-> SumBit(A, B, cin, i)],
   cout |-> Wire(GroupGenerate(A, B) \/ (GroupPropagate(A, B) /\ cin = 1)),
   PG   |-> Wire(GroupPropagate(A, B)),
   GG   |-> Wire(GroupGenerate(A, B))]
-----------------------------------------------------------------------------
(* CLA8b and CLA16b: an array of CLA4b, instance k on the nibbles k of A and *)
(* B, its carry in looked ahead from the group outputs of those below it.    *)

\* The group outputs of instance k, which do not depend on its carry in.
GG(A, B, k) == GroupGenerate(Nibble(A, k), Nibble(B, k))
PG(A, B, k) == GroupPropagate(Nibble(A, k), Nibble(B, k))

\* MUTANT of GroupCarry: the carry out of nibble 1 forgets the one generated in
\* nibble 0.
GroupCarry_Forgets(A, B, cin, k) ==
  LET gg(j) == GG(A, B, j)
      pg(j) == PG(A, B, j)
      c     == cin = 1
  IN  Wire(\/ k = 0 /\ c
           \/ k = 1 /\ (gg(0) \/ (pg(0) /\ c))
           \/ k = 2 /\ (gg(1) \/ (pg(1) /\ pg(0) /\ c))
           \/ k = 3 /\ (gg(2) \/ (pg(2) /\ gg(1)) \/ (pg(2) /\ pg(1) /\ gg(0))))

\* The carry into nibble k, k = 1 to 3: the wires C4 and C8 of CLA8b are those
\* of k = 1 and 2, the wires C[0] to C[2] of CLA16b those of k = 1 to 3.
GroupCarry(A, B, cin, k) ==
  LET gg(j) == GG(A, B, j)
      pg(j) == PG(A, B, j)
      c     == cin = 1
  IN  Wire(\/ k = 0 /\ c
           \/ k = 1 /\ (gg(0) \/ (pg(0) /\ c))
           \/ k = 2 /\ (gg(1) \/ (pg(1) /\ gg(0)) \/ (pg(1) /\ pg(0) /\ c))
           \/ k = 3 /\ (\/ gg(2) \/ (pg(2) /\ gg(1)) \/ (pg(2) /\ pg(1) /\ gg(0))
                        \/ (pg(2) /\ pg(1) /\ pg(0) /\ c)))

\* The sum output of instance k.
NibbleSum(A, B, cin, k) ==
  CLA4b(Nibble(A, k), Nibble(B, k), GroupCarry(A, B, cin, k)).sum

\* The ALU's adder: two nibbles, the carry out as bit 8, zero extended to 16.
CLA8b(A, B, cin) ==
  [i \in 0..15 |-> IF i < 8 THEN NibbleSum(A, B, cin, i \div 4)[i % 4]
                   ELSE IF i = 8 THEN GroupCarry(A, B, cin, 2) ELSE 0]

\* The multiplier's adder: four nibbles, the carry out of the last one dropped.
CLA16b(A, B, cin) ==
  [i \in 0..15 |-> NibbleSum(A, B, cin, i \div 4)[i % 4]]
=============================================================================
