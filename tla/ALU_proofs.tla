----------------------------- MODULE ALU_proofs -----------------------------
(***************************************************************************)
(* The adders add, for every operand, and what follows for the ALU.        *)
(*                                                                         *)
(* The argument about the adders follows the netlist: a CLA4b adds its     *)
(* nibbles and its carry out is the group-generate or the propagated carry *)
(* in; the lookahead carry into nibble k + 1 is the carry out of nibble k; *)
(* so the nibble sums telescope.  The facts about the ALU are those that   *)
(* the proofs about its benches use: what one clock edge does to its       *)
(* registers, and what its outputs are.                                    *)
(***************************************************************************)
EXTENDS ALU, ALU_pkg, CarryLookahead, TLAPS

\* A slice of a bus is a bus.
LEMMA NibbleIsWord ==
  ASSUME NEW w \in Word(16), NEW k \in 0..3
  PROVE  Nibble(w, k) \in Word(4)
  BY DEF Nibble, Word

\* The same for a byte.
LEMMA NibbleIsWord8 ==
  ASSUME NEW w \in Word(8), NEW k \in 0..1
  PROVE  Nibble(w, k) \in Word(4)
  BY DEF Nibble, Word

\* A nibble denotes one of 0 to 15.
LEMMA NibbleValue ==
  ASSUME NEW w \in Word(4)
  PROVE  Val4(w) \in 0..15
<1>1. w[0] \in Bit /\ w[1] \in Bit /\ w[2] \in Bit /\ w[3] \in Bit
  BY DEF Word
<1>2. QED
  BY <1>1 DEF Val4, Bit

\* The 4-bit block, with the carry out it looks ahead, is an adder.
LEMMA CLA4bAdds ==
  ASSUME NEW A \in Word(4), NEW B \in Word(4), NEW cin \in Bit
  PROVE  LET out == CLA4b(A, B, cin)
         IN  Val4(out.sum) + 16 * out.cout = Val4(A) + Val4(B) + cin
<1>1. /\ A[0] \in Bit /\ A[1] \in Bit /\ A[2] \in Bit /\ A[3] \in Bit
      /\ B[0] \in Bit /\ B[1] \in Bit /\ B[2] \in Bit /\ B[3] \in Bit
  BY DEF Word
<1>2. QED
  BY <1>1, SMTT(60)
  DEF CLA4b, Val4, SumBit, CarryInto, GroupGenerate, GroupPropagate,
      Generate, Propagate, Wire, Bit

\* What a nibble of CLA8b or CLA16b adds, in terms of the lookahead carry.
LEMMA NibbleAdds ==
  ASSUME NEW A, NEW B, NEW cin \in Bit, NEW k \in 0..3,
         Nibble(A, k) \in Word(4), Nibble(B, k) \in Word(4)
  PROVE  Val4(NibbleSum(A, B, cin, k))
           + 16 * Wire(GG(A, B, k) \/ (PG(A, B, k) /\ GroupCarry(A, B, cin, k) = 1))
         = Val4(Nibble(A, k)) + Val4(Nibble(B, k)) + GroupCarry(A, B, cin, k)
<1>1. GroupCarry(A, B, cin, k) \in Bit
  BY DEF GroupCarry, Wire, Bit
<1>2. QED
  BY <1>1, CLA4bAdds DEF NibbleSum, CLA4b, GG, PG

\* The carry into nibble k + 1 is the carry out of nibble k.
LEMMA GroupCarryStep ==
  ASSUME NEW A, NEW B, NEW cin \in Bit, NEW k \in 0..2
  PROVE  GroupCarry(A, B, cin, k + 1) =
           Wire(GG(A, B, k) \/ (PG(A, B, k) /\ GroupCarry(A, B, cin, k) = 1))
<1>1. CASE k = 0
  BY <1>1 DEF GroupCarry, Wire
<1>2. CASE k = 1
  BY <1>2 DEF GroupCarry, Wire
<1>3. CASE k = 2
  BY <1>3 DEF GroupCarry, Wire
<1>4. QED
  BY <1>1, <1>2, <1>3

\* A block's sum output is a nibble.
LEMMA NibbleSumRange ==
  ASSUME NEW A, NEW B, NEW cin, NEW k
  PROVE  /\ NibbleSum(A, B, cin, k) \in Word(4)
         /\ Val4(NibbleSum(A, B, cin, k)) \in 0..15
  BY DEF NibbleSum, CLA4b, SumBit, Wire, Word, Bit, Val4

\* CLA8b returns the exact 9-bit sum of its 8-bit operands and carry in.
THEOREM CLA8bCorrect ==
  ASSUME NEW A \in Word(8), NEW B \in Word(8), NEW cin \in Bit
  PROVE  Val16(CLA8b(A, B, cin)) = Val8(A) + Val8(B) + cin
<1> DEFINE s(k) == NibbleSum(A, B, cin, k)
           c(k) == GroupCarry(A, B, cin, k)
<1>1. \A k \in 0..1 : Val4(s(k)) + 16 * c(k + 1)
                      = Val4(Nibble(A, k)) + Val4(Nibble(B, k)) + c(k)
  BY NibbleAdds, GroupCarryStep, NibbleIsWord8
<1>2. c(0) = cin /\ c(2) \in Bit
  BY DEF GroupCarry, Wire, Bit
<1>3. Val16(CLA8b(A, B, cin)) = Val4(s(0)) + 16 * Val4(s(1)) + 256 * c(2)
  <2>1. /\ s(0) \in Word(4) /\ s(1) \in Word(4)
    BY NibbleSumRange
  <2> HIDE DEF s, c
  <2>2. CLA8b(A, B, cin) = [i \in 0..15 |-> IF i < 8 THEN s(i \div 4)[i % 4]
                                            ELSE IF i = 8 THEN c(2) ELSE 0]
    BY DEF CLA8b, s, c
  <2>3. QED
    BY <2>1, <2>2, <1>2 DEF Val16, Val8, Val4, Nibble, Word, Bit
<1>4. QED
  <2>1. /\ Val4(s(0)) \in Int /\ Val4(s(1)) \in Int
    BY NibbleSumRange
  <2>2. \A k \in 0..1 : Val4(Nibble(A, k)) \in Int /\ Val4(Nibble(B, k)) \in Int
    BY DEF Val4, Nibble, Word, Bit
  <2>3. c(1) \in Bit
    BY DEF GroupCarry, Wire, Bit
  <2> HIDE DEF s, c
  <2>4. /\ Val4(s(0)) + 16 * c(1) = Val4(Nibble(A, 0)) + Val4(Nibble(B, 0)) + c(0)
        /\ Val4(s(1)) + 16 * c(2) = Val4(Nibble(A, 1)) + Val4(Nibble(B, 1)) + c(1)
    BY <1>1
  <2>5. QED
    BY <1>2, <1>3, <2>1, <2>2, <2>3, <2>4 DEF Val8, Bit

\* Four additions of digits in base 16 telescope: the digits s of the output, the
\* carry into each and the carry "out" of the last, against the operands' digits.
LEMMA FourNibbles ==
  ASSUME NEW a0 \in Int, NEW a1 \in Int, NEW a2 \in Int, NEW a3 \in Int,
         NEW b0 \in Int, NEW b1 \in Int, NEW b2 \in Int, NEW b3 \in Int,
         NEW s0 \in Int, NEW s1 \in Int, NEW s2 \in Int, NEW s3 \in Int,
         NEW cin \in Int, NEW c1 \in Int, NEW c2 \in Int, NEW c3 \in Int,
         NEW out \in Int,
         s0 + 16 * c1 = a0 + b0 + cin,
         s1 + 16 * c2 = a1 + b1 + c1,
         s2 + 16 * c3 = a2 + b2 + c2,
         s3 + 16 * out = a3 + b3 + c3
  PROVE  (s0 + 16 * s1 + 256 * s2 + 4096 * s3) + 65536 * out
           =   (a0 + 16 * a1 + 256 * a2 + 4096 * a3)
             + (b0 + 16 * b1 + 256 * b2 + 4096 * b3) + cin
  OBVIOUS

\* A 17-bit number whose top bit is dropped.
LEMMA DropCarry ==
  ASSUME NEW S \in Nat, S < 65536, NEW T \in Int, NEW out \in Bit,
         S + 65536 * out = T
  PROVE  S = T % 65536
  BY DEF Bit

\* CLA16b returns the sum of its 16-bit operands and carry in modulo 2^16: the
\* carry out of the last nibble is not a wire of the module.
THEOREM CLA16bCorrect ==
  ASSUME NEW A \in Word(16), NEW B \in Word(16), NEW cin \in Bit
  PROVE  Val16(CLA16b(A, B, cin)) = (Val16(A) + Val16(B) + cin) % 65536
<1> DEFINE a0 == Val4(Nibble(A, 0))  b0 == Val4(Nibble(B, 0))
           a1 == Val4(Nibble(A, 1))  b1 == Val4(Nibble(B, 1))
           a2 == Val4(Nibble(A, 2))  b2 == Val4(Nibble(B, 2))
           a3 == Val4(Nibble(A, 3))  b3 == Val4(Nibble(B, 3))
           s0 == Val4(NibbleSum(A, B, cin, 0))
           s1 == Val4(NibbleSum(A, B, cin, 1))
           s2 == Val4(NibbleSum(A, B, cin, 2))
           s3 == Val4(NibbleSum(A, B, cin, 3))
           c1 == GroupCarry(A, B, cin, 1)
           c2 == GroupCarry(A, B, cin, 2)
           c3 == GroupCarry(A, B, cin, 3)
           out == Wire(GG(A, B, 3) \/ (PG(A, B, 3) /\ c3 = 1))
<1>1. /\ s0 \in 0..15 /\ s1 \in 0..15 /\ s2 \in 0..15 /\ s3 \in 0..15
      /\ a0 \in 0..15 /\ a1 \in 0..15 /\ a2 \in 0..15 /\ a3 \in 0..15
      /\ b0 \in 0..15 /\ b1 \in 0..15 /\ b2 \in 0..15 /\ b3 \in 0..15
  BY NibbleIsWord, NibbleValue, NibbleSumRange
<1>2. c1 \in Bit /\ c2 \in Bit /\ c3 \in Bit /\ out \in Bit
  BY DEF GroupCarry, Wire, Bit
<1>3. /\ s0 + 16 * c1 = a0 + b0 + cin
      /\ s1 + 16 * c2 = a1 + b1 + c1
      /\ s2 + 16 * c3 = a2 + b2 + c2
      /\ s3 + 16 * out = a3 + b3 + c3
  <2>1. \A k \in 0..3 : Nibble(A, k) \in Word(4) /\ Nibble(B, k) \in Word(4)
    BY NibbleIsWord
  <2>2. GroupCarry(A, B, cin, 0) = cin
    BY DEF GroupCarry, Wire, Bit
  <2>3. s0 + 16 * c1 = a0 + b0 + cin
    BY <2>1, <2>2, NibbleAdds, GroupCarryStep
  <2>4. s1 + 16 * c2 = a1 + b1 + c1
    BY <2>1, NibbleAdds, GroupCarryStep
  <2>5. s2 + 16 * c3 = a2 + b2 + c2
    BY <2>1, NibbleAdds, GroupCarryStep
  <2>6. s3 + 16 * out = a3 + b3 + c3
    BY <2>1, NibbleAdds
  <2>7. QED
    BY <2>3, <2>4, <2>5, <2>6
<1>4. Val16(CLA16b(A, B, cin)) = s0 + 16 * s1 + 256 * s2 + 4096 * s3
  <2> DEFINE s(k) == NibbleSum(A, B, cin, k)
  <2>1. /\ s(0) \in Word(4) /\ s(1) \in Word(4)
        /\ s(2) \in Word(4) /\ s(3) \in Word(4)
    BY NibbleSumRange
  <2>2. CLA16b(A, B, cin) = [i \in 0..15 |-> s(i \div 4)[i % 4]]
    BY DEF CLA16b
  <2> HIDE DEF s
  <2>3. Val16(CLA16b(A, B, cin))
          = Val4(s(0)) + 16 * Val4(s(1)) + 256 * Val4(s(2)) + 4096 * Val4(s(3))
    BY <2>1, <2>2 DEF Val16, Val8, Val4, Nibble, Word, Bit
  <2>4. QED
    BY <2>3 DEF s
<1>5. /\ Val16(A) = a0 + 16 * a1 + 256 * a2 + 4096 * a3
      /\ Val16(B) = b0 + 16 * b1 + 256 * b2 + 4096 * b3
  BY DEF Val16, Val8
<1> HIDE DEF a0, a1, a2, a3, b0, b1, b2, b3, s0, s1, s2, s3, c1, c2, c3, out
<1> DEFINE S == s0 + 16 * s1 + 256 * s2 + 4096 * s3
           T ==   (a0 + 16 * a1 + 256 * a2 + 4096 * a3)
                + (b0 + 16 * b1 + 256 * b2 + 4096 * b3) + cin
<1>6. /\ S \in Nat /\ S < 65536
      /\ cin \in Int /\ c1 \in Int /\ c2 \in Int /\ c3 \in Int /\ out \in Int
  BY <1>1, <1>2 DEF Bit
<1>7. S + 65536 * out = T
  BY <1>1, <1>3, <1>6, FourNibbles
<1>8. T \in Int
  BY <1>1, <1>6
<1>9. S = T % 65536
  <2> HIDE DEF S, T
  <2>1. QED
    BY <1>2, <1>6, <1>7, <1>8, DropCarry
<1>10. QED
  BY <1>4, <1>5, <1>9
-----------------------------------------------------------------------------
(* From buses to the numbers the registers hold. *)

\* The bits of a number form a word.
LEMMA ToWordIsWord ==
  ASSUME NEW v \in Nat, NEW n \in {8, 16}
  PROVE  ToWord(v, n) \in Word(n)
<1>1. \A i \in 0..15 : BitOf(v, i) \in Bit
  <2>1. \A i \in 0..15 : Weight[i + 1] \in Nat \ {0}
    BY DEF Weight
  <2>2. \A w \in Nat \ {0} : v \div w \in Int
    OBVIOUS
  <2>3. QED
    BY <2>1, <2>2 DEF BitOf, Bit
<1>2. QED
  BY <1>1 DEF ToWord, Word

\* A nibble of the bus of v is a base-16 digit of v.
LEMMA NibbleOfWord ==
  ASSUME NEW v \in Nat
  PROVE  /\ Val4(Nibble(ToWord(v, 8), 0)) = v % 16
         /\ Val4(Nibble(ToWord(v, 8), 1)) = (v \div 16) % 16
         /\ Val4(Nibble(ToWord(v, 16), 0)) = v % 16
         /\ Val4(Nibble(ToWord(v, 16), 1)) = (v \div 16) % 16
         /\ Val4(Nibble(ToWord(v, 16), 2)) = (v \div 256) % 16
         /\ Val4(Nibble(ToWord(v, 16), 3)) = (v \div 4096) % 16
<1> DEFINE digit(k) == BitOf(v, 4 * k) + 2 * BitOf(v, 4 * k + 1)
                         + 4 * BitOf(v, 4 * k + 2) + 8 * BitOf(v, 4 * k + 3)
<1>1. /\ Val4(Nibble(ToWord(v, 8), 0)) = digit(0)
      /\ Val4(Nibble(ToWord(v, 8), 1)) = digit(1)
      /\ Val4(Nibble(ToWord(v, 16), 0)) = digit(0)
      /\ Val4(Nibble(ToWord(v, 16), 1)) = digit(1)
      /\ Val4(Nibble(ToWord(v, 16), 2)) = digit(2)
      /\ Val4(Nibble(ToWord(v, 16), 3)) = digit(3)
  BY DEF Val4, Nibble, ToWord
<1>2. \A d \in Nat : d % 16 = (d % 2) + 2 * ((d \div 2) % 2)
                              + 4 * ((d \div 4) % 2) + 8 * ((d \div 8) % 2)
  OBVIOUS
<1>3. digit(0) = v % 16
  BY <1>2 DEF BitOf, Weight
<1>4. digit(1) = (v \div 16) % 16
  <2>1. /\ v \div 16 \in Nat /\ v \div 32 = (v \div 16) \div 2
        /\ v \div 64 = (v \div 16) \div 4 /\ v \div 128 = (v \div 16) \div 8
    OBVIOUS
  <2>2. digit(1) = ((v \div 16) % 2) + 2 * ((v \div 32) % 2)
                     + 4 * ((v \div 64) % 2) + 8 * ((v \div 128) % 2)
    BY DEF BitOf, Weight
  <2>3. QED
    BY <1>2, <2>1, <2>2
<1>5. digit(2) = (v \div 256) % 16
  <2>1. /\ v \div 256 \in Nat /\ v \div 512 = (v \div 256) \div 2
        /\ v \div 1024 = (v \div 256) \div 4 /\ v \div 2048 = (v \div 256) \div 8
    OBVIOUS
  <2>2. digit(2) = ((v \div 256) % 2) + 2 * ((v \div 512) % 2)
                     + 4 * ((v \div 1024) % 2) + 8 * ((v \div 2048) % 2)
    BY DEF BitOf, Weight
  <2>3. QED
    BY <1>2, <2>1, <2>2
<1>6. digit(3) = (v \div 4096) % 16
  <2>1. /\ v \div 4096 \in Nat /\ v \div 8192 = (v \div 4096) \div 2
        /\ v \div 16384 = (v \div 4096) \div 4 /\ v \div 32768 = (v \div 4096) \div 8
    OBVIOUS
  <2>2. digit(3) = ((v \div 4096) % 2) + 2 * ((v \div 8192) % 2)
                     + 4 * ((v \div 16384) % 2) + 8 * ((v \div 32768) % 2)
    BY DEF BitOf, Weight
  <2>3. QED
    BY <1>2, <2>1, <2>2
<1>7. QED
  BY <1>1, <1>3, <1>4, <1>5, <1>6

\* Taking a number to its bits and back changes nothing.
LEMMA ValOfWord ==
  ASSUME NEW v \in Nat
  PROVE  /\ v < 256 => Val8(ToWord(v, 8)) = v
         /\ v < 65536 => Val16(ToWord(v, 16)) = v
<1>1. v < 256 => (v % 16) + 16 * ((v \div 16) % 16) = v
  OBVIOUS
<1>2. v < 65536 => (v % 16) + 16 * ((v \div 16) % 16) + 256 * ((v \div 256) % 16)
                   + 4096 * ((v \div 4096) % 16) = v
  OBVIOUS
<1>3. QED
  BY <1>1, <1>2, NibbleOfWord DEF Val8, Val16

\* The adder of the ALU, on the numbers its operands denote.
THEOREM CLA8bIsSum ==
  ASSUME NEW a \in Byte, NEW b \in Byte
  PROVE  Val16(CLA8b(ToWord(a, 8), ToWord(b, 8), 0)) = a + b
<1>1. a \in Nat /\ a < 256 /\ b \in Nat /\ b < 256 /\ 0 \in Bit
  BY DEF Byte, Bit
<1>2. ToWord(a, 8) \in Word(8) /\ ToWord(b, 8) \in Word(8)
  BY <1>1, ToWordIsWord
<1>3. Val8(ToWord(a, 8)) = a /\ Val8(ToWord(b, 8)) = b
  BY <1>1, ValOfWord
<1>4. QED
  BY <1>1, <1>2, <1>3, CLA8bCorrect

\* The multiplier's adder is Add16, the operator the register level uses.
THEOREM CLA16bIsAdd16 ==
  ASSUME NEW x \in Short, NEW y \in Short
  PROVE  Val16(CLA16b(ToWord(x, 16), ToWord(y, 16), 0)) = Add16(x, y)
<1>1. x \in Nat /\ x < 65536 /\ y \in Nat /\ y < 65536 /\ 0 \in Bit
  BY DEF Short, Bit
<1>2. ToWord(x, 16) \in Word(16) /\ ToWord(y, 16) \in Word(16)
  BY <1>1, ToWordIsWord
<1>3. Val16(ToWord(x, 16)) = x /\ Val16(ToWord(y, 16)) = y
  BY <1>1, ValOfWord
<1>4. QED
  BY <1>1, <1>2, <1>3, CLA16bCorrect DEF Add16
-----------------------------------------------------------------------------
(* From the adders and the multiplier to the ALU. *)

\* None of what is used of the multiplier's proofs here is about "past".
MulProofs == INSTANCE Multiplier8b_proofs WITH Operand <- Byte, Opcode <- 0..7,
                                               done <- multi_cycle_done, past <- <<>>

\* The multiplier's instances of Bits are Bits.
LEMMA SameBits ==
  /\ iMul!Byte = Byte /\ MulProofs!Byte = Byte
  /\ iMul!Short = Short /\ MulProofs!Short = Short
  BY DEF Byte, iMul!Byte, MulProofs!Byte, Short, iMul!Short, MulProofs!Short

\* What the lemmas of Multiplier8b_proofs assume of their constants.
LEMMA MulAssumptions == Byte \subseteq MulProofs!Byte /\ 0..7 \subseteq 0..7
  BY SameBits

\* The two instances of the multiplier, in the ALU and in the proofs, are one.
LEMMA SameMul ==
  ASSUME NEW a, NEW b, NEW start, NEW opcode, NEW r
  PROVE  /\ iMul!MulTypeOK <=> MulProofs!MulTypeOK
         /\ iMul!PartialProducts(a, b, r) <=> MulProofs!PartialProducts(a, b, r)
         /\ iMul!FirstLevel(r) <=> MulProofs!FirstLevel(r)
         /\ iMul!SecondLevel(r) <=> MulProofs!SecondLevel(r)
         /\ iMul!DonePipeline(start, opcode, r) <=> MulProofs!DonePipeline(start, opcode, r)
         /\ iMul!Products = MulProofs!Products
<1>1. iMul!MulTypeOK <=> MulProofs!MulTypeOK
  BY SameBits DEF iMul!MulTypeOK, MulProofs!MulTypeOK
<1>2. iMul!PartialProducts(a, b, r) <=> MulProofs!PartialProducts(a, b, r)
  BY DEF iMul!PartialProducts, MulProofs!PartialProducts, iMul!PartialProduct,
         MulProofs!PartialProduct, iMul!BitOf, MulProofs!BitOf, iMul!Weight, MulProofs!Weight
<1>3. \A x, y : iMul!Add16(x, y) = MulProofs!Add16(x, y)
  BY DEF iMul!Add16, MulProofs!Add16
<1>4. /\ iMul!FirstLevel(r) <=> MulProofs!FirstLevel(r)
      /\ iMul!SecondLevel(r) <=> MulProofs!SecondLevel(r)
  BY <1>3 DEF iMul!FirstLevel, MulProofs!FirstLevel, iMul!SecondLevel, MulProofs!SecondLevel
<1>5. iMul!DonePipeline(start, opcode, r) <=> MulProofs!DonePipeline(start, opcode, r)
  BY DEF iMul!DonePipeline, MulProofs!DonePipeline
<1>6. iMul!Products = MulProofs!Products
  BY <1>3 DEF iMul!Products, MulProofs!Products, iMul!result, MulProofs!result
<1>7. QED
  BY <1>1, <1>2, <1>4, <1>5, <1>6

\* A clock edge leaves the registers well-typed, whatever reset each block samples.
LEMMA ALUTypeStep ==
  ASSUME ALUTypeOK, NEW a \in Byte, NEW b \in Byte, NEW start \in BOOLEAN, NEW opcode,
         NEW r \in [AlwaysFF -> BOOLEAN], ALUPosedgeClk(a, b, start, opcode, r)
  PROVE  ALUTypeOK'
<1>1. /\ r["mul_A"] \in BOOLEAN /\ r["sum_pair"] \in BOOLEAN /\ r["sum_quad"] \in BOOLEAN
      /\ r["done"] \in BOOLEAN /\ r["single"] \in BOOLEAN
  BY DEF AlwaysFF
<1>2. a \in MulProofs!Byte /\ b \in MulProofs!Byte
  BY SameBits
<1>3. /\ MulProofs!MulTypeOK
      /\ MulProofs!PartialProducts(a, b, r["mul_A"])
      /\ MulProofs!FirstLevel(r["sum_pair"])
      /\ MulProofs!SecondLevel(r["sum_quad"])
      /\ MulProofs!DonePipeline(start, opcode, r["done"])
  BY SameMul DEF ALUTypeOK, ALUPosedgeClk
<1>4. MulProofs!MulTypeOK'
  BY <1>1, <1>2, <1>3, MulProofs!MulTypeStep, MulAssumptions
<1>5. iMul!MulTypeOK'
  BY <1>4, SameBits DEF iMul!MulTypeOK, MulProofs!MulTypeOK
<1>6. single_cycle_done' \in BOOLEAN
  BY DEF ALUPosedgeClk, SingleCycleDone
<1>7. QED
  BY <1>5, <1>6 DEF ALUTypeOK

\* After reset the registers are well-typed.
LEMMA ALUTypeInit == ALUInit => ALUTypeOK
<1>1. 0 \in iMul!Short
  BY SameBits DEF Short
<1>2. QED
  BY <1>1 DEF ALUInit, ALUTypeOK, iMul!MulInit, iMul!MulTypeOK

\* An edge at which no block samples a reset takes in the product of the operands
\* and moves those in flight one stage.
LEMMA ProductsStep ==
  ASSUME NEW a \in Byte, NEW b \in Byte, NEW start, NEW opcode,
         ALUPosedgeClk(a, b, start, opcode, [x \in AlwaysFF |-> TRUE])
  PROVE  /\ iMul!Products'[1] = a * b
         /\ iMul!Products'[2] = iMul!Products[1]
         /\ iMul!Products'[3] = iMul!Products[2]
<1>1. /\ iMul!PartialProducts(a, b, TRUE) /\ iMul!FirstLevel(TRUE) /\ iMul!SecondLevel(TRUE)
  BY DEF ALUPosedgeClk, AlwaysFF
<1>2. /\ MulProofs!PartialProducts(a, b, TRUE) /\ MulProofs!FirstLevel(TRUE)
      /\ MulProofs!SecondLevel(TRUE)
  BY <1>1, SameMul
<1>3. a \in MulProofs!Byte /\ b \in MulProofs!Byte
  BY SameBits
<1>4. MulProofs!Products'[1] = a * b
  BY <1>2, <1>3, MulProofs!SampledProduct, MulAssumptions
<1>5. /\ MulProofs!Products'[2] = MulProofs!Products[1]
      /\ MulProofs!Products'[3] = MulProofs!Products[2]
  BY <1>2, MulProofs!ProductsMove, MulAssumptions
<1>6. iMul!Products = MulProofs!Products /\ iMul!Products' = MulProofs!Products'
  <2>1. \A x, y : iMul!Add16(x, y) = MulProofs!Add16(x, y)
    BY DEF iMul!Add16, MulProofs!Add16
  <2>2. QED
    BY <2>1 DEF iMul!Products, MulProofs!Products, iMul!result, MulProofs!result
<1>7. QED
  BY <1>4, <1>5, <1>6
-----------------------------------------------------------------------------
\* "A & B" and "A ^ B" of bytes are bytes, so they fit the 16 bits of result.
LEMMA LogicType ==
  ASSUME NEW a, NEW b
  PROVE  And8(a, b) \in Short /\ Xor8(a, b) \in Short
<1>1. \A w \in Word(8) : Val8(w) \in Short
  <2> SUFFICES ASSUME NEW w \in Word(8)
               PROVE  Val8(w) \in Short
    OBVIOUS
  <2>1. Nibble(w, 0) \in Word(4) /\ Nibble(w, 1) \in Word(4)
    BY NibbleIsWord8
  <2>2. Val4(Nibble(w, 0)) \in 0..15 /\ Val4(Nibble(w, 1)) \in 0..15
    BY <2>1, NibbleValue
  <2>3. QED
    BY <2>2 DEF Val8, Short
<1>2. /\ [i \in 0..7 |-> Wire(BitOf(a, i) = 1 /\ BitOf(b, i) = 1)] \in Word(8)
      /\ [i \in 0..7 |-> Wire(BitOf(a, i) # BitOf(b, i))] \in Word(8)
  BY DEF Word, Wire, Bit
<1>3. QED
  BY <1>1, <1>2 DEF And8, Xor8

\* The sum of two bytes fits 16 bits, and it is what the gates compute.
LEMMA SumType ==
  ASSUME NEW a \in Byte, NEW b \in Byte
  PROVE  add_result(a, b) = a + b /\ a + b \in Short
<1>1. add_result(a, b) = a + b
  BY CLA8bIsSum DEF add_result
<1>2. a \in Nat /\ a < 256 /\ b \in Nat /\ b < 256
  BY DEF Byte
<1>3. QED
  BY <1>1, <1>2 DEF Short

\* result is a 16-bit number for whatever opcode selects it.
LEMMA ALUresultType ==
  ASSUME ALUTypeOK, NEW a \in Byte, NEW b \in Byte, NEW opcode
  PROVE  ALUresult(a, b, opcode) \in Short
<1>1. iMul!result \in Short
  <2>1. sum_reg_quad[0] \in Nat /\ sum_reg_quad[1] \in Nat
    BY SameBits DEF ALUTypeOK, iMul!MulTypeOK, Short
  <2>2. QED
    BY <2>1 DEF iMul!result, iMul!Add16, Short
<1>2. 0 \in Short
  BY DEF Short
<1>3. QED
  BY <1>1, <1>2, LogicType, SumType DEF ALUresult

\* Of a single-cycle operation result is the prediction, of mul_op the oldest
\* product in the pipeline.
LEMMA ALUresultPredicted ==
  ASSUME NEW a \in Byte, NEW b \in Byte, NEW opcode \in RealOp
  PROVE  /\ opcode # mul_op =>
              ALUresult(a, b, opcode) = predict_result([A |-> a, B |-> b, op |-> opcode])
         /\ opcode = mul_op => ALUresult(a, b, opcode) = iMul!Products[3]
<1>1. opcode \in {1, 2, 3, 4}
  BY DEF RealOp, add_op, and_op, xor_op, mul_op
<1>2. CASE opcode = 1
  BY <1>2, SumType DEF ALUresult, Msb, Lsbs, predict_result, add_op, mul_op
<1>3. CASE opcode = 2
  BY <1>3 DEF ALUresult, Msb, Lsbs, predict_result, add_op, and_op, mul_op
<1>4. CASE opcode = 3
  BY <1>4 DEF ALUresult, Msb, Lsbs, predict_result, add_op, and_op, xor_op, mul_op
<1>5. CASE opcode = 4
  BY <1>5 DEF ALUresult, Msb, iMul!Products, mul_op
<1>6. QED
  BY <1>1, <1>2, <1>3, <1>4, <1>5
-----------------------------------------------------------------------------
(* The flags. *)

\* A clock edge without start, or with no_op for opcode, raises no flag; and when the
\* multiplier's flags are down, or its done is up, none is left of those that were.
LEMMA FlagsFall ==
  ASSUME NEW a, NEW b, NEW start \in BOOLEAN, NEW opcode, NEW r,
         ALUPosedgeClk(a, b, start, opcode, r),
         ~start \/ opcode = no_op, multi_cycle_done \/ ~MulFlagUp
  PROVE  NoFlagUp'
<1>1. /\ done3' = (r["done"] /\ start /\ ~multi_cycle_done /\ opcode = 4)
      /\ done2' = (r["done"] /\ done3 /\ ~multi_cycle_done)
      /\ done1' = (r["done"] /\ done2 /\ ~multi_cycle_done)
      /\ multi_cycle_done' = (r["done"] /\ done1 /\ ~multi_cycle_done)
      /\ single_cycle_done' = (r["single"] /\ start /\ opcode # 0)
  BY DEF ALUPosedgeClk, iMul!DonePipeline, SingleCycleDone
<1>2. opcode = no_op => opcode = 0 /\ opcode # 4
  BY DEF no_op
<1>3. ~start \/ opcode = no_op
  OBVIOUS
<1>4. multi_cycle_done \/ ~MulFlagUp
  OBVIOUS
<1>5. QED
  BY <1>1, <1>2, <1>3, <1>4, Zenon DEF NoFlagUp, MulFlagUp

\* Without a flag there is no done, whatever opcode selects it.
LEMMA NoFlagNoDone ==
  ASSUME NoFlagUp, NEW opcode
  PROVE  ~ALUdone(opcode)
BY DEF NoFlagUp, MulFlagUp, ALUdone

\* An edge at which no block samples a reset and an operation is held: a single-cycle
\* operation raises its own flag only, the product of mul_op is taken in ahead of its
\* flag.
LEMMA OperationEdge ==
  ASSUME NEW a \in Byte, NEW b \in Byte, NEW opcode \in RealOp,
         ALUPosedgeClk(a, b, TRUE, opcode, [x \in AlwaysFF |-> TRUE]),
         opcode # mul_op => ~MulFlagUp, opcode = mul_op => ProductAhead(a, b)
  PROVE  /\ single_cycle_done'
         /\ opcode # mul_op => ~MulFlagUp'
         /\ opcode = mul_op =>
              /\ done3' \/ done2' => iMul!Products'[1] = a * b
              /\ done1' => iMul!Products'[2] = a * b
              /\ multi_cycle_done' => iMul!Products'[3] = a * b
<1>1. /\ done3' = (~multi_cycle_done /\ opcode = 4)
      /\ done2' = (done3 /\ ~multi_cycle_done)
      /\ done1' = (done2 /\ ~multi_cycle_done)
      /\ multi_cycle_done' = (done1 /\ ~multi_cycle_done)
      /\ single_cycle_done' = (opcode # 0)
  BY DEF ALUPosedgeClk, iMul!DonePipeline, SingleCycleDone, AlwaysFF
<1>2. /\ iMul!Products'[1] = a * b
      /\ iMul!Products'[2] = iMul!Products[1]
      /\ iMul!Products'[3] = iMul!Products[2]
  BY ProductsStep
<1>3. opcode # 0
  BY DEF RealOp, add_op, and_op, xor_op, mul_op
<1>4. opcode # mul_op => ~MulFlagUp'
  BY <1>1 DEF MulFlagUp, mul_op
<1>5. opcode = mul_op =>
        /\ done3' \/ done2' => iMul!Products'[1] = a * b
        /\ done1' => iMul!Products'[2] = a * b
        /\ multi_cycle_done' => iMul!Products'[3] = a * b
  BY <1>1, <1>2 DEF ProductAhead
<1>6. QED
  BY <1>1, <1>3, <1>4, <1>5

\* done comes with the result of the operation that is held.
LEMMA DoneMeansResult ==
  ASSUME NEW a \in Byte, NEW b \in Byte, NEW opcode \in RealOp, ALUdone(opcode),
         opcode = mul_op => ProductAhead(a, b)
  PROVE  ALUresult(a, b, opcode) = predict_result([A |-> a, B |-> b, op |-> opcode])
<1>1. CASE opcode # mul_op
  BY <1>1, ALUresultPredicted
<1>2. CASE opcode = mul_op
  <2>1. multi_cycle_done
    BY <1>2 DEF ALUdone, Msb, mul_op
  <2>2. iMul!Products[3] = a * b
    BY <1>2, <2>1 DEF ProductAhead
  <2>3. ALUresult(a, b, opcode) = iMul!Products[3]
    BY <1>2, ALUresultPredicted
  <2>4. predict_result([A |-> a, B |-> b, op |-> opcode]) = a * b
    BY <1>2 DEF predict_result, add_op, and_op, xor_op, mul_op
  <2>5. QED
    BY <2>2, <2>3, <2>4
<1>3. QED
  BY <1>1, <1>2
=============================================================================
