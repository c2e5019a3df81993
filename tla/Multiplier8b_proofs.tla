------------------------ MODULE Multiplier8b_proofs -------------------------
(***************************************************************************)
(* The multiplier implements its abstract pipeline for every pair of       *)
(* operands.  Two facts carry the proof: the partial products of A and B   *)
(* add up to A * B, and no intermediate sum reaches 2^16, so that no adder *)
(* drops a carry; the rest is the shape of the two pipelines.              *)
(***************************************************************************)
EXTENDS MultiplierRequests, SequenceTheorems, TLAPS

\* One step of shift-and-add.
LEMMA ShiftAndAdd ==
  ASSUME NEW a \in Int, NEW q \in Int, NEW h \in Int, NEW bit \in {0, 1},
         q = 2 * h + bit
  PROVE  a * q = 2 * (a * h) + (IF bit = 1 THEN a ELSE 0)
<1>1. CASE bit = 0
  BY <1>1
<1>2. CASE bit = 1
  BY <1>2
<1>3. QED
  BY <1>1, <1>2

\* The bits of a byte are what successive halving leaves.
LEMMA BitsOfByte ==
  ASSUME NEW b \in Byte
  PROVE  /\ \A i \in 0..7 : BitOf(b, i) \in {0, 1}
         /\ b \in Nat /\ b \div 2 \in Nat /\ b \div 4 \in Nat /\ b \div 8 \in Nat
         /\ b \div 16 \in Nat /\ b \div 32 \in Nat /\ b \div 64 \in Nat
         /\ b = 2 * (b \div 2) + BitOf(b, 0)
         /\ b \div 2 = 2 * (b \div 4) + BitOf(b, 1)
         /\ b \div 4 = 2 * (b \div 8) + BitOf(b, 2)
         /\ b \div 8 = 2 * (b \div 16) + BitOf(b, 3)
         /\ b \div 16 = 2 * (b \div 32) + BitOf(b, 4)
         /\ b \div 32 = 2 * (b \div 64) + BitOf(b, 5)
         /\ b \div 64 = 2 * BitOf(b, 7) + BitOf(b, 6)
<1>1. /\ BitOf(b, 0) = b % 2 /\ BitOf(b, 1) = (b \div 2) % 2
      /\ BitOf(b, 2) = (b \div 4) % 2 /\ BitOf(b, 3) = (b \div 8) % 2
      /\ BitOf(b, 4) = (b \div 16) % 2 /\ BitOf(b, 5) = (b \div 32) % 2
      /\ BitOf(b, 6) = (b \div 64) % 2 /\ BitOf(b, 7) = (b \div 128) % 2
  BY DEF BitOf, Weight, Byte
<1>2. b \in Nat /\ b < 256
  BY DEF Byte
<1>3. /\ b \div 4 = (b \div 2) \div 2 /\ b \div 8 = (b \div 4) \div 2
      /\ b \div 16 = (b \div 8) \div 2 /\ b \div 32 = (b \div 16) \div 2
      /\ b \div 64 = (b \div 32) \div 2 /\ b \div 128 = (b \div 64) \div 2
  BY <1>2
<1>4. /\ b \div 2 \in Nat /\ b \div 4 \in Nat /\ b \div 8 \in Nat /\ b \div 16 \in Nat
      /\ b \div 32 \in Nat /\ b \div 64 \in Nat /\ b \div 128 \in {0, 1}
  BY <1>2
<1>5. /\ b = 2 * (b \div 2) + BitOf(b, 0)
      /\ b \div 2 = 2 * (b \div 4) + BitOf(b, 1)
      /\ b \div 4 = 2 * (b \div 8) + BitOf(b, 2)
      /\ b \div 8 = 2 * (b \div 16) + BitOf(b, 3)
      /\ b \div 16 = 2 * (b \div 32) + BitOf(b, 4)
      /\ b \div 32 = 2 * (b \div 64) + BitOf(b, 5)
      /\ b \div 64 = 2 * (b \div 128) + BitOf(b, 6)
      /\ b \div 128 = BitOf(b, 7)
  BY <1>1, <1>2, <1>3, <1>4
<1>6. \A i \in 0..7 : BitOf(b, i) \in {0, 1}
  <2>1. /\ BitOf(b, 0) \in {0, 1} /\ BitOf(b, 1) \in {0, 1} /\ BitOf(b, 2) \in {0, 1}
        /\ BitOf(b, 3) \in {0, 1} /\ BitOf(b, 4) \in {0, 1} /\ BitOf(b, 5) \in {0, 1}
        /\ BitOf(b, 6) \in {0, 1} /\ BitOf(b, 7) \in {0, 1}
    BY <1>1, <1>2, <1>4
  <2>2. QED
    BY <2>1
<1>7. QED
  BY <1>2, <1>4, <1>5, <1>6

\* Eight steps of it: a times the byte with the bits b7 .. b0.
LEMMA ShiftAndAdd8 ==
  ASSUME NEW a \in Int, NEW b \in Int,
         NEW q1 \in Int, NEW q2 \in Int, NEW q3 \in Int, NEW q4 \in Int,
         NEW q5 \in Int, NEW q6 \in Int,
         NEW b0 \in {0, 1}, NEW b1 \in {0, 1}, NEW b2 \in {0, 1}, NEW b3 \in {0, 1},
         NEW b4 \in {0, 1}, NEW b5 \in {0, 1}, NEW b6 \in {0, 1}, NEW b7 \in {0, 1},
         b = 2 * q1 + b0, q1 = 2 * q2 + b1, q2 = 2 * q3 + b2, q3 = 2 * q4 + b3,
         q4 = 2 * q5 + b4, q5 = 2 * q6 + b5, q6 = 2 * b7 + b6
  PROVE  a * b =       (IF b0 = 1 THEN a ELSE 0) +   2 * (IF b1 = 1 THEN a ELSE 0)
                 + 4 * (IF b2 = 1 THEN a ELSE 0) +   8 * (IF b3 = 1 THEN a ELSE 0)
                + 16 * (IF b4 = 1 THEN a ELSE 0) +  32 * (IF b5 = 1 THEN a ELSE 0)
                + 64 * (IF b6 = 1 THEN a ELSE 0) + 128 * (IF b7 = 1 THEN a ELSE 0)
<1> DEFINE p0 == a * b   p1 == a * q1  p2 == a * q2  p3 == a * q3
           p4 == a * q4  p5 == a * q5  p6 == a * q6  p7 == a * b7
           s0 == IF b0 = 1 THEN a ELSE 0  s1 == IF b1 = 1 THEN a ELSE 0
           s2 == IF b2 = 1 THEN a ELSE 0  s3 == IF b3 = 1 THEN a ELSE 0
           s4 == IF b4 = 1 THEN a ELSE 0  s5 == IF b5 = 1 THEN a ELSE 0
           s6 == IF b6 = 1 THEN a ELSE 0  s7 == IF b7 = 1 THEN a ELSE 0
<1>1. p0 = 2 * p1 + s0  BY ShiftAndAdd
<1>2. p1 = 2 * p2 + s1  BY ShiftAndAdd
<1>3. p2 = 2 * p3 + s2  BY ShiftAndAdd
<1>4. p3 = 2 * p4 + s3  BY ShiftAndAdd
<1>5. p4 = 2 * p5 + s4  BY ShiftAndAdd
<1>6. p5 = 2 * p6 + s5  BY ShiftAndAdd
<1>7. p6 = 2 * p7 + s6  BY ShiftAndAdd
<1>8. p7 = s7  OBVIOUS
<1>9. /\ p1 \in Int /\ p2 \in Int /\ p3 \in Int /\ p4 \in Int
      /\ p5 \in Int /\ p6 \in Int /\ p7 \in Int
      /\ s0 \in Int /\ s1 \in Int /\ s2 \in Int /\ s3 \in Int
      /\ s4 \in Int /\ s5 \in Int /\ s6 \in Int /\ s7 \in Int
  OBVIOUS
<1> HIDE DEF p0, p1, p2, p3, p4, p5, p6, p7, s0, s1, s2, s3, s4, s5, s6, s7
<1>10. p0 = s0 + 2 * s1 + 4 * s2 + 8 * s3 + 16 * s4 + 32 * s5 + 64 * s6 + 128 * s7
  BY <1>1, <1>2, <1>3, <1>4, <1>5, <1>6, <1>7, <1>8, <1>9
<1>11. QED
  BY <1>10 DEF p0, s0, s1, s2, s3, s4, s5, s6, s7

\* The eight partial products add up to the product, and none is negative.
LEMMA PartialProductsSum ==
  ASSUME NEW a \in Byte, NEW b \in Byte
  PROVE  /\ \A i \in 0..7 : PartialProduct(a, b, i) \in Nat
         /\   PartialProduct(a, b, 0) + PartialProduct(a, b, 1)
            + PartialProduct(a, b, 2) + PartialProduct(a, b, 3)
            + PartialProduct(a, b, 4) + PartialProduct(a, b, 5)
            + PartialProduct(a, b, 6) + PartialProduct(a, b, 7) = a * b
<1>1. a \in Nat
  BY DEF Byte
<1> DEFINE b0 == BitOf(b, 0)  b1 == BitOf(b, 1)  b2 == BitOf(b, 2)  b3 == BitOf(b, 3)
           b4 == BitOf(b, 4)  b5 == BitOf(b, 5)  b6 == BitOf(b, 6)  b7 == BitOf(b, 7)
           q1 == b \div 2   q2 == b \div 4   q3 == b \div 8
           q4 == b \div 16  q5 == b \div 32  q6 == b \div 64
           p0 == PartialProduct(a, b, 0)  p1 == PartialProduct(a, b, 1)
           p2 == PartialProduct(a, b, 2)  p3 == PartialProduct(a, b, 3)
           p4 == PartialProduct(a, b, 4)  p5 == PartialProduct(a, b, 5)
           p6 == PartialProduct(a, b, 6)  p7 == PartialProduct(a, b, 7)
<1>2. /\ p0 = (IF b0 = 1 THEN a ELSE 0)      /\ p1 = 2 * (IF b1 = 1 THEN a ELSE 0)
      /\ p2 = 4 * (IF b2 = 1 THEN a ELSE 0)  /\ p3 = 8 * (IF b3 = 1 THEN a ELSE 0)
      /\ p4 = 16 * (IF b4 = 1 THEN a ELSE 0) /\ p5 = 32 * (IF b5 = 1 THEN a ELSE 0)
      /\ p6 = 64 * (IF b6 = 1 THEN a ELSE 0) /\ p7 = 128 * (IF b7 = 1 THEN a ELSE 0)
  BY <1>1 DEF PartialProduct, Weight
<1>3. /\ b0 \in {0, 1} /\ b1 \in {0, 1} /\ b2 \in {0, 1} /\ b3 \in {0, 1}
      /\ b4 \in {0, 1} /\ b5 \in {0, 1} /\ b6 \in {0, 1} /\ b7 \in {0, 1}
      /\ b \in Nat /\ q1 \in Nat /\ q2 \in Nat /\ q3 \in Nat /\ q4 \in Nat
      /\ q5 \in Nat /\ q6 \in Nat
      /\ b = 2 * q1 + b0 /\ q1 = 2 * q2 + b1 /\ q2 = 2 * q3 + b2 /\ q3 = 2 * q4 + b3
      /\ q4 = 2 * q5 + b4 /\ q5 = 2 * q6 + b5 /\ q6 = 2 * b7 + b6
  BY BitsOfByte
<1>4. \A i \in 0..7 : PartialProduct(a, b, i) \in Nat
  BY <1>1 DEF PartialProduct, Weight
<1> HIDE DEF b0, b1, b2, b3, b4, b5, b6, b7, q1, q2, q3, q4, q5, q6
<1>5. a * b =          (IF b0 = 1 THEN a ELSE 0) +   2 * (IF b1 = 1 THEN a ELSE 0)
                 + 4 * (IF b2 = 1 THEN a ELSE 0) +   8 * (IF b3 = 1 THEN a ELSE 0)
                + 16 * (IF b4 = 1 THEN a ELSE 0) +  32 * (IF b5 = 1 THEN a ELSE 0)
                + 64 * (IF b6 = 1 THEN a ELSE 0) + 128 * (IF b7 = 1 THEN a ELSE 0)
  <2>1. a \in Int /\ b \in Int /\ \A n \in Nat : n \in Int
    BY <1>1, <1>3
  <2>2. QED
    BY <1>3, <2>1, ShiftAndAdd8
<1>6. p0 + p1 + p2 + p3 + p4 + p5 + p6 + p7 = a * b
  <2> DEFINE s0 == IF b0 = 1 THEN a ELSE 0  s1 == IF b1 = 1 THEN a ELSE 0
             s2 == IF b2 = 1 THEN a ELSE 0  s3 == IF b3 = 1 THEN a ELSE 0
             s4 == IF b4 = 1 THEN a ELSE 0  s5 == IF b5 = 1 THEN a ELSE 0
             s6 == IF b6 = 1 THEN a ELSE 0  s7 == IF b7 = 1 THEN a ELSE 0
             m == a * b
  <2>1. /\ s0 \in Int /\ s1 \in Int /\ s2 \in Int /\ s3 \in Int
        /\ s4 \in Int /\ s5 \in Int /\ s6 \in Int /\ s7 \in Int
    BY <1>1
  <2>2. /\ p0 = s0 /\ p1 = 2 * s1 /\ p2 = 4 * s2 /\ p3 = 8 * s3
        /\ p4 = 16 * s4 /\ p5 = 32 * s5 /\ p6 = 64 * s6 /\ p7 = 128 * s7
        /\ m = s0 + 2 * s1 + 4 * s2 + 8 * s3 + 16 * s4 + 32 * s5 + 64 * s6 + 128 * s7
    BY <1>2, <1>5
  <2> HIDE DEF p0, p1, p2, p3, p4, p5, p6, p7, s0, s1, s2, s3, s4, s5, s6, s7, m
  <2>3. p0 + p1 + p2 + p3 + p4 + p5 + p6 + p7 = m
    BY <2>1, <2>2
  <2>4. QED
    BY <2>3 DEF m
<1>7. QED
  BY <1>4, <1>6
-----------------------------------------------------------------------------
\* A product of bytes fits 16 bits.
LEMMA ProductFits ==
  ASSUME NEW a \in Byte, NEW b \in Byte
  PROVE  a * b \in Nat /\ a * b < 65536
<1>1. a \in Nat /\ a <= 255 /\ b \in Nat /\ b <= 255
  BY DEF Byte
<1>2. a * b \in Nat /\ a * b <= 255 * b
  BY <1>1
<1>3. QED
  BY <1>1, <1>2

\* A 16-bit adder drops no carry when the sum fits.
LEMMA NoCarryDropped ==
  \A x, y \in Nat : x + y < 65536 => Add16(x, y) = x + y
  BY DEF Add16

\* The edge that samples A and B puts their product into the pipeline.
LEMMA SampledProduct ==
  ASSUME NEW a \in Byte, NEW b \in Byte, PartialProducts(a, b, TRUE)
  PROVE  Products'[1] = a * b
<1> DEFINE x0 == PartialProduct(a, b, 0)  x1 == PartialProduct(a, b, 1)
           x2 == PartialProduct(a, b, 2)  x3 == PartialProduct(a, b, 3)
           x4 == PartialProduct(a, b, 4)  x5 == PartialProduct(a, b, 5)
           x6 == PartialProduct(a, b, 6)  x7 == PartialProduct(a, b, 7)
<1>1. /\ mul_A'[0] = x0 /\ mul_A'[1] = x1 /\ mul_A'[2] = x2 /\ mul_A'[3] = x3
      /\ mul_A'[4] = x4 /\ mul_A'[5] = x5 /\ mul_A'[6] = x6 /\ mul_A'[7] = x7
  BY DEF PartialProducts
<1>2. /\ x0 \in Nat /\ x1 \in Nat /\ x2 \in Nat /\ x3 \in Nat
      /\ x4 \in Nat /\ x5 \in Nat /\ x6 \in Nat /\ x7 \in Nat
  BY PartialProductsSum
<1>3. x0 + x1 + x2 + x3 + x4 + x5 + x6 + x7 = a * b
  BY PartialProductsSum
<1>4. x0 + x1 + x2 + x3 + x4 + x5 + x6 + x7 < 65536
  BY <1>3, ProductFits
<1> HIDE DEF x0, x1, x2, x3, x4, x5, x6, x7
<1>5. Add16(Add16(Add16(x0, x1), Add16(x2, x3)), Add16(Add16(x4, x5), Add16(x6, x7)))
        = x0 + x1 + x2 + x3 + x4 + x5 + x6 + x7
  <2>1. /\ Add16(x0, x1) = x0 + x1 /\ Add16(x2, x3) = x2 + x3
        /\ Add16(x4, x5) = x4 + x5 /\ Add16(x6, x7) = x6 + x7
    BY <1>2, <1>4, NoCarryDropped
  <2>2. /\ Add16(x0 + x1, x2 + x3) = x0 + x1 + x2 + x3
        /\ Add16(x4 + x5, x6 + x7) = x4 + x5 + x6 + x7
    BY <1>2, <1>4, NoCarryDropped
  <2>3. Add16(x0 + x1 + x2 + x3, x4 + x5 + x6 + x7)
          = x0 + x1 + x2 + x3 + x4 + x5 + x6 + x7
    BY <1>2, <1>4, NoCarryDropped
  <2>4. QED
    BY <2>1, <2>2, <2>3
<1>6. QED
  BY <1>1, <1>3, <1>5 DEF Products

\* The later stages hand on what the earlier ones held.
LEMMA ProductsMove ==
  ASSUME FirstLevel(TRUE), SecondLevel(TRUE)
  PROVE  Products'[2] = Products[1] /\ Products'[3] = Products[2]
<1>1. /\ sum_reg_pair'[0] = Add16(mul_A[0], mul_A[1])
      /\ sum_reg_pair'[1] = Add16(mul_A[2], mul_A[3])
      /\ sum_reg_pair'[2] = Add16(mul_A[4], mul_A[5])
      /\ sum_reg_pair'[3] = Add16(mul_A[6], mul_A[7])
  BY DEF FirstLevel
<1>2. /\ sum_reg_quad'[0] = Add16(sum_reg_pair[0], sum_reg_pair[1])
      /\ sum_reg_quad'[1] = Add16(sum_reg_pair[2], sum_reg_pair[3])
  BY DEF SecondLevel
<1>3. QED
  BY <1>1, <1>2 DEF Products, result

\* The stages of the done pipeline are the ages of the requests.
LEMMA RequestsAge ==
  ASSUME NEW start \in BOOLEAN, NEW opcode, MulTypeOK, DonePipeline(start, opcode, TRUE)
  PROVE  IF done
         THEN Requests' = {} /\ done' = FALSE
         ELSE /\ Requests' = {age + 1 : age \in Requests \ {3}}
                                \cup (IF start /\ opcode = 4 THEN {1} ELSE {})
              /\ done' = (3 \in Requests)
<1>1. /\ done3 \in BOOLEAN /\ done2 \in BOOLEAN /\ done1 \in BOOLEAN /\ done \in BOOLEAN
  BY DEF MulTypeOK
<1>2. CASE done
  BY <1>2 DEF DonePipeline, Requests
<1>3. CASE ~done
  <2>1. /\ done3' = (start /\ opcode = 4) /\ done2' = done3
        /\ done1' = done2 /\ done' = done1
    BY <1>1, <1>3 DEF DonePipeline
  <2>2. done' = (3 \in Requests)
    BY <2>1, <1>1 DEF Requests
  <2>3. {age + 1 : age \in Requests \ {3}}
          = (IF done3 THEN {2} ELSE {}) \cup (IF done2 THEN {3} ELSE {})
    BY <1>1 DEF Requests
  <2>4. Requests' = (IF start /\ opcode = 4 THEN {1} ELSE {})
                      \cup (IF done3 THEN {2} ELSE {}) \cup (IF done2 THEN {3} ELSE {})
    BY <2>1 DEF Requests
  <2>5. QED
    BY <2>2, <2>3, <2>4, <1>3
<1>4. QED
  BY <1>1, <1>2, <1>3

\* A 16-bit sum is a 16-bit value.
LEMMA Add16Type ==
  ASSUME NEW x \in Int, NEW y \in Int
  PROVE  Add16(x, y) \in Short
<1>1. x + y \in Int
  OBVIOUS
<1>2. QED
  BY <1>1 DEF Add16, Short

\* A partial product of bytes fits 16 bits.
LEMMA PartialProductType ==
  ASSUME NEW a \in Byte, NEW b \in Byte, NEW i \in 0..7
  PROVE  PartialProduct(a, b, i) \in Short
<1>1. a \in Nat /\ a <= 255
  BY DEF Byte
<1>2. Weight[i + 1] \in Nat /\ Weight[i + 1] <= 128
  BY DEF Weight
<1>3. a * Weight[i + 1] \in Nat /\ a * Weight[i + 1] < 65536
  <2>1. \A w \in {1, 2, 4, 8, 16, 32, 64, 128} : a * w \in Nat /\ a * w < 65536
    BY <1>1
  <2>2. Weight[i + 1] \in {1, 2, 4, 8, 16, 32, 64, 128}
    BY DEF Weight
  <2>3. QED
    BY <2>1, <2>2
<1>4. QED
  BY <1>3 DEF PartialProduct, Short

\* Every edge, with or without reset, leaves the registers well-typed; the bench's
\* proofs use it with a reset of its own for each block.
LEMMA MulTypeStep ==
  ASSUME MulTypeOK, NEW a \in Byte, NEW b \in Byte, NEW start \in BOOLEAN, NEW opcode,
         NEW r1 \in BOOLEAN, NEW r2 \in BOOLEAN, NEW r3 \in BOOLEAN, NEW r4 \in BOOLEAN,
         PartialProducts(a, b, r1), FirstLevel(r2), SecondLevel(r3),
         DonePipeline(start, opcode, r4)
  PROVE  MulTypeOK'
<1>1. 0 \in Short /\ \A n \in Short : n \in Int
  BY DEF Short
<1>2. mul_A' \in [0..7 -> Short]
  BY <1>1, PartialProductType DEF PartialProducts
<1>3. sum_reg_pair' \in [0..3 -> Short]
  <2>1. \A k \in 0..3 : mul_A[2 * k] \in Int /\ mul_A[2 * k + 1] \in Int
    BY <1>1 DEF MulTypeOK
  <2>2. \A k \in 0..3 : Add16(mul_A[2 * k], mul_A[2 * k + 1]) \in Short
    BY <2>1, Add16Type
  <2>3. QED
    BY <1>1, <2>2 DEF FirstLevel
<1>4. sum_reg_quad' \in [0..1 -> Short]
  <2>1. \A k \in 0..1 : sum_reg_pair[2 * k] \in Int /\ sum_reg_pair[2 * k + 1] \in Int
    BY <1>1 DEF MulTypeOK
  <2>2. \A k \in 0..1 : Add16(sum_reg_pair[2 * k], sum_reg_pair[2 * k + 1]) \in Short
    BY <2>1, Add16Type
  <2>3. QED
    BY <1>1, <2>2 DEF SecondLevel
<1>5. done3' \in BOOLEAN /\ done2' \in BOOLEAN /\ done1' \in BOOLEAN /\ done' \in BOOLEAN
  BY DEF DonePipeline
<1>6. QED
  BY <1>2, <1>3, <1>4, <1>5 DEF MulTypeOK

\* The reset values are well-typed.
LEMMA MulTypeInit == MulInit => MulTypeOK
<1>1. 0 \in Short
  BY DEF Short
<1>2. QED
  BY <1>1 DEF MulInit, MulTypeOK

\* No register of the multiplier ever leaves its 16 bits, whatever bytes and
\* control it is driven with.
THEOREM MulTypeCorrect == MulSpec => []MulTypeOK
<1>1. MulTypeOK /\ [MulNext]_mulVars => MulTypeOK'
  <2> SUFFICES ASSUME MulTypeOK, [MulNext]_mulVars
               PROVE  MulTypeOK'
    OBVIOUS
  <2>1. CASE MulNext
    BY <2>1, MulTypeStep, OperandAssumption DEF MulNext, PosedgeClk
  <2>2. CASE UNCHANGED mulVars
    BY <2>2 DEF MulTypeOK, mulVars
  <2>3. QED
    BY <2>1, <2>2
<1>2. QED
  BY MulTypeInit, <1>1, PTL DEF MulSpec

\* The reset values are an empty pipeline.
LEMMA PipelineInit == MulInit => Pipeline!PipeInit
  BY DEF MulInit, Pipeline!PipeInit, Products, Requests, result, Add16

\* With reset every stage is emptied.
LEMMA PipelineReset ==
  ASSUME NEW start, NEW opcode, NEW a, NEW b, PosedgeClk(a, b, start, opcode, FALSE)
  PROVE  Pipeline!Reset
<1>1. Add16(0, 0) = 0
  BY DEF Add16
<1>2. /\ mul_A' = [i \in 0..7 |-> 0]
      /\ sum_reg_pair' = [k \in 0..3 |-> 0]
      /\ sum_reg_quad' = [k \in 0..1 |-> 0]
  BY DEF PosedgeClk, PartialProducts, FirstLevel, SecondLevel
<1>3. done3' = FALSE /\ done2' = FALSE /\ done1' = FALSE /\ done' = FALSE
  BY DEF PosedgeClk, DonePipeline
<1>4. Products' = <<0, 0, 0>>
  BY <1>1, <1>2 DEF Products, result
<1>5. Requests' = {}
  BY <1>3 DEF Requests
<1>6. QED
  BY <1>3, <1>4, <1>5 DEF Pipeline!Reset

\* Without reset an edge takes in the product of the operands it samples.
LEMMA PipelineTake ==
  ASSUME MulTypeOK, NEW a \in Byte, NEW b \in Byte, NEW start \in BOOLEAN, NEW opcode,
         PosedgeClk(a, b, start, opcode, TRUE)
  PROVE  Pipeline!Take(a, b, start /\ opcode = 4)
<1>1. Products' = <<a * b, Products[1], Products[2]>>
  <2>1. Products' = <<Products'[1], Products'[2], Products'[3]>>
    BY DEF Products
  <2>2. QED
    BY <2>1, SampledProduct, ProductsMove DEF PosedgeClk
<1>2. QED
  BY <1>1, RequestsAge DEF PosedgeClk, Pipeline!Take

\* The register-level multiplier, with its carry-dropping adders, implements the
\* abstract pipeline of exact products for every set of byte operands.
THEOREM RefinesPipeline == MulSpec => ImplementsPipeline
<1>1. MulTypeOK /\ [MulNext]_mulVars => [Pipeline!PipeNext]_(Pipeline!pipeVars)
  <2> SUFFICES ASSUME MulTypeOK, [MulNext]_mulVars
               PROVE  [Pipeline!PipeNext]_(Pipeline!pipeVars)
    OBVIOUS
  <2>1. CASE MulNext
    <3>1. PICK a \in Operand, b \in Operand, start \in BOOLEAN, opcode \in Opcode,
               rst_n \in BOOLEAN : PosedgeClk(a, b, start, opcode, rst_n)
      BY <2>1 DEF MulNext
    <3>2. CASE rst_n
      <4>1. a \in Byte /\ b \in Byte
        BY OperandAssumption
      <4>2. Pipeline!Take(a, b, start /\ opcode = 4)
        BY <3>1, <3>2, <4>1, PipelineTake
      <4>3. QED
        BY <4>2 DEF Pipeline!PipeNext
    <3>3. CASE ~rst_n
      BY <3>1, <3>3, PipelineReset DEF Pipeline!PipeNext
    <3>4. QED
      BY <3>2, <3>3
  <2>2. CASE UNCHANGED mulVars
    BY <2>2 DEF mulVars, Pipeline!pipeVars, Products, Requests, result
  <2>3. QED
    BY <2>1, <2>2
<1>2. QED
  BY PipelineInit, MulTypeCorrect, <1>1, PTL DEF MulSpec, ImplementsPipeline, Pipeline!PipeSpec
-----------------------------------------------------------------------------
(* What done and result answer: the inductive invariant. *)

Record == [A : Operand, B : Operand, request : BOOLEAN, idle : BOOLEAN]

\* Each stage of the data pipeline holds the product of the operands of its edge,
\* and each stage of the done pipeline that is set a request of its edge.
StagesHoldThePast ==
  /\ \A n \in DOMAIN past : n <= 3 => Products[n] = Product(n)
  /\ done3 => Len(past) >= 1 /\ past[1].request
  /\ done2 => Len(past) >= 2 /\ past[2].request
  /\ done1 => Len(past) >= 3 /\ past[3].request
  /\ done => Len(past) = 4 /\ past[4].request

\* A request made of an idle multiplier and held has filled the stages up to its
\* age and no more.
HeldRequestsFill ==
  \A n \in DOMAIN past :
    (past[n].idle /\ \A k \in 1..n : past[k].request)
      => done3 /\ (done2 <=> n >= 2) /\ (done1 <=> n >= 3) /\ (done <=> n = 4)

RequestInv ==
  /\ MulTypeOK
  /\ past \in Seq(Record) /\ Len(past) <= 4
  /\ StagesHoldThePast /\ HeldRequestsFill

-----------------------------------------------------------------------------

\* What is recorded of an edge, and what is kept of the edges before.
LEMMA PastGrows ==
  ASSUME past \in Seq(Record), Len(past) <= 4, NEW x \in Record,
         past' = <<x>> \o Prefix(past, 3)
  PROVE  /\ past' \in Seq(Record) /\ Len(past') <= 4
         /\ Len(past') = IF Len(past) < 3 THEN Len(past) + 1 ELSE 4
         /\ past'[1] = x
         /\ \A n \in DOMAIN past' : n > 1 => n - 1 \in DOMAIN past /\ past'[n] = past[n - 1]
<1> DEFINE m == IF Len(past) < 3 THEN Len(past) ELSE 3
           kept == Prefix(past, 3)
<1>1. m \in Nat /\ m <= 3 /\ m <= Len(past) /\ Len(past) \in Nat
  OBVIOUS
<1>2. kept = SubSeq(past, 1, m)
  BY DEF Prefix
<1>3. /\ kept \in Seq(Record) /\ Len(kept) = m
      /\ \A i \in 1..m : kept[i] = past[i]
  <2>1. 1 \in Int /\ m \in Int /\ \A i \in 1..m : past[i] \in Record
    BY <1>1
  <2>2. /\ SubSeq(past, 1, m) \in Seq(Record)
        /\ Len(SubSeq(past, 1, m)) = IF 1 <= m THEN m - 1 + 1 ELSE 0
        /\ \A i \in 1..(m - 1 + 1) : SubSeq(past, 1, m)[i] = past[1 + i - 1]
    BY ONLY <2>1, SubSeqProperties
  <2>3. (IF 1 <= m THEN m - 1 + 1 ELSE 0) = m /\ m - 1 + 1 = m
    BY <1>1
  <2>4. \A i \in 1..m : 1 + i - 1 = i
    OBVIOUS
  <2>5. QED
    BY <1>2, <2>2, <2>3, <2>4
<1> HIDE DEF kept
<1>4. past' = <<x>> \o kept
  BY DEF kept
<1>5. /\ past' \in Seq(Record) /\ Len(past') = m + 1
      /\ past'[1] = x
      /\ \A n \in 1..(m + 1) : n > 1 => past'[n] = kept[n - 1]
  <2>1. <<x>> \in Seq(Record) /\ Len(<<x>>) = 1 /\ <<x>>[1] = x
    OBVIOUS
  <2>2. /\ <<x>> \o kept \in Seq(Record) /\ Len(<<x>> \o kept) = 1 + m
        /\ \A i \in 1..(1 + m) :
             (<<x>> \o kept)[i] = IF i <= 1 THEN <<x>>[i] ELSE kept[i - 1]
    <3>1. /\ <<x>> \o kept \in Seq(Record)
          /\ Len(<<x>> \o kept) = Len(<<x>>) + Len(kept)
          /\ \A i \in 1..(Len(<<x>>) + Len(kept)) :
               (<<x>> \o kept)[i] = IF i <= Len(<<x>>) THEN <<x>>[i] ELSE kept[i - Len(<<x>>)]
      BY ONLY <1>3, <2>1, ConcatProperties
    <3>2. Len(<<x>>) = 1 /\ Len(kept) = m
      BY ONLY <1>3, <2>1
    <3>3. QED
      BY ONLY <3>1, <3>2
  <2> HIDE DEF m
  <2> DEFINE grown == <<x>> \o kept
  <2>3. past' = grown
    BY <1>4
  <2>4. /\ grown \in Seq(Record) /\ Len(grown) = 1 + m
        /\ \A i \in 1..(1 + m) : grown[i] = IF i <= 1 THEN <<x>>[i] ELSE kept[i - 1]
    BY <2>2
  <2> HIDE DEF grown
  <2>5. grown[1] = x
    BY <1>1, <2>1, <2>4
  <2>6. Len(grown) = m + 1
    BY <1>1, <2>4
  <2>7. \A n \in 1..(m + 1) : n > 1 => grown[n] = kept[n - 1]
    BY <1>1, <2>4
  <2>8. QED
    BY <2>3, <2>4, <2>5, <2>6, <2>7
<1>6. DOMAIN past' = 1..(m + 1) /\ DOMAIN past = 1..Len(past)
  BY <1>1, <1>5
<1> HIDE DEF m
<1>7. \A n \in DOMAIN past' : n > 1 => n - 1 \in DOMAIN past /\ past'[n] = past[n - 1]
  <2> SUFFICES ASSUME NEW n \in 1..(m + 1), n > 1
               PROVE  n - 1 \in DOMAIN past /\ past'[n] = past[n - 1]
    BY <1>6
  <2>1. n - 1 \in 1..m
    BY <1>1
  <2>2. QED
    BY <1>1, <1>3, <1>5, <1>6, <2>1
<1>8. QED
  BY <1>1, <1>5, <1>7 DEF m

\* The recorded past, the three products and the four flags move together.
LEMMA RequestStep ==
  ASSUME RequestInv, NEW a \in Operand, NEW b \in Operand, NEW start \in BOOLEAN,
         NEW opcode \in Opcode, PosedgeClk(a, b, start, opcode, TRUE),
         past' = <<Sample(a, b, start, opcode)>> \o Prefix(past, 3)
  PROVE  RequestInv'
<1> DEFINE x == Sample(a, b, start, opcode)
<1>1. a \in Byte /\ b \in Byte
  BY OperandAssumption
<1>2. MulTypeOK /\ past \in Seq(Record) /\ Len(past) <= 4
      /\ StagesHoldThePast /\ HeldRequestsFill
  BY DEF RequestInv
<1>3. MulTypeOK'
  BY <1>1, <1>2, MulTypeStep DEF PosedgeClk
<1>4. /\ x \in Record /\ x.A = a /\ x.B = b
      /\ x.request = (start /\ opcode = 4) /\ x.idle = Idle
  BY <1>2 DEF Sample, Record, Idle, MulTypeOK
<1> HIDE DEF x
<1>5. past' = <<x>> \o Prefix(past, 3)
  BY DEF x
<1>6. /\ past' \in Seq(Record) /\ Len(past') <= 4
      /\ Len(past') = IF Len(past) < 3 THEN Len(past) + 1 ELSE 4
      /\ past'[1] = x
      /\ \A n \in DOMAIN past' : n > 1 => n - 1 \in DOMAIN past /\ past'[n] = past[n - 1]
  BY <1>2, <1>4, <1>5, PastGrows
<1>7. /\ done3' <=> start /\ ~done /\ opcode = 4
      /\ done2' <=> done3 /\ ~done
      /\ done1' <=> done2 /\ ~done
      /\ done' <=> done1 /\ ~done
  BY DEF PosedgeClk, DonePipeline
<1>8. DOMAIN past' = 1..Len(past') /\ DOMAIN past = 1..Len(past) /\ Len(past) \in Nat
  BY <1>2, <1>6
<1>9. StagesHoldThePast'
  <2>1. ASSUME NEW n \in DOMAIN past', n <= 3
        PROVE  Products'[n] = past'[n].A * past'[n].B
    <3>1. Products'[1] = a * b /\ Products'[2] = Products[1] /\ Products'[3] = Products[2]
      BY <1>1, SampledProduct, ProductsMove DEF PosedgeClk
    <3>2. CASE n = 1
      BY <1>4, <1>6, <3>1, <3>2
    <3>3. CASE n > 1
      <4>1. n - 1 \in DOMAIN past /\ past'[n] = past[n - 1] /\ n - 1 \in {1, 2}
        BY <1>6, <1>8, <2>1, <3>3
      <4>2. Products[n - 1] = past[n - 1].A * past[n - 1].B
        BY <1>2, <4>1 DEF StagesHoldThePast, Product
      <4>3. Products'[n] = Products[n - 1]
        BY <3>1, <4>1, <1>8
      <4>4. QED
        BY <4>1, <4>2, <4>3
    <3>4. QED
      BY <1>8, <3>2, <3>3
  <2>2. done3' => Len(past') >= 1 /\ past'[1].request
    <3>1. Len(past') >= 1 /\ past'[1] = x
      BY <1>6, <1>8
    <3>2. done3' => x.request
      BY <1>4, <1>7
    <3>3. QED
      BY <3>1, <3>2
  <2>3. done2' => Len(past') >= 2 /\ past'[2].request
    <3> SUFFICES ASSUME done3
                 PROVE  Len(past') >= 2 /\ past'[2].request
      BY <1>7
    <3>1. Len(past) >= 1 /\ past[1].request
      BY <1>2 DEF StagesHoldThePast
    <3>2. Len(past') >= 2 /\ 2 \in DOMAIN past'
      BY <1>6, <1>8, <3>1
    <3>3. past'[2] = past[1]
      BY <1>6, <3>2
    <3>4. QED
      BY <3>1, <3>2, <3>3
  <2>4. done1' => Len(past') >= 3 /\ past'[3].request
    <3> SUFFICES ASSUME done2
                 PROVE  Len(past') >= 3 /\ past'[3].request
      BY <1>7
    <3>1. Len(past) >= 2 /\ past[2].request
      BY <1>2 DEF StagesHoldThePast
    <3>2. Len(past') >= 3 /\ 3 \in DOMAIN past'
      BY <1>6, <1>8, <3>1
    <3>3. past'[3] = past[2]
      BY <1>6, <3>2
    <3>4. QED
      BY <3>1, <3>2, <3>3
  <2>5. done' => Len(past') = 4 /\ past'[4].request
    <3> SUFFICES ASSUME done1
                 PROVE  Len(past') = 4 /\ past'[4].request
      BY <1>7
    <3>1. Len(past) >= 3 /\ past[3].request
      BY <1>2 DEF StagesHoldThePast
    <3>2. Len(past') = 4 /\ 4 \in DOMAIN past'
      BY <1>6, <1>8, <3>1
    <3>3. past'[4] = past[3]
      BY <1>6, <3>2
    <3>4. QED
      BY <3>1, <3>2, <3>3
  <2>6. QED
    BY <2>1, <2>2, <2>3, <2>4, <2>5 DEF StagesHoldThePast, Product
<1>10. HeldRequestsFill'
  <2> SUFFICES ASSUME NEW n \in DOMAIN past', past'[n].idle,
                      \A k \in 1..n : past'[k].request
               PROVE  done3' /\ (done2' <=> n >= 2) /\ (done1' <=> n >= 3) /\ (done' <=> n = 4)
    BY DEF HeldRequestsFill
  <2>1. n \in 1..4 /\ start /\ opcode = 4
    <3>1. n \in 1..4 /\ 1 \in 1..n
      BY <1>6, <1>8
    <3>2. past'[1].request
      BY <3>1
    <3>3. QED
      BY <1>4, <1>6, <3>1, <3>2
  <2>2. CASE n = 1
    <3>1. ~done3 /\ ~done2 /\ ~done1 /\ ~done
      BY <1>4, <1>6, <2>2 DEF Idle
    <3>2. done3' /\ ~done2' /\ ~done1' /\ ~done'
      BY <1>7, <2>1, <3>1
    <3>3. QED
      BY <2>2, <3>2
  <2>3. CASE n > 1
    <3>1. n - 1 \in DOMAIN past /\ past'[n] = past[n - 1]
      BY <1>6, <2>3
    <3>2. \A k \in 1..(n - 1) : past[k].request
      <4> SUFFICES ASSUME NEW k \in 1..(n - 1)
                   PROVE  past[k].request
        OBVIOUS
      <4>1. k + 1 \in 1..n /\ k + 1 > 1 /\ k + 1 \in DOMAIN past' /\ (k + 1) - 1 = k
        BY <1>6, <1>8, <2>1
      <4>2. past'[k + 1].request /\ past'[k + 1] = past[k]
        BY <1>6, <4>1
      <4>3. QED
        BY <4>2
    <3>3. /\ done3 /\ (done2 <=> n - 1 >= 2) /\ (done1 <=> n - 1 >= 3)
          /\ (done <=> n - 1 = 4)
      BY <1>2, <3>1, <3>2 DEF HeldRequestsFill
    <3>4. ~done
      BY <2>1, <3>3
    <3>5. done3' /\ done2' /\ (done1' <=> n - 1 >= 2) /\ (done' <=> n - 1 >= 3)
      BY <1>7, <2>1, <3>3, <3>4
    <3>6. (n - 1 >= 2 <=> n >= 3) /\ (n - 1 >= 3 <=> n = 4) /\ n >= 2
      BY <2>1, <2>3
    <3>7. QED
      BY <3>5, <3>6
  <2>4. QED
    BY <2>1, <2>2, <2>3
<1>11. QED
  BY <1>3, <1>6, <1>9, <1>10 DEF RequestInv

\* A reset leaves nothing to answer.
LEMMA RequestReset ==
  ASSUME past = <<>>, MulTypeOK, ~done3, ~done2, ~done1, ~done
  PROVE  RequestInv
<1>1. past \in Seq(Record) /\ Len(past) = 0 /\ DOMAIN past = {}
  OBVIOUS
<1>2. StagesHoldThePast /\ HeldRequestsFill
  BY <1>1 DEF StagesHoldThePast, HeldRequestsFill
<1>3. QED
  BY <1>1, <1>2 DEF RequestInv

\* At every edge the stages hold what was sampled at the edges before.
THEOREM RequestsInPhase == RequestSpec => []RequestInv
<1>1. RequestInit => RequestInv
  BY MulTypeInit, RequestReset DEF RequestInit, MulInit
<1>2. RequestInv /\ [RequestNext]_requestVars => RequestInv'
  <2> SUFFICES ASSUME RequestInv, [RequestNext]_requestVars
               PROVE  RequestInv'
    OBVIOUS
  <2>1. ASSUME NEW a \in Operand, NEW b \in Operand, NEW start \in BOOLEAN,
               NEW opcode \in Opcode, NEW rst_n \in BOOLEAN,
               PosedgeClk(a, b, start, opcode, rst_n),
               past' = IF rst_n THEN <<Sample(a, b, start, opcode)>> \o Prefix(past, 3)
                                ELSE <<>>
        PROVE  RequestInv'
    <3>1. CASE rst_n
      BY <2>1, <3>1, RequestStep
    <3>2. CASE ~rst_n
      <4>1. MulTypeOK'
        <5>1. a \in Byte /\ b \in Byte /\ MulTypeOK
          BY OperandAssumption DEF RequestInv
        <5>2. QED
          BY <2>1, <5>1, MulTypeStep DEF PosedgeClk
      <4>2. past' = <<>> /\ ~done3' /\ ~done2' /\ ~done1' /\ ~done'
        BY <2>1, <3>2 DEF PosedgeClk, DonePipeline
      <4>3. past' \in Seq(Record) /\ Len(past') = 0 /\ DOMAIN past' = {}
        BY <4>2
      <4>4. StagesHoldThePast' /\ HeldRequestsFill'
        BY <4>2, <4>3 DEF StagesHoldThePast, HeldRequestsFill
      <4>5. QED
        BY <4>1, <4>3, <4>4 DEF RequestInv
    <3>3. QED
      BY <3>1, <3>2
  <2>2. CASE RequestNext
    BY <2>1, <2>2 DEF RequestNext
  <2>3. CASE UNCHANGED requestVars
    BY <2>3 DEF requestVars, mulVars, RequestInv, MulTypeOK, StagesHoldThePast,
                HeldRequestsFill, Products, Product, result
  <2>4. QED
    BY <2>2, <2>3
<1>3. QED
  BY <1>1, <1>2, PTL DEF RequestSpec

\* The third stage of the data is what done shows.
LEMMA HeldProduct ==
  ASSUME RequestInv, done, SameOperands(3, 4)
  PROVE  result = Product(4)
<1>1. Len(past) = 4 /\ DOMAIN past = 1..Len(past)
  BY DEF RequestInv, StagesHoldThePast
<1>2. Products[3] = Product(3)
  BY <1>1 DEF RequestInv, StagesHoldThePast
<1>3. QED
  BY <1>2 DEF Products, Product, SameOperands

\* done answers a request of four edges ago, with its product if the operands were
\* held for one edge more: for all byte operands and any control.
THEOREM AnswersAreToHeldRequests == RequestSpec => []AnswersAHeldRequest
<1>1. RequestInv => AnswersAHeldRequest
  BY HeldProduct DEF RequestInv, StagesHoldThePast, AnswersAHeldRequest
<1>2. QED
  BY <1>1, RequestsInPhase, PTL

\* A request made of an idle multiplier and held is answered at its fourth edge,
\* not earlier, and with the product: for all byte operands.
THEOREM HeldRequestsAreAnswered == RequestSpec => []HeldRequestIsAnswered
<1>1. RequestInv => HeldRequestIsAnswered
  <2> SUFFICES ASSUME RequestInv, NEW n \in 1..Len(past), past[n].idle,
                      \A k \in 1..n : past[k].request /\ SameOperands(k, n)
               PROVE  (done <=> n = 4) /\ (done => result = Product(n))
    BY DEF HeldRequestIsAnswered
  <2>1. n \in DOMAIN past
    BY DEF RequestInv
  <2>2. done <=> n = 4
    BY <2>1 DEF RequestInv, HeldRequestsFill
  <2>3. done => result = Product(n)
    <3> SUFFICES ASSUME done
                 PROVE  result = Product(n)
      OBVIOUS
    <3>1. n = 4 /\ 3 \in 1..n
      BY <2>2
    <3>2. SameOperands(3, 4)
      BY <3>1
    <3>3. QED
      BY <3>1, <3>2, HeldProduct
  <2>4. QED
    BY <2>2, <2>3
<1>2. QED
  BY <1>1, RequestsInPhase, PTL
=============================================================================
