-------------------------------- MODULE Bits --------------------------------
(***************************************************************************)
(* Wires, buses and the numbers they denote, as the Verilog sources use    *)
(* them.  A wire is an element of Bit, a bus of n wires a function from    *)
(* 0..n-1 to Bit, bit 0 the least significant, as in [n-1:0].  At register *)
(* level a bus of n bits is the unsigned number in 0..2^n-1 it denotes.    *)
(***************************************************************************)
EXTENDS Integers

Bit == {0, 1}
Word(n) == [0..(n - 1) -> Bit]

Byte == 0..255
Short == {n \in Nat : n < 65536}       \* 16 bits

\* The wire that carries the value of a condition.
Wire(condition) == IF condition THEN 1 ELSE 0

\* Weight[i + 1] is 2^i, for the bits of a 16-bit bus.
Weight == <<1, 2, 4, 8, 16, 32, 64, 128,
            256, 512, 1024, 2048, 4096, 8192, 16384, 32768>>

\* v[i], and the whole bus of n wires, of the number v.
BitOf(v, i) == (v \div Weight[i + 1]) % 2
ToWord(v, n) == [i \in 0..(n - 1) |-> BitOf(v, i)]

\* The slice [4k+3:4k] of a bus, the part instance k of an array of CLA4b gets.
Nibble(w, k) == [i \in 0..3 |-> w[4 * k + i]]

\* The number a bus of 4, 8 or 16 wires denotes.
Val4(w)  == w[0] + 2 * w[1] + 4 * w[2] + 8 * w[3]
Val8(w)  == Val4(Nibble(w, 0)) + 16 * Val4(Nibble(w, 1))
Val16(w) == Val8(w) + 256 * Val4(Nibble(w, 2)) + 4096 * Val4(Nibble(w, 3))

\* "A & B" and "A ^ B" on two bytes.
And8(a, b) == Val8([i \in 0..7 |-> Wire(BitOf(a, i) = 1 /\ BitOf(b, i) = 1)])
Xor8(a, b) == Val8([i \in 0..7 |-> Wire(BitOf(a, i) # BitOf(b, i))])

\* The 16-bit sum, its carry out dropped.
Add16(x, y) == (x + y) % 65536
=============================================================================
