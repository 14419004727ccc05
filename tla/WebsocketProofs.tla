---------------------------- MODULE WebsocketProofs ----------------------------
(***************************************************************************)
(* Proofs about Websocket and Base64: what is encoded is the text of the   *)
(* bits and decodes to itself, the answer to an upgrade is whole when the  *)
(* digest is a string, and what is made of the frames that are read.       *)
(***************************************************************************)
EXTENDS Websocket, SequenceLemmas

(* The values of a bit.                                                    *)
Binary == {0, 1}

(* A byte and its bits.                                                    *)
LEMMA Halves ==
  ASSUME NEW a \in Bytes
  PROVE  /\ a = 2 * (a \div 2) + (a % 2) /\ a % 2 \in Binary
         /\ a \div 2 = 2 * (a \div 4) + ((a \div 2) % 2) /\ (a \div 2) % 2 \in Binary
         /\ a \div 4 = 2 * (a \div 8) + ((a \div 4) % 2) /\ (a \div 4) % 2 \in Binary
         /\ a \div 8 = 2 * (a \div 16) + ((a \div 8) % 2) /\ (a \div 8) % 2 \in Binary
         /\ a \div 16 = 2 * (a \div 32) + ((a \div 16) % 2) /\ (a \div 16) % 2 \in Binary
         /\ a \div 32 = 2 * (a \div 64) + ((a \div 32) % 2) /\ (a \div 32) % 2 \in Binary
         /\ a \div 64 = 2 * (a \div 128) + ((a \div 64) % 2) /\ (a \div 64) % 2 \in Binary
         /\ a \div 128 = (a \div 128) % 2 /\ (a \div 128) % 2 \in Binary
<1> USE DEF Bytes, Binary
<1>1. a = 2 * (a \div 2) + (a % 2) /\ a % 2 \in Binary
  OBVIOUS
<1>2. a \div 2 = 2 * (a \div 4) + ((a \div 2) % 2) /\ (a \div 2) % 2 \in Binary
  OBVIOUS
<1>3. a \div 4 = 2 * (a \div 8) + ((a \div 4) % 2) /\ (a \div 4) % 2 \in Binary
  OBVIOUS
<1>4. a \div 8 = 2 * (a \div 16) + ((a \div 8) % 2) /\ (a \div 8) % 2 \in Binary
  OBVIOUS
<1>5. a \div 16 = 2 * (a \div 32) + ((a \div 16) % 2) /\ (a \div 16) % 2 \in Binary
  OBVIOUS
<1>6. a \div 32 = 2 * (a \div 64) + ((a \div 32) % 2) /\ (a \div 32) % 2 \in Binary
  OBVIOUS
<1>7. a \div 64 = 2 * (a \div 128) + ((a \div 64) % 2) /\ (a \div 64) % 2 \in Binary
  OBVIOUS
<1>8. a \div 128 = (a \div 128) % 2 /\ (a \div 128) % 2 \in Binary
  OBVIOUS
<1> QED
  BY <1>1, <1>2, <1>3, <1>4, <1>5, <1>6, <1>7, <1>8

(* A byte is the sum of its bits.                                          *)
LEMMA ByteOfBits ==
  ASSUME NEW a \in Bytes
  PROVE  a = 1 * (a % 2) + 2 * ((a \div 2) % 2) + 4 * ((a \div 4) % 2) + 8 * ((a \div 8) % 2)
               + 16 * ((a \div 16) % 2) + 32 * ((a \div 32) % 2) + 64 * ((a \div 64) % 2)
               + 128 * ((a \div 128) % 2)
<1>1. a \div 2 \in Nat /\ a \div 4 \in Nat /\ a \div 8 \in Nat /\ a \div 16 \in Nat
      /\ a \div 32 \in Nat /\ a \div 64 \in Nat /\ a \div 128 \in Nat
  BY DEF Bytes
<1> DEFINE b0 == a % 2
           b1 == (a \div 2) % 2
           b2 == (a \div 4) % 2
           b3 == (a \div 8) % 2
           b4 == (a \div 16) % 2
           b5 == (a \div 32) % 2
           b6 == (a \div 64) % 2
           b7 == (a \div 128) % 2
<1>3. b0 \in Nat /\ b1 \in Nat /\ b2 \in Nat /\ b3 \in Nat
      /\ b4 \in Nat /\ b5 \in Nat /\ b6 \in Nat /\ b7 \in Nat
  BY Halves DEF Binary
<1>4. a = 2 * (a \div 2) + b0 /\ a \div 2 = 2 * (a \div 4) + b1 /\ a \div 4 = 2 * (a \div 8) + b2
      /\ a \div 8 = 2 * (a \div 16) + b3
  BY Halves
<1>5. a \div 16 = 2 * (a \div 32) + b4 /\ a \div 32 = 2 * (a \div 64) + b5
      /\ a \div 64 = 2 * (a \div 128) + b6 /\ a \div 128 = b7
  BY Halves
<1> HIDE DEF b0, b1, b2, b3, b4, b5, b6, b7
<1>6. a \div 16 = b4 + 2 * b5 + 4 * b6 + 8 * b7
  BY <1>1, <1>3, <1>5
<1>7. a = b0 + 2 * b1 + 4 * b2 + 8 * b3 + 16 * (a \div 16)
  BY <1>1, <1>3, <1>4 DEF Bytes
<1>8. a = 1 * b0 + 2 * b1 + 4 * b2 + 8 * b3 + 16 * b4 + 32 * b5 + 64 * b6 + 128 * b7
  BY <1>3, <1>6, <1>7
<1> QED
  BY <1>8 DEF b0, b1, b2, b3, b4, b5, b6, b7

(* The first and the last bits of a byte.                                  *)
LEMMA PartsOfByte ==
  ASSUME NEW a \in Bytes
  PROVE  /\ a \div 64 = 2 * ((a \div 128) % 2) + ((a \div 64) % 2)
         /\ a \div 16 = 8 * ((a \div 128) % 2) + 4 * ((a \div 64) % 2) + 2 * ((a \div 32) % 2)
                         + ((a \div 16) % 2)
         /\ a \div 4 = 32 * ((a \div 128) % 2) + 16 * ((a \div 64) % 2) + 8 * ((a \div 32) % 2)
                        + 4 * ((a \div 16) % 2) + 2 * ((a \div 8) % 2) + ((a \div 4) % 2)
         /\ a % 4 = 2 * ((a \div 2) % 2) + (a % 2)
         /\ a % 16 = 8 * ((a \div 8) % 2) + 4 * ((a \div 4) % 2) + 2 * ((a \div 2) % 2) + (a % 2)
         /\ a % 64 = 32 * ((a \div 32) % 2) + 16 * ((a \div 16) % 2) + 8 * ((a \div 8) % 2)
                       + 4 * ((a \div 4) % 2) + 2 * ((a \div 2) % 2) + (a % 2)
<1> DEFINE b0 == a % 2
           b1 == (a \div 2) % 2
           b2 == (a \div 4) % 2
           b3 == (a \div 8) % 2
           b4 == (a \div 16) % 2
           b5 == (a \div 32) % 2
           b6 == (a \div 64) % 2
           b7 == (a \div 128) % 2
<1>1. a \in Nat /\ a \div 2 \in Nat /\ a \div 4 \in Nat /\ a \div 8 \in Nat /\ a \div 16 \in Nat
      /\ a \div 32 \in Nat /\ a \div 64 \in Nat /\ a \div 128 \in Nat
  BY DEF Bytes
<1>2. b0 \in Nat /\ b1 \in Nat /\ b2 \in Nat /\ b3 \in Nat
      /\ b4 \in Nat /\ b5 \in Nat /\ b6 \in Nat /\ b7 \in Nat
  BY Halves DEF Binary
<1>3. a = 2 * (a \div 2) + b0 /\ a \div 2 = 2 * (a \div 4) + b1 /\ a \div 4 = 2 * (a \div 8) + b2
      /\ a \div 8 = 2 * (a \div 16) + b3
  BY Halves
<1>4. a \div 16 = 2 * (a \div 32) + b4 /\ a \div 32 = 2 * (a \div 64) + b5
      /\ a \div 64 = 2 * (a \div 128) + b6 /\ a \div 128 = b7
  BY Halves
<1>5. a = 4 * (a \div 4) + (a % 4) /\ a = 16 * (a \div 16) + (a % 16) /\ a = 64 * (a \div 64) + (a % 64)
      /\ a % 4 \in Nat /\ a % 16 \in Nat /\ a % 64 \in Nat
  BY <1>1
<1> DEFINE r4 == a % 4
           r16 == a % 16
           r64 == a % 64
           q2 == a \div 2
           q4 == a \div 4
           q8 == a \div 8
           q16 == a \div 16
           q32 == a \div 32
           q64 == a \div 64
           q128 == a \div 128
<1> HIDE DEF b0, b1, b2, b3, b4, b5, b6, b7
<1>6. /\ q64 = 2 * b7 + b6
      /\ q16 = 8 * b7 + 4 * b6 + 2 * b5 + b4
      /\ q4 = 32 * b7 + 16 * b6 + 8 * b5 + 4 * b4 + 2 * b3 + b2
      /\ r4 = 2 * b1 + b0
      /\ r16 = 8 * b3 + 4 * b2 + 2 * b1 + b0
      /\ r64 = 32 * b5 + 16 * b4 + 8 * b3 + 4 * b2 + 2 * b1 + b0
  <2>1. /\ a \in Nat /\ q2 \in Nat /\ q4 \in Nat /\ q8 \in Nat /\ q16 \in Nat /\ q32 \in Nat /\ q64 \in Nat
        /\ q128 \in Nat /\ r4 \in Nat /\ r16 \in Nat /\ r64 \in Nat
    BY <1>1, <1>5
  <2>2. /\ a = 2 * q2 + b0 /\ q2 = 2 * q4 + b1 /\ q4 = 2 * q8 + b2 /\ q8 = 2 * q16 + b3
        /\ q16 = 2 * q32 + b4 /\ q32 = 2 * q64 + b5 /\ q64 = 2 * q128 + b6 /\ q128 = b7
        /\ a = 4 * q4 + r4 /\ a = 16 * q16 + r16 /\ a = 64 * q64 + r64
    BY <1>3, <1>4, <1>5
  <2> HIDE DEF r4, r16, r64, q2, q4, q8, q16, q32, q64, q128
  <2> QED
    BY <1>2, <2>1, <2>2
<1> QED
  BY <1>6 DEF b0, b1, b2, b3, b4, b5, b6, b7

(* Six bits of two bytes, one after the other.                             *)
LEMMA SixBits ==
  ASSUME NEW a \in Bytes, NEW b \in Bytes
  PROVE  /\ 32 * ((a \div 2) % 2) + 16 * (a % 2) + 8 * ((b \div 128) % 2) + 4 * ((b \div 64) % 2)
               + 2 * ((b \div 32) % 2) + ((b \div 16) % 2) = (a % 4) * 16 + b \div 16
         /\ 32 * ((a \div 8) % 2) + 16 * ((a \div 4) % 2) + 8 * ((a \div 2) % 2) + 4 * (a % 2)
               + 2 * ((b \div 128) % 2) + ((b \div 64) % 2) = (a % 16) * 4 + b \div 64
<1> DEFINE a0 == a % 2
           a1 == (a \div 2) % 2
           a2 == (a \div 4) % 2
           a3 == (a \div 8) % 2
           b4 == (b \div 16) % 2
           b5 == (b \div 32) % 2
           b6 == (b \div 64) % 2
           b7 == (b \div 128) % 2
           r4 == a % 4
           r16 == a % 16
           q16 == b \div 16
           q64 == b \div 64
<1>1. /\ a0 \in Nat /\ a1 \in Nat /\ a2 \in Nat /\ a3 \in Nat
      /\ b4 \in Nat /\ b5 \in Nat /\ b6 \in Nat /\ b7 \in Nat
      /\ r4 \in Nat /\ r16 \in Nat /\ q16 \in Nat /\ q64 \in Nat
  BY DEF Bytes
<1>2. /\ r4 = 2 * a1 + a0
      /\ r16 = 8 * a3 + 4 * a2 + 2 * a1 + a0
      /\ q16 = 8 * b7 + 4 * b6 + 2 * b5 + b4
      /\ q64 = 2 * b7 + b6
  BY PartsOfByte
<1> HIDE DEF a0, a1, a2, a3, b4, b5, b6, b7, r4, r16, q16, q64
<1>3. 32 * a1 + 16 * a0 + 8 * b7 + 4 * b6 + 2 * b5 + b4 = r4 * 16 + q16
  BY <1>1, <1>2
<1>4. 32 * a3 + 16 * a2 + 8 * a1 + 4 * a0 + 2 * b7 + b6 = r16 * 4 + q64
  BY <1>1, <1>2
<1> QED
  BY <1>3, <1>4 DEF a0, a1, a2, a3, b4, b5, b6, b7, r4, r16, q16, q64

(* What the bits of a byte weigh, and the byte of some bits.               *)
Weights == {1, 2, 4, 8, 16, 32, 64, 128}

ByteOf(x) ==
  1 * x[1] + 2 * x[2] + 4 * x[4] + 8 * x[8] + 16 * x[16] + 32 * x[32] + 64 * x[64] + 128 * x[128]

(* Bits, and the byte they make.                                           *)
LEMMA BitsOf ==
  ASSUME NEW x \in [Weights -> Binary]
  PROVE  /\ ByteOf(x) \in Bytes
         /\ \A d \in Weights : (ByteOf(x) \div d) % 2 = x[d]
<1> DEFINE n == ByteOf(x)
<1>1. /\ x[1] \in Binary /\ x[2] \in Binary /\ x[4] \in Binary /\ x[8] \in Binary
      /\ x[16] \in Binary /\ x[32] \in Binary /\ x[64] \in Binary /\ x[128] \in Binary
  BY DEF Weights
<1>2. n \in Bytes
  BY <1>1 DEF ByteOf, Binary, Bytes
<1>3. (n \div 1) % 2 = x[1] /\ (n \div 2) % 2 = x[2]
  BY <1>1 DEF ByteOf, Binary
<1>4. (n \div 4) % 2 = x[4] /\ (n \div 8) % 2 = x[8]
  BY <1>1 DEF ByteOf, Binary
<1>5. (n \div 16) % 2 = x[16] /\ (n \div 32) % 2 = x[32]
  BY <1>1 DEF ByteOf, Binary
<1>6. (n \div 64) % 2 = x[64] /\ (n \div 128) % 2 = x[128]
  BY <1>1 DEF ByteOf, Binary
<1> HIDE DEF n
<1>7. \A d \in Weights : (n \div d) % 2 = x[d]
  BY <1>3, <1>4, <1>5, <1>6 DEF Weights
<1> QED
  BY <1>2, <1>7 DEF n

(* The bits of the exclusive or of two bytes.                              *)
LEMMA XorBits ==
  ASSUME NEW a \in Bytes, NEW b \in Bytes
  PROVE  /\ Xor(a, b) \in Bytes
         /\ \A d \in Weights :
              (Xor(a, b) \div d) % 2 = (a \div d + b \div d) % 2
<1> DEFINE z == [d \in Weights |-> (a \div d + b \div d) % 2]
<1>1. ASSUME NEW d \in Weights
      PROVE  (a \div d + b \div d) % 2 \in Binary
  <2>1. a \div d \in Nat /\ b \div d \in Nat
    BY DEF Bytes, Weights
  <2> QED
    BY <2>1 DEF Binary
<1>2. z \in [Weights -> Binary]
  BY <1>1
<1>3. Xor(a, b) = ByteOf(z)
  BY DEF Xor, ByteOf, Weights
<1>4. \A d \in Weights : z[d] = (a \div d + b \div d) % 2
  OBVIOUS
<1> HIDE DEF z
<1> QED
  BY <1>2, <1>3, <1>4, BitsOf

(* Adding one bit twice.                                                   *)
LEMMA Parity ==
  ASSUME NEW p \in Nat, NEW q \in Nat, NEW r \in Nat, r % 2 = (p + q) % 2
  PROVE  (r + q) % 2 = p % 2
OBVIOUS

(* The exclusive or of bytes is one; with zero it changes nothing; and     *)
(* twice with the same key neither.                                        *)
LEMMA XorProperties ==
  ASSUME NEW a \in Bytes, NEW b \in Bytes
  PROVE  Xor(a, b) \in Bytes /\ Xor(0, b) = b /\ Xor(Xor(a, b), b) = a
<1> DEFINE x == Xor(a, b)
<1>1. x \in Bytes
  BY XorBits
<1>2. ASSUME NEW u \in Bytes, NEW v \in Bytes, NEW w \in Bytes,
             \A d \in Weights : (u \div d + v \div d) % 2 = (w \div d) % 2
      PROVE  Xor(u, v) = w
  <2>1. Xor(u, v) = 1 * ((w \div 1) % 2) + 2 * ((w \div 2) % 2) + 4 * ((w \div 4) % 2)
                      + 8 * ((w \div 8) % 2) + 16 * ((w \div 16) % 2) + 32 * ((w \div 32) % 2)
                      + 64 * ((w \div 64) % 2) + 128 * ((w \div 128) % 2)
    BY <1>2 DEF Xor, Weights
  <2>2. w \div 1 = w
    BY DEF Bytes
  <2> QED
    BY <2>1, <2>2, ByteOfBits, Zenon
<1>3. Xor(0, b) = b
  <2>1. 0 \in Bytes /\ \A d \in Weights : (0 \div d + b \div d) % 2 = (b \div d) % 2
    BY DEF Bytes, Weights
  <2> QED
    BY <1>2, <2>1
<1>4. Xor(x, b) = a
  <2>1. ASSUME NEW d \in Weights
        PROVE  (x \div d + b \div d) % 2 = (a \div d) % 2
    <3>1. (x \div d) % 2 = (a \div d + b \div d) % 2
      BY XorBits
    <3>2. a \div d \in Nat /\ b \div d \in Nat /\ x \div d \in Nat
      BY <1>1 DEF Bytes, Weights
    <3> HIDE DEF x
    <3> QED
      BY <3>1, <3>2, Parity
  <2> HIDE DEF x
  <2> QED
    BY <1>1, <1>2, <2>1
<1> QED
  BY <1>1, <1>3, <1>4

-----------------------------------------------------------------------------
(* A sequence of bytes with zeros behind it.                               *)
In(src, j) == IF j <= Len(src) THEN src[j] ELSE 0

(* It is a byte everywhere.                                                *)
LEMMA InIsByte ==
  ASSUME NEW src \in Seq(Bytes), NEW j \in Nat \ {0}
  PROVE  In(src, j) \in Bytes
<1>1. CASE j <= Len(src)
  <2>1. j \in 1..Len(src)
    BY <1>1
  <2>2. src[j] \in Bytes
    BY <2>1
  <2> QED
    BY <1>1, <2>2 DEF In
<1>2. CASE ~ (j <= Len(src))
  BY <1>2 DEF In, Bytes
<1> QED
  BY <1>1, <1>2

(* The bits of three bytes, one after the other.                           *)
LEMMA BitAt ==
  ASSUME NEW src \in Seq(Bytes), NEW g \in Nat, NEW i \in 0..23
  PROVE  Bit(src, 24 * g + i) = (In(src, 3 * g + i \div 8 + 1) \div Powers[(i % 8) + 1]) % 2
<1>1. /\ (24 * g + i) \div 8 = 3 * g + i \div 8 /\ (24 * g + i) % 8 = i % 8
      /\ i \div 8 \in Nat /\ i % 8 \in 0..7 /\ i = 8 * (i \div 8) + (i % 8)
  OBVIOUS
<1>2. Len(src) \in Nat
  OBVIOUS
<1> DEFINE q == i \div 8
           t == i % 8
<1>3. q \in Nat /\ t \in 0..7 /\ i = 8 * q + t
  BY <1>1
<1>4. (24 * g + i) \div 8 = 3 * g + q /\ (24 * g + i) % 8 = t
  BY <1>1
<1> HIDE DEF q, t
<1>5. 24 * g + i < 8 * Len(src) <=> 3 * g + q + 1 <= Len(src)
  BY <1>2, <1>3
<1>6. Bit(src, 24 * g + i)
        = IF 24 * g + i < 8 * Len(src) THEN (src[3 * g + q + 1] \div Powers[t + 1]) % 2 ELSE 0
  BY <1>4, Zenon DEF Bit
<1>7. (0 \div Powers[t + 1]) % 2 = 0
  BY <1>3 DEF Powers
<1>8. Bit(src, 24 * g + i) = (In(src, 3 * g + q + 1) \div Powers[t + 1]) % 2
  BY <1>5, <1>6, <1>7, Zenon DEF In
<1> QED
  BY <1>8 DEF q, t

(* Their bits, six by six, as remainders and quotients.                    *)
LEMMA Sextets ==
  ASSUME NEW src \in Seq(Bytes), NEW g \in Nat
  PROVE  LET a == In(src, 3 * g + 1)
             b == In(src, 3 * g + 2)
             c == In(src, 3 * g + 3)
         IN /\ Sextet(src, 4 * g) = a \div 4
            /\ Sextet(src, 4 * g + 1) = (a % 4) * 16 + b \div 16
            /\ Sextet(src, 4 * g + 2) = (b % 16) * 4 + c \div 64
            /\ Sextet(src, 4 * g + 3) = c % 64
<1> DEFINE a == In(src, 3 * g + 1)
           b == In(src, 3 * g + 2)
           c == In(src, 3 * g + 3)
           bit(i) == Bit(src, 24 * g + i)
<1>1. a \in Bytes /\ b \in Bytes /\ c \in Bytes
  BY InIsByte
<1>2. \A i \in 0..23 : bit(i) = (In(src, 3 * g + i \div 8 + 1) \div Powers[(i % 8) + 1]) % 2
  BY BitAt
<1>3. ASSUME NEW r \in 0..3
      PROVE  Sextet(src, 4 * g + r) = 32 * bit(6 * r) + 16 * bit(6 * r + 1) + 8 * bit(6 * r + 2)
                                        + 4 * bit(6 * r + 3) + 2 * bit(6 * r + 4) + bit(6 * r + 5)
  <2>1. /\ 6 * (4 * g + r) = 24 * g + 6 * r
        /\ \A j \in 1..5 : 6 * (4 * g + r) + j = 24 * g + (6 * r + j)
    OBVIOUS
  <2> QED
    BY <2>1 DEF Sextet
<1> HIDE DEF bit
<1>4. ASSUME NEW i \in 0..7
      PROVE  /\ bit(i) = (a \div Powers[i + 1]) % 2
             /\ bit(8 + i) = (b \div Powers[i + 1]) % 2
             /\ bit(16 + i) = (c \div Powers[i + 1]) % 2
  <2>1. /\ i \div 8 = 0 /\ (8 + i) \div 8 = 1 /\ (16 + i) \div 8 = 2
        /\ i % 8 = i /\ (8 + i) % 8 = i /\ (16 + i) % 8 = i
        /\ i \in 0..23 /\ 8 + i \in 0..23 /\ 16 + i \in 0..23
        /\ 3 * g + 0 + 1 = 3 * g + 1 /\ 3 * g + 1 + 1 = 3 * g + 2 /\ 3 * g + 2 + 1 = 3 * g + 3
    OBVIOUS
  <2> QED
    BY <1>2, <2>1, Zenon
<1> HIDE DEF a, b, c
<1>5. /\ bit(0) = (a \div 128) % 2 /\ bit(1) = (a \div 64) % 2 /\ bit(2) = (a \div 32) % 2
      /\ bit(3) = (a \div 16) % 2 /\ bit(4) = (a \div 8) % 2 /\ bit(5) = (a \div 4) % 2
      /\ bit(6) = (a \div 2) % 2 /\ bit(7) = a % 2
  BY <1>1, <1>4 DEF Powers, Bytes
<1>6. /\ bit(8) = (b \div 128) % 2 /\ bit(9) = (b \div 64) % 2 /\ bit(10) = (b \div 32) % 2
      /\ bit(11) = (b \div 16) % 2 /\ bit(12) = (b \div 8) % 2 /\ bit(13) = (b \div 4) % 2
      /\ bit(14) = (b \div 2) % 2 /\ bit(15) = b % 2
  BY <1>1, <1>4 DEF Powers, Bytes
<1>7. /\ bit(16) = (c \div 128) % 2 /\ bit(17) = (c \div 64) % 2 /\ bit(18) = (c \div 32) % 2
      /\ bit(19) = (c \div 16) % 2 /\ bit(20) = (c \div 8) % 2 /\ bit(21) = (c \div 4) % 2
      /\ bit(22) = (c \div 2) % 2 /\ bit(23) = c % 2
  BY <1>1, <1>4 DEF Powers, Bytes
<1>8. 6 * 0 = 0 /\ 6 * 1 = 6 /\ 6 * 2 = 12 /\ 6 * 3 = 18 /\ 4 * g + 0 = 4 * g
  OBVIOUS
<1>9. Sextet(src, 4 * g) = a \div 4
  <2>1. Sextet(src, 4 * g) = 32 * bit(0) + 16 * bit(1) + 8 * bit(2) + 4 * bit(3) + 2 * bit(4) + bit(5)
    BY <1>3, <1>8
  <2> QED
    BY <1>1, <1>5, <2>1, PartsOfByte
<1>10. Sextet(src, 4 * g + 1) = (a % 4) * 16 + b \div 16
  <2>1. Sextet(src, 4 * g + 1) = 32 * bit(6) + 16 * bit(7) + 8 * bit(8) + 4 * bit(9) + 2 * bit(10) + bit(11)
    BY <1>3, <1>8
  <2> QED
    BY <1>1, <1>5, <1>6, <2>1, SixBits
<1>11. Sextet(src, 4 * g + 2) = (b % 16) * 4 + c \div 64
  <2>1. Sextet(src, 4 * g + 2) = 32 * bit(12) + 16 * bit(13) + 8 * bit(14) + 4 * bit(15) + 2 * bit(16) + bit(17)
    BY <1>3, <1>8
  <2> QED
    BY <1>1, <1>6, <1>7, <2>1, SixBits
<1>12. Sextet(src, 4 * g + 3) = c % 64
  <2>1. Sextet(src, 4 * g + 3) = 32 * bit(18) + 16 * bit(19) + 8 * bit(20) + 4 * bit(21) + 2 * bit(22) + bit(23)
    BY <1>3, <1>8
  <2> QED
    BY <1>1, <1>7, <2>1, PartsOfByte
<1> QED
  BY <1>9, <1>10, <1>11, <1>12 DEF a, b, c

-----------------------------------------------------------------------------
(* base64_table and B64index.                                              *)
LEMMA TableProperties ==
  ASSUME NEW i \in 0..63
  PROVE  base64_table[i] \in Bytes \ {Pad, 0} /\ B64index[base64_table[i]] = i
<1> DEFINE c == base64_table[i]
<1>1. c = IF i < 26 THEN 65 + i ELSE IF i < 52 THEN 71 + i ELSE IF i < 62 THEN i - 4
          ELSE IF i = 62 THEN 43 ELSE 47
  BY DEF base64_table
<1> HIDE DEF c
<1>2. c \in 0..255 /\ c # 61 /\ c # 0
  BY <1>1
<1>3. B64index[c] = IF c \in {43, 45, 46} THEN 62 ELSE IF c \in {44, 47, 95} THEN 63
                    ELSE IF c \in 48..57 THEN c + 4 ELSE IF c \in 65..90 THEN c - 65
                    ELSE IF c \in 97..122 THEN c - 71 ELSE 0
  BY <1>2 DEF B64index, Bytes
<1>4. B64index[c] = i
  BY <1>1, <1>3
<1> QED
  BY <1>2, <1>4 DEF c, Bytes, Pad

(* Three bytes as one number.                                              *)
Joined(a, b, c) == 65536 * a + 256 * b + c

(* The four times six bits of three bytes, and these again.                *)
LEMMA GroupSextets ==
  ASSUME NEW a \in Bytes, NEW b \in Bytes, NEW c \in Bytes
  PROVE  /\ a \div 4 \in 0..63 /\ (a % 4) * 16 + b \div 16 \in 0..63
         /\ (b % 16) * 4 + c \div 64 \in 0..63 /\ c % 64 \in 0..63
<1> USE DEF Bytes
<1>1. a \div 4 \in 0..63 /\ (a % 4) * 16 + b \div 16 \in 0..63
  OBVIOUS
<1>2. (b % 16) * 4 + c \div 64 \in 0..63 /\ c % 64 \in 0..63
  OBVIOUS
<1> QED
  BY <1>1, <1>2

(* Four values of six bits put together, as b64decode does, are the three  *)
(* bytes as one number.                                                    *)
LEMMA GroupJoined ==
  ASSUME NEW a \in Bytes, NEW b \in Bytes, NEW c \in Bytes
  PROVE  (a \div 4) * 262144 + ((a % 4) * 16 + b \div 16) * 4096 + ((b % 16) * 4 + c \div 64) * 64
           + (c % 64) = Joined(a, b, c)
BY SMT DEF Bytes, Joined

(* And that number taken apart, as b64decode does, is the three bytes.     *)
LEMMA GroupAgain ==
  ASSUME NEW a \in Bytes, NEW b \in Bytes, NEW c \in Bytes
  PROVE  Triple(Joined(a, b, c)) = <<a, b, c>>
<1> DEFINE n == 65536 * a + 256 * b + c
<1>1. n \div 65536 = a
  BY SMT DEF Bytes
<1>2. n \div 256 = 256 * a + b /\ n % 256 = c
  BY SMT DEF Bytes
<1>3. (256 * a + b) % 256 = b
  BY SMT DEF Bytes
<1> QED
  BY <1>1, <1>2, <1>3, SMT DEF Triple, Joined

(* The group of four characters g of what is encoded.                      *)
LEMMA EncodedGroup ==
  ASSUME NEW src \in Seq(Bytes), NEW g \in Nat, 3 * g < Len(src)
  PROVE  LET a == In(src, 3 * g + 1)
             b == In(src, 3 * g + 2)
             c == In(src, 3 * g + 3)
             e == base64_encode(src)
         IN /\ e[4 * g + 1] = base64_table[a \div 4]
            /\ e[4 * g + 2] = base64_table[(a % 4) * 16 + b \div 16]
            /\ e[4 * g + 3] = IF 3 * g + 1 < Len(src) THEN base64_table[(b % 16) * 4 + c \div 64]
                              ELSE Pad
            /\ e[4 * g + 4] = IF 3 * g + 2 < Len(src) THEN base64_table[c % 64] ELSE Pad
<1> DEFINE a == In(src, 3 * g + 1)
           b == In(src, 3 * g + 2)
           c == In(src, 3 * g + 3)
           n == Len(src)
           G == (n + 2) \div 3
<1>1. n \in Nat /\ G \in Nat /\ g < G
  OBVIOUS
<1>2. /\ \A r \in 1..4 : 4 * g + r \in 1..4 * G
      /\ \A r \in 1..4 : (4 * g + r - 1) \div 4 = g /\ ((4 * g + r - 1) % 4) + 1 = r
  BY <1>1
<1>3. \A r \in 1..4 : base64_encode(src)[4 * g + r] = Group(src, 3 * g)[r]
  <2> TAKE r \in 1..4
  <2> DEFINE k == 4 * g + r
  <2>1. k \in 1..4 * ((Len(src) + 2) \div 3) /\ (k - 1) \div 4 = g /\ ((k - 1) % 4) + 1 = r
    BY <1>2
  <2> HIDE DEF k
  <2>2. base64_encode(src)[k] = Group(src, 3 * ((k - 1) \div 4))[((k - 1) % 4) + 1]
    BY <2>1 DEF base64_encode
  <2> QED
    BY <2>1, <2>2 DEF k
<1>4. Group(src, 3 * g) =
        <<base64_table[a \div 4], base64_table[(a % 4) * 16 + b \div 16],
          IF n - 3 * g > 1 THEN base64_table[(b % 16) * 4 + c \div 64] ELSE Pad,
          IF n - 3 * g > 2 THEN base64_table[c % 64] ELSE Pad>>
  <2>1. /\ a = IF 3 * g + 1 <= Len(src) THEN src[3 * g + 1] ELSE 0
        /\ b = IF 3 * g + 2 <= Len(src) THEN src[3 * g + 2] ELSE 0
        /\ c = IF 3 * g + 3 <= Len(src) THEN src[3 * g + 3] ELSE 0
    BY DEF In
  <2> HIDE DEF a, b, c
  <2> QED
    BY <2>1 DEF Group, First, Second, Third, Fourth
<1>5. (n - 3 * g > 1 <=> 3 * g + 1 < n) /\ (n - 3 * g > 2 <=> 3 * g + 2 < n)
  BY <1>1
<1> HIDE DEF a, b, c, n, G
<1>6. 1 \in 1..4 /\ 2 \in 1..4 /\ 3 \in 1..4 /\ 4 \in 1..4
  OBVIOUS
<1>7. /\ base64_encode(src)[4 * g + 1] = base64_table[a \div 4]
      /\ base64_encode(src)[4 * g + 2] = base64_table[(a % 4) * 16 + b \div 16]
      /\ base64_encode(src)[4 * g + 3] = IF n - 3 * g > 1 THEN base64_table[(b % 16) * 4 + c \div 64] ELSE Pad
      /\ base64_encode(src)[4 * g + 4] = IF n - 3 * g > 2 THEN base64_table[c % 64] ELSE Pad
  BY <1>3, <1>4, <1>6
<1>8. /\ base64_encode(src)[4 * g + 3] = IF 3 * g + 1 < n THEN base64_table[(b % 16) * 4 + c \div 64] ELSE Pad
      /\ base64_encode(src)[4 * g + 4] = IF 3 * g + 2 < n THEN base64_table[c % 64] ELSE Pad
  BY <1>5, <1>7
<1> QED
  BY <1>7, <1>8 DEF a, b, c, n

(* base64_encode gives the text of the bits.                               *)
LEMMA EncodeIsText ==
  ASSUME NEW src \in Seq(Bytes)
  PROVE  base64_encode(src) = Base64Text(src)
<1> DEFINE n == Len(src)
           G == (n + 2) \div 3
           e == base64_encode(src)
           t == Base64Text(src)
<1>1. n \in Nat /\ G \in Nat /\ 4 * G \in Nat
  OBVIOUS
<1>2. ASSUME NEW k \in 1..4 * G
      PROVE  e[k] = t[k]
  <2> DEFINE g == (k - 1) \div 4
             r == (k - 1) % 4
             a == In(src, 3 * g + 1)
             b == In(src, 3 * g + 2)
             c == In(src, 3 * g + 3)
  <2>1. k \in Nat /\ g \in Nat /\ r \in 0..3 /\ k = 4 * g + r + 1 /\ k - 1 = 4 * g + r
    BY <1>1
  <2> HIDE DEF g, r
  <2>2. 3 * g < n
    BY <1>1, <2>1
  <2>3. t[k] = IF 6 * (k - 1) < 8 * n THEN base64_table[Sextet(src, k - 1)] ELSE Pad
    BY DEF Base64Text
  <2>4. /\ e[4 * g + 1] = base64_table[a \div 4]
        /\ e[4 * g + 2] = base64_table[(a % 4) * 16 + b \div 16]
        /\ e[4 * g + 3] = IF 3 * g + 1 < n THEN base64_table[(b % 16) * 4 + c \div 64] ELSE Pad
        /\ e[4 * g + 4] = IF 3 * g + 2 < n THEN base64_table[c % 64] ELSE Pad
    BY <2>1, <2>2, EncodedGroup
  <2>5. /\ Sextet(src, 4 * g) = a \div 4
        /\ Sextet(src, 4 * g + 1) = (a % 4) * 16 + b \div 16
        /\ Sextet(src, 4 * g + 2) = (b % 16) * 4 + c \div 64
        /\ Sextet(src, 4 * g + 3) = c % 64
    BY <2>1, Sextets
  <2> HIDE DEF a, b, c, e, t, n
  <2>6. CASE r = 0
    <3>1. k = 4 * g + 1 /\ k - 1 = 4 * g /\ 6 * (k - 1) < 8 * n
      BY <1>1, <2>1, <2>2, <2>6
    <3> QED
      BY <2>3, <2>4, <2>5, <3>1
  <2>7. CASE r = 1
    <3>1. k = 4 * g + 2 /\ k - 1 = 4 * g + 1 /\ 6 * (k - 1) < 8 * n
      BY <1>1, <2>1, <2>2, <2>7
    <3> QED
      BY <2>3, <2>4, <2>5, <3>1
  <2>8. CASE r = 2
    <3>1. k = 4 * g + 3 /\ k - 1 = 4 * g + 2 /\ (6 * (k - 1) < 8 * n <=> 3 * g + 1 < n)
      BY <1>1, <2>1, <2>2, <2>8
    <3> QED
      BY <2>3, <2>4, <2>5, <3>1
  <2>9. CASE r = 3
    <3>1. k = 4 * g + 4 /\ k - 1 = 4 * g + 3 /\ (6 * (k - 1) < 8 * n <=> 3 * g + 2 < n)
      BY <1>1, <2>1, <2>2, <2>9
    <3> QED
      BY <2>3, <2>4, <2>5, <3>1
  <2> QED
    BY <2>1, <2>6, <2>7, <2>8, <2>9
<1>3. e = [k \in 1..4 * G |-> e[k]] /\ t = [k \in 1..4 * G |-> t[k]]
  BY DEF base64_encode, Base64Text
<1> HIDE DEF e, t, G
<1> QED
  BY <1>2, <1>3, Zenon DEF e, t

(* What is encoded is a text of four characters for three bytes.           *)
LEMMA EncodeType ==
  ASSUME NEW src \in Seq(Bytes)
  PROVE  /\ base64_encode(src) \in Seq(Bytes)
         /\ Len(base64_encode(src)) = 4 * ((Len(src) + 2) \div 3)
<1> DEFINE e == base64_encode(src)
           n == Len(src)
           G == (n + 2) \div 3
<1>1. n \in Nat /\ G \in Nat /\ 4 * G \in Nat
  OBVIOUS
<1>2. ASSUME NEW k \in 1..4 * G PROVE e[k] \in Bytes
  <2> DEFINE g == (k - 1) \div 4
             r == (k - 1) % 4
             a == In(src, 3 * g + 1)
             b == In(src, 3 * g + 2)
             c == In(src, 3 * g + 3)
  <2>1. k \in Nat /\ g \in Nat /\ r \in 0..3 /\ k = 4 * g + r + 1
    BY <1>1
  <2> HIDE DEF g, r
  <2>2. 3 * g < n
    BY <1>1, <2>1
  <2>3. /\ e[4 * g + 1] = base64_table[a \div 4]
        /\ e[4 * g + 2] = base64_table[(a % 4) * 16 + b \div 16]
        /\ e[4 * g + 3] = IF 3 * g + 1 < n THEN base64_table[(b % 16) * 4 + c \div 64] ELSE Pad
        /\ e[4 * g + 4] = IF 3 * g + 2 < n THEN base64_table[c % 64] ELSE Pad
    BY <2>1, <2>2, EncodedGroup
  <2>4. a \in Bytes /\ b \in Bytes /\ c \in Bytes
    BY <2>1, InIsByte
  <2> HIDE DEF a, b, c, e
  <2>5. a \div 4 \in 0..63 /\ (a % 4) * 16 + b \div 16 \in 0..63 /\ (b % 16) * 4 + c \div 64 \in 0..63
        /\ c % 64 \in 0..63
    BY <2>4, GroupSextets
  <2>6. e[4 * g + 1] \in Bytes /\ e[4 * g + 2] \in Bytes /\ e[4 * g + 3] \in Bytes /\ e[4 * g + 4] \in Bytes
    <3>1. \A i \in 0..63 : base64_table[i] \in Bytes
      BY TableProperties
    <3>2. /\ base64_table[a \div 4] \in Bytes
          /\ base64_table[(a % 4) * 16 + b \div 16] \in Bytes
          /\ base64_table[(b % 16) * 4 + c \div 64] \in Bytes
          /\ base64_table[c % 64] \in Bytes
      BY <2>5, <3>1, Zenon
    <3>3. Pad \in Bytes
      BY DEF Pad, Bytes
    <3> QED
      BY <2>3, <3>2, <3>3
  <2>7. k = 4 * g + 1 \/ k = 4 * g + 2 \/ k = 4 * g + 3 \/ k = 4 * g + 4
    BY <2>1
  <2> QED
    BY <2>6, <2>7
<1>3. e = [k \in 1..4 * G |-> e[k]]
  BY DEF base64_encode
<1> HIDE DEF e, G
<1>4. e \in [1..4 * G -> Bytes]
  BY <1>2, <1>3, Zenon
<1> QED
  BY <1>1, <1>4 DEF e, G

(* A character that is not there is a zero to b64decode, and so is one of  *)
(* padding: four characters give the three bytes of their group.           *)
LEMMA QuadOfGroup ==
  ASSUME NEW src \in Seq(Bytes), NEW g \in Nat, 3 * g < Len(src), NEW p, Len(p) \in Nat,
         \A k \in 4 * g + 1..4 * g + 4 :
           IF k <= Len(p) THEN p[k] = base64_encode(src)[k] ELSE base64_encode(src)[k] = Pad
  PROVE  Quad(p, 4 * g) = Joined(In(src, 3 * g + 1), In(src, 3 * g + 2), In(src, 3 * g + 3))
<1> DEFINE a == In(src, 3 * g + 1)
           b == In(src, 3 * g + 2)
           c == In(src, 3 * g + 3)
           n == Len(src)
           e == base64_encode(src)
           V(k) == IF k <= Len(p) THEN B64index[p[k]] ELSE 0
<1>1. /\ e[4 * g + 1] = base64_table[a \div 4]
      /\ e[4 * g + 2] = base64_table[(a % 4) * 16 + b \div 16]
      /\ e[4 * g + 3] = IF 3 * g + 1 < n THEN base64_table[(b % 16) * 4 + c \div 64] ELSE Pad
      /\ e[4 * g + 4] = IF 3 * g + 2 < n THEN base64_table[c % 64] ELSE Pad
  BY EncodedGroup
<1>2. a \in Bytes /\ b \in Bytes /\ c \in Bytes
  BY InIsByte
<1>3. ~ (3 * g + 1 < n) => b = 0 /\ c = 0
  BY DEF In
<1>4. ~ (3 * g + 2 < n) => c = 0
  BY DEF In
<1>5. B64index[Pad] = 0
  BY DEF B64index, Pad, Bytes
<1>6. ASSUME NEW k \in 4 * g + 1..4 * g + 4 PROVE V(k) = B64index[e[k]]
  BY <1>5
<1>7. 4 * g + 1 \in 4 * g + 1..4 * g + 4 /\ 4 * g + 2 \in 4 * g + 1..4 * g + 4
      /\ 4 * g + 3 \in 4 * g + 1..4 * g + 4 /\ 4 * g + 4 \in 4 * g + 1..4 * g + 4
  OBVIOUS
<1>8. Quad(p, 4 * g) = V(4 * g + 1) * 262144 + V(4 * g + 2) * 4096 + V(4 * g + 3) * 64 + V(4 * g + 4)
  BY SMT DEF Quad
<1> HIDE DEF V, a, b, c, e
<1>9. a \div 4 \in 0..63 /\ (a % 4) * 16 + b \div 16 \in 0..63 /\ (b % 16) * 4 + c \div 64 \in 0..63
      /\ c % 64 \in 0..63
  BY <1>2, GroupSextets
<1>10. (0 % 16) * 4 + 0 \div 64 = 0 /\ 0 % 64 = 0
  OBVIOUS
<1>11. \A i \in 0..63 : B64index[base64_table[i]] = i
  BY TableProperties
<1>12. /\ V(4 * g + 1) = B64index[e[4 * g + 1]] /\ V(4 * g + 2) = B64index[e[4 * g + 2]]
       /\ V(4 * g + 3) = B64index[e[4 * g + 3]] /\ V(4 * g + 4) = B64index[e[4 * g + 4]]
  BY <1>6, <1>7
<1>13. V(4 * g + 1) = a \div 4 /\ V(4 * g + 2) = (a % 4) * 16 + b \div 16
  BY <1>1, <1>9, <1>11, <1>12, Zenon
<1>14. V(4 * g + 3) = (b % 16) * 4 + c \div 64
  <2>1. CASE 3 * g + 1 < n
    BY <1>1, <1>9, <1>11, <1>12, <2>1, Zenon
  <2>2. CASE ~ (3 * g + 1 < n)
    BY <1>1, <1>3, <1>5, <1>10, <1>12, <2>2
  <2> QED
    BY <2>1, <2>2
<1>15. V(4 * g + 4) = c % 64
  <2>1. CASE 3 * g + 2 < n
    BY <1>1, <1>9, <1>11, <1>12, <2>1, Zenon
  <2>2. CASE ~ (3 * g + 2 < n)
    BY <1>1, <1>4, <1>5, <1>10, <1>12, <2>2
  <2> QED
    BY <2>1, <2>2
<1> QED
  BY <1>2, <1>8, <1>13, <1>14, <1>15, GroupJoined, SMT DEF a, b, c

(* How many bytes b64decode makes of what is left of an encoded text when  *)
(* some of its padding is taken off: as many as there were.                *)
LEMMA DecodedSize ==
  ASSUME NEW src \in Seq(Bytes), NEW n \in 0..Len(base64_encode(src)),
         \A i \in n + 1..Len(base64_encode(src)) : base64_encode(src)[i] = Pad,
         NEW p \in Seq(Bytes), Len(p) = n, \A i \in 1..n : p[i] = base64_encode(src)[i]
  PROVE  b64decode(p) = [j \in 1..Len(src) |-> Triple(Quad(p, 4 * ((j - 1) \div 3)))[((j - 1) % 3) + 1]]
<1> DEFINE e == base64_encode(src)
           N == Len(src)
           G == (N + 2) \div 3
           pad == IF p # <<>> /\ (Len(p) % 4 # 0 \/ Last(p) = Pad) THEN 1 ELSE 0
           L == ((Len(p) + 3) \div 4 - pad) * 4
           size == (L \div 4) * 3 + pad + (IF pad = 1 /\ Len(p) > L + 2 /\ p[L + 3] # Pad THEN 1 ELSE 0)
<1>1. /\ N \in Nat /\ G \in Nat /\ Len(e) = 4 * G
      /\ n \in Nat /\ n <= 4 * G
  <2>1. Len(e) = 4 * G
    BY EncodeType, Zenon
  <2>2. N \in Nat /\ G \in Nat
    OBVIOUS
  <2>3. n \in 0..4 * G
    BY <2>1, Zenon
  <2> HIDE DEF G, N, e
  <2> QED
    BY <2>1, <2>2, <2>3
<1>2. b64decode(p) = [j \in 1..size |-> Triple(Quad(p, 4 * ((j - 1) \div 3)))[((j - 1) % 3) + 1]]
  BY Zenon DEF b64decode
<1>3. size = N
  <2>1. CASE N = 0
    <3>1. G = 0 /\ n = 0
      BY <1>1, <2>1
    <3>2. p = <<>>
      BY <3>1, EmptySeq
    <3>3. pad = 0
      BY <3>2
    <3> HIDE DEF pad
    <3>4. L = 0
      BY <3>1, <3>3
    <3> HIDE DEF L
    <3> QED
      BY <2>1, <3>3, <3>4
  <2>2. CASE N # 0
    <3> DEFINE g == G - 1
               a == In(src, 3 * g + 1)
               b == In(src, 3 * g + 2)
               c == In(src, 3 * g + 3)
    <3>1. g \in Nat /\ G = g + 1 /\ 3 * g < N /\ N <= 3 * g + 3
      BY <1>1, <2>2
    <3> HIDE DEF G, g
    <3>2. /\ e[4 * g + 1] = base64_table[a \div 4]
          /\ e[4 * g + 2] = base64_table[(a % 4) * 16 + b \div 16]
          /\ e[4 * g + 3] = IF 3 * g + 1 < N THEN base64_table[(b % 16) * 4 + c \div 64] ELSE Pad
          /\ e[4 * g + 4] = IF 3 * g + 2 < N THEN base64_table[c % 64] ELSE Pad
      BY <3>1, EncodedGroup
    <3>3. a \in Bytes /\ b \in Bytes /\ c \in Bytes
      BY <3>1, InIsByte
    <3> HIDE DEF a, b, c
    <3>4. /\ base64_table[(a % 4) * 16 + b \div 16] # Pad
          /\ base64_table[(b % 16) * 4 + c \div 64] # Pad /\ base64_table[c % 64] # Pad
      <4>1. /\ (a % 4) * 16 + b \div 16 \in 0..63
            /\ (b % 16) * 4 + c \div 64 \in 0..63 /\ c % 64 \in 0..63
        BY <3>3, GroupSextets, Zenon
      <4>2. \A i \in 0..63 : base64_table[i] # Pad
        BY TableProperties
      <4> QED
        BY <4>1, <4>2, Zenon
    <3> HIDE DEF e
    <3>5. /\ e[4 * g + 2] # Pad
          /\ e[4 * g + 3] = Pad <=> ~ (3 * g + 1 < N)
          /\ e[4 * g + 4] = Pad <=> ~ (3 * g + 2 < N)
      BY <3>2, <3>4
    <3>6. \A i \in 1..4 * g + 4 : i > n => e[i] = Pad
      BY <1>1, <3>1 DEF e
    <3>7. /\ n >= 4 * g + 2 /\ n <= 4 * g + 4
          /\ 3 * g + 1 < N => n >= 4 * g + 3
          /\ 3 * g + 2 < N => n = 4 * g + 4
      BY <1>1, <3>1, <3>5, <3>6
    <3>8. (Len(p) + 3) \div 4 = g + 1 /\ p # <<>> /\ Last(p) = e[n]
      <4>1. n + 3 = 4 * (g + 1) + (n - (4 * g + 1)) /\ n - (4 * g + 1) \in 0..3
        BY <1>1, <3>1, <3>7
      <4>2. (n + 3) \div 4 = g + 1
        BY <1>1, <3>1, <4>1
      <4>3. p # <<>>
        BY <1>1, <3>1, <3>7, EmptySeq
      <4>4. n \in 1..n
        BY <1>1, <3>1, <3>7
      <4> QED
        BY <4>2, <4>3, <4>4 DEF Last, e
    <3>9. \A i \in 1..n : p[i] = e[i]
      BY DEF e
    <3> HIDE DEF N
    <3>10. CASE 3 * g + 2 < N
      <4>1. n = 4 * g + 4 /\ n % 4 = 0 /\ Last(p) # Pad /\ N = 3 * g + 3
        BY <1>1, <3>1, <3>5, <3>7, <3>8, <3>10
      <4>2. pad = 0
        BY <4>1
      <4> HIDE DEF pad
      <4>3. L = 4 * g + 4
        BY <3>1, <3>8, <4>2
      <4> HIDE DEF L
      <4>4. L \div 4 = g + 1
        BY <3>1, <4>3
      <4> QED
        BY <3>1, <4>1, <4>2, <4>4
    <3>11. CASE ~ (3 * g + 2 < N)
      <4>1. Len(p) % 4 # 0 \/ Last(p) = Pad
        <5>1. CASE n = 4 * g + 4
          BY <3>5, <3>8, <3>11, <5>1
        <5>2. CASE n # 4 * g + 4
          BY <1>1, <3>1, <3>7, <5>2
        <5> QED
          BY <5>1, <5>2
      <4>2. pad = 1
        BY <3>8, <4>1
      <4> HIDE DEF pad
      <4>3. L = 4 * g
        BY <3>1, <3>8, <4>2
      <4> HIDE DEF L
      <4>4. L \div 4 = g
        BY <3>1, <4>3
      <4>5. CASE 3 * g + 1 < N
        <5>1. Len(p) > L + 2 /\ p[L + 3] # Pad /\ N = 3 * g + 2
          BY <1>1, <3>1, <3>5, <3>7, <3>9, <3>11, <4>3, <4>5
        <5> QED
          BY <3>1, <4>2, <4>4, <5>1
      <4>6. CASE ~ (3 * g + 1 < N)
        <5>1. ~ (Len(p) > L + 2 /\ p[L + 3] # Pad) /\ N = 3 * g + 1
          BY <1>1, <3>1, <3>5, <3>9, <4>3, <4>6
        <5> QED
          BY <3>1, <4>2, <4>4, <5>1
      <4> QED
        BY <4>5, <4>6
    <3> QED
      BY <3>10, <3>11
  <2> QED
    BY <2>1, <2>2
<1> HIDE DEF size
<1> QED
  BY <1>2, <1>3

(* b64decode gives back what was encoded.                                  *)
LEMMA DecodeEncoded ==
  ASSUME NEW src \in Seq(Bytes), NEW n \in 0..Len(base64_encode(src)),
         \A i \in n + 1..Len(base64_encode(src)) : base64_encode(src)[i] = Pad
  PROVE  b64decode(SubSeq(base64_encode(src), 1, n)) = src
<1> DEFINE e == base64_encode(src)
           p == SubSeq(e, 1, n)
           N == Len(src)
           G == (N + 2) \div 3
           T(j) == Triple(Quad(p, 4 * ((j - 1) \div 3)))[((j - 1) % 3) + 1]
<1>1. e \in Seq(Bytes) /\ Len(e) = 4 * G /\ N \in Nat /\ G \in Nat
  BY EncodeType
<1>2. p \in Seq(Bytes) /\ Len(p) = n /\ \A i \in 1..n : p[i] = e[i]
  BY <1>1, PrefixProperties
<1>3. b64decode(p) = [j \in 1..N |-> T(j)]
  BY <1>2, DecodedSize
<1> HIDE DEF p
<1>4. ASSUME NEW j \in 1..N PROVE T(j) = src[j]
  <2> DEFINE g == (j - 1) \div 3
             r == (j - 1) % 3
             a == In(src, 3 * g + 1)
             b == In(src, 3 * g + 2)
             c == In(src, 3 * g + 3)
  <2>1. g \in Nat /\ r \in 0..2 /\ j = 3 * g + r + 1 /\ j \in Nat
    BY <1>1
  <2>2. T(j) = Triple(Quad(p, 4 * g))[r + 1]
    OBVIOUS
  <2> HIDE DEF g, r
  <2>3. 3 * g < N /\ 4 * g + 4 <= 4 * G
    BY <1>1, <2>1
  <2>4. \A k \in 4 * g + 1..4 * g + 4 : IF k <= Len(p) THEN p[k] = e[k] ELSE e[k] = Pad
    <3> TAKE k \in 4 * g + 1..4 * g + 4
    <3>1. k \in 1..4 * G
      BY <1>1, <2>1, <2>3
    <3>2. CASE k <= n
      BY <1>2, <3>1, <3>2
    <3>3. CASE ~ (k <= n)
      <4>1. k \in n + 1..Len(e)
        BY <1>1, <3>1, <3>3
      <4> QED
        BY <1>2, <3>3, <4>1
    <3> QED
      BY <3>2, <3>3
  <2>5. Quad(p, 4 * g) = Joined(a, b, c)
    BY <1>2, <2>1, <2>3, <2>4, QuadOfGroup
  <2>6. a \in Bytes /\ b \in Bytes /\ c \in Bytes
    BY <2>1, InIsByte
  <2> HIDE DEF a, b, c
  <2>7. Triple(Joined(a, b, c)) = <<a, b, c>>
    BY <2>6, GroupAgain
  <2>8. In(src, j) = src[j]
    BY <1>1 DEF In
  <2>9. CASE r = 0
    BY <2>1, <2>2, <2>5, <2>7, <2>8, <2>9 DEF a
  <2>10. CASE r = 1
    BY <2>1, <2>2, <2>5, <2>7, <2>8, <2>10 DEF b
  <2>11. CASE r = 2
    BY <2>1, <2>2, <2>5, <2>7, <2>8, <2>11 DEF c
  <2> QED
    BY <2>1, <2>9, <2>10, <2>11
<1>5. src = [j \in 1..N |-> src[j]]
  OBVIOUS
<1> HIDE DEF N, T
<1>6. b64decode(p) = src
  BY <1>3, <1>4, <1>5, Zenon
<1> QED
  BY <1>6 DEF p

-----------------------------------------------------------------------------
(* A part of a sequence.                                                   *)
LEMMA PartProperties ==
  ASSUME NEW S, NEW q \in Seq(S), NEW m \in Nat, NEW n \in Nat, m + n <= Len(q)
  PROVE  /\ SubSeq(q, m + 1, m + n) \in Seq(S)
         /\ Len(SubSeq(q, m + 1, m + n)) = n
         /\ \A i \in 1..n : SubSeq(q, m + 1, m + n)[i] = q[m + i]
<1> DEFINE i0 == m + 1
           j0 == m + n
           p == SubSeq(q, i0, j0)
<1>1. Len(q) \in Nat /\ \A i \in i0..j0 : q[i] \in S
  BY ElementOfSeq
<1>2. /\ p \in Seq(S)
      /\ Len(p) = IF i0 <= j0 THEN j0 - i0 + 1 ELSE 0
      /\ \A i \in 1..(j0 - i0 + 1) : p[i] = q[i0 + i - 1]
  BY <1>1, SubSeqProperties
<1>3. /\ j0 - i0 + 1 = n
      /\ \A i \in 1..n : i0 + i - 1 = m + i
      /\ i0 <= j0 <=> 0 < n
  OBVIOUS
<1> HIDE DEF p, i0, j0
<1>4. Len(p) = n
  BY <1>2, <1>3
<1>5. \A i \in 1..n : p[i] = q[m + i]
  BY <1>2, <1>3, Zenon
<1> QED
  BY <1>2, <1>4, <1>5, Zenon DEF p, i0, j0

(* A prefix, element by element.                                           *)
LEMMA IsPrefixAt ==
  ASSUME NEW S, NEW s \in Seq(S), NEW t \in Seq(S)
  PROVE  IsPrefix(s, t) <=> Len(s) <= Len(t) /\ \A i \in 1..Len(s) : s[i] = t[i]
<1>1. Len(s) \in Nat /\ Len(t) \in Nat
  OBVIOUS
<1> DEFINE n == Len(s)
           u == SubSeq(s, 1, n)
           v == SubSeq(t, 1, n)
<1>2. ASSUME n <= Len(t)
      PROVE  u = v <=> \A i \in 1..n : s[i] = t[i]
  <2>1. n \in 0..Len(s) /\ n \in 0..Len(t)
    BY <1>1, <1>2
  <2>2. u \in Seq(S) /\ Len(u) = n /\ \A i \in 1..n : u[i] = s[i]
    BY <2>1, PrefixProperties
  <2>3. v \in Seq(S) /\ Len(v) = n /\ \A i \in 1..n : v[i] = t[i]
    BY <2>1, PrefixProperties
  <2>4. u = [i \in 1..n |-> u[i]] /\ v = [i \in 1..n |-> v[i]]
    BY <2>2, <2>3
  <2> HIDE DEF u, v, n
  <2>5. (\A i \in 1..n : u[i] = v[i]) => u = v
    BY <2>4, Zenon
  <2> QED
    BY <2>2, <2>3, <2>5
<1> QED
  BY <1>1, <1>2 DEF IsPrefix

(* A C string of bytes: those before the first zero.                       *)
LEMMA CutProperties ==
  ASSUME NEW b \in Seq(Bytes)
  PROVE  /\ Cut(b) \in Seq(Bytes) /\ Len(Cut(b)) \in 0..Len(b)
         /\ \A i \in 1..Len(Cut(b)) : Cut(b)[i] = b[i] /\ b[i] # 0
         /\ Len(Cut(b)) < Len(b) => b[Len(Cut(b)) + 1] = 0
         /\ Len(Cut(b)) = Len(b) => Cut(b) = b
<1> DEFINE I == {i \in 1..Len(b) : b[i] = 0}
           z == SelectInSeq(b, LAMBDA x : x = 0)
<1>1. Len(b) \in Nat /\ I \in SUBSET Nat /\ DOMAIN b = 1..Len(b)
  OBVIOUS
<1>2. CASE I = {}
  <2>1. Cut(b) = b
    BY <1>1, <1>2 DEF Cut
  <2> QED
    BY <1>1, <1>2, <2>1
<1>3. CASE I # {}
  <2>1. z = Min(I)
    BY <1>3 DEF SelectInSeq
  <2>2. z \in I /\ \A i \in I : z <= i
    BY <1>1, <1>3, <2>1, MinExists
  <2> HIDE DEF z
  <2>3. z \in 1..Len(b) /\ b[z] = 0 /\ z - 1 \in 0..Len(b) /\ z \in Nat
    BY <1>1, <2>2
  <2>4. \A i \in 1..z - 1 : b[i] # 0
    BY <1>1, <2>2, <2>3
  <2>5. Cut(b) = SubSeq(b, 1, z - 1)
    BY <1>1, <2>3 DEF Cut, z
  <2>6. /\ Cut(b) \in Seq(Bytes) /\ Len(Cut(b)) = z - 1
        /\ \A i \in 1..z - 1 : Cut(b)[i] = b[i]
    BY <2>3, <2>5, PrefixProperties
  <2> HIDE DEF I
  <2> QED
    BY <1>1, <2>3, <2>4, <2>6
<1> QED
  BY <1>2, <1>3

(* What one recv() adds to the text.                                       *)
LEMMA AppendedProperties ==
  ASSUME NEW q \in Seq(Bytes), NEW x \in Appended(q)
  PROVE  /\ x \in Seq(Bytes) /\ Len(Cut(q)) \in 0..Len(q) /\ Len(x) >= Len(Cut(q))
         /\ \A i \in 1..Len(Cut(q)) : x[i] = q[i] /\ q[i] # 0
         /\ Len(Cut(q)) < Len(q) => q[Len(Cut(q)) + 1] = 0
         /\ Len(q) < BufferSize \/ Len(Cut(q)) < Len(q) => Len(x) = Len(Cut(q))
<1>1. /\ Cut(q) \in Seq(Bytes) /\ Len(Cut(q)) \in 0..Len(q)
      /\ \A i \in 1..Len(Cut(q)) : Cut(q)[i] = q[i] /\ q[i] # 0
      /\ Len(Cut(q)) < Len(q) => q[Len(Cut(q)) + 1] = 0
  BY CutProperties
<1>2. Len(q) \in Nat /\ BufferSize \in Nat
  BY BoundsAssumption
<1>3. CASE Len(q) = BufferSize /\ Cut(q) = q
  <2>1. PICK y \in Beyond : x = q \o y
    BY <1>3 DEF Appended
  <2>2. y \in Seq(Bytes)
    BY MessagesAssumption
  <2>3. /\ x \in Seq(Bytes) /\ Len(x) = Len(q) + Len(y) /\ Len(y) \in Nat
        /\ \A i \in 1..Len(q) : x[i] = q[i]
    BY <2>1, <2>2, ConcatProperties
  <2> QED
    BY <1>1, <1>2, <1>3, <2>3
<1>4. CASE ~ (Len(q) = BufferSize /\ Cut(q) = q)
  <2>1. x = Cut(q)
    BY <1>4, Zenon DEF Appended
  <2> QED
    BY <1>1, <1>2, <2>1
<1> QED
  BY <1>3, <1>4

(* How many bytes one recv() takes of those that are there.                *)
LEMMA AmountProperties ==
  ASSUME NEW b \in Seq(Bytes), NEW m \in Amounts(b)
  PROVE  m \in 0..Len(b) /\ m <= BufferSize /\ (b # <<>> => m > 0)
<1>1. PICK k \in Cuts \cup {BufferSize} : m = IF k < Len(b) THEN k ELSE Len(b)
  BY DEF Amounts
<1>2. k \in Nat /\ 0 < k /\ k <= BufferSize /\ BufferSize \in Nat /\ Len(b) \in Nat
  BY BoundsAssumption
<1>3. b # <<>> => Len(b) > 0
  BY <1>2, EmptySeq
<1>4. CASE k < Len(b)
  BY <1>1, <1>2, <1>4
<1>5. CASE ~ (k < Len(b))
  BY <1>1, <1>2, <1>3, <1>5
<1> QED
  BY <1>4, <1>5

(* The two parts of a read, and its text.                                  *)
Parts(b, r, m, n, x, y) ==
  /\ m \in 1..Len(b) /\ n \in 0..Len(b) /\ m + n <= Len(b)
  /\ m <= BufferSize /\ n <= BufferSize
  /\ x \in Appended(SubSeq(b, 1, m)) /\ y \in Appended(SubSeq(b, m + 1, m + n))
  /\ r = [recvs |-> IF n = 0 THEN 1 ELSE 2, taken |-> m + n, text |-> x \o y]

(* Every read has such parts.                                              *)
LEMMA ReadParts ==
  ASSUME NEW b \in Seq(Bytes), b # <<>>, NEW r \in Reads(b)
  PROVE  \E m, n, x, y : Parts(b, r, m, n, x, y)
<1> DEFINE Two(m, n) == {[recvs |-> IF n = 0 THEN 1 ELSE 2, taken |-> m + n, text |-> x \o y] :
                           x \in Appended(SubSeq(b, 1, m)), y \in Appended(SubSeq(b, m + 1, m + n))}
           All(m) == UNION {Two(m, n) : n \in {0} \cup Amounts(Substr(b, m))}
<1>1. Reads(b) = UNION {All(m) : m \in Amounts(b)}
  BY DEF Reads
<1> HIDE DEF All
<1>2. PICK m \in Amounts(b) : r \in All(m)
  BY <1>1, Zenon
<1> HIDE DEF Two
<1>3. PICK n \in {0} \cup Amounts(Substr(b, m)) : r \in Two(m, n)
  BY <1>2, Zenon DEF All
<1>4. PICK x \in Appended(SubSeq(b, 1, m)), y \in Appended(SubSeq(b, m + 1, m + n)) :
        r = [recvs |-> IF n = 0 THEN 1 ELSE 2, taken |-> m + n, text |-> x \o y]
  BY <1>3, SMT DEF Two
<1>5. m \in 1..Len(b) /\ m <= BufferSize /\ Len(b) \in Nat
  BY AmountProperties
<1>6. Substr(b, m) \in Seq(Bytes) /\ Len(Substr(b, m)) = Len(b) - m
  <2> DEFINE d == Len(b) - m
  <2>1. m \in Nat /\ d \in Nat /\ m + d = Len(b) /\ m + d <= Len(b)
    BY <1>5
  <2>2. Substr(b, m) = SubSeq(b, m + 1, m + d)
    BY <2>1 DEF Substr
  <2> HIDE DEF d
  <2>3. Substr(b, m) \in Seq(Bytes) /\ Len(Substr(b, m)) = d
    BY <2>1, <2>2, PartProperties
  <2> QED
    BY <2>3 DEF d
<1>7. n \in 0..Len(b) /\ m + n <= Len(b) /\ n <= BufferSize
  <2>1. CASE n = 0
    BY <1>5, <2>1, BoundsAssumption
  <2>2. CASE n \in Amounts(Substr(b, m))
    <3>1. n \in 0..Len(Substr(b, m)) /\ n <= BufferSize
      BY <1>6, <2>2, AmountProperties
    <3> QED
      BY <1>5, <1>6, <3>1
  <2> QED
    BY <2>1, <2>2
<1>8. Parts(b, r, m, n, x, y)
  BY <1>4, <1>5, <1>7, Zenon DEF Parts
<1> QED
  BY <1>8

(* What a read takes, and its type.                                        *)
LEMMA ReadType ==
  ASSUME NEW b \in Seq(Bytes), b # <<>>, NEW r \in Reads(b)
  PROVE  r.taken \in 1..Len(b) /\ r.recvs \in {1, 2} /\ r.text \in Seq(Bytes)
<1>1. PICK m, n, x, y : Parts(b, r, m, n, x, y)
  BY ReadParts
<1>2. m \in Nat /\ n \in Nat /\ m + n <= Len(b) /\ m >= 1 /\ Len(b) \in Nat
  BY <1>1 DEF Parts
<1>3. SubSeq(b, 1, m) \in Seq(Bytes) /\ SubSeq(b, m + 1, m + n) \in Seq(Bytes)
  <2>1. m \in 0..Len(b)
    BY <1>2
  <2> QED
    BY <1>2, <2>1, PrefixProperties, PartProperties
<1>4. x \in Seq(Bytes) /\ y \in Seq(Bytes)
  BY <1>1, <1>3, AppendedProperties DEF Parts
<1>5. x \o y \in Seq(Bytes)
  BY <1>4, ConcatProperties
<1>6. r.taken = m + n /\ r.recvs \in {1, 2} /\ r.text = x \o y
  BY <1>1 DEF Parts
<1> QED
  BY <1>2, <1>5, <1>6

(* The text of a read that does not fill the buffer: as far as there is no *)
(* zero it is what was read, and there is none in it.                      *)
LEMMA ReadText ==
  ASSUME NEW b \in Seq(Bytes), b # <<>>, NEW r \in Reads(b), r.taken < BufferSize
  PROVE  \E z \in 0..r.taken :
           /\ z <= Len(r.text) /\ Len(r.text) <= r.taken
           /\ \A i \in 1..z : r.text[i] = b[i] /\ b[i] # 0
           /\ \A i \in 1..Len(r.text) : r.text[i] # 0
           /\ z < r.taken => b[z + 1] = 0
           /\ r.recvs = 1 => Len(r.text) = z
<1>1. PICK m, n, x, y : Parts(b, r, m, n, x, y)
  BY ReadParts
<1> DEFINE p == SubSeq(b, 1, m)
           q == SubSeq(b, m + 1, m + n)
           u == Len(Cut(p))
           v == Len(Cut(q))
           t == x \o y
<1>2. m \in Nat /\ n \in Nat /\ m + n <= Len(b) /\ m >= 1 /\ Len(b) \in Nat /\ BufferSize \in Nat
  BY <1>1, BoundsAssumption DEF Parts
<1>3. r.taken = m + n /\ r.text = t /\ (r.recvs = 1 <=> n = 0)
  BY <1>1 DEF Parts
<1>4. /\ p \in Seq(Bytes) /\ Len(p) = m /\ \A i \in 1..m : p[i] = b[i]
      /\ q \in Seq(Bytes) /\ Len(q) = n /\ \A i \in 1..n : q[i] = b[m + i]
  <2>1. m \in 0..Len(b)
    BY <1>2
  <2>2. p \in Seq(Bytes) /\ Len(p) = m /\ \A i \in 1..m : p[i] = b[i]
    BY <2>1, PrefixProperties
  <2>3. q \in Seq(Bytes) /\ Len(q) = n /\ \A i \in 1..n : q[i] = b[m + i]
    BY <1>2, PartProperties
  <2> QED
    BY <2>2, <2>3
<1>5. m < BufferSize /\ n < BufferSize
  BY <1>2, <1>3
<1>6. /\ x \in Seq(Bytes) /\ u \in 0..m /\ Len(x) = u
      /\ \A i \in 1..u : x[i] = p[i] /\ p[i] # 0
      /\ u < m => p[u + 1] = 0
  <2>1. x \in Appended(p)
    BY <1>1 DEF Parts
  <2> HIDE DEF p
  <2> QED
    BY <1>4, <1>5, <2>1, AppendedProperties
<1>7. /\ y \in Seq(Bytes) /\ v \in 0..n /\ Len(y) = v
      /\ \A i \in 1..v : y[i] = q[i] /\ q[i] # 0
      /\ v < n => q[v + 1] = 0
  <2>1. y \in Appended(q)
    BY <1>1 DEF Parts
  <2> HIDE DEF q
  <2> QED
    BY <1>4, <1>5, <2>1, AppendedProperties
<1> HIDE DEF p, q
<1>8. /\ Len(t) = u + v
      /\ \A i \in 1..u + v : t[i] = IF i <= u THEN x[i] ELSE y[i - u]
  <2>1. /\ Len(t) = Len(x) + Len(y)
        /\ \A i \in 1..Len(x) + Len(y) : t[i] = IF i <= Len(x) THEN x[i] ELSE y[i - Len(x)]
    BY <1>6, <1>7, ConcatProperties, ZenonT(40)
  <2>2. Len(x) = u /\ Len(y) = v
    BY <1>6, <1>7
  <2> HIDE DEF u, v, t
  <2> QED
    BY <2>1, <2>2, Zenon
<1> HIDE DEF p, q, u, v, t
<1>9. \A i \in 1..u : t[i] = b[i] /\ t[i] # 0
  BY <1>2, <1>4, <1>6, <1>7, <1>8
<1>10. ASSUME NEW i \in 1..v
       PROVE  t[u + i] = b[m + i] /\ t[u + i] # 0
  <2> DEFINE j == u + i
  <2>1. j \in 1..u + v /\ ~ (j <= u) /\ j - u = i /\ i \in 1..n
    BY <1>2, <1>6, <1>7
  <2> HIDE DEF j
  <2>2. t[j] = IF j <= u THEN x[j] ELSE y[j - u]
    BY <1>8, <2>1
  <2>3. t[j] = y[i]
    BY <2>1, <2>2
  <2> QED
    BY <1>4, <1>7, <2>1, <2>3 DEF j
<1>11. ASSUME NEW i \in 1..u + v PROVE t[i] # 0
  <2>1. CASE i <= u
    BY <1>6, <1>7, <1>9, <2>1
  <2>2. CASE ~ (i <= u)
    <3>1. i - u \in 1..v /\ u + (i - u) = i
      BY <1>6, <1>7, <2>2
    <3> QED
      BY <1>10, <3>1
  <2> QED
    BY <2>1, <2>2
<1>12. n = 0 => v = 0
  BY <1>7
<1>13. CASE u < m
  <2>1. b[u + 1] = 0
    <3>1. u + 1 \in 1..m
      BY <1>2, <1>6, <1>13
    <3> QED
      BY <1>4, <1>6, <1>13, <3>1
  <2>2. u \in 0..m + n /\ u <= u + v /\ u + v <= m + n
    BY <1>2, <1>6, <1>7
  <2>5. u \in 0..r.taken
    BY <1>3, <2>2
  <2> WITNESS u \in 0..r.taken
  <2>3. \A i \in 1..Len(t) : t[i] # 0
    BY <1>8, <1>11
  <2>4. r.recvs = 1 => Len(t) = u
    BY <1>2, <1>3, <1>6, <1>8, <1>12
  <2> QED
    BY <1>3, <1>8, <1>9, <2>1, <2>2, <2>3, <2>4
<1>14. CASE u = m
  <2> DEFINE z == m + v
  <2>1. z \in 0..m + n /\ z = u + v
    BY <1>2, <1>6, <1>7, <1>14
  <2>2. ASSUME NEW i \in 1..z PROVE t[i] = b[i] /\ b[i] # 0
    <3>1. CASE i <= u
      <4>1. i \in 1..u
        BY <1>2, <1>6, <1>7, <3>1
      <4> QED
        BY <1>9, <4>1
    <3>2. CASE ~ (i <= u)
      <4>1. i - u \in 1..v /\ u + (i - u) = i
        BY <1>6, <1>7, <1>14, <3>2
      <4> QED
        BY <1>10, <1>14, <4>1
    <3> QED
      BY <3>1, <3>2
  <2>3. z < m + n => b[z + 1] = 0
    <3> SUFFICES ASSUME z < m + n PROVE b[z + 1] = 0
      OBVIOUS
    <3>1. v < n /\ v + 1 \in 1..n /\ m + (v + 1) = z + 1
      BY <1>2, <1>7
    <3>2. q[v + 1] = b[m + (v + 1)]
      BY <1>4, <3>1
    <3> QED
      BY <1>7, <3>1, <3>2
  <2> HIDE DEF z
  <2>4. \A i \in 1..Len(t) : t[i] # 0
    BY <1>8, <1>11
  <2>5. r.recvs = 1 => Len(t) = z
    BY <1>8, <2>1
  <2>6. z \in 0..r.taken
    BY <1>3, <2>1
  <2>7. z <= Len(t) /\ Len(t) <= m + n
    BY <1>2, <1>8, <2>1
  <2> QED
    BY <1>3, <2>2, <2>3, <2>4, <2>5, <2>6, <2>7
<1> QED
  BY <1>2, <1>6, <1>13, <1>14

(* How the text of a read begins.                                          *)
LEMMA ReadStart ==
  ASSUME NEW b \in Seq(Bytes), Len(b) > 1, NEW r \in Reads(b),
         r.recvs = 1 \/ (b[1] # 0 /\ b[2] # 0)
  PROVE  /\ ByteAt(r.text, 1) = b[1]
         /\ b[1] # 0 => ByteAt(r.text, 2) = IF r.taken = 1 THEN 0 ELSE b[2]
<1>0. b # <<>>
  OBVIOUS
<1>1. PICK m, n, x, y : Parts(b, r, m, n, x, y)
  BY <1>0, ReadParts
<1> DEFINE p == SubSeq(b, 1, m)
           q == SubSeq(b, m + 1, m + n)
           u == Len(Cut(p))
           v == Len(Cut(q))
           t == x \o y
<1>2. m \in Nat /\ n \in Nat /\ m + n <= Len(b) /\ m >= 1 /\ Len(b) \in Nat
      /\ BufferSize \in Nat /\ BufferSize > 1
  BY <1>1, BoundsAssumption DEF Parts
<1>3. r.taken = m + n /\ r.text = t /\ (r.recvs = 1 <=> n = 0)
  BY <1>1 DEF Parts
<1>4. /\ p \in Seq(Bytes) /\ Len(p) = m /\ \A i \in 1..m : p[i] = b[i]
      /\ q \in Seq(Bytes) /\ Len(q) = n /\ \A i \in 1..n : q[i] = b[m + i]
  <2>1. m \in 0..Len(b)
    BY <1>2
  <2>2. p \in Seq(Bytes) /\ Len(p) = m /\ \A i \in 1..m : p[i] = b[i]
    BY <2>1, PrefixProperties
  <2>3. q \in Seq(Bytes) /\ Len(q) = n /\ \A i \in 1..n : q[i] = b[m + i]
    BY <1>2, PartProperties
  <2> QED
    BY <2>2, <2>3
<1>5. x \in Appended(p) /\ y \in Appended(q)
  BY <1>1 DEF Parts
<1> HIDE DEF p, q
<1>6. /\ x \in Seq(Bytes) /\ u \in 0..m /\ Len(x) >= u /\ Len(x) \in Nat
      /\ \A i \in 1..u : x[i] = p[i] /\ p[i] # 0
      /\ u < m => p[u + 1] = 0
      /\ m < BufferSize \/ u < m => Len(x) = u
  BY <1>4, <1>5, AppendedProperties
<1>7. /\ y \in Seq(Bytes) /\ v \in 0..n /\ Len(y) >= v /\ Len(y) \in Nat
      /\ \A i \in 1..v : y[i] = q[i] /\ q[i] # 0
      /\ v < n => q[v + 1] = 0
      /\ n < BufferSize \/ v < n => Len(y) = v
  BY <1>4, <1>5, AppendedProperties
<1>8. /\ Len(t) = Len(x) + Len(y)
      /\ \A i \in 1..Len(x) + Len(y) : t[i] = IF i <= Len(x) THEN x[i] ELSE y[i - Len(x)]
  BY <1>6, <1>7, ConcatProperties
<1> HIDE DEF u, v, t
<1>9. ASSUME NEW i \in 1..u PROVE t[i] = b[i] /\ i <= Len(t)
  <2>1. i \in 1..Len(x) + Len(y) /\ i <= Len(x) /\ i \in 1..m
    BY <1>2, <1>6, <1>7
  <2>2. t[i] = IF i <= Len(x) THEN x[i] ELSE y[i - Len(x)]
    BY <1>8, <2>1, Zenon
  <2> QED
    BY <1>4, <1>6, <1>8, <2>1, <2>2
<1>10. p[1] = b[1] /\ (m > 1 => p[2] = b[2])
  BY <1>2, <1>4
<1>11. CASE u = 0
  <2>1. b[1] = 0
    BY <1>2, <1>6, <1>10, <1>11
  <2>2. n = 0 /\ Len(x) = 0
    BY <1>2, <1>3, <1>6, <1>11, <2>1
  <2>3. Len(t) = 0
    BY <1>2, <1>7, <1>8, <2>2
  <2> QED
    BY <1>3, <2>1, <2>3 DEF ByteAt
<1>12. CASE u > 1
  <2>1. 1 \in 1..u /\ 2 \in 1..u /\ m > 1
    BY <1>2, <1>6, <1>12
  <2>2. ByteAt(t, 1) = b[1] /\ ByteAt(t, 2) = b[2]
    BY <1>9, <2>1 DEF ByteAt
  <2>3. r.taken # 1
    BY <1>2, <1>3, <2>1
  <2> QED
    BY <1>3, <2>2, <2>3
<1>13. CASE u = 1
  <2>1. ByteAt(t, 1) = b[1] /\ 1 <= Len(t)
    BY <1>9, <1>13 DEF ByteAt
  <2>2. m = 1 \/ b[2] = 0
    BY <1>2, <1>6, <1>10, <1>13
  <2>3. Len(x) = 1
    BY <1>2, <1>6, <1>13
  <2>4. CASE n = 0
    <3>1. Len(t) = 1
      BY <1>2, <1>7, <1>8, <2>3, <2>4
    <3>2. ByteAt(t, 2) = 0
      BY <3>1 DEF ByteAt
    <3> QED
      BY <1>2, <1>3, <2>1, <2>2, <2>4, <3>2
  <2>5. CASE n # 0
    <3>1. m = 1 /\ b[2] # 0 /\ 1 \in 1..n
      BY <1>2, <1>3, <2>2, <2>5
    <3>2. q[1] = b[2]
      BY <1>4, <3>1
    <3>3. v >= 1
      BY <1>7, <2>5, <3>1, <3>2, <1>2
    <3>4. y[1] = b[2]
      BY <1>7, <3>2, <3>3
    <3>5. 2 \in 1..Len(x) + Len(y) /\ ~ (2 <= Len(x)) /\ 2 - Len(x) = 1 /\ 2 <= Len(t)
      BY <1>7, <1>8, <2>3, <3>3
    <3>6. t[2] = b[2]
      BY <1>8, <3>4, <3>5
    <3>7. ByteAt(t, 2) = b[2]
      BY <3>5, <3>6 DEF ByteAt
    <3> QED
      BY <1>2, <1>3, <2>1, <2>5, <3>7
  <2> QED
    BY <2>4, <2>5
<1> QED
  BY <1>6, <1>11, <1>12, <1>13

(* The second byte of a frame of n bytes of payload, and its length in two *)
(* bytes.                                                                  *)
LEMMA SizeBytes ==
  ASSUME NEW n \in Nat, n < 65536
  PROVE  /\ n \div 256 \in Bytes /\ n % 256 \in Bytes
         /\ (IF n < 126 THEN n ELSE 126) \in 0..126
         /\ (IF n < 126 THEN n ELSE 126) = 0 => n = 0
<1>1. n \div 256 \in 0..255 /\ n % 256 \in 0..255
  BY SMT
<1>2. (IF n < 126 THEN n ELSE 126) \in 0..126
  BY SMT
<1>3. (IF n < 126 THEN n ELSE 126) = 0 => n = 0
  BY SMT
<1> QED
  BY <1>1, <1>2, <1>3, SMT DEF Bytes

(* What a client may send, as FramesAssumption says.                       *)
IsFrame(f) ==
  /\ f.fin \in BOOLEAN /\ f.masked \in BOOLEAN /\ f.opcode \in 0..15
  /\ f.key \in Seq(Bytes) /\ Len(f.key) = 4
  /\ f.payload \in Seq(Bytes) /\ Len(f.payload) < 65536

(* The bytes of a frame: two of header, two of an extended length, the key *)
(* and under it the payload.                                               *)
LEMMA FrameLayout ==
  ASSUME NEW f, IsFrame(f)
  PROVE  LET b == FrameBytes(f)
             size == Len(f.payload)
             h == FrameKey(b)
         IN /\ b \in Seq(Bytes) /\ Len(b) > 1
            /\ b[1] >= 128 <=> f.fin
            /\ b[2] >= 128 <=> f.masked
            /\ f.masked => /\ h \in {2, 4} /\ Len(b) = h + 4 + size
                           /\ size # 0 => b[2] # 128
                           /\ \A j \in 1..4 : b[h + j] = f.key[j]
                           /\ \A i \in 1..size :
                                b[h + 4 + i] = Xor(f.payload[i], f.key[((i - 1) % 4) + 1])
<1> DEFINE size == Len(f.payload)
           x1 == (IF f.fin THEN 128 ELSE 0) + f.opcode
           x2 == (IF f.masked THEN 128 ELSE 0) + (IF size < 126 THEN size ELSE 126)
           H == <<x1, x2>>
           E == IF size < 126 THEN <<>> ELSE <<size \div 256, size % 256>>
           M == [i \in 1..size |-> Xor(f.payload[i], f.key[((i - 1) % 4) + 1])]
           P == IF f.masked THEN f.key \o M ELSE f.payload
           b == FrameBytes(f)
<1>1. b = H \o E \o P
  BY DEF FrameBytes
<1>2. size \in Nat /\ size < 65536
  BY DEF IsFrame
<1> HIDE DEF size
<1>3. x1 \in Bytes /\ x2 \in Bytes /\ (x1 >= 128 <=> f.fin) /\ (x2 >= 128 <=> f.masked)
      /\ (f.masked /\ size # 0 => x2 # 128)
      /\ (f.masked => x2 % 128 = IF size < 126 THEN size ELSE 126)
  <2> DEFINE s == IF size < 126 THEN size ELSE 126
  <2>1. s \in 0..126 /\ (size # 0 => s # 0)
    BY <1>2, SizeBytes
  <2>2. f.fin \in BOOLEAN /\ f.masked \in BOOLEAN /\ f.opcode \in 0..15
    BY DEF IsFrame
  <2> HIDE DEF s
  <2>3. x1 \in 0..255 /\ (x1 >= 128 <=> f.fin)
    BY <2>2
  <2>4. (IF f.masked THEN 128 ELSE 0) + s \in 0..255
        /\ ((IF f.masked THEN 128 ELSE 0) + s >= 128 <=> f.masked)
    BY <2>1, <2>2
  <2>5. f.masked => /\ size # 0 => (IF f.masked THEN 128 ELSE 0) + s # 128
                    /\ ((IF f.masked THEN 128 ELSE 0) + s) % 128 = s
    BY <2>1
  <2> QED
    BY <2>3, <2>4, <2>5 DEF s, Bytes
<1>4. E \in Seq(Bytes) /\ Len(E) = IF size < 126 THEN 0 ELSE 2
  <2>1. CASE size < 126
    <3>1. E = <<>>
      BY <2>1
    <3> HIDE DEF E
    <3> QED
      BY <2>1, <3>1
  <2>2. CASE ~ (size < 126)
    <3>1. size \div 256 \in Bytes /\ size % 256 \in Bytes
      BY <1>2, SizeBytes
    <3> QED
      BY <2>2, <3>1
  <2> QED
    BY <2>1, <2>2
<1>5. M \in Seq(Bytes) /\ Len(M) = size
  <2>1. ASSUME NEW i \in 1..size
        PROVE  Xor(f.payload[i], f.key[((i - 1) % 4) + 1]) \in Bytes
    <3>1. ((i - 1) % 4) + 1 \in 1..4
      OBVIOUS
    <3>2. f.payload[i] \in Bytes
      BY DEF IsFrame, size
    <3>3. f.key[((i - 1) % 4) + 1] \in Bytes
      BY <3>1 DEF IsFrame
    <3> QED
      BY <3>2, <3>3, XorProperties
  <2>2. M \in [1..size -> Bytes]
    BY <2>1
  <2> HIDE DEF size, M
  <2> QED
    BY <1>2, <2>2
<1>6. M = [i \in 1..size |-> Xor(f.payload[i], f.key[((i - 1) % 4) + 1])]
  OBVIOUS
<1>7. f.key \in Seq(Bytes) /\ Len(f.key) = 4 /\ f.payload \in Seq(Bytes) /\ f.masked \in BOOLEAN
  BY DEF IsFrame
<1> HIDE DEF M
<1>8. /\ f.key \o M \in Seq(Bytes) /\ Len(f.key \o M) = 4 + size
      /\ \A i \in 1..4 + size : (f.key \o M)[i] = IF i <= 4 THEN f.key[i] ELSE M[i - 4]
  <2>1. /\ f.key \o M \in Seq(Bytes) /\ Len(f.key \o M) = Len(f.key) + Len(M)
        /\ \A i \in 1..Len(f.key) + Len(M) :
             (f.key \o M)[i] = IF i <= Len(f.key) THEN f.key[i] ELSE M[i - Len(f.key)]
    BY <1>5, <1>7, ConcatProperties
  <2> HIDE DEF size
  <2> QED
    BY <1>5, <1>7, <2>1, Zenon
<1>9. P \in Seq(Bytes) /\ Len(P) \in Nat
  BY <1>7, <1>8
<1>10. H \in Seq(Bytes) /\ Len(H) = 2 /\ H[1] = x1 /\ H[2] = x2
  <2> HIDE DEF x1, x2
  <2> QED
    BY <1>3
<1> DEFINE h == 2 + Len(E)
           G == H \o E
<1>11. h \in {2, 4} /\ h \in Nat /\ h >= 2
  BY <1>2, <1>4
<1> HIDE DEF H, E, P
<1>12. G \in Seq(Bytes) /\ Len(G) = h /\ G[1] = x1 /\ G[2] = x2
  <2>1. /\ G \in Seq(Bytes) /\ Len(G) = Len(H) + Len(E)
        /\ \A i \in 1..Len(H) + Len(E) : G[i] = IF i <= Len(H) THEN H[i] ELSE E[i - Len(H)]
    BY <1>4, <1>10, ConcatProperties, ZenonT(40)
  <2>2. 1 \in 1..Len(H) + Len(E) /\ 2 \in 1..Len(H) + Len(E) /\ Len(E) \in Nat
    BY <1>4, <1>10
  <2> HIDE DEF x1, x2, G
  <2> QED
    BY <1>10, <2>1, <2>2
<1> HIDE DEF h, G
<1>13. /\ b \in Seq(Bytes) /\ Len(b) = h + Len(P)
       /\ \A i \in 1..h + Len(P) : b[i] = IF i <= h THEN G[i] ELSE P[i - h]
  BY <1>1, <1>9, <1>12, ConcatProperties DEF G
<1>14. b[1] = x1 /\ b[2] = x2 /\ Len(b) > 1
  <2>1. 1 \in 1..h + Len(P) /\ 2 \in 1..h + Len(P) /\ 1 <= h /\ 2 <= h
    BY <1>9, <1>11
  <2> HIDE DEF x1, x2, b
  <2> QED
    BY <1>9, <1>11, <1>12, <1>13, <2>1
<1> HIDE DEF b, x1, x2
<1>15. ASSUME f.masked
       PROVE  /\ FrameKey(b) = h /\ Len(b) = h + 4 + size
              /\ \A j \in 1..4 : b[h + j] = f.key[j]
              /\ \A i \in 1..size : b[h + 4 + i] = Xor(f.payload[i], f.key[((i - 1) % 4) + 1])
  <2>1. P = f.key \o M /\ Len(P) = 4 + size
    BY <1>8, <1>15 DEF P
  <2>2. FrameKey(b) = h
    <3>1. ByteAt(b, 2) = x2
      BY <1>11, <1>13, <1>14, <1>9 DEF ByteAt
    <3>2. x2 % 128 = IF size < 126 THEN size ELSE 126
      BY <1>3, <1>15
    <3>3. h = IF size < 126 THEN 2 ELSE 4
      BY <1>2, <1>4 DEF h
    <3> HIDE DEF size
    <3> QED
      BY <1>2, <3>1, <3>2, <3>3 DEF FrameKey
  <2> HIDE DEF size
  <2>3. ASSUME NEW i \in 1..4 + size PROVE b[h + i] = (f.key \o M)[i]
    <3> DEFINE j == h + i
    <3>1. j \in 1..h + Len(P) /\ ~ (j <= h) /\ j - h = i
      BY <1>2, <1>11, <2>1
    <3> HIDE DEF j
    <3>2. b[j] = P[i]
      BY <1>13, <3>1
    <3> QED
      BY <2>1, <3>2 DEF j
  <2>4. ASSUME NEW j \in 1..4 PROVE b[h + j] = f.key[j]
    <3>1. j \in 1..4 + size /\ j <= 4
      BY <1>2
    <3> QED
      BY <1>8, <2>3, <3>1
  <2>5. ASSUME NEW i \in 1..size PROVE b[h + 4 + i] = M[i]
    <3> DEFINE j == 4 + i
    <3>1. j \in 1..4 + size /\ ~ (j <= 4) /\ j - 4 = i /\ h + 4 + i = h + j
      BY <1>2, <1>11
    <3> HIDE DEF j
    <3>2. b[h + j] = M[i]
      BY <1>8, <2>3, <3>1
    <3> QED
      BY <3>1, <3>2
  <2>6. Len(b) = h + 4 + size
    BY <1>2, <1>11, <1>13, <2>1
  <2> QED
    BY <1>6, <2>2, <2>4, <2>5, <2>6
<1> QED
  <2>1. b \in Seq(Bytes) /\ Len(b) > 1 /\ (b[1] >= 128 <=> f.fin) /\ (b[2] >= 128 <=> f.masked)
    BY <1>3, <1>13, <1>14, Zenon
  <2>2. f.masked => /\ FrameKey(b) \in {2, 4} /\ Len(b) = FrameKey(b) + 4 + size
                    /\ size # 0 => b[2] # 128
                    /\ \A j \in 1..4 : b[FrameKey(b) + j] = f.key[j]
                    /\ \A i \in 1..size :
                         b[FrameKey(b) + 4 + i] = Xor(f.payload[i], f.key[((i - 1) % 4) + 1])
    BY <1>3, <1>11, <1>14, <1>15
  <2> QED
    BY <2>1, <2>2, Zenon DEF b, size

(* A frame has at least its two bytes of header.                           *)
LEMMA FrameLength ==
  ASSUME NEW f, IsFrame(f)
  PROVE  FrameBytes(f) \in Seq(Bytes) /\ Len(FrameBytes(f)) > 1
<1>1. FrameBytes(f) \in Seq(Bytes) /\ Len(FrameBytes(f)) > 1
  BY FrameLayout, Zenon
<1> QED
  BY <1>1

(* A read that begins with a frame closes the connection when the frame,   *)
(* as far as it was read, has no mask.                                     *)
LEMMA CloseRead ==
  ASSUME NEW f, IsFrame(f), NEW b \in Seq(Bytes), Len(FrameBytes(f)) <= Len(b),
         \A i \in 1..Len(FrameBytes(f)) : b[i] = FrameBytes(f)[i],
         NEW r \in Reads(b), r.recvs = 1 \/ (FrameBytes(f)[1] # 0 /\ FrameBytes(f)[2] # 0)
  PROVE  Outcome(r.text) = "close" <=> f.fin /\ (~f.masked \/ r.taken = 1)
<1> DEFINE F == FrameBytes(f)
           t == r.text
<1>1. F \in Seq(Bytes) /\ Len(F) > 1 /\ (F[1] >= 128 <=> f.fin) /\ (F[2] >= 128 <=> f.masked)
  BY FrameLayout, Zenon
<1>2. b[1] = F[1] /\ b[2] = F[2] /\ Len(b) > 1 /\ F[1] \in Bytes /\ F[2] \in Bytes
  BY <1>1
<1>3. /\ ByteAt(t, 1) = F[1]
      /\ F[1] # 0 => ByteAt(t, 2) = IF r.taken = 1 THEN 0 ELSE F[2]
  BY <1>2, ReadStart
<1>4. f.fin \in BOOLEAN /\ f.masked \in BOOLEAN
  BY DEF IsFrame
<1> DEFINE x1 == F[1]
           x2 == F[2]
           y2 == ByteAt(t, 2)
<1>5. x1 \in 0..255 /\ x2 \in 0..255 /\ (x1 >= 128 <=> f.fin) /\ (x2 >= 128 <=> f.masked)
      /\ (x1 # 0 => y2 = IF r.taken = 1 THEN 0 ELSE x2)
  BY <1>1, <1>2, <1>3 DEF Bytes
<1>6. Outcome(t) = IF x1 < 128 THEN "none" ELSE IF y2 < 128 THEN "close" ELSE IF y2 = 128 THEN "none"
                   ELSE IF Len(t) < FrameKey(t) + 4 THEN "outside" ELSE "text"
  BY <1>3, Zenon DEF Outcome
<1> HIDE DEF x1, x2, y2, t
<1>7. CASE x1 < 128
  BY <1>5, <1>6, <1>7 DEF t
<1>8. CASE x1 >= 128
  <2>1. f.fin /\ y2 = IF r.taken = 1 THEN 0 ELSE x2
    BY <1>5, <1>8
  <2>2. ~ (x1 < 128)
    BY <1>5, <1>8
  <2>3. y2 < 128 <=> (r.taken = 1 \/ ~f.masked)
    BY <1>4, <1>5, <2>1
  <2>4. Outcome(t) = "close" <=> y2 < 128
    BY <1>6, <2>2
  <2> QED
    BY <1>4, <2>1, <2>3, <2>4, Zenon DEF t
<1> QED
  BY <1>5, <1>7, <1>8 DEF t

(* A read that begins with a masked frame and has all of it, without       *)
(* filling the buffer: payload p is found in it when the frame has no      *)
(* zero, and when it has one behind the key it is not.                     *)
LEMMA WholeRead ==
  ASSUME NEW f, IsFrame(f), f.fin, f.masked, f.payload # <<>>,
         NEW b \in Seq(Bytes), Len(FrameBytes(f)) <= Len(b),
         \A i \in 1..Len(FrameBytes(f)) : b[i] = FrameBytes(f)[i],
         NEW r \in Reads(b), r.taken >= Len(FrameBytes(f)), r.taken < BufferSize,
         NEW p, p = IF Outcome(r.text) = "text" THEN Unmask(r.text) ELSE <<>>
  PROVE  LET F == FrameBytes(f)
         IN IF Cut(F) = F
            THEN /\ IsPrefix(f.payload, p)
                 /\ r.taken = Len(F) => p = f.payload
                 /\ p = f.payload => r.taken = Len(F) \/ b[Len(F) + 1] = 0
            ELSE (r.recvs = 1 \/ Len(Cut(F)) >= FrameKey(F) + 4) => ~IsPrefix(f.payload, p)
<1> DEFINE F == FrameBytes(f)
           t == r.text
           w == Len(F)
           h == FrameKey(F)
           size == Len(f.payload)
           k(i) == f.key[((i - 1) % 4) + 1]
<1>1. /\ F \in Seq(Bytes) /\ Len(F) > 1
      /\ F[1] >= 128 <=> f.fin
      /\ F[2] >= 128 <=> f.masked
      /\ f.masked => /\ h \in {2, 4} /\ Len(F) = h + 4 + size
                     /\ size # 0 => F[2] # 128
                     /\ \A j \in 1..4 : F[h + j] = f.key[j]
                     /\ \A i \in 1..size : F[h + 4 + i] = Xor(f.payload[i], k(i))
  <2> HIDE DEF F, h, size, k
  <2> QED
    BY FrameLayout, ZenonT(40) DEF F, h, size, k
<1>2. /\ \A j \in 1..4 : F[h + j] = f.key[j]
      /\ \A i \in 1..size : F[h + 4 + i] = Xor(f.payload[i], k(i))
  <2> HIDE DEF F, h, size, k
  <2> QED
    BY <1>1, Zenon
<1>3. /\ F \in Seq(Bytes) /\ w \in Nat /\ w > 1 /\ F[1] >= 128 /\ F[2] >= 128
      /\ F[1] \in Bytes /\ F[2] \in Bytes
      /\ (h = 2 \/ h = 4) /\ h \in Nat /\ w = h + 4 + size /\ (size # 0 => F[2] # 128)
  <2> HIDE DEF F, h, size, k
  <2> QED
    BY <1>1
<1>4. /\ f.payload \in Seq(Bytes) /\ size \in Nat /\ size # 0
      /\ f.key \in Seq(Bytes) /\ Len(f.key) = 4
  BY EmptySeq DEF IsFrame
<1>5. r.taken \in Nat /\ t \in Seq(Bytes) /\ Len(t) \in Nat /\ r.recvs \in {1, 2} /\ b # <<>>
  <2>1. b # <<>>
    BY <1>3
  <2> QED
    BY <2>1, ReadType
<1>6. PICK z \in 0..r.taken :
           /\ z <= Len(t) /\ Len(t) <= r.taken
           /\ \A i \in 1..z : t[i] = b[i] /\ b[i] # 0
           /\ \A i \in 1..Len(t) : t[i] # 0
           /\ z < r.taken => b[z + 1] = 0
           /\ r.recvs = 1 => Len(t) = z
  BY <1>5, ReadText
<1>7. z \in Nat /\ z <= Len(t) /\ Len(t) <= r.taken
  BY <1>5, <1>6
<1>8. \A i \in 1..w : b[i] = F[i]
  OBVIOUS
<1>9. Len(b) \in Nat /\ w <= Len(b) /\ r.taken >= w
  OBVIOUS
<1>10. p = IF Outcome(t) = "text" THEN Unmask(t) ELSE <<>>
  OBVIOUS
<1>11. \A i \in 1..size : f.payload[i] \in Bytes /\ k(i) \in Bytes
  <2> TAKE i \in 1..size
  <2>1. ((i - 1) % 4) + 1 \in 1..4
    OBVIOUS
  <2> QED
    BY <1>4, <2>1
<1> HIDE DEF F, t, w, h, size, k
<1>12. ASSUME NEW q \in Seq(Bytes)
       PROVE  IsPrefix(f.payload, q) <=> size <= Len(q) /\ \A i \in 1..size : f.payload[i] = q[i]
  <2> DEFINE e == f.payload
  <2>1. e \in Seq(Bytes)
    BY <1>4
  <2> HIDE DEF e
  <2>2. IsPrefix(e, q) <=> Len(e) <= Len(q) /\ \A i \in 1..Len(e) : e[i] = q[i]
    BY <2>1, IsPrefixAt
  <2> QED
    BY <2>2, Zenon DEF e, size
<1>13. ASSUME z >= 2
       PROVE  ByteAt(t, 1) = F[1] /\ ByteAt(t, 2) = F[2] /\ FrameKey(t) = h
  <2>1. t[1] = F[1] /\ t[2] = F[2] /\ 2 <= Len(t)
    <3>1. 1 \in 1..z /\ 2 \in 1..z /\ 1 \in 1..w /\ 2 \in 1..w /\ 2 <= Len(t)
      BY <1>3, <1>5, <1>7, <1>13
    <3> QED
      BY <1>6, <1>8, <3>1
  <2>2. ByteAt(t, 1) = F[1] /\ ByteAt(t, 2) = F[2]
    BY <1>5, <2>1 DEF ByteAt
  <2>3. ByteAt(F, 2) = F[2]
    BY <1>3 DEF ByteAt, w
  <2>4. FrameKey(t) = FrameKey(F)
    BY <2>2, <2>3, SMT DEF FrameKey
  <2> QED
    BY <2>2, <2>4 DEF h
<1>14. ASSUME z >= h + 4
       PROVE  /\ p = Unmask(t) /\ Len(p) = Len(t) - h - 4
              /\ p \in Seq(Bytes)
              /\ \A i \in 1..Len(t) - h - 4 : p[i] = Xor(t[h + 4 + i], k(i)) /\ k(i) \in Bytes
  <2>1. ByteAt(t, 1) = F[1] /\ ByteAt(t, 2) = F[2] /\ FrameKey(t) = h
    BY <1>3, <1>5, <1>7, <1>13, <1>14
  <2>2. Len(t) >= h + 4 /\ Len(t) - h - 4 \in Nat
    BY <1>3, <1>5, <1>7, <1>14
  <2>3. Outcome(t) = "text"
    <3>1. F[1] \in Bytes /\ F[1] >= 128 /\ F[2] \in Bytes /\ F[2] >= 128 /\ F[2] # 128
      BY <1>3, <1>4
    <3>2. ~ (F[1] < 128) /\ ~ (F[2] < 128)
      <4>1. \A x \in Bytes : x >= 128 => ~ (x < 128)
        BY DEF Bytes
      <4> QED
        BY <3>1, <4>1, Zenon
    <3>3. ~ (Len(t) < h + 4)
      BY <1>3, <1>5, <2>2
    <3>4. /\ ~ (ByteAt(t, 1) < 128) /\ ~ (ByteAt(t, 2) < 128) /\ ByteAt(t, 2) # 128
          /\ ~ (Len(t) < FrameKey(t) + 4)
      BY <2>1, <3>1, <3>2, <3>3
    <3> QED
      BY <3>4, Zenon DEF Outcome
  <2>4. p = [i \in 1..Len(t) - h - 4 |-> Xor(t[h + 4 + i], t[h + ((i - 1) % 4) + 1])]
    BY <1>10, <2>1, <2>3 DEF Unmask
  <2>5. ASSUME NEW i \in 1..Len(t) - h - 4
        PROVE  /\ t[h + ((i - 1) % 4) + 1] = k(i) /\ k(i) \in Bytes
               /\ t[h + 4 + i] \in Bytes
    <3> DEFINE j == ((i - 1) % 4) + 1
    <3>1. j \in 1..4
      BY <2>2
    <3>2. h + ((i - 1) % 4) + 1 = h + j /\ k(i) = f.key[j]
      BY <1>3, <2>2 DEF k
    <3> HIDE DEF j
    <3>3. h + j \in 1..z /\ h + j \in 1..w /\ h + 4 + i \in 1..Len(t)
      BY <1>3, <1>4, <1>5, <1>7, <1>14, <2>2, <3>1
    <3>4. t[h + j] = F[h + j] /\ F[h + j] = f.key[j] /\ f.key[j] \in Bytes /\ t[h + 4 + i] \in Bytes
      <4>1. t[h + j] = b[h + j] /\ b[h + j] = F[h + j]
        BY <1>6, <1>8, <3>3
      <4>2. F[h + j] = f.key[j]
        BY <1>2, <3>1
      <4>3. f.key[j] \in Bytes /\ t[h + 4 + i] \in Bytes
        BY <1>4, <1>5, <3>1, <3>3
      <4> QED
        BY <4>1, <4>2, <4>3
    <3> QED
      BY <3>2, <3>4
  <2>6. \A i \in 1..Len(t) - h - 4 : p[i] = Xor(t[h + 4 + i], k(i)) /\ k(i) \in Bytes
    BY <2>4, <2>5
  <2>7. \A i \in 1..Len(t) - h - 4 : p[i] \in Bytes
    BY <2>5, <2>6, XorProperties
  <2>8. p = [i \in 1..Len(t) - h - 4 |-> p[i]]
    BY <2>4
  <2>9. p \in Seq(Bytes) /\ Len(p) = Len(t) - h - 4
    <3> DEFINE l == Len(t) - h - 4
    <3>1. p \in [1..l -> Bytes]
      BY <2>7, <2>8
    <3>2. l \in Nat
      BY <2>2
    <3> HIDE DEF l
    <3>3. p \in Seq(Bytes) /\ Len(p) = l
      BY <3>1, <3>2
    <3> QED
      BY <3>3 DEF l
  <2>10. p = Unmask(t)
    BY <1>10, <2>3
  <2> QED
    BY <2>6, <2>9, <2>10
<1>15. CASE Cut(F) = F
  <2>1. \A i \in 1..w : F[i] # 0
    BY <1>3, <1>15, CutProperties DEF w
  <2>2. z >= w
    <3> SUFFICES ASSUME z < w PROVE FALSE
      BY <1>3, <1>5, <1>6
    <3>1. z + 1 \in 1..w /\ z < r.taken
      BY <1>3, <1>5, <1>6, <1>9
    <3>2. b[z + 1] = F[z + 1] /\ F[z + 1] # 0
      BY <1>8, <2>1, <3>1
    <3>3. b[z + 1] = 0
      BY <1>6, <3>1
    <3> QED
      BY <3>2, <3>3
  <2>3. z >= h + 4 /\ Len(t) >= w /\ Len(t) - h - 4 >= size
    BY <1>3, <1>4, <1>5, <1>7, <2>2
  <2>4. ASSUME NEW i \in 1..size PROVE p[i] = f.payload[i] /\ i \in 1..Len(t) - h - 4
    <3> DEFINE j == h + 4 + i
    <3>1. i \in 1..Len(t) - h - 4 /\ j \in 1..w /\ j \in 1..z
      BY <1>3, <1>4, <1>5, <1>7, <2>2, <2>3
    <3>2. t[j] = F[j]
      BY <1>6, <1>8, <3>1
    <3>3. F[j] = Xor(f.payload[i], k(i))
      BY <1>2
    <3>4. p[i] = Xor(t[j], k(i))
      BY <1>14, <2>3, <3>1
    <3> HIDE DEF j
    <3>5. p[i] = Xor(Xor(f.payload[i], k(i)), k(i))
      BY <3>2, <3>3, <3>4
    <3> QED
      BY <1>11, <3>1, <3>5, XorProperties
  <2>5. p \in Seq(Bytes) /\ Len(p) = Len(t) - h - 4
    BY <1>14, <2>3
  <2>6. IsPrefix(f.payload, p)
    BY <1>12, <2>3, <2>4, <2>5
  <2>7. ASSUME r.taken = w PROVE p = f.payload
    <3>1. Len(p) = size
      BY <1>3, <1>4, <1>5, <1>7, <1>9, <2>3, <2>5, <2>7
    <3> QED
      BY <1>4, <2>4, <2>5, <3>1, SeqEqual DEF size
  <2>8. ASSUME p = f.payload PROVE r.taken = w \/ b[w + 1] = 0
    <3>1. Len(t) - h - 4 = size
      BY <2>5, <2>8 DEF size
    <3>2. Len(t) = w
      BY <1>3, <1>4, <1>5, <3>1
    <3>3. z = w
      BY <1>3, <1>5, <1>7, <2>2, <3>2
    <3> QED
      BY <1>3, <1>5, <1>6, <1>9, <3>3
  <2> QED
    BY <1>15, <2>6, <2>7, <2>8 DEF F, w
<1>16. CASE Cut(F) # F
  <2> DEFINE zf == Len(Cut(F))
  <2>1. zf \in Nat /\ zf < w /\ F[zf + 1] = 0 /\ \A i \in 1..zf : F[i] # 0
    <3>1. /\ zf \in 0..Len(F) /\ \A i \in 1..zf : F[i] # 0
          /\ zf < Len(F) => F[zf + 1] = 0
          /\ zf # Len(F)
      BY <1>3, <1>16, CutProperties
    <3> QED
      BY <1>3, <3>1 DEF w
  <2> HIDE DEF zf
  <2>2. z = zf
    <3>1. ~ (z < zf)
      <4> SUFFICES ASSUME z < zf PROVE FALSE
        OBVIOUS
      <4>1. z < r.taken /\ z + 1 \in 1..zf /\ z + 1 \in 1..w
        BY <1>3, <1>5, <1>6, <1>9, <2>1
      <4> QED
        BY <1>6, <1>8, <2>1, <4>1
    <3>2. ~ (z > zf)
      <4> SUFFICES ASSUME z > zf PROVE FALSE
        OBVIOUS
      <4>1. zf + 1 \in 1..z /\ zf + 1 \in 1..w
        BY <1>3, <1>5, <1>6, <2>1
      <4>2. b[zf + 1] = F[zf + 1]
        BY <1>8, <4>1
      <4>3. b[zf + 1] # 0
        BY <1>6, <4>1
      <4> QED
        BY <2>1, <4>2, <4>3
    <3> QED
      BY <1>5, <1>6, <2>1, <3>1, <3>2
  <2>3. CASE zf >= h + 4
    <3> SUFFICES ASSUME IsPrefix(f.payload, p) PROVE FALSE
      BY <1>16 DEF F
    <3> DEFINE i == zf + 1 - (h + 4)
               j == h + 4 + i
    <3>1. j = zf + 1 /\ i \in 1..size
      BY <1>3, <1>4, <2>1, <2>3
    <3> HIDE DEF i, j
    <3>2. p \in Seq(Bytes) /\ Len(p) = Len(t) - h - 4
          /\ \A ii \in 1..Len(t) - h - 4 : p[ii] = Xor(t[h + 4 + ii], k(ii)) /\ k(ii) \in Bytes
      BY <1>14, <2>2, <2>3
    <3>3. size <= Len(p) /\ p[i] = f.payload[i]
      BY <1>12, <3>1, <3>2
    <3>4. i \in 1..Len(t) - h - 4 /\ j \in 1..Len(t)
      BY <1>3, <1>4, <1>5, <3>1, <3>2, <3>3 DEF j
    <3>5. p[i] = Xor(t[j], k(i)) /\ k(i) \in Bytes /\ t[j] \in Bytes /\ t[j] # 0
      BY <1>5, <1>6, <3>2, <3>4 DEF j
    <3>6. F[j] = 0 /\ F[j] = Xor(f.payload[i], k(i))
      BY <1>2, <2>1, <3>1 DEF j
    <3>7. Xor(Xor(t[j], k(i)), k(i)) = t[j]
      BY <3>5, XorProperties
    <3> QED
      BY <3>3, <3>5, <3>6, <3>7
  <2>4. CASE r.recvs = 1 /\ zf < h + 4
    <3>1. Len(t) = zf
      BY <1>6, <2>2, <2>4
    <3>2. z >= 2
      <4> SUFFICES ASSUME zf < 2 PROVE FALSE
        BY <2>1, <2>2
      <4>1. zf = 0 \/ zf = 1
        BY <2>1
      <4>2. zf + 1 = 1 \/ zf + 1 = 2
        BY <4>1
      <4> QED
        BY <1>3, <2>1, <4>2
    <3>3. FrameKey(t) = h /\ ByteAt(t, 1) = F[1] /\ ByteAt(t, 2) = F[2]
      BY <1>13, <3>2
    <3>4. Len(t) < FrameKey(t) + 4
      BY <2>4, <3>1, <3>3
    <3>5. Outcome(t) # "text"
      BY <3>4 DEF Outcome
    <3>6. p = <<>>
      BY <1>10, <3>5
    <3>7. ~ IsPrefix(f.payload, p)
      <4>1. p \in Seq(Bytes) /\ Len(p) = 0
        BY <3>6, EmptySeq
      <4>2. ~ (size <= Len(p))
        BY <1>4, <4>1
      <4> QED
        BY <1>12, <4>1, <4>2, Zenon
    <3> QED
      BY <1>16, <3>7 DEF F
  <2>5. zf >= h + 4 \/ zf < h + 4
    BY <1>3, <2>1
  <2> QED
    BY <1>16, <2>3, <2>4, <2>5 DEF F, h, zf
<1> QED
  BY <1>15, <1>16

-----------------------------------------------------------------------------
(* What is encoded can be told from the text.                              *)
LEMMA EncodeInjective ==
  ASSUME NEW a \in Seq(Bytes), NEW b \in Seq(Bytes), base64_encode(a) = base64_encode(b)
  PROVE  a = b
<1>1. ASSUME NEW s \in Seq(Bytes)
      PROVE  b64decode(SubSeq(base64_encode(s), 1, Len(base64_encode(s)))) = s
  <2> DEFINE n == Len(base64_encode(s))
  <2>1. n \in 0..n
    <3>1. n \in Nat
      BY EncodeType
    <3> QED
      BY <3>1
  <2>2. \A i \in n + 1..n : base64_encode(s)[i] = Pad
    <3>1. n \in Nat
      BY EncodeType
    <3> HIDE DEF n
    <3> QED
      BY <3>1
  <2> QED
    BY <2>1, <2>2, DecodeEncoded
<1> QED
  BY <1>1, Zenon

(* A string and what stands behind it read as the string alone exactly     *)
(* when it has no zero and there is nothing, or one, behind it.            *)
LEMMA CutConcat ==
  ASSUME NEW d \in Seq(Bytes), NEW y \in Seq(Bytes)
  PROVE  Cut(d \o y) = d <=> Cut(d) = d /\ Cut(y) = <<>>
<1> DEFINE q == d \o y
           a == Cut(q)
           cd == Cut(d)
           cy == Cut(y)
<1>1. /\ q \in Seq(Bytes) /\ Len(q) = Len(d) + Len(y) /\ Len(d) \in Nat /\ Len(y) \in Nat
      /\ \A i \in 1..Len(d) + Len(y) : q[i] = IF i <= Len(d) THEN d[i] ELSE y[i - Len(d)]
  BY ConcatProperties
<1>2. /\ a \in Seq(Bytes) /\ Len(a) \in 0..Len(q)
      /\ \A i \in 1..Len(a) : a[i] = q[i] /\ q[i] # 0
      /\ Len(a) < Len(q) => q[Len(a) + 1] = 0
  BY <1>1, CutProperties
<1>3. /\ cd \in Seq(Bytes) /\ Len(cd) \in 0..Len(d)
      /\ \A i \in 1..Len(cd) : cd[i] = d[i] /\ d[i] # 0
      /\ Len(cd) < Len(d) => d[Len(cd) + 1] = 0
      /\ Len(cd) = Len(d) => cd = d
  BY CutProperties
<1>4. /\ cy \in Seq(Bytes) /\ Len(cy) \in 0..Len(y)
      /\ \A i \in 1..Len(cy) : cy[i] = y[i] /\ y[i] # 0
      /\ Len(cy) < Len(y) => y[Len(cy) + 1] = 0
  BY CutProperties
<1> HIDE DEF q, a, cd, cy
<1>5. \A i \in 1..Len(d) : q[i] = d[i]
  BY <1>1
<1>6. Len(y) # 0 => Len(d) + 1 \in 1..Len(d) + Len(y) /\ q[Len(d) + 1] = y[1]
  <2> SUFFICES ASSUME Len(y) # 0 PROVE Len(d) + 1 \in 1..Len(d) + Len(y) /\ q[Len(d) + 1] = y[1]
    OBVIOUS
  <2> DEFINE j == Len(d) + 1
  <2>1. j \in 1..Len(d) + Len(y) /\ ~ (j <= Len(d)) /\ j - Len(d) = 1
    BY <1>1
  <2> HIDE DEF j
  <2>2. q[j] = y[1]
    BY <1>1, <2>1
  <2> QED
    BY <2>1, <2>2 DEF j
<1>7. ASSUME a = d
      PROVE  cd = d /\ cy = <<>>
  <2>1. \A i \in 1..Len(d) : d[i] # 0
    BY <1>2, <1>5, <1>7
  <2>2. cd = d
    <3>1. ~ (Len(cd) < Len(d))
      <4> SUFFICES ASSUME Len(cd) < Len(d) PROVE FALSE
        OBVIOUS
      <4>1. Len(cd) + 1 \in 1..Len(d)
        BY <1>1, <1>3
      <4> QED
        BY <1>3, <2>1, <4>1
    <3> QED
      BY <1>1, <1>3, <3>1
  <2>3. Len(cy) = 0
    <3> SUFFICES ASSUME Len(cy) # 0 PROVE FALSE
      OBVIOUS
    <3>1. 1 \in 1..Len(cy) /\ Len(y) # 0 /\ Len(a) < Len(q)
      BY <1>1, <1>2, <1>4, <1>7
    <3>2. y[1] # 0
      BY <1>4, <3>1
    <3> QED
      BY <1>2, <1>6, <1>7, <3>1, <3>2
  <2> QED
    BY <1>4, <2>2, <2>3, EmptySeq
<1>8. ASSUME cd = d, cy = <<>>
      PROVE  a = d
  <2>1. \A i \in 1..Len(d) : d[i] # 0
    BY <1>3, <1>8
  <2>2. Len(y) # 0 => y[1] = 0
    <3>1. Len(cy) = 0
      BY <1>8, EmptySeq
    <3> QED
      BY <1>1, <1>4, <3>1
  <2>3. ~ (Len(a) < Len(d))
    <3> SUFFICES ASSUME Len(a) < Len(d) PROVE FALSE
      OBVIOUS
    <3>1. Len(a) + 1 \in 1..Len(d) /\ Len(a) < Len(q)
      BY <1>1, <1>2
    <3> QED
      BY <1>2, <1>5, <2>1, <3>1
  <2>4. ~ (Len(a) > Len(d))
    <3> SUFFICES ASSUME Len(a) > Len(d) PROVE FALSE
      OBVIOUS
    <3>1. Len(d) + 1 \in 1..Len(a) /\ Len(y) # 0
      BY <1>1, <1>2
    <3> QED
      BY <1>2, <1>6, <2>2, <3>1
  <2>5. Len(a) = Len(d)
    BY <1>1, <1>2, <2>3, <2>4
  <2>6. \A i \in 1..Len(a) : a[i] = d[i]
    BY <1>2, <1>5, <2>5
  <2> QED
    BY <1>2, <2>5, <2>6, SeqEqual
<1> QED
  BY <1>7, <1>8 DEF a, q, cd, cy

-----------------------------------------------------------------------------
(* The frames of a client, one after the other, in the stream of bytes S.  *)
Records(c) == [frame : Frames(c), bytes : Seq(Bytes), before : Nat]

(* The bytes of some frames, one after the other.                          *)
StreamOf(s) == FlattenSeq([k \in DOMAIN s |-> s[k].bytes])

(* They lie in it one behind the other, and it ends with the last.         *)
Laid(s, S) ==
  /\ S \in Seq(Bytes)
  /\ \A k \in 1..Len(s) :
       /\ IsFrame(s[k].frame) /\ s[k].bytes = FrameBytes(s[k].frame)
       /\ s[k].before \in Nat /\ End(s[k]) <= Len(S)
       /\ \A i \in 1..Len(s[k].bytes) : S[s[k].before + i] = s[k].bytes[i]
  /\ \A k \in 1..Len(s) : k + 1 <= Len(s) => s[k + 1].before = End(s[k])
  /\ Len(S) = IF s = <<>> THEN 0 ELSE End(Last(s))

(* A frame that is sent is laid behind the others.                         *)
LEMMA LaidAppend ==
  ASSUME NEW R, NEW s \in Seq(R), NEW S, Laid(s, S), NEW f, IsFrame(f),
         NEW e \in R, e = [frame |-> f, bytes |-> FrameBytes(f), before |-> Len(S)]
  PROVE  Laid(Append(s, e), S \o FrameBytes(f))
<1> DEFINE F == FrameBytes(f)
           t == Append(s, e)
           T == S \o F
           n == Len(s)
<1>1. F \in Seq(Bytes) /\ Len(F) \in Nat
  BY FrameLayout, Zenon, LenProperties
<1>2. S \in Seq(Bytes) /\ Len(S) \in Nat /\ n \in Nat
  BY DEF Laid
<1>3. /\ T \in Seq(Bytes) /\ Len(T) = Len(S) + Len(F)
      /\ \A i \in 1..Len(S) + Len(F) : T[i] = IF i <= Len(S) THEN S[i] ELSE F[i - Len(S)]
  BY <1>1, <1>2, ConcatProperties
<1>4. /\ t \in Seq(R) /\ Len(t) = n + 1 /\ t # <<>> /\ Last(t) = t[n + 1]
      /\ \A k \in 1..n : t[k] = s[k]
      /\ t[n + 1] = e
  <2>1. /\ t \in Seq(R) /\ Len(t) = n + 1 /\ \A k \in 1..n : t[k] = s[k]
        /\ t[n + 1] = e
    BY AppendProperties
  <2> HIDE DEF t, n
  <2>2. t # <<>>
    BY <1>2, <2>1, EmptySeq
  <2> QED
    BY <2>1, <2>2 DEF Last
<1>5. e.frame = f /\ e.bytes = F /\ e.before = Len(S)
  OBVIOUS
<1>6. /\ \A k \in 1..n :
           /\ IsFrame(s[k].frame) /\ s[k].bytes = FrameBytes(s[k].frame)
           /\ s[k].before \in Nat /\ End(s[k]) <= Len(S)
           /\ \A i \in 1..Len(s[k].bytes) : S[s[k].before + i] = s[k].bytes[i]
      /\ \A k \in 1..n : k + 1 <= n => s[k + 1].before = End(s[k])
      /\ Len(S) = IF s = <<>> THEN 0 ELSE End(Last(s))
  BY DEF Laid
<1> HIDE DEF F, t, T, n
<1>7. End(e) = Len(T)
  BY <1>3, <1>5 DEF End
<1>8. \A i \in 1..Len(F) : T[Len(S) + i] = F[i]
  <2> TAKE i \in 1..Len(F)
  <2> DEFINE j == Len(S) + i
  <2>1. j \in 1..Len(S) + Len(F) /\ ~ (j <= Len(S)) /\ j - Len(S) = i
    BY <1>1, <1>2
  <2> HIDE DEF j
  <2>2. T[j] = F[i]
    BY <1>3, <2>1
  <2> QED
    BY <2>2 DEF j
<1>9. ASSUME NEW k \in 1..n + 1
      PROVE  /\ IsFrame(t[k].frame) /\ t[k].bytes = FrameBytes(t[k].frame)
             /\ t[k].before \in Nat /\ End(t[k]) <= Len(T)
             /\ \A i \in 1..Len(t[k].bytes) : T[t[k].before + i] = t[k].bytes[i]
  <2>1. CASE k = n + 1
    <3>1. t[k] = e
      BY <1>4, <2>1
    <3>2. End(e) <= Len(T)
      BY <1>1, <1>2, <1>3, <1>7
    <3>3. \A i \in 1..Len(e.bytes) : T[e.before + i] = e.bytes[i]
      BY <1>5, <1>8
    <3>4. IsFrame(e.frame) /\ e.bytes = FrameBytes(e.frame) /\ e.before \in Nat
      BY <1>2, <1>5 DEF F
    <3> QED
      BY <3>1, <3>2, <3>3, <3>4, Zenon
  <2>2. CASE k # n + 1
    <3> DEFINE g == s[k]
    <3>1. k \in 1..n /\ t[k] = g
      BY <1>2, <1>4, <2>2
    <3>2. /\ IsFrame(g.frame) /\ g.bytes = FrameBytes(g.frame)
          /\ g.before \in Nat /\ End(g) <= Len(S)
          /\ \A i \in 1..Len(g.bytes) : S[g.before + i] = g.bytes[i]
      BY <1>6, <3>1
    <3> HIDE DEF g
    <3>3. Len(g.bytes) \in Nat
      <4>1. FrameBytes(g.frame) \in Seq(Bytes)
        BY <3>2, FrameLayout, Zenon
      <4> QED
        BY <3>2, <4>1, LenProperties, Zenon
    <3>4. End(g) = g.before + Len(g.bytes)
      BY DEF End
    <3>5. End(g) <= Len(T)
      BY <1>1, <1>2, <1>3, <3>2, <3>3, <3>4
    <3>6. ASSUME NEW i \in 1..Len(g.bytes)
          PROVE  T[g.before + i] = g.bytes[i]
      <4> DEFINE j == g.before + i
      <4>1. j \in 1..Len(S) + Len(F) /\ j <= Len(S)
        BY <1>1, <1>2, <3>2, <3>3, <3>4
      <4>2. S[j] = g.bytes[i]
        BY <3>2
      <4> HIDE DEF j
      <4>3. T[j] = S[j]
        BY <1>3, <4>1
      <4> QED
        BY <4>2, <4>3 DEF j
    <3> QED
      BY <3>1, <3>2, <3>5, <3>6, Zenon
  <2> QED
    BY <2>1, <2>2
<1>10. ASSUME NEW k \in 1..n + 1, k + 1 <= n + 1
       PROVE  t[k + 1].before = End(t[k])
  <2>1. k \in 1..n /\ t[k] = s[k]
    BY <1>2, <1>4, <1>10
  <2>2. CASE k = n
    <3>1. s # <<>> /\ Last(s) = s[k]
      BY <1>2, <2>1, <2>2, EmptySeq DEF Last, n
    <3>2. t[k + 1] = e
      BY <1>4, <2>2
    <3> QED
      BY <1>5, <1>6, <2>1, <3>1, <3>2
  <2>3. CASE k # n
    <3>1. k + 1 \in 1..n /\ k + 1 <= n
      BY <1>2, <2>1, <2>3
    <3>2. t[k + 1] = s[k + 1]
      BY <1>4, <3>1
    <3> QED
      BY <1>6, <2>1, <3>1, <3>2
  <2> QED
    BY <2>2, <2>3
<1>11. Len(T) = IF t = <<>> THEN 0 ELSE End(Last(t))
  BY <1>4, <1>7
<1>12. Laid(t, T)
  BY <1>3, <1>4, <1>9, <1>10, <1>11 DEF Laid
<1> QED
  BY <1>12 DEF t, T, F

(* And its bytes behind theirs.                                            *)
LEMMA StreamAppend ==
  ASSUME NEW c, NEW s \in Seq(Records(c)), NEW e \in Records(c)
  PROVE  StreamOf(Append(s, e)) = StreamOf(s) \o e.bytes /\ StreamOf(s) \in Seq(Bytes)
<1> DEFINE t == Append(s, e)
           n == Len(s)
           q == [k \in 1..n |-> s[k].bytes]
           u == [k \in 1..n + 1 |-> t[k].bytes]
<1>1. /\ t \in Seq(Records(c)) /\ Len(t) = n + 1 /\ n \in Nat
      /\ \A k \in 1..n : t[k] = s[k]
      /\ t[n + 1] = e
  BY AppendProperties
<1>2. DOMAIN s = 1..n /\ DOMAIN t = 1..n + 1
  BY <1>1
<1>3. StreamOf(s) = FlattenSeq(q) /\ StreamOf(t) = FlattenSeq(u)
  <2> HIDE DEF t, n
  <2> QED
    BY <1>2, Zenon DEF StreamOf
<1>4. e.bytes \in Seq(Bytes) /\ \A k \in 1..n : s[k].bytes \in Seq(Bytes)
  <2>1. \A x \in Records(c) : x.bytes \in Seq(Bytes)
    BY DEF Records
  <2>2. \A k \in 1..n : s[k] \in Records(c)
    BY <1>1
  <2> QED
    BY <2>1, <2>2, Zenon
<1>5. q \in Seq(Seq(Bytes)) /\ Len(q) = n
  BY <1>1, <1>4
<1>6. u = Append(q, e.bytes)
  <2> DEFINE v == Append(q, e.bytes)
  <2>1. /\ v \in Seq(Seq(Bytes)) /\ Len(v) = n + 1
        /\ \A k \in 1..n : v[k] = q[k]
        /\ v[n + 1] = e.bytes
    BY <1>4, <1>5, AppendProperties
  <2>2. \A k \in 1..n : q[k] = s[k].bytes
    OBVIOUS
  <2> HIDE DEF t, n, q
  <2>3. \A k \in 1..n + 1 : v[k] = t[k].bytes
    <3> TAKE k \in 1..n + 1
    <3> HIDE DEF v
    <3>1. CASE k = n + 1
      BY <1>1, <2>1, <3>1
    <3>2. CASE k # n + 1
      <4>1. k \in 1..n
        BY <1>1, <3>2
      <4> QED
        BY <1>1, <2>1, <2>2, <4>1
    <3> QED
      BY <3>1, <3>2
  <2>4. v = [k \in 1..n + 1 |-> v[k]]
    <3> HIDE DEF v
    <3> QED
      BY <2>1
  <2> HIDE DEF v
  <2>5. v = u
    BY <2>3, <2>4, Zenon
  <2> QED
    BY <2>5 DEF v
<1> HIDE DEF q, u, t
<1>7. FlattenSeq(u) = FlattenSeq(q) \o e.bytes
  BY <1>4, <1>5, <1>6, FlattenAppend
<1>8. FlattenSeq(q) \in Seq(Bytes)
  BY <1>5, FlattenType
<1> QED
  BY <1>3, <1>7, <1>8 DEF t

-----------------------------------------------------------------------------
(* What WholeFrameDecoded and ClosedForTheMask say of one client: of the   *)
(* frames s it has sent, its last read and its connection.                 *)
Began(read, f) == read.from = f.before /\ read.to > read.from

(* WholeFrameDecoded of one client.                                        *)
Decoded(s, read) ==
  \A k \in DOMAIN s :
    LET f       == s[k]
        payload == f.frame.payload
    IN (/\ Began(read, f) /\ read.to >= End(f) /\ read.to - read.from < BufferSize
        /\ f.frame.fin /\ f.frame.masked /\ payload # <<>>) =>
         IF Cut(f.bytes) = f.bytes
         THEN /\ IsPrefix(payload, read.payload)
              /\ read.to = End(f) => read.payload = payload
              /\ read.payload = payload =>
                   (read.to = End(f) \/ (k < Len(s) /\ s[k + 1].bytes[1] = 0))
         ELSE (read.recvs = 1 \/ Len(Cut(f.bytes)) >= FrameKey(f.bytes) + 4)
                => ~IsPrefix(payload, read.payload)

(* ClosedForTheMask of one client.                                         *)
Closed(s, read, status) ==
  \A f \in Range(s) :
    Began(read, f) /\ (read.recvs = 1 \/ (f.bytes[1] # 0 /\ f.bytes[2] # 0)) =>
      (status = "closed" <=> /\ f.frame.fin
                             /\ ~f.frame.masked \/ read.to = read.from + 1)

(* They say no more and no less.                                           *)
LEMMA OneClient ==
  /\ WholeFrameDecoded <=> \A c \in Clients : Decoded(sent[c], last[c])
  /\ ClosedForTheMask <=> \A c \in Clients : Closed(sent[c], last[c], conn[c])
  /\ WholeFrameDecoded' <=> \A c \in Clients : Decoded(sent'[c], last'[c])
  /\ ClosedForTheMask' <=> \A c \in Clients : Closed(sent'[c], last'[c], conn'[c])
<1>1. WholeFrameDecoded <=> \A c \in Clients : Decoded(sent[c], last[c])
  BY Zenon DEF WholeFrameDecoded, Decoded, ReadFrom, Began
<1>2. ClosedForTheMask <=> \A c \in Clients : Closed(sent[c], last[c], conn[c])
  BY Zenon DEF ClosedForTheMask, Closed, ReadFrom, Began
<1>3. WholeFrameDecoded' <=> \A c \in Clients : Decoded(sent'[c], last'[c])
  BY Zenon DEF WholeFrameDecoded, Decoded, ReadFrom, Began
<1>4. ClosedForTheMask' <=> \A c \in Clients : Closed(sent'[c], last'[c], conn'[c])
  BY Zenon DEF ClosedForTheMask, Closed, ReadFrom, Began
<1> QED
  BY <1>1, <1>2, <1>3, <1>4

(* What is left of a sequence behind its first m elements.                 *)
LEMMA SubstrProperties ==
  ASSUME NEW S, NEW q \in Seq(S), NEW m \in Nat
  PROVE  /\ Substr(q, m) \in Seq(S)
         /\ Substr(q, m) # <<>> <=> m < Len(q)
         /\ m <= Len(q) => /\ Len(Substr(q, m)) = Len(q) - m
                           /\ \A i \in 1..Len(q) - m : Substr(q, m)[i] = q[m + i]
<1>1. Len(q) \in Nat
  OBVIOUS
<1>2. CASE m < Len(q)
  <2> DEFINE d == Len(q) - m
  <2>1. d \in Nat /\ m + d = Len(q) /\ m + d <= Len(q) /\ d # 0
    BY <1>1, <1>2
  <2>2. Substr(q, m) = SubSeq(q, m + 1, m + d)
    BY <2>1 DEF Substr
  <2> HIDE DEF d
  <2>3. /\ Substr(q, m) \in Seq(S) /\ Len(Substr(q, m)) = d
        /\ \A i \in 1..d : Substr(q, m)[i] = q[m + i]
    BY <2>1, <2>2, PartProperties
  <2>4. Substr(q, m) # <<>>
    BY <2>1, <2>3, EmptySeq
  <2> QED
    BY <1>2, <2>3, <2>4 DEF d
<1>3. CASE ~ (m < Len(q))
  <2>1. Substr(q, m) = <<>>
    BY <1>1, <1>3, SubSeqEmpty DEF Substr
  <2>2. m <= Len(q) => Len(q) - m = 0
    BY <1>1, <1>3
  <2> QED
    BY <1>1, <1>3, <2>1, <2>2, EmptySeq
<1> QED
  BY <1>2, <1>3

(* The frame a read begins with stands at the head of what is unread.      *)
LEMMA FrameAhead ==
  ASSUME NEW c, NEW s \in Seq(Records(c)), NEW S, Laid(s, S),
         NEW k \in 1..Len(s), NEW m \in Nat, s[k].before = m, m < Len(S)
  PROVE  LET b == Substr(S, m)
             F == s[k].bytes
         IN /\ b \in Seq(Bytes) /\ b # <<>> /\ Len(b) = Len(S) - m
            /\ F = FrameBytes(s[k].frame) /\ IsFrame(s[k].frame) /\ Len(F) \in Nat
            /\ Len(F) <= Len(b)
            /\ \A i \in 1..Len(F) : b[i] = F[i]
            /\ m + Len(F) < Len(S)
                 => k < Len(s) /\ b[Len(F) + 1] = s[k + 1].bytes[1]
<1> DEFINE g == s[k]
           F == g.bytes
           b == Substr(S, m)
<1>1. /\ S \in Seq(Bytes) /\ IsFrame(g.frame) /\ F = FrameBytes(g.frame)
      /\ m \in Nat /\ End(g) <= Len(S) /\ \A i \in 1..Len(F) : S[m + i] = F[i]
      /\ k + 1 <= Len(s) => s[k + 1].before = End(g)
      /\ Len(S) = IF s = <<>> THEN 0 ELSE End(Last(s))
  BY DEF Laid
<1>2. F \in Seq(Bytes) /\ Len(F) > 1
  <2>1. FrameBytes(g.frame) \in Seq(Bytes) /\ Len(FrameBytes(g.frame)) > 1
    BY <1>1, FrameLength, Zenon
  <2> HIDE DEF F, g
  <2> QED
    BY <1>1, <2>1
<1>3. Len(F) \in Nat /\ Len(S) \in Nat /\ Len(s) \in Nat /\ k \in Nat /\ k <= Len(s)
  BY <1>1, <1>2
<1>4. End(g) = m + Len(F)
  BY DEF End
<1>5. m < Len(S)
  OBVIOUS
<1>6. ASSUME k < Len(s)
      PROVE  /\ s[k + 1].before = m + Len(F)
             /\ S[m + Len(F) + 1] = s[k + 1].bytes[1]
  <2> DEFINE e == s[k + 1]
             E == e.bytes
  <2>1. k + 1 \in 1..Len(s)
    BY <1>3, <1>6
  <2>2. IsFrame(e.frame) /\ E = FrameBytes(e.frame) /\ \A i \in 1..Len(E) : S[e.before + i] = E[i]
    BY <2>1 DEF Laid
  <2>3. E \in Seq(Bytes) /\ Len(E) > 1
    <3>1. FrameBytes(e.frame) \in Seq(Bytes) /\ Len(FrameBytes(e.frame)) > 1
      BY <2>2, FrameLength, Zenon
    <3> HIDE DEF E, e
    <3> QED
      BY <2>2, <3>1
  <2>4. e.before = m + Len(F)
    BY <1>1, <1>3, <1>4, <1>6
  <2> HIDE DEF e, E, F
  <2>5. S[e.before + 1] = E[1]
    <3>1. 1 \in 1..Len(E)
      BY <2>3
    <3> QED
      BY <2>2, <3>1
  <2> QED
    BY <2>4, <2>5 DEF e, E
<1>7. k = Len(s) => Len(S) = m + Len(F)
  <2> SUFFICES ASSUME k = Len(s) PROVE Len(S) = m + Len(F)
    OBVIOUS
  <2>1. s # <<>>
    BY <1>3, EmptySeq
  <2>2. Last(s) = g
    BY DEF Last
  <2> QED
    BY <1>1, <1>4, <2>1, <2>2
<1> HIDE DEF F
<1> DEFINE d == Len(S) - m
<1>8. d \in Nat /\ m + d = Len(S) /\ m + d <= Len(S) /\ d > 0 /\ Len(F) <= d /\ m \in Nat
  BY <1>1, <1>3, <1>4, <1>5
<1>9. b \in Seq(Bytes) /\ Len(b) = d /\ \A i \in 1..d : b[i] = S[m + i]
  <2>1. S \in Seq(Bytes) /\ m \in Nat
    BY <1>1
  <2>2. /\ Substr(S, m) \in Seq(Bytes)
        /\ Substr(S, m) # <<>> <=> m < Len(S)
        /\ m <= Len(S) => /\ Len(Substr(S, m)) = Len(S) - m
                          /\ \A i \in 1..Len(S) - m : Substr(S, m)[i] = S[m + i]
    BY <2>1, SubstrProperties
  <2>3. m <= Len(S)
    BY <1>3, <1>5
  <2> QED
    BY <2>2, <2>3, Zenon
<1> HIDE DEF b
<1>10. b # <<>>
  BY <1>8, <1>9, EmptySeq
<1>11. \A i \in 1..Len(F) : b[i] = F[i]
  <2> TAKE i \in 1..Len(F)
  <2>1. i \in 1..d
    BY <1>3, <1>8
  <2> QED
    BY <1>1, <1>9, <2>1 DEF F
<1>12. ASSUME m + Len(F) < Len(S)
       PROVE  k < Len(s) /\ b[Len(F) + 1] = s[k + 1].bytes[1]
  <2>1. k < Len(s)
    <3> HIDE DEF d
    <3> QED
      BY <1>3, <1>7, <1>8, <1>12
  <2> DEFINE j == Len(F) + 1
  <2>2. j \in 1..d /\ m + j = m + Len(F) + 1
    <3> HIDE DEF d
    <3> QED
      BY <1>3, <1>8, <1>12
  <2>3. b[j] = S[m + j]
    <3> HIDE DEF j, d
    <3> QED
      BY <1>9, <2>2
  <2> QED
    BY <1>6, <2>1, <2>2, <2>3
<1> QED
  BY <1>1, <1>3, <1>8, <1>9, <1>10, <1>11, <1>12 DEF b, F, d

(* A read establishes both.                                                *)
LEMMA ReadEstablishes ==
  ASSUME NEW c, NEW s \in Seq(Records(c)), NEW S, Laid(s, S), NEW from \in Nat,
         Substr(S, from) # <<>>, NEW r \in Reads(Substr(S, from)),
         NEW read, read.from = from, read.to = from + r.taken, read.recvs = r.recvs,
         read.payload = IF Outcome(r.text) = "text" THEN Unmask(r.text) ELSE <<>>,
         NEW status, status = "closed" <=> Outcome(r.text) = "close"
  PROVE  Decoded(s, read) /\ Closed(s, read, status)
<1> DEFINE b == Substr(S, from)
<1>1. S \in Seq(Bytes) /\ Len(S) \in Nat /\ Len(s) \in Nat /\ DOMAIN s = 1..Len(s)
  BY DEF Laid
<1>2. from < Len(S) /\ b \in Seq(Bytes)
  BY <1>1, SubstrProperties
<1>3. ASSUME NEW k \in 1..Len(s), Began(read, s[k])
      PROVE  LET F == s[k].bytes
             IN /\ s[k].before = from
                /\ b \in Seq(Bytes) /\ b # <<>> /\ Len(b) = Len(S) - from
                /\ F = FrameBytes(s[k].frame) /\ IsFrame(s[k].frame) /\ Len(F) \in Nat
                /\ Len(F) <= Len(b)
                /\ \A i \in 1..Len(F) : b[i] = F[i]
                /\ from + Len(F) < Len(S)
                     => k < Len(s) /\ b[Len(F) + 1] = s[k + 1].bytes[1]
  <2>1. s[k].before = from
    BY <1>3 DEF Began
  <2>2. from < Len(S) /\ k \in 1..Len(s)
    BY <1>2
  <2> QED
    BY <2>1, <2>2, FrameAhead
<1>4. r.taken \in 1..Len(b)
  BY <1>2, ReadType
<1>5. ASSUME NEW k \in 1..Len(s), Began(read, s[k]),
             read.to >= End(s[k]), read.to - read.from < BufferSize,
             s[k].frame.fin, s[k].frame.masked, s[k].frame.payload # <<>>
      PROVE  LET f       == s[k]
                 payload == f.frame.payload
             IN IF Cut(f.bytes) = f.bytes
                THEN /\ IsPrefix(payload, read.payload)
                     /\ read.to = End(f) => read.payload = payload
                     /\ read.payload = payload =>
                          (read.to = End(f) \/ (k < Len(s) /\ s[k + 1].bytes[1] = 0))
                ELSE (read.recvs = 1 \/ Len(Cut(f.bytes)) >= FrameKey(f.bytes) + 4)
                       => ~IsPrefix(payload, read.payload)
  <2> DEFINE g == s[k]
             F == g.bytes
             p == read.payload
  <2>1. /\ g.before = from
        /\ b \in Seq(Bytes) /\ b # <<>> /\ Len(b) = Len(S) - from
        /\ F = FrameBytes(g.frame) /\ IsFrame(g.frame) /\ Len(F) \in Nat
        /\ Len(F) <= Len(b)
        /\ \A i \in 1..Len(F) : b[i] = F[i]
        /\ from + Len(F) < Len(S) => k < Len(s) /\ b[Len(F) + 1] = s[k + 1].bytes[1]
    BY <1>3, <1>5
  <2>2. End(g) = from + Len(F)
    BY <2>1, Zenon DEF End
  <2>3. r.taken >= Len(F) /\ r.taken < BufferSize /\ r.taken \in Nat
    <3>1. r.taken \in Nat /\ from + r.taken >= from + Len(F) /\ from + r.taken - from < BufferSize
      BY <1>4, <1>5, <2>1, <2>2
    <3> HIDE DEF F, b
    <3> QED
      BY <2>1, <3>1
  <2>4. read.to = End(g) <=> r.taken = Len(F)
    <3> HIDE DEF F, b, g
    <3> QED
      BY <2>1, <2>2, <2>3
  <2>5. r.taken # Len(F) => from + Len(F) < Len(S)
    <3> HIDE DEF F, b, g
    <3> QED
      BY <1>1, <1>4, <2>1, <2>3
  <2>6. IF Cut(F) = F
        THEN /\ IsPrefix(g.frame.payload, p)
             /\ r.taken = Len(F) => p = g.frame.payload
             /\ p = g.frame.payload => r.taken = Len(F) \/ b[Len(F) + 1] = 0
        ELSE (r.recvs = 1 \/ Len(Cut(F)) >= FrameKey(F) + 4) => ~IsPrefix(g.frame.payload, p)
    <3> DEFINE f == g.frame
    <3>1. f.fin /\ f.masked /\ f.payload # <<>> /\ F = FrameBytes(f)
      BY <1>5, <2>1
    <3>2. p = IF Outcome(r.text) = "text" THEN Unmask(r.text) ELSE <<>>
      OBVIOUS
    <3>3. r \in Reads(b)
      OBVIOUS
    <3>4. IsFrame(f) /\ b \in Seq(Bytes) /\ Len(FrameBytes(f)) <= Len(b)
          /\ r.taken >= Len(FrameBytes(f)) /\ r.taken < BufferSize
          /\ \A i \in 1..Len(FrameBytes(f)) : b[i] = FrameBytes(f)[i]
      <4> HIDE DEF F, b, f
      <4> QED
        BY <2>1, <2>3, <3>1, Zenon DEF f
    <3> HIDE DEF f, F, g, b, p
    <3>5. IF Cut(FrameBytes(f)) = FrameBytes(f)
          THEN /\ IsPrefix(f.payload, p)
               /\ r.taken = Len(FrameBytes(f)) => p = f.payload
               /\ p = f.payload => r.taken = Len(FrameBytes(f)) \/ b[Len(FrameBytes(f)) + 1] = 0
          ELSE (r.recvs = 1 \/ Len(Cut(FrameBytes(f))) >= FrameKey(FrameBytes(f)) + 4)
                 => ~IsPrefix(f.payload, p)
      BY <3>1, <3>2, <3>3, <3>4, WholeRead, Zenon
    <3> QED
      BY <3>1, <3>5, Zenon DEF f
  <2>7. read.recvs = r.recvs
    OBVIOUS
  <2> HIDE DEF F, b, p, g
  <2>8. CASE Cut(F) = F
    <3>1. p = g.frame.payload => read.to = End(g) \/ (k < Len(s) /\ s[k + 1].bytes[1] = 0)
      BY <2>1, <2>4, <2>5, <2>6, <2>8
    <3> QED
      BY <2>4, <2>6, <2>8, <3>1, Zenon DEF F, p, g
  <2>9. CASE Cut(F) # F
    BY <2>6, <2>7, <2>9, Zenon DEF F, p, g
  <2> QED
    BY <2>8, <2>9
<1>6. Decoded(s, read)
  BY <1>1, <1>5, Zenon DEF Decoded
<1>7. ASSUME NEW k \in 1..Len(s), Began(read, s[k]),
             read.recvs = 1 \/ (s[k].bytes[1] # 0 /\ s[k].bytes[2] # 0)
      PROVE  status = "closed" <=> /\ s[k].frame.fin
                                   /\ ~s[k].frame.masked \/ read.to = read.from + 1
  <2> DEFINE g == s[k]
             F == g.bytes
             f == g.frame
  <2>1. /\ b \in Seq(Bytes) /\ F = FrameBytes(f) /\ IsFrame(f) /\ Len(F) <= Len(b)
        /\ \A i \in 1..Len(F) : b[i] = F[i]
    BY <1>3, <1>7
  <2>2. r \in Reads(b) /\ (r.recvs = 1 \/ (F[1] # 0 /\ F[2] # 0))
    BY <1>7
  <2>3. read.to = read.from + 1 <=> r.taken = 1
    <3> HIDE DEF b, F, f, g
    <3> QED
      BY <1>4
  <2> HIDE DEF b, F, f, g
  <2>4. Outcome(r.text) = "close" <=> f.fin /\ (~f.masked \/ r.taken = 1)
    BY <2>1, <2>2, CloseRead
  <2> QED
    BY <2>3, <2>4, Zenon DEF f, g
<1>8. Closed(s, read, status)
  <2> SUFFICES ASSUME NEW e \in Range(s), Began(read, e),
                      read.recvs = 1 \/ (e.bytes[1] # 0 /\ e.bytes[2] # 0)
               PROVE  status = "closed" <=> /\ e.frame.fin
                                            /\ ~e.frame.masked \/ read.to = read.from + 1
    BY Zenon DEF Closed
  <2>1. PICK k \in 1..Len(s) : e = s[k]
    BY <1>1 DEF Range
  <2> QED
    BY <1>7, <2>1, Zenon
<1> QED
  BY <1>6, <1>8

-----------------------------------------------------------------------------
(* The invariant: where the frames lie in the stream of their client, that *)
(* a read has taken what it says, what an answer was made of, and the two  *)
(* properties of the last read, which no step but a read establishes.      *)
AnswerMade ==
  \A c \in Clients :
    LET u == accept[c].asked
    IN accept[c].status = "101" =>
         u \in Upgrades(c) /\ accept[c].key = base64_encode(Cut(u.digest \o u.beyond))

FramesLaid == \A c \in Clients : Laid(sent[c], StreamOf(sent[c]))

ReadForward == \A c \in Clients : last[c].from <= last[c].to

WInv ==
  /\ DOMAIN sent = Clients /\ DOMAIN accept = Clients
  /\ TypeOK /\ AnswerMade /\ FramesLaid /\ ReadForward
  /\ WholeFrameDecoded /\ ClosedForTheMask

(* An answer is a text.                                                    *)
LEMMA KeyType ==
  ASSUME NEW c \in Clients, NEW u \in Upgrades(c)
  PROVE  /\ Cut(u.digest \o u.beyond) \in Seq(Bytes)
         /\ base64_encode(Cut(u.digest \o u.beyond)) \in Seq(Bytes)
<1>1. u.digest \in Seq(Bytes) /\ u.beyond \in Seq(Bytes)
  BY UpgradesAssumption
<1>2. u.digest \o u.beyond \in Seq(Bytes)
  BY <1>1, ConcatProperties
<1>3. Cut(u.digest \o u.beyond) \in Seq(Bytes)
  BY <1>2, CutProperties
<1> QED
  BY <1>3, EncodeType

(* So is what a read is decoded to.                                        *)
LEMMA UnmaskType ==
  ASSUME NEW t \in Seq(Bytes)
  PROVE  /\ Outcome(t) \in {"none", "close", "text", "outside"}
         /\ Outcome(t) = "text" => Unmask(t) \in Seq(Bytes)
<1>1. Outcome(t) \in {"none", "close", "text", "outside"}
  BY DEF Outcome
<1>2. ASSUME Outcome(t) = "text" PROVE Unmask(t) \in Seq(Bytes)
  <2> DEFINE h == FrameKey(t)
             n == Len(t) - h - 4
             U == [i \in 1..n |-> Xor(t[h + 4 + i], t[h + ((i - 1) % 4) + 1])]
  <2>1. h \in Nat /\ Len(t) \in Nat
    BY DEF FrameKey
  <2>2. ~ (Len(t) < h + 4)
    BY <1>2 DEF Outcome
  <2> HIDE DEF h
  <2>3. n \in Nat /\ n + h + 4 = Len(t)
    BY <2>1, <2>2
  <2> HIDE DEF n
  <2>4. ASSUME NEW i \in 1..n
        PROVE  Xor(t[h + 4 + i], t[h + ((i - 1) % 4) + 1]) \in Bytes
    <3> DEFINE j == ((i - 1) % 4) + 1
    <3>1. j \in 1..4
      BY <2>3
    <3>2. h + ((i - 1) % 4) + 1 = h + j
      BY <2>1, <2>3
    <3> HIDE DEF j
    <3>3. h + 4 + i \in 1..Len(t) /\ h + j \in 1..Len(t)
      BY <2>1, <2>3, <3>1
    <3>4. t[h + 4 + i] \in Bytes /\ t[h + j] \in Bytes
      BY <3>3
    <3> QED
      BY <3>2, <3>4, XorProperties
  <2>5. U \in [1..n -> Bytes]
    BY <2>4
  <2> HIDE DEF U
  <2>6. U \in Seq(Bytes)
    BY <2>3, <2>5
  <2> QED
    BY <2>6, Zenon DEF Unmask, U, n, h
<1> QED
  BY <1>1, <1>2

(* At first nothing has been sent.                                         *)
LEMMA InitWInv ==
  ASSUME Init PROVE WInv
<1>1. Laid(<<>>, StreamOf(<<>>))
  <2>1. StreamOf(<<>>) = <<>>
    <3> DEFINE q == [k \in DOMAIN <<>> |-> <<>>[k].bytes]
    <3>1. q = <<>>
      OBVIOUS
    <3>2. FlattenSeq(<<>>) = <<>>
      BY EmptySeq DEF FlattenSeq
    <3> QED
      BY <3>1, <3>2 DEF StreamOf
  <2>2. <<>> \in Seq(Bytes) /\ Len(<<>>) = 0
    BY EmptySeq
  <2> DEFINE e == <<>>
             S == StreamOf(e)
  <2>3. S \in Seq(Bytes) /\ Len(S) = 0 /\ e = <<>> /\ \A k \in 1..Len(e) : FALSE
    <3>1. \A k \in 1..0 : FALSE
      OBVIOUS
    <3> QED
      BY <2>1, <2>2, <3>1, Zenon
  <2> HIDE DEF e, S
  <2>4. Len(S) = IF e = <<>> THEN 0 ELSE End(Last(e))
    BY <2>3
  <2>5. Laid(e, S)
    BY <2>3, <2>4, Zenon DEF Laid
  <2> QED
    BY <2>5 DEF e, S
<1>2. ASSUME NEW read, NEW status PROVE Decoded(<<>>, read) /\ Closed(<<>>, read, status)
  <2>1. DOMAIN <<>> = {}
    OBVIOUS
  <2>2. Range(<<>>) = {}
    BY <2>1 DEF Range
  <2> QED
    BY <2>1, <2>2 DEF Decoded, Closed
<1>3. \A c \in Clients : sent[c] = <<>> /\ last[c] = NoRead
  BY DEF Init
<1>4. TypeOK
  <2>1. <<>> \in Seq(Bytes) /\ Len(<<>>) = 0
    BY EmptySeq
  <2>2. NoRead \in [number : 0..MaxReads, recvs : 0..2, from : Nat, to : Nat,
                    payload : Seq(Bytes), outcome : {"none", "close", "text", "outside"}]
    BY <2>1, BoundsAssumption DEF NoRead
  <2>3. \A c \in Clients : /\ sent[c] \in Seq([frame : Frames(c), bytes : Seq(Bytes), before : Nat])
                           /\ Len(sent[c]) <= MaxFrames
    BY <2>1, BoundsAssumption DEF Init
  <2>4. \A c \in Clients : last[c].to = taken[c] /\ taken[c] <= Total(c)
    BY DEF Init, NoRead, Total
  <2>5. \A c \in Clients : accept[c].status \in {"none", "101", "200"} /\ accept[c].key \in Seq(Bytes)
    BY <2>1 DEF Init, NoAnswer
  <2>6. last \in [Clients -> [number : 0..MaxReads, recvs : 0..2, from : Nat, to : Nat,
                              payload : Seq(Bytes), outcome : {"none", "close", "text", "outside"}]]
    BY <2>2 DEF Init
  <2>7. /\ conn \in [Clients -> {"new", "kept", "closed"}] /\ taken \in [Clients -> Nat]
        /\ inbox \in [Clients -> Seq(Bytes)] /\ messages \in 0..MaxMessages
        /\ \A c \in Clients : conn[c] = "new" => inbox[c] = <<>> /\ sent[c] = <<>>
    BY <2>1, BoundsAssumption DEF Init
  <2>8. aborted \in BOOLEAN
    BY Zenon DEF Init
  <2> QED
    BY <2>3, <2>4, <2>5, <2>6, <2>7, <2>8, Zenon DEF TypeOK
<1>5. AnswerMade
  BY DEF AnswerMade, Init, NoAnswer
<1>6. FramesLaid
  BY <1>1, <1>3, Zenon DEF FramesLaid
<1>7. ReadForward
  BY DEF ReadForward, Init, NoRead
<1>8. WholeFrameDecoded /\ ClosedForTheMask
  BY <1>2, <1>3, OneClient, Zenon
<1>9. DOMAIN sent = Clients /\ DOMAIN accept = Clients
  BY DEF Init
<1> QED
  BY <1>4, <1>5, <1>6, <1>7, <1>8, <1>9 DEF WInv

(* The values of last.                                                     *)
ReadRecords ==
  [number : 0..MaxReads, recvs : 0..2, from : Nat, to : Nat,
   payload : Seq(Bytes), outcome : {"none", "close", "text", "outside"}]

(* The handshake is the first that happens to a connection.                *)
LEMMA HandshakeKeeps ==
  ASSUME WInv, NEW c \in Clients, Handshake(c)
  PROVE  WInv'
<1>1. conn[c] = "new" /\ UNCHANGED <<sent, taken, last, inbox, messages, aborted>>
  BY DEF Handshake
<1>2. PICK u \in Upgrades(c) :
        /\ conn' = [conn EXCEPT ![c] = IF Keeps(u) THEN "kept" ELSE "closed"]
        /\ accept' = [accept EXCEPT ![c] =
             [asked |-> u, status |-> IF u.endpoint = "/websocket" THEN "101" ELSE "200",
              key |-> IF u.endpoint = "/websocket" THEN base64_encode(Cut(u.digest \o u.beyond))
                      ELSE <<>>]]
  BY Zenon DEF Handshake
<1>3. base64_encode(Cut(u.digest \o u.beyond)) \in Seq(Bytes) /\ <<>> \in Seq(Bytes)
  BY KeyType, EmptySeq
<1>4. conn \in [Clients -> {"new", "kept", "closed"}] /\ DOMAIN accept = Clients
  BY DEF WInv, TypeOK
<1>5. conn' \in [Clients -> {"new", "kept", "closed"}] /\ conn'[c] # "new"
      /\ \A d \in Clients : d # c => conn'[d] = conn[d]
  BY <1>2, <1>4
<1> DEFINE key == base64_encode(Cut(u.digest \o u.beyond))
<1>6. /\ DOMAIN accept' = Clients
      /\ \A d \in Clients : d # c => accept'[d] = accept[d]
      /\ accept'[c].asked = u
      /\ accept'[c].status = IF u.endpoint = "/websocket" THEN "101" ELSE "200"
      /\ accept'[c].key = IF u.endpoint = "/websocket" THEN key ELSE <<>>
  <2> HIDE DEF key
  <2> QED
    BY <1>2, <1>4 DEF key
<1>7. TypeOK'
  <2>1. \A d \in Clients : accept'[d].status \in {"none", "101", "200"} /\ accept'[d].key \in Seq(Bytes)
    <3> TAKE d \in Clients
    <3>1. CASE d = c
      <4> HIDE DEF key
      <4> QED
        BY <1>3, <1>6, <3>1 DEF key
    <3>2. CASE d # c
      BY <1>6, <3>2 DEF WInv, TypeOK
    <3> QED
      BY <3>1, <3>2
  <2>2. \A d \in Clients : conn'[d] = "new" => inbox'[d] = <<>> /\ sent'[d] = <<>>
    BY <1>1, <1>5 DEF WInv, TypeOK
  <2>3. \A d \in Clients : Total(d)' = Total(d)
    BY <1>1 DEF Total
  <2> QED
    BY <1>1, <1>5, <2>1, <2>2, <2>3, Zenon DEF WInv, TypeOK
<1>8. AnswerMade'
  <2> SUFFICES ASSUME NEW d \in Clients, accept'[d].status = "101"
               PROVE  /\ accept'[d].asked \in Upgrades(d)
                      /\ accept'[d].key = base64_encode(Cut(accept'[d].asked.digest \o accept'[d].asked.beyond))
    BY Zenon DEF AnswerMade
  <2>1. CASE d = c
    <3>1. u.endpoint = "/websocket"
      BY <1>6, <2>1
    <3> QED
      BY <1>6, <2>1, <3>1, Zenon
  <2>2. CASE d # c
    BY <1>6, <2>2, Zenon DEF WInv, AnswerMade
  <2> QED
    BY <2>1, <2>2
<1>9. FramesLaid' /\ ReadForward' /\ DOMAIN sent' = Clients
  BY <1>1, Zenon DEF WInv, FramesLaid, ReadForward
<1>10. \A d \in Clients : Decoded(sent[d], last[d]) /\ Closed(sent[d], last[d], conn[d])
  BY OneClient, Zenon DEF WInv
<1>11. sent[c] = <<>>
  BY <1>1 DEF WInv, TypeOK
<1>12. \A d \in Clients : Decoded(sent'[d], last'[d]) /\ Closed(sent'[d], last'[d], conn'[d])
  <2> TAKE d \in Clients
  <2>1. Decoded(sent'[d], last'[d])
    BY <1>1, <1>10, Zenon
  <2>2. CASE d = c
    <3>1. Range(<<>>) = {}
      BY DEF Range
    <3>2. Closed(<<>>, last[c], conn'[c])
      BY <3>1, Zenon DEF Closed
    <3> QED
      BY <1>1, <1>11, <2>1, <2>2, <3>2, Zenon
  <2>3. CASE d # c
    BY <1>1, <1>5, <1>10, <2>1, <2>3, Zenon
  <2> QED
    BY <2>2, <2>3
<1>13. WholeFrameDecoded' /\ ClosedForTheMask'
  BY <1>12, OneClient, Zenon
<1> QED
  BY <1>6, <1>7, <1>8, <1>9, <1>13 DEF WInv

(* No read has begun with a frame that is sent after it.                   *)
LEMMA SentLater ==
  ASSUME NEW c, NEW s \in Seq(Records(c)), NEW e \in Records(c), NEW read,
         read.from \in Nat, read.to \in Nat, read.from <= read.to, read.to <= e.before,
         NEW status, Decoded(s, read), Closed(s, read, status)
  PROVE  Decoded(Append(s, e), read) /\ Closed(Append(s, e), read, status)
<1> DEFINE t == Append(s, e)
           n == Len(s)
<1>1. /\ Len(t) = n + 1 /\ n \in Nat /\ t \in Seq(Records(c))
      /\ \A k \in 1..n : t[k] = s[k]
      /\ t[n + 1] = e
  BY AppendProperties
<1>2. DOMAIN s = 1..n /\ DOMAIN t = 1..n + 1
  <2>1. DOMAIN t = 1..Len(t)
    BY <1>1, LenProperties
  <2> HIDE DEF t
  <2> QED
    BY <1>1, <2>1
<1> HIDE DEF t, n
<1>3. ~ Began(read, e)
  <2>1. e.before \in Nat
    BY DEF Records
  <2> QED
    BY <2>1 DEF Began
<1>4. \A k \in 1..n + 1 : Began(read, t[k]) => k \in 1..n /\ t[k] = s[k]
  <2> TAKE k \in 1..n + 1
  <2>1. CASE k = n + 1
    BY <1>1, <1>3, <2>1
  <2>2. CASE k # n + 1
    BY <1>1, <2>2
  <2> QED
    BY <2>1, <2>2
<1>5. Decoded(t, read)
  <2> SUFFICES ASSUME NEW k \in 1..n + 1, Began(read, t[k]), read.to >= End(t[k]),
                      read.to - read.from < BufferSize,
                      t[k].frame.fin, t[k].frame.masked, t[k].frame.payload # <<>>
               PROVE  LET f       == t[k]
                          payload == f.frame.payload
                      IN IF Cut(f.bytes) = f.bytes
                         THEN /\ IsPrefix(payload, read.payload)
                              /\ read.to = End(f) => read.payload = payload
                              /\ read.payload = payload =>
                                   (read.to = End(f) \/ (k < Len(t) /\ t[k + 1].bytes[1] = 0))
                         ELSE (read.recvs = 1 \/ Len(Cut(f.bytes)) >= FrameKey(f.bytes) + 4)
                                => ~IsPrefix(payload, read.payload)
    BY <1>2, Zenon DEF Decoded
  <2>1. k \in 1..n /\ t[k] = s[k]
    BY <1>4
  <2>2. k < n => k < Len(t) /\ t[k + 1] = s[k + 1]
    <3> SUFFICES ASSUME k < n PROVE k < Len(t) /\ t[k + 1] = s[k + 1]
      OBVIOUS
    <3>1. k + 1 \in 1..n /\ k < n + 1
      BY <1>1
    <3> QED
      BY <1>1, <3>1
  <2>3. LET f       == s[k]
            payload == f.frame.payload
        IN IF Cut(f.bytes) = f.bytes
           THEN /\ IsPrefix(payload, read.payload)
                /\ read.to = End(f) => read.payload = payload
                /\ read.payload = payload =>
                     (read.to = End(f) \/ (k < n /\ s[k + 1].bytes[1] = 0))
           ELSE (read.recvs = 1 \/ Len(Cut(f.bytes)) >= FrameKey(f.bytes) + 4)
                  => ~IsPrefix(payload, read.payload)
    BY <1>2, <2>1, Zenon DEF Decoded, n
  <2> QED
    BY <2>1, <2>2, <2>3, Zenon
<1>6. Closed(t, read, status)
  <2> SUFFICES ASSUME NEW f \in Range(t), Began(read, f),
                      read.recvs = 1 \/ (f.bytes[1] # 0 /\ f.bytes[2] # 0)
               PROVE  status = "closed" <=> /\ f.frame.fin
                                            /\ ~f.frame.masked \/ read.to = read.from + 1
    BY Zenon DEF Closed
  <2>1. PICK k \in 1..n + 1 : f = t[k]
    BY <1>2 DEF Range
  <2>2. f = s[k] /\ k \in 1..n
    BY <1>4, <2>1
  <2>3. f \in Range(s)
    BY <1>2, <2>2 DEF Range
  <2> QED
    BY <2>3, Zenon DEF Closed
<1> QED
  BY <1>5, <1>6 DEF t

(* A frame is sent: the stream grows at its end.                           *)
LEMMA SendFrameKeeps ==
  ASSUME WInv, NEW c \in Clients, SendFrame(c)
  PROVE  WInv'
<1>1. conn[c] = "kept" /\ Len(sent[c]) < MaxFrames
      /\ UNCHANGED <<conn, accept, taken, last, inbox, messages, aborted>>
  BY DEF SendFrame
<1>2. PICK f \in Frames(c) : sent' = [sent EXCEPT ![c] = Append(@,
        [frame |-> f, bytes |-> FrameBytes(f), before |-> Total(c)])]
  BY Zenon DEF SendFrame
<1> DEFINE s == sent[c]
           S == StreamOf(s)
           F == FrameBytes(f)
           e == [frame |-> f, bytes |-> F, before |-> Len(S)]
<1>3. /\ DOMAIN sent = Clients /\ s \in Seq(Records(c)) /\ Laid(s, S)
      /\ Total(c) = Len(S) /\ Len(s) \in Nat
  <2>1. DOMAIN sent = Clients /\ s \in Seq(Records(c)) /\ Laid(s, S)
    BY DEF WInv, TypeOK, FramesLaid, Records
  <2>2. Total(c) = Len(S)
    BY <2>1, Zenon DEF Laid, Total
  <2> QED
    BY <2>1, <2>2
<1>4. IsFrame(f) /\ F \in Seq(Bytes) /\ Len(F) \in Nat
  <2>1. IsFrame(f)
    BY <1>2, FramesAssumption, SMT DEF IsFrame
  <2>2. F \in Seq(Bytes)
    BY <2>1, FrameLength, Zenon
  <2> QED
    BY <2>1, <2>2
<1>5. S \in Seq(Bytes) /\ Len(S) \in Nat
  BY <1>3 DEF Laid
<1>6. e \in Records(c)
  <2> HIDE DEF F, S
  <2> QED
    BY <1>4, <1>5 DEF Records
<1>7. /\ sent'[c] = Append(s, e) /\ DOMAIN sent' = Clients
      /\ \A d \in Clients : d # c => sent'[d] = sent[d]
  <2>1. sent' = [sent EXCEPT ![c] = Append(s, e)]
    BY <1>2, <1>3, Zenon
  <2> HIDE DEF e
  <2> QED
    BY <1>3, <2>1
<1>8. e.bytes = F /\ e.before = Len(S)
  OBVIOUS
<1> HIDE DEF e, F, S, s
<1>9. Append(s, e) \in Seq(Records(c)) /\ Len(Append(s, e)) = Len(s) + 1
  BY <1>3, <1>6, AppendProperties
<1>10. StreamOf(Append(s, e)) = S \o F
  BY <1>3, <1>6, <1>8, StreamAppend DEF S
<1>11. Laid(Append(s, e), S \o F)
  BY <1>3, <1>4, <1>6, LaidAppend DEF e, F
<1>12. FramesLaid'
  <2> SUFFICES ASSUME NEW d \in Clients PROVE Laid(sent'[d], StreamOf(sent'[d]))
    BY Zenon DEF FramesLaid
  <2>1. CASE d = c
    BY <1>7, <1>10, <1>11, <2>1, Zenon
  <2>2. CASE d # c
    BY <1>7, <2>2, Zenon DEF WInv, FramesLaid
  <2> QED
    BY <2>1, <2>2
<1>13. Total(c)' = Len(S) + Len(F)
  <2>1. Len(S \o F) = Len(S) + Len(F)
    BY <1>4, <1>5, ConcatProperties
  <2>2. Len(S \o F) = IF Append(s, e) = <<>> THEN 0 ELSE End(Last(Append(s, e)))
    BY <1>11, Zenon DEF Laid
  <2> QED
    BY <1>7, <2>1, <2>2, Zenon DEF Total
<1>14. TypeOK'
  <2>1. \A d \in Clients : /\ sent'[d] \in Seq([frame : Frames(d), bytes : Seq(Bytes), before : Nat])
                           /\ Len(sent'[d]) <= MaxFrames
    <3> TAKE d \in Clients
    <3>1. CASE d = c
      <4>1. Append(s, e) \in Seq([frame : Frames(c), bytes : Seq(Bytes), before : Nat])
        BY <1>9 DEF Records
      <4>2. Len(s) + 1 <= MaxFrames
        BY <1>1, <1>3, BoundsAssumption DEF s
      <4> QED
        BY <1>7, <1>9, <3>1, <4>1, <4>2, Zenon
    <3>2. CASE d # c
      BY <1>7, <3>2, Zenon DEF WInv, TypeOK
    <3> QED
      BY <3>1, <3>2
  <2>2. \A d \in Clients : last'[d].to = taken'[d] /\ taken'[d] <= Total(d)'
    <3> TAKE d \in Clients
    <3>1. last'[d].to = taken'[d] /\ taken'[d] = taken[d] /\ taken[d] <= Total(d) /\ taken[d] \in Nat
      BY <1>1, Zenon DEF WInv, TypeOK
    <3>2. CASE d = c
      <4>1. taken[d] <= Len(S)
        BY <1>3, <3>1, <3>2 DEF S, s
      <4> QED
        BY <1>4, <1>5, <1>13, <3>1, <3>2, <4>1
    <3>3. CASE d # c
      <4>1. Total(d)' = Total(d)
        BY <1>7, <3>3, Zenon DEF Total
      <4> QED
        BY <3>1, <4>1
    <3> QED
      BY <3>2, <3>3
  <2>3. \A d \in Clients : conn'[d] = "new" => inbox'[d] = <<>> /\ sent'[d] = <<>>
    <3> TAKE d \in Clients
    <3>1. CASE d = c
      <4>1. conn'[d] # "new"
        BY <1>1, <3>1
      <4> QED
        BY <4>1
    <3>2. CASE d # c
      BY <1>1, <1>7, <3>2, Zenon DEF WInv, TypeOK
    <3> QED
      BY <3>1, <3>2
  <2> QED
    BY <1>1, <2>1, <2>2, <2>3, Zenon DEF WInv, TypeOK
<1>15. AnswerMade' /\ ReadForward' /\ DOMAIN accept' = Clients
  BY <1>1, Zenon DEF WInv, AnswerMade, ReadForward
<1>16. \A d \in Clients : Decoded(sent[d], last[d]) /\ Closed(sent[d], last[d], conn[d])
  BY OneClient, Zenon DEF WInv
<1>17. Decoded(Append(s, e), last[c]) /\ Closed(Append(s, e), last[c], conn[c])
  <2> DEFINE read == last[c]
  <2>1. read \in ReadRecords
    BY DEF WInv, TypeOK, ReadRecords
  <2>2. read.from \in Nat /\ read.to \in Nat
    BY <2>1 DEF ReadRecords
  <2>3. read.from <= read.to
    BY DEF WInv, ReadForward
  <2>4. read.to <= e.before
    BY <1>3, <1>8 DEF WInv, TypeOK
  <2>5. Decoded(s, read) /\ Closed(s, read, conn[c])
    BY <1>16 DEF s
  <2> HIDE DEF read
  <2>6. Decoded(Append(s, e), read) /\ Closed(Append(s, e), read, conn[c])
    BY <1>3, <1>6, <2>2, <2>3, <2>4, <2>5, SentLater
  <2> QED
    BY <2>6 DEF read
<1>18. \A d \in Clients : Decoded(sent'[d], last'[d]) /\ Closed(sent'[d], last'[d], conn'[d])
  <2> TAKE d \in Clients
  <2>1. CASE d = c
    BY <1>1, <1>7, <1>17, <2>1, Zenon
  <2>2. CASE d # c
    BY <1>1, <1>7, <1>16, <2>2, Zenon
  <2> QED
    BY <2>1, <2>2
<1>19. WholeFrameDecoded' /\ ClosedForTheMask'
  BY <1>18, OneClient, Zenon
<1> QED
  BY <1>7, <1>12, <1>14, <1>15, <1>19 DEF WInv

(* A read: what it decodes and whether it closes is ReadEstablishes.       *)
LEMMA PollKeeps ==
  ASSUME WInv, NEW c \in Clients, Poll(c)
  PROVE  WInv'
<1> DEFINE s == sent[c]
           S == StreamOf(s)
           from == taken[c]
<1>1. /\ conn[c] = "kept" /\ last[c].number < MaxReads /\ Unread(c) # <<>>
      /\ UNCHANGED <<accept, sent, inbox, messages>>
  BY DEF Poll
<1>2. PICK r \in Reads(Unread(c)) :
        LET outcome == Outcome(r.text)
        IN /\ taken' = [taken EXCEPT ![c] = @ + r.taken]
           /\ last' = [last EXCEPT ![c] =
                [number |-> last[c].number + 1, recvs |-> r.recvs,
                 from |-> taken[c], to |-> taken[c] + r.taken, outcome |-> outcome,
                 payload |-> IF outcome = "text" THEN Unmask(r.text) ELSE <<>>]]
           /\ conn' = IF outcome = "close" THEN [conn EXCEPT ![c] = "closed"] ELSE conn
           /\ IF outcome = "outside" THEN aborted' \in BOOLEAN ELSE UNCHANGED aborted
  BY Zenon DEF Poll
<1> DEFINE o == Outcome(r.text)
           p == IF o = "text" THEN Unmask(r.text) ELSE <<>>
           read == [number |-> last[c].number + 1, recvs |-> r.recvs,
                    from |-> from, to |-> from + r.taken, outcome |-> o, payload |-> p]
<1>3. /\ DOMAIN sent = Clients /\ s \in Seq(Records(c)) /\ Laid(s, S)
      /\ conn \in [Clients -> {"new", "kept", "closed"}]
      /\ taken \in [Clients -> Nat] /\ last \in [Clients -> ReadRecords]
  BY DEF WInv, TypeOK, FramesLaid, Records, ReadRecords
<1>4. S \in Seq(Bytes) /\ Len(S) \in Nat /\ from \in Nat
  BY <1>3 DEF Laid
<1>5. Unread(c) = Substr(S, from)
  BY Zenon DEF Unread, StreamOf
<1>6. Total(c) = Len(S)
  BY <1>3, Zenon DEF Laid, Total
<1> HIDE DEF S, s, from
<1>7. /\ Substr(S, from) \in Seq(Bytes) /\ Len(Substr(S, from)) = Len(S) - from
      /\ from < Len(S) /\ r \in Reads(Substr(S, from)) /\ Substr(S, from) # <<>>
  <2>1. /\ Substr(S, from) \in Seq(Bytes)
        /\ Substr(S, from) # <<>> <=> from < Len(S)
        /\ from <= Len(S) => /\ Len(Substr(S, from)) = Len(S) - from
                             /\ \A i \in 1..Len(S) - from : Substr(S, from)[i] = S[from + i]
    BY <1>4, SubstrProperties, Zenon
  <2>2. Substr(S, from) # <<>> /\ r \in Reads(Substr(S, from))
    BY <1>1, <1>5, Zenon
  <2>3. from < Len(S)
    BY <2>1, <2>2, Zenon
  <2>4. from <= Len(S)
    BY <1>4, <2>3
  <2> QED
    BY <2>1, <2>2, <2>3, <2>4, Zenon
<1>8. r.taken \in 1..Len(Substr(S, from)) /\ r.recvs \in {1, 2} /\ r.text \in Seq(Bytes)
  BY <1>7, ReadType
<1>9. /\ r.taken \in Nat /\ r.taken > 0 /\ from + r.taken <= Len(S) /\ from + r.taken \in Nat
      /\ from <= from + r.taken
  <2>1. r.taken \in 1..Len(S) - from
    BY <1>7, <1>8, Zenon
  <2> QED
    BY <1>4, <1>7, <2>1
<1>10. o \in {"none", "close", "text", "outside"} /\ p \in Seq(Bytes)
  <2>1. o \in {"none", "close", "text", "outside"} /\ (o = "text" => Unmask(r.text) \in Seq(Bytes))
    BY <1>8, UnmaskType
  <2> HIDE DEF o
  <2>2. <<>> \in Seq(Bytes)
    BY EmptySeq
  <2> QED
    BY <2>1, <2>2
<1>11. /\ taken' = [taken EXCEPT ![c] = from + r.taken] /\ last' = [last EXCEPT ![c] = read]
       /\ conn' = IF o = "close" THEN [conn EXCEPT ![c] = "closed"] ELSE conn
       /\ IF o = "outside" THEN aborted' \in BOOLEAN ELSE UNCHANGED aborted
  BY <1>2, Zenon DEF from
<1>12. read \in ReadRecords
  <2>1. last[c].number + 1 \in 0..MaxReads
    <3>1. last[c].number \in 0..MaxReads
      BY <1>3 DEF ReadRecords
    <3> QED
      BY <1>1, <3>1, BoundsAssumption
  <2>2. r.recvs \in 0..2
    BY <1>8
  <2> HIDE DEF o, p
  <2> QED
    BY <1>4, <1>9, <1>10, <2>1, <2>2 DEF ReadRecords
<1>13. read.from = from /\ read.to = from + r.taken /\ read.recvs = r.recvs /\ read.payload = p
  OBVIOUS
<1> HIDE DEF read, p, o
<1>14. /\ taken'[c] = from + r.taken /\ \A d \in Clients : d # c => taken'[d] = taken[d]
       /\ taken' \in [Clients -> Nat]
  BY <1>3, <1>9, <1>11
<1>15. /\ last'[c] = read /\ \A d \in Clients : d # c => last'[d] = last[d]
       /\ last' \in [Clients -> ReadRecords]
  BY <1>3, <1>11, <1>12
<1>16. /\ conn'[c] = IF o = "close" THEN "closed" ELSE "kept"
       /\ \A d \in Clients : d # c => conn'[d] = conn[d]
       /\ conn' \in [Clients -> {"new", "kept", "closed"}]
  <2>1. CASE o = "close"
    BY <1>3, <1>11, <2>1
  <2>2. CASE o # "close"
    BY <1>1, <1>3, <1>11, <2>2
  <2> QED
    BY <2>1, <2>2
<1>17. aborted' \in BOOLEAN
  <2>1. aborted \in BOOLEAN
    BY Zenon DEF WInv, TypeOK
  <2> QED
    BY <1>11, <2>1, Zenon
<1>18. TypeOK'
  <2>1. \A d \in Clients : last'[d].to = taken'[d] /\ taken'[d] <= Total(d)'
    <3> TAKE d \in Clients
    <3>1. Total(d)' = Total(d)
      BY <1>1, Zenon DEF Total
    <3>2. CASE d = c
      BY <1>6, <1>9, <1>13, <1>14, <1>15, <3>1, <3>2
    <3>3. CASE d # c
      BY <1>14, <1>15, <3>1, <3>3, Zenon DEF WInv, TypeOK
    <3> QED
      BY <3>2, <3>3
  <2>2. \A d \in Clients : conn'[d] = "new" => inbox'[d] = <<>> /\ sent'[d] = <<>>
    <3> TAKE d \in Clients
    <3>1. CASE d = c
      BY <1>16, <3>1
    <3>2. CASE d # c
      BY <1>1, <1>16, <3>2, Zenon DEF WInv, TypeOK
    <3> QED
      BY <3>1, <3>2
  <2> QED
    BY <1>1, <1>14, <1>15, <1>16, <1>17, <2>1, <2>2, Zenon DEF WInv, TypeOK, ReadRecords
<1>19. AnswerMade' /\ FramesLaid' /\ DOMAIN sent' = Clients /\ DOMAIN accept' = Clients
  BY <1>1, Zenon DEF WInv, AnswerMade, FramesLaid
<1>20. ReadForward'
  <2> SUFFICES ASSUME NEW d \in Clients PROVE last'[d].from <= last'[d].to
    BY DEF ReadForward
  <2>1. CASE d = c
    BY <1>9, <1>13, <1>15, <2>1
  <2>2. CASE d # c
    BY <1>15, <2>2, Zenon DEF WInv, ReadForward
  <2> QED
    BY <2>1, <2>2
<1>21. Decoded(s, read) /\ Closed(s, read, conn'[c])
  <2>1. s \in Seq(Records(c)) /\ Laid(s, S) /\ from \in Nat
    BY <1>3, <1>4
  <2>2. read.payload = IF Outcome(r.text) = "text" THEN Unmask(r.text) ELSE <<>>
    BY <1>13, Zenon DEF p, o
  <2>3. conn'[c] = "closed" <=> Outcome(r.text) = "close"
    BY <1>16 DEF o
  <2> QED
    BY <1>7, <1>13, <2>1, <2>2, <2>3, ReadEstablishes, Zenon
<1>22. \A d \in Clients : Decoded(sent[d], last[d]) /\ Closed(sent[d], last[d], conn[d])
  BY OneClient, Zenon DEF WInv
<1>23. \A d \in Clients : Decoded(sent'[d], last'[d]) /\ Closed(sent'[d], last'[d], conn'[d])
  <2> TAKE d \in Clients
  <2>1. CASE d = c
    BY <1>1, <1>15, <1>21, <2>1, Zenon DEF s
  <2>2. CASE d # c
    BY <1>1, <1>15, <1>16, <1>22, <2>2, Zenon
  <2> QED
    BY <2>1, <2>2
<1>24. WholeFrameDecoded' /\ ClosedForTheMask'
  BY <1>23, OneClient, Zenon
<1> QED
  BY <1>18, <1>19, <1>20, <1>24 DEF WInv

(* A message to all: a connection that is kept is not new.                 *)
LEMMA SendToAllKeeps ==
  ASSUME WInv, NEW m \in Messages, SendToAll(m)
  PROVE  WInv'
<1>1. /\ messages < MaxMessages /\ messages' = messages + 1
      /\ inbox' = [c \in Clients |-> IF conn[c] = "kept" THEN inbox[c] \o Cut(m) \o <<0>> ELSE inbox[c]]
      /\ UNCHANGED <<conn, accept, sent, taken, last, aborted>>
  BY Zenon DEF SendToAll
<1>2. Cut(m) \in Seq(Bytes) /\ <<0>> \in Seq(Bytes)
  <2>1. 0 \in Bytes
    BY DEF Bytes
  <2> QED
    BY <2>1, MessagesAssumption, CutProperties
<1>3. \A c \in Clients : inbox[c] \in Seq(Bytes)
  BY DEF WInv, TypeOK
<1>4. \A c \in Clients : inbox[c] \o Cut(m) \o <<0>> \in Seq(Bytes)
  BY <1>2, <1>3, ConcatProperties
<1>5. inbox' \in [Clients -> Seq(Bytes)]
  BY <1>1, <1>3, <1>4
<1>6. \A c \in Clients : conn'[c] = "new" => inbox'[c] = <<>> /\ sent'[c] = <<>>
  BY <1>1 DEF WInv, TypeOK
<1>7. messages' \in 0..MaxMessages
  BY <1>1, BoundsAssumption DEF WInv, TypeOK
<1>8. TypeOK'
  <2>1. \A c \in Clients : Total(c)' = Total(c)
    BY <1>1, Zenon DEF Total
  <2> QED
    BY <1>1, <1>5, <1>6, <1>7, <2>1, Zenon DEF WInv, TypeOK
<1>9. AnswerMade' /\ FramesLaid' /\ ReadForward' /\ DOMAIN sent' = Clients /\ DOMAIN accept' = Clients
  BY <1>1, Zenon DEF WInv, AnswerMade, FramesLaid, ReadForward
<1>10. WholeFrameDecoded' /\ ClosedForTheMask'
  BY <1>1, OneClient, Zenon DEF WInv
<1> QED
  BY <1>8, <1>9, <1>10 DEF WInv

(* Nothing else happens to a websocket.                                    *)
LEMMA WebsocketInvariant == Spec => []WInv
<1>1. ASSUME WInv, UNCHANGED vars PROVE WInv'
  <2>1. UNCHANGED <<conn, accept, sent, taken, last, inbox, messages, aborted>>
    BY <1>1, Zenon DEF vars
  <2>2. \A c \in Clients : Total(c)' = Total(c)
    BY <2>1, Zenon DEF Total
  <2>3. TypeOK'
    BY <1>1, <2>1, <2>2, Zenon DEF WInv, TypeOK
  <2>4. AnswerMade' /\ FramesLaid' /\ ReadForward' /\ DOMAIN sent' = Clients /\ DOMAIN accept' = Clients
    BY <1>1, <2>1, Zenon DEF WInv, AnswerMade, FramesLaid, ReadForward
  <2>5. WholeFrameDecoded' /\ ClosedForTheMask'
    BY <1>1, <2>1, OneClient, Zenon DEF WInv
  <2> QED
    BY <2>3, <2>4, <2>5 DEF WInv
<1>2. ASSUME WInv, Next PROVE WInv'
  BY <1>2, HandshakeKeeps, SendFrameKeeps, PollKeeps, SendToAllKeeps, Zenon DEF Next
<1> QED
  BY InitWInv, <1>1, <1>2, PTL DEF Spec

-----------------------------------------------------------------------------
(* Types, and what was read had been sent, whatever the clients ask and    *)
(* send and however recv() cuts it (http_server.cpp:206, 331, 405).        *)
THEOREM WebsocketType == Spec => []TypeOK
<1>1. WInv => TypeOK
  BY Zenon DEF WInv
<1> QED
  BY <1>1, WebsocketInvariant, PTL

(* What a read makes of a frame that it begins with and has all of, for    *)
(* every payload shorter than 65536 bytes, every key and every cut of the  *)
(* stream: the payload exactly when no byte of the frame is zero           *)
(* (http_server.cpp:217, 425-440).                                         *)
THEOREM FrameIsDecoded == Spec => []WholeFrameDecoded
<1>1. WInv => WholeFrameDecoded
  BY Zenon DEF WInv
<1> QED
  BY <1>1, WebsocketInvariant, PTL

(* A read closes the connection for a frame without a mask, and for one    *)
(* of which it has one byte (http_server.cpp:414-419).                     *)
THEOREM ClosedIsTheMask == Spec => []ClosedForTheMask
<1>1. WInv => ClosedForTheMask
  BY Zenon DEF WInv
<1> QED
  BY <1>1, WebsocketInvariant, PTL

(* Sec-WebSocket-Accept is the base64 text of what strlen() finds, for     *)
(* every digest and whatever stands behind it                              *)
(* (http_server_tests_etc/Source.cpp:50-51).                               *)
THEOREM KeyText == Spec => []KeyIsText
<1>1. ASSUME WInv PROVE KeyIsText
  <2> SUFFICES ASSUME NEW c \in Clients, accept[c].status = "101"
               PROVE  accept[c].key
                        = Base64Text(Cut(accept[c].asked.digest \o accept[c].asked.beyond))
    BY Zenon DEF KeyIsText
  <2> DEFINE u == accept[c].asked
  <2>1. u \in Upgrades(c) /\ accept[c].key = base64_encode(Cut(u.digest \o u.beyond))
    BY <1>1, Zenon DEF WInv, AnswerMade
  <2> HIDE DEF u
  <2>2. Cut(u.digest \o u.beyond) \in Seq(Bytes)
    BY <2>1, KeyType
  <2>3. accept[c].key = Base64Text(Cut(u.digest \o u.beyond))
    BY <2>1, <2>2, EncodeIsText, Zenon
  <2> QED
    BY <2>3, Zenon DEF u
<1> QED
  BY <1>1, WebsocketInvariant, PTL

(* When that is the text of the digest: when the digest has no zero byte   *)
(* and a zero behind it.                                                   *)
AcceptIsWhole ==
  \A c \in Clients :
    LET u == accept[c].asked
    IN accept[c].status = "101" =>
         (accept[c].key = Base64Text(u.digest) <=> Cut(u.digest) = u.digest /\ Cut(u.beyond) = <<>>)

(* The answer to an upgrade is the one of RFC 6455 exactly when the digest *)
(* is a C string, for digests of any length                                *)
(* (http_server_tests_etc/Source.cpp:43-51).                               *)
THEOREM AcceptIsText == Spec => []AcceptIsWhole
<1>1. ASSUME WInv PROVE AcceptIsWhole
  <2> SUFFICES ASSUME NEW c \in Clients, accept[c].status = "101"
               PROVE  accept[c].key = Base64Text(accept[c].asked.digest) <=>
                        /\ Cut(accept[c].asked.digest) = accept[c].asked.digest
                        /\ Cut(accept[c].asked.beyond) = <<>>
    BY Zenon DEF AcceptIsWhole
  <2> DEFINE u == accept[c].asked
  <2>1. u \in Upgrades(c) /\ accept[c].key = base64_encode(Cut(u.digest \o u.beyond))
    BY <1>1, Zenon DEF WInv, AnswerMade
  <2> HIDE DEF u
  <2>2. u.digest \in Seq(Bytes) /\ u.beyond \in Seq(Bytes) /\ Cut(u.digest \o u.beyond) \in Seq(Bytes)
    BY <2>1, KeyType, UpgradesAssumption
  <2>3. Base64Text(u.digest) = base64_encode(u.digest)
    BY <2>2, EncodeIsText
  <2>4. accept[c].key = Base64Text(u.digest) <=> Cut(u.digest \o u.beyond) = u.digest
    BY <2>1, <2>2, <2>3, EncodeInjective, Zenon
  <2>5. Cut(u.digest \o u.beyond) = u.digest <=> Cut(u.digest) = u.digest /\ Cut(u.beyond) = <<>>
    BY <2>2, CutConcat, Zenon
  <2> QED
    BY <2>4, <2>5, Zenon DEF u
<1> QED
  BY <1>1, WebsocketInvariant, PTL

(* b64decode gives back what base64_encode was given, of any length and    *)
(* with any of its padding taken off (http_utils.h:93-162).                *)
THEOREM EncodedDecodes == Spec => []DecodesBack
<1>1. ASSUME WInv PROVE DecodesBack
  <2> SUFFICES ASSUME NEW c \in Clients, accept[c].status = "101",
                      NEW n \in 0..Len(accept[c].key),
                      \A i \in n + 1..Len(accept[c].key) : accept[c].key[i] = Pad
               PROVE  b64decode(SubSeq(accept[c].key, 1, n))
                        = Cut(accept[c].asked.digest \o accept[c].asked.beyond)
    BY Zenon DEF DecodesBack
  <2> DEFINE u == accept[c].asked
             d == Cut(u.digest \o u.beyond)
  <2>1. u \in Upgrades(c) /\ accept[c].key = base64_encode(d)
    BY <1>1, Zenon DEF WInv, AnswerMade
  <2>2. d \in Seq(Bytes)
    <3> HIDE DEF u
    <3> QED
      BY <2>1, KeyType
  <2> HIDE DEF d
  <2>3. n \in 0..Len(base64_encode(d)) /\ \A i \in n + 1..Len(base64_encode(d)) : base64_encode(d)[i] = Pad
    BY <2>1, Zenon
  <2>4. b64decode(SubSeq(base64_encode(d), 1, n)) = d
    BY <2>2, <2>3, DecodeEncoded, Zenon
  <2> QED
    BY <2>1, <2>4, Zenon DEF d
<1> QED
  BY <1>1, WebsocketInvariant, PTL
=============================================================================
