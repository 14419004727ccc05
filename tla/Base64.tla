-------------------------------- MODULE Base64 --------------------------------
(***************************************************************************)
(* base64_encode and b64decode of http_utils.h on sequences of bytes, and  *)
(* what they should compute: the text of the bits, six by six.             *)
(***************************************************************************)
EXTENDS Integers, SequencesExt

Bytes == 0..255

Pad == 61   \* '='

(* Of a six-bit value, its character: A-Z a-z 0-9 + /                      *)
base64_table ==
  [i \in 0..63 |-> IF i < 26 THEN 65 + i ELSE IF i < 52 THEN 71 + i ELSE IF i < 62 THEN i - 4
                   ELSE IF i = 62 THEN 43 ELSE 47]

(* Of a character, its value; also of "," "-" "." and "_"; 0 of all others. *)
B64index ==
  [c \in Bytes |-> IF c \in {43, 45, 46} THEN 62 ELSE IF c \in {44, 47, 95} THEN 63
                   ELSE IF c \in 48..57 THEN c + 4 ELSE IF c \in 65..90 THEN c - 65
                   ELSE IF c \in 97..122 THEN c - 71 ELSE 0]

Second_NoCarry(a, b) == base64_table[(a % 4) * 16]

(* The four characters of three bytes: the masks and shifts of the code as *)
(* remainders and quotients.                                               *)
First(a)     == base64_table[a \div 4]
Second(a, b) == base64_table[(a % 4) * 16 + b \div 16]
Third(b, c)  == base64_table[(b % 16) * 4 + c \div 64]
Fourth(c)    == base64_table[c % 64]

(* Those of the three bytes behind the first i, or of the one or two that  *)
(* are left in the end.                                                    *)
Group(src, i) ==
  LET in(j) == IF i + j <= Len(src) THEN src[i + j] ELSE 0
  IN <<First(in(1)), Second(in(1), in(2)),
       IF Len(src) - i > 1 THEN Third(in(2), in(3)) ELSE Pad,
       IF Len(src) - i > 2 THEN Fourth(in(3)) ELSE Pad>>

base64_encode(src) ==
  [k \in 1..4 * ((Len(src) + 2) \div 3) |-> Group(src, 3 * ((k - 1) \div 4))[((k - 1) % 4) + 1]]

(* The 24 bits of the four characters after the first i; 0 past the end.   *)
Quad(p, i) ==
  LET V(k) == IF k <= Len(p) THEN B64index[p[k]] ELSE 0
  IN V(i + 1) * 262144 + V(i + 2) * 4096 + V(i + 3) * 64 + V(i + 4)

Triple(n) == <<n \div 65536, (n \div 256) % 256, n % 256>>

b64decode_NoPad(p) ==
  [j \in 1..3 * ((Len(p) + 3) \div 4) |-> Triple(Quad(p, 4 * ((j - 1) \div 3)))[((j - 1) % 3) + 1]]

(* pad is 1 when the last group is not four characters of text: it gives   *)
(* one byte then, or two when it has a third character.                    *)
b64decode(p) ==
  LET pad == IF p # <<>> /\ (Len(p) % 4 # 0 \/ Last(p) = Pad) THEN 1 ELSE 0
      L   == ((Len(p) + 3) \div 4 - pad) * 4
      size == (L \div 4) * 3 + pad + (IF pad = 1 /\ Len(p) > L + 2 /\ p[L + 3] # Pad THEN 1 ELSE 0)
  IN [j \in 1..size |-> Triple(Quad(p, 4 * ((j - 1) \div 3)))[((j - 1) % 3) + 1]]

-----------------------------------------------------------------------------
(* The text of a sequence of bytes: one character for each six bits, the   *)
(* last ones filled with zeros, and padding up to a multiple of four.      *)
Powers == <<128, 64, 32, 16, 8, 4, 2, 1>>

Bit(b, i) == IF i < 8 * Len(b) THEN (b[i \div 8 + 1] \div Powers[(i % 8) + 1]) % 2 ELSE 0

Sextet(b, k) ==
  32 * Bit(b, 6*k) + 16 * Bit(b, 6*k + 1) + 8 * Bit(b, 6*k + 2)
    + 4 * Bit(b, 6*k + 3) + 2 * Bit(b, 6*k + 4) + Bit(b, 6*k + 5)

Base64Text(b) ==
  [k \in 1..4 * ((Len(b) + 2) \div 3) |->
     IF 6 * (k - 1) < 8 * Len(b) THEN base64_table[Sextet(b, k - 1)] ELSE Pad]
=============================================================================
