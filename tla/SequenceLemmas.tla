--------------------------- MODULE SequenceLemmas ---------------------------
(***************************************************************************)
(* What the proofs of several components cite: least and greatest of a set *)
(* of positions, induction, prefixes, what push and pop do to the vector   *)
(* of SocketQueueOps for any element type, and FlattenSeq.                 *)
(***************************************************************************)
EXTENDS SocketQueueOps, SequenceTheorems, WellFoundedInduction, TLAPS

(* The least of a set of numbers exists.                                   *)
LEMMA MinExists ==
  ASSUME NEW S \in SUBSET Nat, S # {}
  PROVE  Min(S) \in S /\ \A y \in S : Min(S) <= y
<1> DEFINE R == {ss \in Nat \X Nat : ss[1] < ss[2]}
<1>1. OpToRel(<, Nat) = R
  BY DEF OpToRel
<1>2. IsWellFoundedOn(R, Nat)
  BY NatLessThanWellFounded, <1>1, Zenon
<1>3. PICK x \in S : \A y \in S : <<y, x>> \notin R
  BY <1>2, WFMin
<1>4. ASSUME NEW y \in S PROVE x <= y
  <2>1. x \in Nat /\ y \in Nat /\ <<y, x>> \in Nat \X Nat
    OBVIOUS
  <2>2. y < x => <<y, x>> \in R
    BY <2>1
  <2> QED
    BY <1>3, <2>1, <2>2
<1> QED
  BY <1>4 DEF Min

(* So does the greatest of a set of positions.                             *)
LEMMA MaxExists ==
  ASSUME NEW n \in Nat, NEW S \in SUBSET (1..n), S # {}
  PROVE  Max(S) \in S /\ \A y \in S : y <= Max(S)
<1> DEFINE T == {n - x : x \in S}
<1>1. \A x \in S : x \in Nat /\ x <= n /\ n - x \in Nat
  OBVIOUS
<1>2. T \in SUBSET Nat /\ T # {}
  BY <1>1
<1>3. Min(T) \in T /\ \A y \in T : Min(T) <= y
  BY <1>2, MinExists
<1>4. PICK x \in S : Min(T) = n - x
  BY <1>3
<1>5. ASSUME NEW y \in S PROVE x >= y
  <2>1. n - y \in T
    OBVIOUS
  <2>2. n - x <= n - y
    BY <1>3, <1>4, <2>1
  <2> QED
    BY <1>1, <2>2
<1> QED
  BY <1>5 DEF Max

(* Induction: a set of numbers that has 0 and, with a number, the next has *)
(* all of them.                                                            *)
LEMMA Induction ==
  ASSUME NEW S, 0 \in S, \A n \in Nat : n \in S => n + 1 \in S
  PROVE  \A n \in Nat : n \in S
<1> DEFINE T == Nat \ S
<1> SUFFICES ASSUME T # {} PROVE FALSE
  OBVIOUS
<1>1. Min(T) \in T /\ \A y \in T : Min(T) <= y
  BY MinExists
<1> DEFINE m == Min(T)
<1>2. m \in Nat /\ m \notin S /\ m # 0
  BY <1>1
<1> HIDE DEF m
<1>3. m - 1 \in Nat /\ m - 1 \in S
  BY <1>1, <1>2 DEF m
<1> QED
  BY <1>2, <1>3

(* The first n elements of a sequence.                                     *)
LEMMA PrefixProperties ==
  ASSUME NEW S, NEW q \in Seq(S), NEW n \in 0..Len(q)
  PROVE  /\ SubSeq(q, 1, n) \in Seq(S)
         /\ Len(SubSeq(q, 1, n)) = n
         /\ \A i \in 1..n : SubSeq(q, 1, n)[i] = q[i]
<1>1. Len(q) \in Nat /\ n \in Nat /\ n <= Len(q)
  BY LenProperties
<1>2. \A i \in 1..n : q[i] \in S
  BY <1>1, ElementOfSeq
<1>3. /\ SubSeq(q, 1, n) \in Seq(S)
      /\ Len(SubSeq(q, 1, n)) = IF 1 <= n THEN n - 1 + 1 ELSE 0
      /\ \A i \in 1..(n - 1 + 1) : SubSeq(q, 1, n)[i] = q[1 + i - 1]
  BY <1>1, <1>2, SubSeqProperties
<1>4. Len(SubSeq(q, 1, n)) = n
  BY <1>1, <1>3
<1>5. ASSUME NEW i \in 1..n
      PROVE  SubSeq(q, 1, n)[i] = q[i]
  <2>1. i \in 1..(n - 1 + 1) /\ 1 + i - 1 = i
    BY <1>1
  <2>2. QED
    BY <1>3, <2>1
<1>6. QED
  BY <1>3, <1>4, <1>5

(* One element of a sequence.                                              *)
LEMMA SubSeqOne ==
  ASSUME NEW S, NEW q \in Seq(S), NEW i \in 1..Len(q)
  PROVE  SubSeq(q, i, i) = <<q[i]>>
<1>1. i \in Int /\ i <= i /\ i - i + 1 = 1 /\ \A k \in i..i : q[k] \in S
  OBVIOUS
<1>2. /\ SubSeq(q, i, i) \in Seq(S)
      /\ Len(SubSeq(q, i, i)) = 1
      /\ SubSeq(q, i, i)[1] = q[i]
  <2>1. /\ SubSeq(q, i, i) \in Seq(S)
        /\ Len(SubSeq(q, i, i)) = IF i <= i THEN i - i + 1 ELSE 0
        /\ \A k \in 1..(i - i + 1) : SubSeq(q, i, i)[k] = q[i + k - 1]
    BY <1>1, SubSeqProperties
  <2>2. 1 \in 1..(i - i + 1) /\ i + 1 - 1 = i
    BY <1>1
  <2> QED
    BY <1>1, <2>1, <2>2
<1>3. <<q[i]>> \in Seq(S) /\ Len(<<q[i]>>) = 1 /\ <<q[i]>>[1] = q[i]
  BY <1>1
<1>4. \A k \in 1..1 : SubSeq(q, i, i)[k] = <<q[i]>>[k]
  BY <1>2, <1>3
<1> QED
  BY <1>2, <1>3, <1>4, SeqEqual

(* push() adds one element at the back, and the front of a queue that was  *)
(* not empty stays where it is (http_server.h:78-82).                      *)
LEMMA PushBackProperties ==
  ASSUME NEW S, NEW q \in Seq(S), NEW x \in S
  PROVE  /\ PushBack(q, x) \in Seq(S)
         /\ Len(PushBack(q, x)) = Len(q) + 1
         /\ PushBack(q, x) # <<>>
         /\ Head(PushBack(q, x)) = IF q = <<>> THEN x ELSE Head(q)
<1>1. /\ Append(q, x) \in Seq(S)
      /\ Len(Append(q, x)) = Len(q) + 1
      /\ \A i \in 1..Len(q) : Append(q, x)[i] = q[i]
      /\ Append(q, x)[Len(q) + 1] = x
  BY AppendProperties
<1>2. Len(q) \in Nat
  BY LenProperties
<1>3. Append(q, x) # <<>>
  BY <1>1, <1>2, EmptySeq
<1>4. Head(Append(q, x)) = Append(q, x)[1]
  BY <1>1, <1>3
<1>5. CASE q = <<>>
  <2>1. Append(q, x)[1] = x
    BY <1>1, <1>5, EmptySeq
  <2>2. QED
    BY <1>1, <1>3, <1>4, <1>5, <2>1 DEF PushBack
<1>6. CASE q # <<>>
  <2>1. 1 \in 1..Len(q)
    BY <1>2, <1>6, EmptySeq
  <2>2. Append(q, x)[1] = q[1]
    BY <1>1, <2>1
  <2>3. Head(q) = q[1]
    BY <1>6
  <2>4. QED
    BY <1>1, <1>3, <1>4, <1>6, <2>2, <2>3 DEF PushBack
<1>7. QED
  BY <1>5, <1>6

(* pop() on a queue that is not empty returns one of its elements, and     *)
(* leaves a queue one shorter with the same front, if it leaves any        *)
(* (http_server.h:66-76).                                                  *)
LEMMA PopProperties ==
  ASSUME NEW S, NEW q \in Seq(S), q # <<>>
  PROVE  /\ PopValue(q) \in S
         /\ PopRest(q) \in Seq(S)
         /\ Len(PopRest(q)) = Len(q) - 1
         /\ PopRest(q) = <<>> <=> Len(q) = 1
         /\ PopRest(q) # <<>> => Head(PopRest(q)) = Head(q)
<1>1. Len(q) \in Nat \ {0}
  BY EmptySeq
<1>2. \A i \in 1..(Len(q) - 1) : q[i] \in S
  BY <1>1, ElementOfSeq
<1>3. /\ SubSeq(q, 1, Len(q) - 1) \in Seq(S)
      /\ Len(SubSeq(q, 1, Len(q) - 1)) = Len(q) - 1
      /\ \A i \in 1..(Len(q) - 1) : SubSeq(q, 1, Len(q) - 1)[i] = q[i]
  <2>1. Len(q) - 1 \in 0..Len(q)
    BY <1>1
  <2>2. QED
    BY <2>1, PrefixProperties
<1>4. /\ PopRest(q) \in Seq(S)
      /\ Len(PopRest(q)) = Len(q) - 1
      /\ \A i \in 1..(Len(q) - 1) : PopRest(q)[i] = q[i]
  BY <1>3 DEF PopRest, Front
<1>5. PopRest(q) = <<>> <=> Len(q) = 1
  BY <1>1, <1>4, EmptySeq
<1>6. PopValue(q) \in S
  BY HeadTailProperties DEF PopValue
<1>7. ASSUME PopRest(q) # <<>>
      PROVE  Head(PopRest(q)) = Head(q)
  <2>1. 1 \in 1..(Len(q) - 1)
    BY <1>1, <1>5, <1>7
  <2>2. PopRest(q)[1] = q[1]
    BY <1>4, <2>1
  <2> QED
    BY <1>4, <1>7, <2>2
<1>8. QED
  BY <1>4, <1>5, <1>6, <1>7
-----------------------------------------------------------------------------
(* FlattenSeq is a recursive function, and exists.                         *)
LEMMA FlattenFunction ==
  ASSUME NEW s, NEW n \in Nat
  PROVE  \E f : f = [i \in 1..n |-> IF i = 1 THEN s[i] ELSE f[i - 1] \o s[i]]
<1> DEFINE S == {m \in Nat : \E f : f = [i \in 1..m |-> IF i = 1 THEN s[i] ELSE f[i - 1] \o s[i]]}
<1>1. 0 \in S
  <2>1. [i \in 1..0 |-> s[i]] = [i \in 1..0 |-> IF i = 1 THEN s[i] ELSE [j \in 1..0 |-> s[j]][i - 1] \o s[i]]
    OBVIOUS
  <2> QED
    BY <2>1
<1>2. ASSUME NEW m \in Nat, m \in S PROVE m + 1 \in S
  <2>1. PICK f : f = [i \in 1..m |-> IF i = 1 THEN s[i] ELSE f[i - 1] \o s[i]]
    BY <1>2
  <2> DEFINE g == [i \in 1..(m + 1) |-> IF i = m + 1 THEN IF i = 1 THEN s[i] ELSE f[m] \o s[i] ELSE f[i]]
  <2>2. ASSUME NEW i \in 1..(m + 1) PROVE g[i] = IF i = 1 THEN s[i] ELSE g[i - 1] \o s[i]
    <3>1. CASE i = m + 1
      <4>1. i # 1 => i - 1 = m /\ m \in 1..(m+1) /\ m # m + 1
        BY <3>1
      <4>2. i # 1 => g[i - 1] = f[m]
        BY <4>1
      <4> QED
        BY <3>1, <4>2
    <3>2. CASE i # m + 1
      <4>1. i \in 1..m
        BY <3>2
      <4>2. g[i] = f[i] /\ f[i] = IF i = 1 THEN s[i] ELSE f[i - 1] \o s[i]
        BY <2>1, <3>2, <4>1
      <4>3. i # 1 => i - 1 \in 1..m /\ i - 1 # m + 1
        BY <4>1
      <4>4. i # 1 => g[i - 1] = f[i - 1]
        BY <4>3
      <4> QED
        BY <4>2, <4>4
    <3> QED
      BY <3>1, <3>2
  <2>3. g = [i \in 1..(m + 1) |-> IF i = 1 THEN s[i] ELSE g[i - 1] \o s[i]]
    <3>1. g = [i \in 1..(m + 1) |-> g[i]]
      OBVIOUS
    <3> HIDE DEF g
    <3> QED
      BY <2>2, <3>1, Zenon
  <2>4. \E f1 : f1 = [i \in 1..(m + 1) |-> IF i = 1 THEN s[i] ELSE f1[i - 1] \o s[i]]
    <3> HIDE DEF g
    <3> QED
      BY <2>3
  <2>5. m + 1 \in Nat
    OBVIOUS
  <2> QED
    BY <2>4, <2>5, Zenon
<1> HIDE DEF S
<1>3. n \in S
  BY <1>1, <1>2, Induction
<1> QED
  BY <1>3 DEF S

(* The function FlattenSeq chooses.                                        *)
FlattenStep(s, n, f) == f = [i \in 1..n |-> IF i = 1 THEN s[i] ELSE f[i - 1] \o s[i]]

(* FlattenSeq is the last value of that function.                          *)
LEMMA FlattenChoose ==
  ASSUME NEW s, NEW n \in Nat, n = Len(s), n # 0
  PROVE  \E f : FlattenStep(s, n, f) /\ FlattenSeq(s) = f[n]
<1> DEFINE f == CHOOSE f : f = [i \in 1..n |-> IF i = 1 THEN s[i] ELSE f[i - 1] \o s[i]]
<1>1. f = [i \in 1..n |-> IF i = 1 THEN s[i] ELSE f[i - 1] \o s[i]]
  BY FlattenFunction
<1>2. FlattenSeq(s) = f[n]
  BY DEF FlattenSeq
<1> HIDE DEF f
<1> QED
  BY <1>1, <1>2 DEF FlattenStep

(* Texts, flattened, are a text.                                           *)
LEMMA FlattenType ==
  ASSUME NEW S, NEW s \in Seq(Seq(S))
  PROVE  FlattenSeq(s) \in Seq(S)
<1> DEFINE n == Len(s)
<1>1. n \in Nat /\ \A i \in 1..n : s[i] \in Seq(S)
  OBVIOUS
<1>2. CASE n = 0
  <2>1. FlattenSeq(s) = s /\ s = <<>>
    BY <1>2, EmptySeq DEF FlattenSeq
  <2> QED
    BY <2>1, EmptySeq
<1>3. CASE n # 0
  <2> HIDE DEF n
  <2>1. PICK f : FlattenStep(s, n, f) /\ FlattenSeq(s) = f[n]
    BY <1>1, <1>3, FlattenChoose DEF n
  <2> DEFINE I == {i \in Nat : i + 1 \in 1..n => f[i + 1] \in Seq(S)}
  <2>2. 0 \in I
    BY <1>1, <2>1 DEF FlattenStep
  <2>3. ASSUME NEW i \in Nat, i \in I PROVE i + 1 \in I
    <3> SUFFICES ASSUME i + 2 \in 1..n PROVE f[i + 2] \in Seq(S)
      BY <1>1
    <3>1. i + 1 \in 1..n /\ (i + 2) - 1 = i + 1 /\ i + 2 # 1
      BY <1>1
    <3>2. f[i + 2] = f[i + 1] \o s[i + 2]
      BY <2>1, <3>1 DEF FlattenStep
    <3> QED
      BY <1>1, <2>3, <3>1, <3>2, ConcatProperties
  <2> HIDE DEF I
  <2>4. n - 1 \in I
    <3>1. n - 1 \in Nat
      BY <1>1, <1>3
    <3> QED
      BY <2>2, <2>3, <3>1, Induction
  <2> QED
    BY <1>1, <1>3, <2>1, <2>4 DEF I
<1> QED
  BY <1>2, <1>3

(* Flattening one more text appends it to what the others give.            *)
LEMMA FlattenAppend ==
  ASSUME NEW S, NEW s \in Seq(Seq(S)), NEW x \in Seq(S)
  PROVE  FlattenSeq(Append(s, x)) = FlattenSeq(s) \o x
<1> DEFINE n == Len(s)
           t == Append(s, x)
<1>1. /\ n \in Nat /\ t \in Seq(Seq(S)) /\ Len(t) = n + 1
      /\ \A i \in 1..n : t[i] = s[i]
      /\ t[n + 1] = x
  BY AppendProperties
<1> HIDE DEF t
<1>2. n + 1 \in Nat /\ n + 1 # 0
  BY <1>1
<1>3. PICK g : FlattenStep(t, n + 1, g) /\ FlattenSeq(t) = g[n + 1]
  <2> HIDE DEF n
  <2> QED
    BY <1>1, <1>2, FlattenChoose
<1>4. CASE n = 0
  <2>1. FlattenSeq(s) = s /\ s = <<>>
    BY <1>4, EmptySeq DEF FlattenSeq
  <2>2. g[1] = x
    BY <1>1, <1>3, <1>4 DEF FlattenStep
  <2> QED
    BY <1>1, <1>3, <1>4, <2>1, <2>2, ConcatEmptySeq DEF t
<1>5. CASE n # 0
  <2>1. n \in Nat
    BY <1>1
  <2> HIDE DEF n
  <2>2. PICK f : FlattenStep(s, n, f) /\ FlattenSeq(s) = f[n]
    BY <2>1, <1>5, FlattenChoose DEF n
  <2> DEFINE I == {i \in Nat : i + 1 \in 1..n => f[i + 1] = g[i + 1]}
  <2>3. 0 \in I
    BY <1>1, <1>3, <2>2 DEF FlattenStep
  <2>4. ASSUME NEW i \in Nat, i \in I PROVE i + 1 \in I
    <3> SUFFICES ASSUME i + 2 \in 1..n PROVE f[i + 2] = g[i + 2]
      BY <2>1
    <3>1. i + 1 \in 1..n /\ (i + 2) - 1 = i + 1 /\ i + 2 # 1 /\ i + 2 \in 1..(n + 1)
      BY <2>1
    <3>2. f[i + 2] = f[i + 1] \o s[i + 2]
      BY <2>2, <3>1 DEF FlattenStep
    <3>3. g[i + 2] = g[i + 1] \o t[i + 2]
      BY <1>3, <3>1 DEF FlattenStep
    <3>4. f[i + 1] = g[i + 1] /\ s[i + 2] = t[i + 2]
      BY <1>1, <2>4, <3>1
    <3> QED
      BY <3>2, <3>3, <3>4
  <2> HIDE DEF I
  <2>5. n - 1 \in I
    <3>1. n - 1 \in Nat
      BY <2>1, <1>5
    <3> QED
      BY <2>3, <2>4, <3>1, Induction
  <2>6. f[n] = g[n]
    BY <2>1, <1>5, <2>5 DEF I
  <2>7. g[n + 1] = g[n] \o t[n + 1]
    <3>1. n + 1 \in 1..(n + 1) /\ n + 1 # 1 /\ (n + 1) - 1 = n
      BY <2>1, <1>5
    <3> QED
      BY <1>3, <3>1 DEF FlattenStep
  <2> QED
    BY <1>1, <1>3, <2>2, <2>6, <2>7 DEF t
<1> QED
  BY <1>4, <1>5
=============================================================================
