--------------------------- MODULE HttpClientProofs ---------------------------
(***************************************************************************)
(* Proofs about HttpClient, for any number of threads, batches, handles,   *)
(* messages and answers.                                                   *)
(***************************************************************************)
EXTENDS HttpClient, SequenceLemmas, FiniteSetTheorems

-----------------------------------------------------------------------------
(* The positions of a text are finitely many.                              *)
LEMMA PositionsFinite ==
  ASSUME NEW n \in Nat, NEW P \in SUBSET (1..n)
  PROVE  IsFiniteSet(P) /\ Cardinality(P) \in Nat
<1>1. IsFiniteSet(1..n)
  <2>1. 1 \in Int /\ n \in Int
    OBVIOUS
  <2> QED
    BY <2>1, FS_Interval
<1>2. IsFiniteSet(P)
  BY <1>1, FS_Subset
<1> QED
  BY <1>2, FS_CardinalityType

(* The first of a set of positions.                                        *)
LEMMA NthFirst ==
  ASSUME NEW P \in SUBSET Nat, NEW i \in P, P \cap 1..i = {i}
  PROVE  Nth(P, 1) = i
<1>1. Cardinality(P \cap 1..i) = 1
  BY FS_Singleton
<1>2. ASSUME NEW k \in P, Cardinality(P \cap 1..k) = 1 PROVE k = i
  <2>1. k \in Nat /\ i \in Nat
    OBVIOUS
  <2>2. IsFiniteSet(P \cap 1..k)
    BY <2>1, PositionsFinite
  <2>3. PICK x : P \cap 1..k = {x}
    BY <1>2, <2>2, FS_Singleton
  <2>4. i # 0
    OBVIOUS
  <2>5. CASE k = 0
    BY <2>3, <2>5
  <2>6. CASE k # 0 /\ k < i
    <3>1. k \in P \cap 1..i
      BY <2>1, <2>6
    <3> QED
      BY <3>1
  <2>7. CASE k >= i
    <3>1. i \in P \cap 1..k /\ k \in P \cap 1..k
      BY <2>1, <2>4, <2>7
    <3> QED
      BY <2>3, <3>1
  <2> QED
    BY <2>1, <2>5, <2>6, <2>7
<1> QED
  BY <1>1, <1>2 DEF Nth

(* Two positions are two.                                                  *)
LEMMA PairCardinality ==
  ASSUME NEW i, NEW j, i # j
  PROVE  IsFiniteSet({i} \cup {j}) /\ Cardinality({i} \cup {j}) = 2
<1>1. IsFiniteSet({i}) /\ Cardinality({i}) = 1
  BY FS_Singleton
<1>2. /\ IsFiniteSet({i} \cup {j})
      /\ Cardinality({i} \cup {j}) = IF j \in {i} THEN Cardinality({i}) ELSE Cardinality({i}) + 1
  BY <1>1, FS_AddElement
<1>3. j \notin {i}
  OBVIOUS
<1> QED
  BY <1>1, <1>2, <1>3

(* The second of a set of positions.                                       *)
LEMMA NthSecond ==
  ASSUME NEW P \in SUBSET Nat, NEW i \in P, NEW j \in P, i # j, P \cap 1..j = {i, j}
  PROVE  Nth(P, 2) = j
<1>1. Cardinality({i, j}) = 2 /\ IsFiniteSet({i, j})
  <2>1. {i, j} = {i} \cup {j}
    OBVIOUS
  <2> QED
    BY <2>1, PairCardinality
<1>2. i \in Nat /\ j \in Nat /\ i # 0 /\ j # 0 /\ i < j
  <2>1. i \in P \cap 1..j /\ j \in P \cap 1..j
    OBVIOUS
  <2> QED
    BY <2>1
<1>3. ASSUME NEW k \in P, Cardinality(P \cap 1..k) = 2 PROVE k = j
  <2>1. k \in Nat
    OBVIOUS
  <2>2. IsFiniteSet(P \cap 1..k)
    BY <2>1, PositionsFinite
  <2>3. CASE k = 0
    <3>1. P \cap 1..k = {}
      BY <2>3
    <3> QED
      BY <1>3, <3>1, FS_EmptySet
  <2>4. CASE k # 0 /\ k < j
    <3>1. k \in P \cap 1..j
      BY <1>2, <2>1, <2>4
    <3>2. k = i
      BY <2>4, <3>1
    <3>3. P \cap 1..k = {i}
      <4>1. \A x \in P \cap 1..k : x \in P \cap 1..j /\ x # j
        BY <1>2, <2>1, <2>4
      <4>2. i \in P \cap 1..k
        BY <1>2, <3>2
      <4> QED
        BY <4>1, <4>2
    <3>4. Cardinality(P \cap 1..k) = 1
      BY <3>3, FS_Singleton
    <3> QED
      BY <1>3, <3>4
  <2>5. CASE k > j
    <3>1. {i, j} \cup {k} \subseteq P \cap 1..k
      BY <1>2, <2>1, <2>5
    <3>2. Cardinality({i, j} \cup {k}) = 3
      <4>1. k \notin {i, j}
        BY <1>2, <2>1, <2>5
      <4>2. Cardinality({i, j} \cup {k})
              = IF k \in {i, j} THEN Cardinality({i, j}) ELSE Cardinality({i, j}) + 1
        BY <1>1, FS_AddElement
      <4> QED
        BY <1>1, <4>1, <4>2
    <3> QED
      BY <1>3, <2>2, <3>1, <3>2, FS_Subset
  <2> QED
    BY <1>2, <2>1, <2>3, <2>4, <2>5
<1> QED
  BY <1>1, <1>3 DEF Nth

(* A run without the delimiter has an end.                                 *)
LEMMA RunEnds ==
  ASSUME NEW S, NEW s \in Seq(S), NEW d, NEW i \in 1..Len(s), s[i] # d
  PROVE  \E j \in i..Len(s) : /\ \A k \in i..j : s[k] # d
                              /\ j < Len(s) => s[j + 1] = d
<1> DEFINE I == {k \in i..Len(s) : s[k] = d}
<1>1. Len(s) \in Nat /\ i \in Nat
  OBVIOUS
<1>2. CASE I = {}
  BY <1>1, <1>2
<1>3. CASE I # {}
  <2>1. Min(I) \in I /\ \A y \in I : Min(I) <= y
    <3>1. I \in SUBSET Nat
      BY <1>1
    <3> QED
      BY <1>3, <3>1, MinExists
  <2> DEFINE m == Min(I)
  <2>2. m \in i..Len(s) /\ s[m] = d /\ \A y \in I : m <= y
    BY <2>1
  <2> HIDE DEF m
  <2>3. m - 1 \in i..Len(s) /\ m - 1 < Len(s) /\ (m - 1) + 1 = m
    BY <1>1, <2>2
  <2>4. \A k \in i..(m - 1) : s[k] # d
    BY <1>1, <2>2
  <2> QED
    BY <2>2, <2>3, <2>4
<1> QED
  BY <1>2, <1>3

Starts(s, d) == {i \in DOMAIN s : s[i] # d /\ (i > 1 => s[i - 1] = d)}

(* The token that starts at the n-th start.                                *)
LEMMA TokenAt ==
  ASSUME NEW S, NEW s \in Seq(S), NEW d,
         NEW n \in 1..Cardinality(Starts(s, d)), NEW i \in Starts(s, d), Nth(Starts(s, d), n) = i
  PROVE  \E j \in i..Len(s) : /\ \A k \in i..j : s[k] # d
                              /\ j < Len(s) => s[j + 1] = d
                              /\ StrTok(s, d)[n] = SubSeq(s, i, j)
<1> DEFINE j == CHOOSE j \in i..Len(s) : /\ \A k \in i..j : s[k] # d
                                         /\ j < Len(s) => s[j + 1] = d
<1>1. i \in 1..Len(s) /\ s[i] # d
  BY DEF Starts
<1>2. j \in i..Len(s) /\ (\A k \in i..j : s[k] # d) /\ (j < Len(s) => s[j + 1] = d)
  BY <1>1, RunEnds
<1>3. StrTok(s, d)[n] = SubSeq(s, i, j)
  BY DEF StrTok, Starts
<1> HIDE DEF j
<1> QED
  BY <1>2, <1>3

(* There are finitely many tokens.                                         *)
LEMMA TokensType ==
  ASSUME NEW S, NEW s \in Seq(S), NEW d
  PROVE  /\ IsFiniteSet(Starts(s, d)) /\ Starts(s, d) \in SUBSET (1..Len(s))
         /\ Cardinality(Starts(s, d)) \in Nat
         /\ DOMAIN StrTok(s, d) = 1..Cardinality(Starts(s, d))
<1>1. Len(s) \in Nat /\ Starts(s, d) \in SUBSET (1..Len(s))
  BY DEF Starts
<1>2. IsFiniteSet(Starts(s, d)) /\ Cardinality(Starts(s, d)) \in Nat
  BY <1>1, PositionsFinite
<1> QED
  BY <1>1, <1>2 DEF StrTok, Starts

(* The first token of a text that does not begin with the delimiter.       *)
LEMMA FirstToken ==
  ASSUME NEW S, NEW s \in Seq(S), NEW d, Len(s) >= 1, s[1] # d
  PROVE  /\ 1 \in 1..Cardinality(Starts(s, d))
         /\ \E j \in 1..Len(s) : /\ \A k \in 1..j : s[k] # d
                                 /\ j < Len(s) => s[j + 1] = d
                                 /\ StrTok(s, d)[1] = SubSeq(s, 1, j)
<1>1. 1 \in Starts(s, d) /\ Starts(s, d) \in SUBSET Nat /\ Len(s) \in Nat
  BY DEF Starts
<1>2. Starts(s, d) \cap 1..1 = {1}
  BY <1>1
<1>3. Nth(Starts(s, d), 1) = 1
  BY <1>1, <1>2, NthFirst
<1>4. 1 \in 1..Cardinality(Starts(s, d))
  <2>1. IsFiniteSet(Starts(s, d)) /\ Cardinality(Starts(s, d)) \in Nat
    BY TokensType
  <2>2. Cardinality(Starts(s, d)) # 0
    BY <1>1, <2>1, FS_EmptySet
  <2> QED
    BY <2>1, <2>2
<1>5. ASSUME NEW i, i = 1
      PROVE  \E j \in i..Len(s) : /\ \A k \in i..j : s[k] # d
                                  /\ j < Len(s) => s[j + 1] = d
                                  /\ StrTok(s, d)[1] = SubSeq(s, i, j)
  <2>1. i \in Starts(s, d) /\ Nth(Starts(s, d), 1) = i
    BY <1>1, <1>3, <1>5
  <2> QED
    BY <1>4, <2>1, TokenAt
<1> QED
  BY <1>4, <1>5

(* The second token of a text whose second symbol alone is the delimiter.  *)
LEMMA SecondToken ==
  ASSUME NEW S, NEW s \in Seq(S), NEW d, Len(s) >= 3, s[1] # d, s[2] = d, s[3] # d,
         Len(s) >= 4 => s[4] = d
  PROVE  /\ 2 \in 1..Cardinality(Starts(s, d))
         /\ StrTok(s, d)[1] = <<s[1]>>
         /\ StrTok(s, d)[2] = <<s[3]>>
<1> DEFINE P == Starts(s, d)
<1>1. Len(s) \in Nat /\ P \in SUBSET Nat /\ 1 \in P /\ 2 \notin P /\ 3 \in P
  <2>1. 3 - 1 = 2
    OBVIOUS
  <2> QED
    BY <2>1 DEF Starts
<1>2. IsFiniteSet(P) /\ Cardinality(P) \in Nat
  BY TokensType
<1> HIDE DEF P
<1>3. P \cap 1..3 = {1, 3}
  <2>1. 1..3 = {1, 2, 3}
    OBVIOUS
  <2> QED
    BY <1>1, <2>1
<1>4. Nth(P, 2) = 3
  BY <1>1, <1>3, NthSecond
<1>5. 2 \in 1..Cardinality(P)
  <2>1. Cardinality({1} \cup {3}) = 2
    <3>1. ASSUME NEW i, NEW j, i = 1, j = 3 PROVE Cardinality({i} \cup {j}) = 2
      <4>1. i # j
        BY <3>1
      <4> QED
        BY <4>1, PairCardinality, Zenon
    <3> QED
      BY <3>1
  <2>2. {1} \cup {3} \in SUBSET P
    BY <1>1
  <2>3. Cardinality({1} \cup {3}) <= Cardinality(P)
    <3>1. \A T \in SUBSET P : Cardinality(T) <= Cardinality(P)
      BY <1>2, FS_Subset
    <3> QED
      BY <2>2, <3>1
  <2> QED
    BY <1>2, <2>1, <2>3
<1>6. StrTok(s, d)[2] = <<s[3]>>
  <2>1. PICK j \in 3..Len(s) : /\ \A k \in 3..j : s[k] # d
                               /\ StrTok(s, d)[2] = SubSeq(s, 3, j)
    BY <1>1, <1>4, <1>5, TokenAt DEF P
  <2>2. j = 3
    <3>1. j \in Nat /\ (j # 3 => 4 \in 3..j /\ Len(s) >= 4)
      BY <1>1
    <3> QED
      BY <2>1, <3>1
  <2>3. SubSeq(s, 3, 3) = <<s[3]>>
    <3>1. 3 \in 1..Len(s)
      BY <1>1
    <3> QED
      BY <3>1, SubSeqOne
  <2> QED
    BY <2>1, <2>2, <2>3
<1>7. StrTok(s, d)[1] = <<s[1]>>
  <2>1. PICK j \in 1..Len(s) : /\ \A k \in 1..j : s[k] # d
                               /\ StrTok(s, d)[1] = SubSeq(s, 1, j)
    BY FirstToken
  <2>2. j = 1
    <3>1. j \in Nat /\ (j # 1 => 2 \in 1..j)
      BY <1>1
    <3> QED
      BY <2>1, <3>1
  <2>3. SubSeq(s, 1, 1) = <<s[1]>>
    <3>1. 1 \in 1..Len(s)
      BY <1>1
    <3> QED
      BY <3>1, SubSeqOne
  <2> QED
    BY <2>1, <2>2, <2>3
<1> QED
  BY <1>5, <1>6, <1>7 DEF P

(* What is before the first of a symbol.                                   *)
LEMMA FindProperties ==
  ASSUME NEW S, NEW s \in Seq(S), NEW c
  PROVE  /\ Find(s, c) \in 0..Len(s)
         /\ Find(s, c) = 0 => \A i \in 1..Len(s) : s[i] # c
         /\ Find(s, c) # 0 => s[Find(s, c)] = c
<1> DEFINE I == {i \in 1..Len(s) : s[i] = c}
<1>1. Len(s) \in Nat /\ I \in SUBSET Nat
  OBVIOUS
<1>2. Find(s, c) = IF I # {} THEN Min(I) ELSE 0
  BY DEF Find, SelectInSeq
<1>3. I # {} => Min(I) \in I
  BY <1>1, MinExists
<1> QED
  BY <1>1, <1>2, <1>3

(* Of a text whose first symbols are not the zero byte, a C string begins  *)
(* with them.                                                              *)
LEMMA CStringProperties ==
  ASSUME NEW S, NEW s \in Seq(S), NEW n \in 0..Len(s), \A i \in 1..n : s[i] # NUL
  PROVE  /\ CString(s) \in Seq(S)
         /\ Len(CString(s)) \in n..Len(s)
         /\ \A i \in 1..n : CString(s)[i] = s[i]
<1> DEFINE f == Find(s, NUL)
<1>1. /\ f \in 0..Len(s) /\ Len(s) \in Nat /\ n \in Nat
      /\ f # 0 => s[f] = NUL
  BY FindProperties
<1>2. CString(s) = IF f = 0 THEN s ELSE SubSeq(s, 1, f - 1)
  BY DEF CString
<1> HIDE DEF f
<1>3. CASE f = 0
  BY <1>1, <1>2, <1>3
<1>4. CASE f # 0
  <2>1. n <= f - 1 /\ f - 1 \in 0..Len(s)
    BY <1>1, <1>4
  <2>2. /\ SubSeq(s, 1, f - 1) \in Seq(S) /\ Len(SubSeq(s, 1, f - 1)) = f - 1
        /\ \A i \in 1..(f - 1) : SubSeq(s, 1, f - 1)[i] = s[i]
    BY <2>1, PrefixProperties
  <2> QED
    BY <1>1, <1>2, <1>4, <2>1, <2>2
<1> QED
  BY <1>3, <1>4

ParseStep(type, tokens, n, f) ==
  f = [s \in SUBSET (1..n) |->
         IF s = {} THEN Unparsed ELSE ParseToken(type, f[s \ {Max(s)}], tokens[Max(s)])]

(* The fold of a parser over its tokens is well defined.                   *)
LEMMA ParseFunction ==
  ASSUME NEW type, NEW tokens, NEW n \in Nat
  PROVE  \E f : ParseStep(type, tokens, n, f)
<1> DEFINE S == {m \in Nat : \E f : ParseStep(type, tokens, m, f)}
<1>1. 0 \in S
  <2> DEFINE f == [s \in SUBSET (1..0) |-> Unparsed]
  <2>1. SUBSET (1..0) = {{}}
    OBVIOUS
  <2>2. \A s \in SUBSET (1..0) :
          f[s] = IF s = {} THEN Unparsed ELSE ParseToken(type, f[s \ {Max(s)}], tokens[Max(s)])
    BY <2>1
  <2>3. f = [s \in SUBSET (1..0) |-> f[s]]
    OBVIOUS
  <2> HIDE DEF f
  <2>4. ParseStep(type, tokens, 0, f)
    BY <2>2, <2>3, Zenon DEF ParseStep
  <2> QED
    BY <2>4
<1>2. ASSUME NEW m \in Nat, m \in S PROVE m + 1 \in S
  <2>1. PICK f : ParseStep(type, tokens, m, f)
    BY <1>2
  <2> DEFINE g == [s \in SUBSET (1..(m + 1)) |->
                     IF m + 1 \in s THEN ParseToken(type, f[s \ {m + 1}], tokens[m + 1]) ELSE f[s]]
  <2>2. ASSUME NEW s \in SUBSET (1..(m + 1))
        PROVE  g[s] = IF s = {} THEN Unparsed ELSE ParseToken(type, g[s \ {Max(s)}], tokens[Max(s)])
    <3>1. CASE m + 1 \in s
      <4>1. Max(s) = m + 1
        <5>1. m + 1 \in Nat /\ s # {}
          BY <3>1
        <5>2. Max(s) \in s /\ \A y \in s : y <= Max(s)
          BY <5>1, MaxExists
        <5> DEFINE x == Max(s)
        <5>3. x \in 1..(m + 1) /\ m + 1 <= x
          BY <3>1, <5>2
        <5> HIDE DEF x
        <5>4. x = m + 1
          BY <5>3
        <5> QED
          BY <5>4 DEF x
      <4>2. s \ {m + 1} \in SUBSET (1..(m + 1)) /\ m + 1 \notin s \ {m + 1}
        OBVIOUS
      <4>3. g[s \ {m + 1}] = f[s \ {m + 1}]
        BY <4>2
      <4>4. g[s] = ParseToken(type, f[s \ {m + 1}], tokens[m + 1]) /\ s # {}
        BY <3>1
      <4> HIDE DEF g
      <4> QED
        BY <4>1, <4>3, <4>4
    <3>2. CASE m + 1 \notin s
      <4>1. s \in SUBSET (1..m)
        <5>1. \A x \in s : x \in 1..(m + 1) /\ x # m + 1
          BY <3>2
        <5> QED
          BY <5>1
      <4>2. g[s] = f[s]
        BY <3>2
      <4>3. f[s] = IF s = {} THEN Unparsed ELSE ParseToken(type, f[s \ {Max(s)}], tokens[Max(s)])
        BY <2>1, <4>1 DEF ParseStep
      <4>4. s \ {Max(s)} \in SUBSET (1..(m + 1)) /\ m + 1 \notin s \ {Max(s)}
        BY <3>2
      <4>5. g[s \ {Max(s)}] = f[s \ {Max(s)}]
        BY <4>4
      <4> HIDE DEF g
      <4> QED
        BY <4>2, <4>3, <4>5
    <3> QED
      BY <3>1, <3>2
  <2>3. g = [s \in SUBSET (1..(m + 1)) |-> g[s]]
    OBVIOUS
  <2>4. \E h : ParseStep(type, tokens, m + 1, h)
    <3> HIDE DEF g
    <3>1. ParseStep(type, tokens, m + 1, g)
      BY <2>2, <2>3, Zenon DEF ParseStep
    <3> QED
      BY <3>1
  <2>5. m + 1 \in Nat
    OBVIOUS
  <2> QED
    BY <2>4, <2>5, Zenon
<1> HIDE DEF S
<1>3. n \in S
  BY <1>1, <1>2, Induction
<1> QED
  BY <1>3 DEF S

(* A parser goes from token to token.                                      *)
LEMMA ParseStates ==
  ASSUME NEW type, NEW text, NEW tokens, tokens = StrTok(CString(text), CR),
         NEW n \in Nat, DOMAIN tokens = 1..n
  PROVE  \E state : /\ state[0] = Unparsed
                    /\ \A k \in 1..n : state[k] = ParseToken(type, state[k - 1], tokens[k])
                    /\ Parse(type, text) = state[n]
<1> DEFINE iter == CHOOSE f : ParseStep(type, tokens, n, f)
<1>1. ParseStep(type, tokens, n, iter)
  BY ParseFunction
<1>2. Parse(type, text) = iter[1..n]
  BY DEF Parse, FoldLeft, MapThenFoldSet, ParseStep
<1> HIDE DEF iter
<1> DEFINE state == [k \in 0..n |-> iter[1..k]]
<1>3. state[0] = Unparsed
  <2>1. 1..0 = {} /\ {} \in SUBSET (1..n) /\ 0 \in 0..n
    OBVIOUS
  <2> QED
    BY <1>1, <2>1 DEF ParseStep
<1>4. ASSUME NEW k \in 1..n PROVE state[k] = ParseToken(type, state[k - 1], tokens[k])
  <2>1. /\ k \in Nat /\ k \in 1..k /\ k - 1 \in 0..n /\ k \in 0..n
        /\ 1..k \in SUBSET (1..n) /\ 1..k # {}
    <3>1. k \in Nat /\ k \in 1..k /\ k - 1 \in 0..n /\ k \in 0..n
      OBVIOUS
    <3>2. \A i \in 1..k : i \in 1..n
      OBVIOUS
    <3> QED
      BY <3>1, <3>2
  <2>2. Max(1..k) = k
    <3>1. Max(1..k) \in 1..k /\ \A y \in 1..k : y <= Max(1..k)
      BY <2>1, MaxExists
    <3> QED
      BY <2>1, <3>1
  <2>3. (1..k) \ {k} = 1..(k - 1)
    BY <2>1
  <2>4. iter[1..k] = ParseToken(type, iter[(1..k) \ {Max(1..k)}], tokens[Max(1..k)])
    BY <1>1, <2>1 DEF ParseStep
  <2>5. state[k] = iter[1..k] /\ state[k - 1] = iter[1..(k - 1)]
    BY <2>1
  <2> HIDE DEF state
  <2> QED
    BY <2>2, <2>3, <2>4, <2>5
<1>5. state[n] = iter[1..n]
  OBVIOUS
<1> HIDE DEF state
<1> QED
  BY <1>2, <1>3, <1>4, <1>5

Fields == {"line", "query", "headers", "body", "firstLineParsed", "headersParsed", "null"}

(* A parser that has its first line.                                       *)
PastFirstLine(parsed, line) ==
  /\ DOMAIN parsed = Fields
  /\ parsed.firstLineParsed = TRUE
  /\ parsed.line = line
  /\ parsed.headersParsed \in BOOLEAN
  /\ parsed.null \in BOOLEAN

(* After the first line nothing changes it.                                *)
LEMMA FirstLineStays ==
  ASSUME NEW type, NEW parsed, NEW token, NEW line, PastFirstLine(parsed, line)
  PROVE  PastFirstLine(ParseToken(type, parsed, token), line)
<1> DEFINE next == ParseToken(type, parsed, token)
<1>1. CASE token = <<LF>>
  <2>1. next = [parsed EXCEPT !.headersParsed = TRUE]
    BY <1>1, Zenon DEF ParseToken
  <2>2. PastFirstLine([parsed EXCEPT !.headersParsed = TRUE], line)
    BY DEF PastFirstLine, Fields
  <2> QED
    BY <2>1, <2>2, Zenon
<1>2. CASE token # <<LF>> /\ parsed.headersParsed
  <2>1. next = [parsed EXCEPT !.body = parsed.body \o RemoveFirst(token, LF)]
    BY <1>2, Zenon DEF ParseToken, PastFirstLine
  <2>2. ASSUME NEW b PROVE PastFirstLine([parsed EXCEPT !.body = b], line)
    BY DEF PastFirstLine, Fields
  <2> QED
    BY <2>1, <2>2, Zenon
<1>3. CASE token # <<LF>> /\ ~parsed.headersParsed
  <2>1. next = IF Find(token, ":") # 0 THEN Header(type, parsed, token) ELSE parsed
    BY <1>3, Zenon DEF ParseToken, PastFirstLine
  <2>2. PastFirstLine(Header(type, parsed, token), line)
    <3> DEFINE null == parsed.null \/ StrTok(token, ":") = <<>>
    <3>1. null \in BOOLEAN
      BY Zenon
    <3>2. ASSUME NEW h, NEW b \in BOOLEAN
          PROVE  PastFirstLine([parsed EXCEPT !.headers = h, !.null = b], line)
      BY DEF PastFirstLine, Fields
    <3> HIDE DEF null
    <3> QED
      BY <3>1, <3>2 DEF Header, null
  <2> QED
    BY <2>1, <2>2, Zenon
<1> QED
  BY <1>1, <1>2, <1>3

(* What the parser is after all tokens.                                    *)
LEMMA ParseKeeps ==
  ASSUME NEW type, NEW text, NEW n \in Nat, DOMAIN StrTok(CString(text), CR) = 1..n, n >= 1,
         NEW line, PastFirstLine(ParseToken(type, Unparsed, StrTok(CString(text), CR)[1]), line)
  PROVE  PastFirstLine(Parse(type, text), line)
<1> DEFINE tokens == StrTok(CString(text), CR)
<1>1. PICK state : /\ state[0] = Unparsed
                   /\ \A k \in 1..n : state[k] = ParseToken(type, state[k - 1], tokens[k])
                   /\ Parse(type, text) = state[n]
  BY ParseStates
<1> DEFINE I == {i \in Nat : i + 1 \in 1..n => PastFirstLine(state[i + 1], line)}
<1>2. 0 \in I
  <2>1. 1 \in 1..n /\ 1 - 1 = 0 /\ 0 + 1 = 1
    OBVIOUS
  <2>2. PastFirstLine(state[1], line)
    BY <1>1, <2>1
  <2> QED
    BY <2>1, <2>2
<1>3. ASSUME NEW i \in Nat, i \in I PROVE i + 1 \in I
  <2>1. ASSUME i + 2 \in 1..n PROVE PastFirstLine(state[i + 2], line)
    <3>1. i + 1 \in 1..n /\ (i + 2) - 1 = i + 1
      BY <2>1
    <3>2. PastFirstLine(state[i + 1], line)
      BY <1>3, <3>1
    <3>3. state[i + 2] = ParseToken(type, state[i + 1], tokens[i + 2])
      BY <1>1, <2>1, <3>1
    <3> HIDE DEF tokens
    <3> QED
      BY <3>2, <3>3, FirstLineStays
  <2>2. i + 1 \in Nat /\ (i + 1) + 1 = i + 2
    OBVIOUS
  <2> QED
    BY <2>1, <2>2
<1>4. n - 1 \in I
  <2>1. n - 1 \in Nat
    OBVIOUS
  <2> HIDE DEF I
  <2> QED
    BY <1>2, <1>3, <2>1, Induction
<1>5. PastFirstLine(state[n], line)
  <2>1. (n - 1) + 1 = n /\ n \in 1..n
    OBVIOUS
  <2> QED
    BY <1>4, <2>1
<1> QED
  BY <1>1, <1>5

(* The symbols of an answer: strings all of them.                          *)
PhraseWords ==
  {"Switching", "Protocols", "OK", "Bad", "Request", "Not", "Found", "Method", "Allowed",
   "Internal", "Server", "Error", "Implemented"}

Symbols == STRING \cup Statuses \cup PhraseWords \cup {"HTTP/1.1", ":", SP, CR, LF}

Separators == {CR, LF, SP, NUL}

(* A text that begins as an answer does.                                   *)
BeginsAsAnswer(t, status) ==
  /\ t \in Seq(Symbols) /\ Len(t) >= 3
  /\ t[1] = "HTTP/1.1" /\ t[2] = SP /\ t[3] = status
  /\ Len(t) >= 4 => t[4] = SP

(* What an answer begins with is no separator.                             *)
LEMMA Distinct ==
  /\ "HTTP/1.1" \notin Separators
  /\ SP \notin {CR, LF, NUL}
  BY DEF Separators, CR, LF, SP, NUL

(* Nothing is removed where there is nothing to remove.                    *)
LEMMA RemoveNone ==
  ASSUME NEW x, x # LF
  PROVE  RemoveFirst(<<x>>, LF) = <<x>>
<1>1. Len(<<x>>) = 1 /\ <<x>>[1] = x
  OBVIOUS
<1>2. ~ \E i \in 1..Len(<<x>>) : <<x>>[i] = LF
  BY <1>1
<1> QED
  BY <1>2, Zenon DEF RemoveFirst

(* The first line of such a text gives its status.                         *)
LEMMA StatusOfLine ==
  ASSUME NEW t, NEW status \in Symbols \ Separators, BeginsAsAnswer(t, status),
         NEW parsed, DOMAIN parsed = Fields
  PROVE  StatusLine(parsed, Words(t)).line[2] = <<status>> /\ 2 \in DOMAIN StatusLine(parsed, Words(t)).line
<1> DEFINE w == Words(t)
           N == Cardinality(Starts(t, SP))
           full == {n \in DOMAIN w : w[n] # <<>>}
<1>1. /\ 2 \in 1..N
      /\ StrTok(t, SP)[1] = <<"HTTP/1.1">>
      /\ StrTok(t, SP)[2] = <<status>>
  <2>1. "HTTP/1.1" # SP /\ status # SP
    BY Distinct DEF Separators
  <2> QED
    BY <2>1, SecondToken DEF BeginsAsAnswer
<1>2. N \in Nat /\ DOMAIN StrTok(t, SP) = 1..N
  BY TokensType DEF BeginsAsAnswer
<1>3. /\ DOMAIN w = 1..N
      /\ w[1] = <<"HTTP/1.1">>
      /\ w[2] = <<status>>
  <2>1. 1 \in 1..N /\ 2 \in 1..N
    BY <1>1, <1>2
  <2>2. \A n \in 1..N : w[n] = RemoveFirst(StrTok(t, SP)[n], LF)
    BY <1>2 DEF Words
  <2>3. "HTTP/1.1" # LF /\ status # LF
    BY Distinct DEF Separators
  <2>4. DOMAIN w = 1..N
    BY <1>2 DEF Words
  <2> HIDE DEF w, N
  <2> QED
    BY <1>1, <2>1, <2>2, <2>3, <2>4, RemoveNone
<1> HIDE DEF w
<1>4. /\ full \in SUBSET (1..N) /\ 1 \in full /\ 2 \in full
  <2>1. 1 \in 1..N /\ 2 \in 1..N
    BY <1>1, <1>2
  <2>2. <<"HTTP/1.1">> # <<>> /\ <<status>> # <<>>
    OBVIOUS
  <2> HIDE DEF N
  <2> QED
    BY <1>3, <2>1, <2>2
<1>5. Nth(full, 2) = 2
  <2> HIDE DEF N, full
  <2>1. full \in SUBSET Nat
    BY <1>2, <1>4
  <2>2. full \cap 1..2 = {1, 2}
    <3>1. 1..2 = {1, 2}
      OBVIOUS
    <3> QED
      BY <1>4, <3>1
  <2> QED
    BY <1>4, <2>1, <2>2, NthSecond
<1>6. 2 \in 1..Cardinality(full)
  <2> HIDE DEF N, full
  <2>1. IsFiniteSet(full) /\ Cardinality(full) \in Nat
    BY <1>2, <1>4, PositionsFinite
  <2>2. \A x : IsFiniteSet({x}) /\ Cardinality({x}) = 1
    BY FS_Singleton
  <2>3. Cardinality({1} \cup {2}) = IF 2 \in {1} THEN Cardinality({1}) ELSE Cardinality({1}) + 1
    BY <2>2, FS_AddElement
  <2>4. Cardinality({1}) = 1
    BY <2>2
  <2>5. {1} \cup {2} \in SUBSET full
    BY <1>4
  <2>6. Cardinality({1} \cup {2}) <= Cardinality(full)
    BY <2>1, <2>5, FS_Subset
  <2> QED
    BY <2>1, <2>3, <2>4, <2>6
<1>7. StatusLine(parsed, w).line = [n \in 1..Cardinality(full) |-> w[Nth(full, n)]]
  BY DEF StatusLine, Fields
<1> HIDE DEF full, N
<1> QED
  BY <1>3, <1>5, <1>6, <1>7 DEF w

(* Whatever follows in it, the client finds the status of such a text.     *)
LEMMA StatusIsParsed ==
  ASSUME NEW t, NEW status \in Symbols \ Separators, BeginsAsAnswer(t, status)
  PROVE  ParseResponse(t).status = <<status>>
<1> DEFINE u == CString(t)
           tokens == StrTok(u, CR)
           N == Cardinality(Starts(u, CR))
<1>1. BeginsAsAnswer(u, status)
  <2>1. t \in Seq(Symbols) /\ Len(t) \in Nat
    BY DEF BeginsAsAnswer
  <2> DEFINE n == IF Len(t) >= 4 THEN 4 ELSE 3
  <2>2. n \in 0..Len(t)
    BY <2>1 DEF BeginsAsAnswer
  <2>3. \A i \in 1..n : t[i] # NUL
    <3>1. t[1] # NUL /\ t[2] # NUL /\ t[3] # NUL
      BY Distinct DEF BeginsAsAnswer, Separators
    <3>2. Len(t) >= 4 => t[4] # NUL
      BY Distinct DEF BeginsAsAnswer
    <3> QED
      BY <3>1, <3>2
  <2>4. u \in Seq(Symbols) /\ Len(u) \in n..Len(t) /\ \A i \in 1..n : u[i] = t[i]
    <3> HIDE DEF n
    <3> QED
      BY <2>1, <2>2, <2>3, CStringProperties
  <2> HIDE DEF u
  <2> QED
    BY <2>1, <2>4 DEF BeginsAsAnswer
<1> HIDE DEF u
<1>2. u \in Seq(Symbols) /\ Len(u) \in Nat /\ Len(u) >= 3
  BY <1>1 DEF BeginsAsAnswer
<1>3. u[1] # CR /\ u[2] # CR /\ u[3] # CR
  BY <1>1, Distinct DEF BeginsAsAnswer, Separators
<1>4. PICK j \in 1..Len(u) : /\ \A k \in 1..j : u[k] # CR
                             /\ j < Len(u) => u[j + 1] = CR
                             /\ tokens[1] = SubSeq(u, 1, j)
  BY <1>2, <1>3, FirstToken
<1>5. N \in Nat /\ DOMAIN tokens = 1..N /\ 1 \in 1..N
  BY <1>2, <1>3, TokensType, FirstToken
<1>6. j >= 3
  <2>1. j \in 1..Len(u)
    OBVIOUS
  <2>2. j = 1 => u[2] = CR
    BY <1>2, <1>4
  <2>3. j = 2 => u[3] = CR
    BY <1>2, <1>4
  <2> QED
    BY <1>2, <1>3, <2>1, <2>2, <2>3
<1>7. BeginsAsAnswer(tokens[1], status)
  <2>1. j \in 0..Len(u)
    BY <1>2
  <2>2. /\ SubSeq(u, 1, j) \in Seq(Symbols) /\ Len(SubSeq(u, 1, j)) = j
        /\ \A i \in 1..j : SubSeq(u, 1, j)[i] = u[i]
    BY <1>2, <2>1, PrefixProperties
  <2> DEFINE token == SubSeq(u, 1, j)
  <2>3. 1 \in 1..j /\ 2 \in 1..j /\ 3 \in 1..j /\ j \in Nat /\ (j >= 4 => 4 \in 1..j /\ Len(u) >= 4)
    BY <1>2, <1>6
  <2> HIDE DEF token, tokens
  <2>4. token[1] = "HTTP/1.1" /\ token[2] = SP /\ token[3] = status /\ (j >= 4 => token[4] = SP)
    BY <1>1, <2>2, <2>3 DEF BeginsAsAnswer, token
  <2>5. tokens[1] = token /\ token \in Seq(Symbols) /\ Len(token) = j
    BY <1>4, <2>2 DEF token
  <2> QED
    BY <1>6, <2>3, <2>4, <2>5 DEF BeginsAsAnswer
<1> DEFINE started == [Unparsed EXCEPT !.firstLineParsed = TRUE]
           first == StatusLine(started, Words(tokens[1]))
<1>8. ParseToken("response_t", Unparsed, tokens[1]) = first
  <2>1. tokens[1] # <<LF>>
    <3>1. Len(<<LF>>) = 1
      OBVIOUS
    <3> HIDE DEF tokens
    <3> QED
      BY <1>7, <3>1 DEF BeginsAsAnswer
  <2>2. ~Unparsed.firstLineParsed
    BY DEF Unparsed
  <2>3. "response_t" # "request_t"
    OBVIOUS
  <2> HIDE DEF tokens
  <2>4. ParseToken("response_t", Unparsed, tokens[1]) = FirstLine("response_t", started, Words(tokens[1]))
    BY <2>1, <2>2, Zenon DEF ParseToken
  <2> QED
    BY <2>3, <2>4 DEF FirstLine
<1>9. DOMAIN started = Fields /\ PastFirstLine(first, first.line)
  <2>1. /\ DOMAIN Unparsed = Fields /\ Unparsed.headersParsed = FALSE /\ Unparsed.null = FALSE
    BY DEF Unparsed, Fields
  <2>2. /\ DOMAIN started = Fields /\ started.headersParsed = FALSE /\ started.null = FALSE
        /\ started.firstLineParsed = TRUE
    BY <2>1 DEF Fields
  <2> HIDE DEF started, tokens
  <2>3. ASSUME NEW x PROVE PastFirstLine([started EXCEPT !.line = x], [started EXCEPT !.line = x].line)
    BY <2>2 DEF PastFirstLine, Fields
  <2> QED
    BY <2>2, <2>3 DEF StatusLine
<1>10. PastFirstLine(Parse("response_t", t), first.line)
  <2>1. DOMAIN StrTok(CString(t), CR) = 1..N /\ N >= 1
    BY <1>5 DEF u
  <2>2. PastFirstLine(ParseToken("response_t", Unparsed, StrTok(CString(t), CR)[1]), first.line)
    BY <1>8, <1>9 DEF u
  <2> HIDE DEF first, N
  <2> QED
    BY <1>5, <2>1, <2>2, ParseKeeps
<1>11. first.line[2] = <<status>> /\ 2 \in DOMAIN first.line
  <2> HIDE DEF started, tokens
  <2> QED
    BY <1>7, <1>9, StatusOfLine
<1> HIDE DEF first
<1>12. Parse("response_t", t).line = first.line
  BY <1>10 DEF PastFirstLine
<1>13. ParseResponse(t).status = Token(Parse("response_t", t).line, 2)
  BY DEF ParseResponse
<1> QED
  BY <1>11, <1>12, <1>13 DEF Token

(* One more line behind the lines so far, and the lines of some keys.      *)
OneLine(h, key, text) == text \o key \o <<":", SP>> \o h[key] \o <<CR, LF>>
Lines(h, f, s) ==
  IF s = {} THEN <<>>
  ELSE LET key == CHOOSE key \in s : TRUE IN OneLine(h, key, f[s \ {key}])

(* The fold over the keys is well defined.                                 *)
LEMMA LinesFunction ==
  ASSUME NEW h, NEW D, IsFiniteSet(D)
  PROVE  \E f : f = [s \in SUBSET D |-> Lines(h, f, s)]
<1> DEFINE Good(k, f) == /\ f = [s \in SUBSET D |-> f[s]]
                         /\ \A s \in SUBSET D : Cardinality(s) <= k => f[s] = Lines(h, f, s)
           I == {k \in Nat : \E f : Good(k, f)}
<1>1. \A s \in SUBSET D : IsFiniteSet(s) /\ Cardinality(s) \in Nat /\ Cardinality(s) <= Cardinality(D)
  BY FS_Subset, FS_CardinalityType
<1>2. 0 \in I
  <2> DEFINE f == [s \in SUBSET D |-> <<>>]
  <2>1. \A s \in SUBSET D : Cardinality(s) <= 0 => s = {}
    BY <1>1, FS_EmptySet
  <2>2. \A s \in SUBSET D : Cardinality(s) <= 0 => f[s] = Lines(h, f, s)
    BY <2>1 DEF Lines
  <2>3. f = [s \in SUBSET D |-> f[s]]
    OBVIOUS
  <2>4. Good(0, f)
    <3> HIDE DEF f
    <3> QED
      BY <2>2, <2>3
  <2> HIDE DEF f, Good
  <2> QED
    BY <2>4
<1>3. ASSUME NEW k \in Nat, k \in I PROVE k + 1 \in I
  <2>1. PICK f : Good(k, f)
    BY <1>3
  <2> DEFINE g == [s \in SUBSET D |-> IF Cardinality(s) = k + 1 THEN Lines(h, f, s) ELSE f[s]]
  <2>2. ASSUME NEW s \in SUBSET D, Cardinality(s) <= k + 1
        PROVE  g[s] = Lines(h, g, s)
    <3> DEFINE key == CHOOSE key \in s : TRUE
    <3>1. s # {} => key \in s /\ s \ {key} \in SUBSET D /\ Cardinality(s \ {key}) = Cardinality(s) - 1
      <4>1. s # {} => key \in s
        OBVIOUS
      <4> HIDE DEF key
      <4>2. Cardinality(s \ {key}) = IF key \in s THEN Cardinality(s) - 1 ELSE Cardinality(s)
        BY <1>1, FS_RemoveElement
      <4> QED
        BY <4>1, <4>2
    <3>2. s # {} => g[s \ {key}] = f[s \ {key}]
      <4>1. s # {} => Cardinality(s \ {key}) # k + 1
        BY <1>1, <2>2, <3>1
      <4> QED
        BY <3>1, <4>1
    <3>3. Lines(h, g, s) = Lines(h, f, s)
      <4> HIDE DEF g
      <4> QED
        BY <3>2 DEF Lines
    <3>4. g[s] = Lines(h, f, s)
      <4>1. CASE Cardinality(s) = k + 1
        BY <4>1
      <4>2. CASE Cardinality(s) # k + 1
        <5>1. Cardinality(s) <= k
          BY <1>1, <2>2, <4>2
        <5>2. g[s] = f[s]
          BY <4>2
        <5> HIDE DEF g
        <5> QED
          BY <2>1, <5>1, <5>2
      <4> QED
        BY <4>1, <4>2
    <3> HIDE DEF g
    <3> QED
      BY <3>3, <3>4
  <2>3. g = [s \in SUBSET D |-> g[s]]
    OBVIOUS
  <2>4. Good(k + 1, g)
    <3> HIDE DEF g
    <3> QED
      BY <2>2, <2>3
  <2>5. k + 1 \in Nat
    OBVIOUS
  <2> HIDE DEF g, Good
  <2> QED
    BY <2>4, <2>5
<1>4. Cardinality(D) \in I
  <2>1. Cardinality(D) \in Nat
    BY FS_CardinalityType
  <2> HIDE DEF I
  <2> QED
    BY <1>2, <1>3, <2>1, Induction
<1>5. PICK f : Good(Cardinality(D), f)
  BY <1>4
<1>6. \A s \in SUBSET D : f[s] = Lines(h, f, s)
  BY <1>1, <1>5
<1>7. f = [s \in SUBSET D |-> Lines(h, f, s)]
  BY <1>5, <1>6, Zenon
<1> QED
  BY <1>7

(* The header lines of a map of texts are a text.                          *)
LEMMA HeaderLinesType ==
  ASSUME NEW h, NEW S, {":", SP, CR, LF} \subseteq S, IsFiniteSet(DOMAIN h),
         \A k \in DOMAIN h : k \in Seq(S) /\ h[k] \in Seq(S)
  PROVE  HeaderLines(h) \in Seq(S)
<1> DEFINE D == DOMAIN h
           f == CHOOSE f : f = [s \in SUBSET D |-> Lines(h, f, s)]
<1>1. f = [s \in SUBSET D |-> Lines(h, f, s)]
  BY LinesFunction
<1>2. HeaderLines(h) = f[D]
  BY DEF HeaderLines, FoldSet, MapThenFoldSet, Lines, OneLine
<1> HIDE DEF f, D
<1> DEFINE I == {k \in Nat : \A s \in SUBSET D : Cardinality(s) = k => f[s] \in Seq(S)}
<1>3. \A s \in SUBSET D : IsFiniteSet(s) /\ Cardinality(s) \in Nat
  BY FS_Subset, FS_CardinalityType DEF D
<1>4. 0 \in I
  <2>1. \A s \in SUBSET D : Cardinality(s) = 0 => s = {}
    <3>1. ASSUME NEW s \in SUBSET D PROVE Cardinality(s) = 0 <=> s = {}
      BY <1>3, FS_EmptySet
    <3> QED
      BY <3>1
  <2>2. {} \in SUBSET D /\ Lines(h, f, {}) = <<>>
    BY DEF Lines
  <2>3. f[{}] = <<>> /\ <<>> \in Seq(S)
    BY <1>1, <2>2, EmptySeq
  <2> QED
    BY <2>1, <2>3
<1>5. ASSUME NEW k \in Nat, k \in I PROVE k + 1 \in I
  <2>1. ASSUME NEW s \in SUBSET D, Cardinality(s) = k + 1 PROVE f[s] \in Seq(S)
    <3> DEFINE key == CHOOSE key \in s : TRUE
    <3>1. s # {}
      <4>1. Cardinality(s) = 0 <=> s = {}
        BY <1>3, FS_EmptySet
      <4> QED
        BY <2>1, <4>1
    <3>2. key \in s
      BY <3>1
    <3>3. f[s] = OneLine(h, key, f[s \ {key}])
      BY <1>1, <3>1 DEF Lines
    <3> HIDE DEF key
    <3>4. f[s \ {key}] \in Seq(S)
      <4>1. Cardinality(s \ {key}) = IF key \in s THEN Cardinality(s) - 1 ELSE Cardinality(s)
        BY <1>3, FS_RemoveElement
      <4>2. Cardinality(s \ {key}) = k /\ s \ {key} \in SUBSET D
        BY <2>1, <3>2, <4>1
      <4> QED
        BY <1>5, <4>2
    <3>5. key \in Seq(S) /\ h[key] \in Seq(S)
      BY <3>2 DEF D
    <3>6. <<":", SP>> \in Seq(S) /\ <<CR, LF>> \in Seq(S)
      OBVIOUS
    <3>7. OneLine(h, key, f[s \ {key}]) \in Seq(S)
      BY <3>4, <3>5, <3>6, ConcatProperties DEF OneLine
    <3> QED
      BY <3>3, <3>7
  <2>2. k + 1 \in Nat
    OBVIOUS
  <2> QED
    BY <2>1, <2>2
<1>6. Cardinality(D) \in I
  <2>1. Cardinality(D) \in Nat
    BY <1>3
  <2> HIDE DEF I
  <2> QED
    BY <1>4, <1>5, <2>1, Induction
<1> QED
  BY <1>2, <1>6

(* A sequence is one of any larger set.                                    *)
LEMMA SeqMonotone ==
  ASSUME NEW S, NEW T, S \subseteq T, NEW t \in Seq(S)
  PROVE  t \in Seq(T)
<1>1. Len(t) \in Nat /\ t = [i \in 1..Len(t) |-> t[i]] /\ \A i \in 1..Len(t) : t[i] \in T
  OBVIOUS
<1>2. t \in [1..Len(t) -> T]
  BY <1>1, Zenon
<1> QED
  BY <1>1, <1>2, SeqDef

(* The texts of the structures are texts of symbols.                       *)
LEMMA TextsAreSymbols ==
  /\ {"HTTP/1.1", ":", SP, CR, LF} \subseteq Symbols
  /\ STRING \subseteq Symbols
  /\ \A t \in Seq(STRING) : t \in Seq(Symbols)
  /\ \A t \in Seq(Seq(STRING)) : t \in Seq(Seq(Symbols))
<1>1. STRING \subseteq Symbols /\ {"HTTP/1.1", ":", SP, CR, LF} \subseteq Symbols
  BY DEF Symbols
<1> HIDE DEF Symbols
<1>3. Seq(STRING) \subseteq Seq(Symbols)
  BY <1>1, SeqMonotone
<1>4. \A t \in Seq(Seq(STRING)) : t \in Seq(Seq(Symbols))
  BY <1>3, SeqMonotone
<1> QED
  BY <1>1, <1>3, <1>4

(* Every status is a word of its own, and its phrase words and spaces.     *)
LEMMA StatusTexts ==
  ASSUME NEW status \in Statuses
  PROVE  /\ status \in Symbols \ Separators
         /\ Phrase[status] \in Seq(Symbols \ {CR, LF, NUL})
         /\ Len(Phrase[status]) >= 1 /\ Phrase[status][1] # SP
         /\ Len(Phrase[status]) >= 2 => Phrase[status][2] = SP
<1> DEFINE Words2 == PhraseWords \cup {SP}
           Spaced(p) == /\ p \in Seq(Words2) /\ Len(p) >= 1 /\ p[1] # SP
                        /\ Len(p) >= 2 => p[2] = SP
<1>1. status \in Symbols \ Separators
  BY DEF Statuses, Symbols, Separators, CR, LF, SP, NUL
<1>2. /\ \A x \in PhraseWords : x \notin Separators
      /\ SP \notin {CR, LF, NUL}
  BY DEF PhraseWords, Separators, CR, LF, SP, NUL
<1>3. ASSUME NEW x \in PhraseWords, NEW y \in PhraseWords, NEW z \in PhraseWords
      PROVE  /\ Spaced(<<x>>) /\ Spaced(<<x, SP, y>>) /\ Spaced(<<x, SP, y, SP, z>>)
  BY <1>2 DEF Separators
<1>4. Spaced(Phrase[status])
  <2> HIDE DEF Spaced
  <2>1. CASE status \in {"101", "404", "400", "501"}
    <3>1. /\ {"Switching", "Protocols", "Not", "Found"} \subseteq PhraseWords
          /\ {"Bad", "Request", "Implemented"} \subseteq PhraseWords
      BY DEF PhraseWords
    <3>2. CASE status = "101"
      <4>1. Phrase[status] = <<"Switching", SP, "Protocols">>
        BY <3>2 DEF Phrase, Statuses
      <4> QED
        BY <1>3, <3>1, <4>1
    <3>3. CASE status = "404"
      <4>1. Phrase[status] = <<"Not", SP, "Found">>
        BY <3>3 DEF Phrase, Statuses
      <4> QED
        BY <1>3, <3>1, <4>1
    <3>4. CASE status = "400"
      <4>1. Phrase[status] = <<"Bad", SP, "Request">>
        BY <3>4 DEF Phrase, Statuses
      <4> QED
        BY <1>3, <3>1, <4>1
    <3>5. CASE status = "501"
      <4>1. Phrase[status] = <<"Not", SP, "Implemented">>
        BY <3>5 DEF Phrase, Statuses
      <4> QED
        BY <1>3, <3>1, <4>1
    <3> QED
      BY <2>1, <3>2, <3>3, <3>4, <3>5
  <2>2. CASE status \in {"405", "500"}
    <3>1. {"Method", "Not", "Allowed", "Internal", "Server", "Error"} \subseteq PhraseWords
      BY DEF PhraseWords
    <3>2. CASE status = "405"
      <4>1. Phrase[status] = <<"Method", SP, "Not", SP, "Allowed">>
        BY <3>2 DEF Phrase, Statuses
      <4> QED
        BY <1>3, <3>1, <4>1
    <3>3. CASE status = "500"
      <4>1. Phrase[status] = <<"Internal", SP, "Server", SP, "Error">>
        BY <3>3 DEF Phrase, Statuses
      <4> QED
        BY <1>3, <3>1, <4>1
    <3> QED
      BY <2>2, <3>2, <3>3
  <2>3. CASE status = "200"
    <3>1. Phrase[status] = <<"OK">>
      BY <2>3 DEF Phrase, Statuses
    <3>2. "OK" \in PhraseWords
      BY DEF PhraseWords
    <3> QED
      BY <1>3, <3>1, <3>2
  <2> QED
    BY <2>1, <2>2, <2>3 DEF Statuses
<1>5. Words2 \subseteq Symbols \ {CR, LF, NUL}
  BY <1>2 DEF Symbols, Separators
<1> HIDE DEF Words2
<1> QED
  BY <1>1, <1>4, <1>5, SeqMonotone

(* Of an answer, more than half is enough for the first line's status.     *)
LEMMA AnswerBegins ==
  ASSUME NEW a, IsResponse(a), NEW text, text = CString(ResponseText(a)),
         NEW n \in {Len(text) \div 2 + 1, Len(text)}
  PROVE  BeginsAsAnswer(SubSeq(text, 1, n), a.status)
<1> DEFINE head == <<"HTTP/1.1", SP, a.status, SP>>
           body == IF a.body = <<>> THEN <<>> ELSE FlattenSeq(a.body) \o <<CR, LF>>
           rest == Phrase[a.status] \o <<CR, LF>> \o HeaderLines(a.headers) \o <<CR, LF>> \o body
           r == ResponseText(a)
<1>1. /\ head \in Seq(Symbols) /\ Len(head) = 4
      /\ head[1] = "HTTP/1.1" /\ head[2] = SP /\ head[3] = a.status /\ head[4] = SP
  <2>1. a.status \in Symbols
    BY StatusTexts, TextsAreSymbols DEF IsResponse
  <2> QED
    BY <2>1, TextsAreSymbols
<1>2. <<CR, LF>> \in Seq(Symbols)
  BY TextsAreSymbols
<1>3. body \in Seq(Symbols)
  <2>1. <<>> \in Seq(Symbols)
    BY EmptySeq
  <2>2. FlattenSeq(a.body) \in Seq(Symbols)
    <3>1. a.body \in Seq(Seq(Symbols))
      BY TextsAreSymbols DEF IsResponse, IsMap
    <3> QED
      BY <3>1, FlattenType
  <2> QED
    BY <1>2, <2>1, <2>2, ConcatProperties
<1>4. HeaderLines(a.headers) \in Seq(Symbols) /\ Phrase[a.status] \in Seq(Symbols)
  <2>1. /\ IsFiniteSet(DOMAIN a.headers)
        /\ \A k \in DOMAIN a.headers : k \in Seq(Symbols) /\ a.headers[k] \in Seq(Symbols)
    BY TextsAreSymbols DEF IsResponse, IsMap
  <2>3. Phrase[a.status] \in Seq(Symbols)
    <3>1. Phrase[a.status] \in Seq(Symbols \ {CR, LF, NUL})
      BY StatusTexts DEF IsResponse
    <3> QED
      BY <3>1, SeqMonotone
  <2>2. {":", SP, CR, LF} \subseteq Symbols
    BY TextsAreSymbols
  <2> QED
    BY <2>1, <2>2, <2>3, HeaderLinesType
<1>5. r = head \o Phrase[a.status] \o <<CR, LF>> \o HeaderLines(a.headers) \o <<CR, LF>> \o body
  BY DEF ResponseText
<1> HIDE DEF head, body, r
<1> DEFINE r1 == head \o Phrase[a.status]
           r2 == r1 \o <<CR, LF>>
           r3 == r2 \o HeaderLines(a.headers)
           r4 == r3 \o <<CR, LF>>
<1>6. ASSUME NEW x \in Seq(Symbols), NEW y \in Seq(Symbols), Len(x) >= 4
      PROVE  /\ x \o y \in Seq(Symbols) /\ Len(x \o y) >= 4
             /\ \A i \in 1..4 : (x \o y)[i] = x[i]
  <2>1. /\ x \o y \in Seq(Symbols) /\ Len(x \o y) = Len(x) + Len(y)
        /\ \A i \in 1..(Len(x) + Len(y)) : (x \o y)[i] = IF i <= Len(x) THEN x[i] ELSE y[i - Len(x)]
    BY ConcatProperties
  <2>2. Len(x) \in Nat /\ Len(y) \in Nat
    OBVIOUS
  <2> QED
    BY <1>6, <2>1, <2>2
<1>7. r1 \in Seq(Symbols) /\ Len(r1) >= 4 /\ \A i \in 1..4 : r1[i] = head[i]
  <2>1. head \in Seq(Symbols) /\ Len(head) >= 4
    BY <1>1
  <2> QED
    BY <1>4, <1>6, <2>1
<1> HIDE DEF r1
<1>8. r2 \in Seq(Symbols) /\ Len(r2) >= 4 /\ \A i \in 1..4 : r2[i] = head[i]
  BY <1>2, <1>6, <1>7
<1> HIDE DEF r2
<1>9. r3 \in Seq(Symbols) /\ Len(r3) >= 4 /\ \A i \in 1..4 : r3[i] = head[i]
  BY <1>4, <1>6, <1>8
<1> HIDE DEF r3
<1>10. r4 \in Seq(Symbols) /\ Len(r4) >= 4 /\ \A i \in 1..4 : r4[i] = head[i]
  BY <1>2, <1>6, <1>9
<1> HIDE DEF r4
<1>11. r \in Seq(Symbols) /\ Len(r) >= 4 /\ \A i \in 1..4 : r[i] = head[i]
  BY <1>3, <1>5, <1>6, <1>10 DEF r4, r3, r2, r1
<1>12. \A i \in 1..4 : r[i] # NUL
  <2>1. 1..4 = {1, 2, 3, 4}
    OBVIOUS
  <2>2. a.status # NUL
    BY StatusTexts DEF IsResponse, Separators
  <2> QED
    BY <1>1, <1>11, <2>1, <2>2, Distinct DEF Separators
<1>13. text \in Seq(Symbols) /\ Len(text) \in 4..Len(r) /\ \A i \in 1..4 : text[i] = r[i]
  <2>1. 4 \in 0..Len(r)
    BY <1>11
  <2> QED
    BY <1>11, <1>12, <2>1, CStringProperties DEF r
<1>14. Len(text) \in Nat /\ Len(text) >= 4 /\ n \in 3..Len(text)
  <2>1. Len(text) \in Nat /\ Len(text) >= 4
    BY <1>11, <1>13
  <2> DEFINE m == Len(text)
  <2>2. m \div 2 + 1 \in 3..m
    <3> HIDE DEF m
    <3> QED
      BY <2>1 DEF m
  <2> QED
    BY <2>1, <2>2
<1>15. /\ SubSeq(text, 1, n) \in Seq(Symbols) /\ Len(SubSeq(text, 1, n)) = n
       /\ \A i \in 1..n : SubSeq(text, 1, n)[i] = text[i]
  <2>1. n \in 0..Len(text)
    BY <1>14
  <2> QED
    BY <1>13, <2>1, PrefixProperties
<1> QED
  <2>1. \A i \in 1..4 : text[i] = head[i]
    BY <1>11, <1>13
  <2>2. 1 \in 1..n /\ 2 \in 1..n /\ 3 \in 1..n /\ (n >= 4 => 4 \in 1..n) /\ n \in Nat
    BY <1>14
  <2> HIDE DEF r
  <2> QED
    BY <1>1, <1>14, <1>15, <2>1, <2>2 DEF BeginsAsAnswer

-----------------------------------------------------------------------------
(* What every parser is, before and after each token.                      *)
Parser(parsed) ==
  /\ DOMAIN parsed = Fields
  /\ parsed.firstLineParsed \in BOOLEAN
  /\ parsed.headersParsed \in BOOLEAN
  /\ parsed.null \in BOOLEAN

(* The server's parser remains one with every token.                       *)
LEMMA ParserStays ==
  ASSUME NEW parsed, NEW token, Parser(parsed)
  PROVE  Parser(ParseToken("request_t", parsed, token))
<1> DEFINE next == ParseToken("request_t", parsed, token)
<1>1. CASE token = <<LF>>
  <2>1. next = [parsed EXCEPT !.headersParsed = TRUE]
    BY <1>1, Zenon DEF ParseToken
  <2>2. Parser([parsed EXCEPT !.headersParsed = TRUE])
    BY DEF Parser, Fields
  <2> QED
    BY <2>1, <2>2, Zenon
<1>2. CASE token # <<LF>> /\ ~parsed.firstLineParsed
  <2> DEFINE started == [parsed EXCEPT !.firstLineParsed = TRUE]
  <2>1. next = FirstLine("request_t", started, Words(token))
    BY <1>2, Zenon DEF ParseToken
  <2>2. Parser(started)
    BY DEF Parser, Fields
  <2> HIDE DEF started
  <2>3. ASSUME NEW x, Parser(x), NEW line PROVE Parser([x EXCEPT !.line = line])
    BY <2>3 DEF Parser, Fields
  <2>4. ASSUME NEW x, Parser(x), NEW query, NEW null \in BOOLEAN
        PROVE  Parser([x EXCEPT !.query = query, !.null = null])
    BY <2>4 DEF Parser, Fields
  <2>5. ASSUME NEW x, Parser(x), NEW pairs PROVE Parser(Query(x, pairs))
    <3> DEFINE null == x.null \/ \E n \in DOMAIN pairs : Len(StrTok(pairs[n], "=")) < 2
    <3>1. null \in BOOLEAN
      BY Zenon
    <3> HIDE DEF null
    <3>2. \A query : Parser([x EXCEPT !.query = query, !.null = null])
      BY <2>4, <2>5, <3>1
    <3> QED
      BY <3>2, Zenon DEF Query, null
  <2>6. ASSUME NEW x, Parser(x), NEW words PROVE Parser(RequestLine(x, words))
    <3>1. \A line, pairs : Parser(Query([x EXCEPT !.line = line], pairs))
      BY <2>3, <2>5, <2>6
    <3> QED
      BY <3>1, Zenon DEF RequestLine
  <2> QED
    BY <2>1, <2>2, <2>6, Zenon DEF FirstLine
<1>3. CASE token # <<LF>> /\ parsed.firstLineParsed /\ parsed.headersParsed
  <2>1. next = [parsed EXCEPT !.body = parsed.body \o RemoveFirst(token, LF)]
    BY <1>3, Zenon DEF ParseToken
  <2>2. ASSUME NEW b PROVE Parser([parsed EXCEPT !.body = b])
    BY DEF Parser, Fields
  <2> QED
    BY <2>1, <2>2, Zenon
<1>4. CASE token # <<LF>> /\ parsed.firstLineParsed /\ ~parsed.headersParsed
  <2>1. next = IF Find(token, ":") # 0 THEN Header("request_t", parsed, token) ELSE parsed
    BY <1>4, Zenon DEF ParseToken
  <2>2. Parser(Header("request_t", parsed, token))
    <3> DEFINE null == parsed.null \/ StrTok(token, ":") = <<>>
    <3>1. null \in BOOLEAN
      BY Zenon
    <3>2. ASSUME NEW h, NEW b \in BOOLEAN
          PROVE  Parser([parsed EXCEPT !.headers = h, !.null = b])
      BY DEF Parser, Fields
    <3> QED
      BY <3>1, <3>2, Zenon DEF Header, null
  <2> QED
    BY <2>1, <2>2, Zenon
<1>5. parsed.firstLineParsed \in BOOLEAN /\ parsed.headersParsed \in BOOLEAN
  BY DEF Parser
<1> QED
  BY <1>1, <1>2, <1>3, <1>4, <1>5

(* Of any text at all the server's parser says whether it met a null       *)
(* pointer.                                                                *)
LEMMA RequestIsParsed ==
  ASSUME NEW S, NEW text \in Seq(S)
  PROVE  \A method : ParseRequest(text, method).null \in BOOLEAN
<1> DEFINE tokens == StrTok(CString(text), CR)
           n == Cardinality(Starts(CString(text), CR))
<1>1. CString(text) \in Seq(S)
  <2>1. Len(text) \in Nat
    OBVIOUS
  <2>2. 0 \in 0..Len(text) /\ \A i \in 1..0 : text[i] # NUL
    BY <2>1
  <2> QED
    BY <2>2, CStringProperties
<1>2. n \in Nat /\ DOMAIN tokens = 1..n
  BY <1>1, TokensType
<1> HIDE DEF n, tokens
<1>3. PICK state : /\ state[0] = Unparsed
                   /\ \A k \in 1..n : state[k] = ParseToken("request_t", state[k - 1], tokens[k])
                   /\ Parse("request_t", text) = state[n]
  BY <1>2, ParseStates DEF tokens
<1> DEFINE I == {i \in Nat : i \in 0..n => Parser(state[i])}
<1>4. 0 \in I
  <2>1. Parser(Unparsed)
    BY DEF Parser, Unparsed, Fields
  <2> QED
    BY <1>3, <2>1
<1>5. ASSUME NEW i \in Nat, i \in I PROVE i + 1 \in I
  <2>1. ASSUME i + 1 \in 0..n PROVE Parser(state[i + 1])
    <3>1. i \in 0..n /\ i + 1 \in 1..n /\ (i + 1) - 1 = i
      BY <1>2, <2>1
    <3>2. state[i + 1] = ParseToken("request_t", state[i], tokens[i + 1])
      BY <1>3, <3>1
    <3> QED
      BY <1>5, <3>1, <3>2, ParserStays
  <2>2. i + 1 \in Nat
    OBVIOUS
  <2> QED
    BY <2>1, <2>2
<1>6. n \in I
  <2> HIDE DEF I
  <2> QED
    BY <1>2, <1>4, <1>5, Induction
<1>7. Parse("request_t", text).null \in BOOLEAN
  BY <1>2, <1>3, <1>6 DEF Parser
<1> QED
  BY <1>7 DEF ParseRequest

-----------------------------------------------------------------------------
(* Two of a set of positions with as many before them are one.             *)
LEMMA NthUnique ==
  ASSUME NEW L \in Nat, NEW P \in SUBSET (1..L), NEW i \in P, NEW j \in P,
         Cardinality(P \cap 1..i) = Cardinality(P \cap 1..j)
  PROVE  i = j
<1>1. ASSUME NEW a \in P, NEW b \in P, Cardinality(P \cap 1..a) = Cardinality(P \cap 1..b)
      PROVE  ~(a < b)
  <2> SUFFICES ASSUME a < b PROVE FALSE
    OBVIOUS
  <2>1. a \in Nat /\ b \in Nat /\ b \in 1..b /\ b \notin 1..a /\ 1..a \subseteq 1..b
    OBVIOUS
  <2>2. P \cap 1..b \in SUBSET (1..L) /\ P \cap 1..a \in SUBSET (P \cap 1..b)
    BY <2>1
  <2>3. IsFiniteSet(P \cap 1..b)
    BY <2>2, PositionsFinite
  <2>4. P \cap 1..b = P \cap 1..a
    BY <1>1, <2>2, <2>3, FS_Subset
  <2> QED
    BY <2>1, <2>4
<1>2. ~(i < j) /\ ~(j < i) /\ i \in Nat /\ j \in Nat
  BY <1>1
<1> QED
  BY <1>2

(* There is an n-th.                                                       *)
LEMMA NthExists ==
  ASSUME NEW L \in Nat, NEW P \in SUBSET (1..L), NEW n \in 1..Cardinality(P)
  PROVE  Nth(P, n) \in P /\ Cardinality(P \cap 1..Nth(P, n)) = n
<1> DEFINE C(i) == Cardinality(P \cap 1..i)
           I == {i \in Nat : C(i) >= n}
<1>1. \A i \in Nat : IsFiniteSet(P \cap 1..i) /\ C(i) \in Nat
  <2>1. \A i \in Nat : P \cap 1..i \in SUBSET (1..L)
    OBVIOUS
  <2> QED
    BY <2>1, PositionsFinite
<1>2. n \in Nat /\ n >= 1 /\ Cardinality(P) \in Nat
  BY PositionsFinite
<1>3. L \in I
  <2>1. P \cap 1..L = P
    OBVIOUS
  <2> QED
    BY <1>2, <2>1
<1> DEFINE m == Min(I)
<1>4. m \in I /\ \A y \in I : m <= y
  BY <1>3, MinExists
<1> HIDE DEF m
<1>5. m # 0
  <2>1. P \cap 1..0 = {}
    OBVIOUS
  <2>2. C(0) = 0
    BY <2>1, FS_EmptySet
  <2> QED
    BY <1>2, <1>4, <2>2
<1>6. m - 1 \in Nat /\ m - 1 \notin I /\ m \in Nat
  BY <1>4, <1>5
<1>7. C(m - 1) < n /\ C(m) >= n
  BY <1>1, <1>2, <1>4, <1>6
<1>8. m \in P
  <2> SUFFICES ASSUME m \notin P PROVE FALSE
    OBVIOUS
  <2>1. \A x \in P : x \in 1..m <=> x \in 1..(m - 1)
    BY <1>6
  <2>2. P \cap 1..m = P \cap 1..(m - 1)
    BY <2>1
  <2> QED
    BY <1>1, <1>2, <1>6, <1>7, <2>2
<1>9. C(m) = n
  <2>1. P \cap 1..m = (P \cap 1..(m - 1)) \cup {m}
    <3>1. \A x \in P : x \in 1..m <=> x \in 1..(m - 1) \/ x = m
      BY <1>6
    <3> QED
      BY <1>8, <3>1
  <2>2. m \notin P \cap 1..(m - 1)
    BY <1>6
  <2>3. C(m) = C(m - 1) + 1
    BY <1>1, <1>6, <2>1, <2>2, FS_AddElement
  <2> QED
    BY <1>1, <1>2, <1>6, <1>7, <2>3
<1> QED
  BY <1>8, <1>9 DEF Nth

(* The one with n up to it is the n-th.                                    *)
LEMMA NthIs ==
  ASSUME NEW L \in Nat, NEW P \in SUBSET (1..L), NEW i \in P, NEW n,
         Cardinality(P \cap 1..i) = n
  PROVE  Nth(P, n) = i
<1>1. \A j \in P : Cardinality(P \cap 1..j) = n => j = i
  BY NthUnique
<1> QED
  BY <1>1 DEF Nth

Shift(P, n) == {i + n : i \in P}

(* Positions further on are as many.                                       *)
LEMMA ShiftCardinality ==
  ASSUME NEW L \in Nat, NEW P \in SUBSET (1..L), NEW n \in Nat
  PROVE  IsFiniteSet(Shift(P, n)) /\ Cardinality(Shift(P, n)) = Cardinality(P)
<1> DEFINE f == [i \in P |-> i + n]
<1>1. f \in Surjection(P, Shift(P, n)) /\ f \in Injection(P, Shift(P, n))
  BY DEF Surjection, Injection, IsInjective, Shift
<1>2. IsFiniteSet(P)
  BY PositionsFinite
<1> QED
  BY <1>1, <1>2, FS_Surjection

-----------------------------------------------------------------------------
(* The tokens are a function of their numbers.                             *)
LEMMA StrTokFunction ==
  ASSUME NEW s, NEW d
  PROVE  StrTok(s, d) = [n \in DOMAIN StrTok(s, d) |-> StrTok(s, d)[n]]
<1> DEFINE starts == {i \in DOMAIN s : s[i] # d /\ (i > 1 => s[i - 1] = d)}
           LastOf(i) == CHOOSE j \in i..Len(s) : /\ \A k \in i..j : s[k] # d
                                                 /\ j < Len(s) => s[j + 1] = d
           f == [n \in 1..Cardinality(starts) |-> SubSeq(s, Nth(starts, n), LastOf(Nth(starts, n)))]
<1>1. StrTok(s, d) = f
  BY DEF StrTok
<1> HIDE DEF LastOf
<1>2. f = [n \in DOMAIN f |-> f[n]]
  OBVIOUS
<1> HIDE DEF f
<1> QED
  BY <1>1, <1>2

(* A token is a text without the delimiter.                                *)
LEMMA StrTokType ==
  ASSUME NEW S, NEW s \in Seq(S), NEW d
  PROVE  StrTok(s, d) \in Seq(Seq(S \ {d}))
<1> DEFINE N == Cardinality(Starts(s, d))
<1>1. /\ Starts(s, d) \in SUBSET (1..Len(s)) /\ N \in Nat /\ Len(s) \in Nat
      /\ DOMAIN StrTok(s, d) = 1..N
  BY TokensType
<1>2. ASSUME NEW n \in 1..N PROVE StrTok(s, d)[n] \in Seq(S \ {d})
  <2> DEFINE i == Nth(Starts(s, d), n)
  <2>1. i \in Starts(s, d)
    BY <1>1, NthExists
  <2>2. \E j \in i..Len(s) : /\ \A k \in i..j : s[k] # d
                             /\ StrTok(s, d)[n] = SubSeq(s, i, j)
    BY <2>1, TokenAt
  <2> HIDE DEF i
  <2>3. PICK j \in i..Len(s) : (\A k \in i..j : s[k] # d) /\ StrTok(s, d)[n] = SubSeq(s, i, j)
    BY <2>2
  <2>4. i \in Int /\ j \in Int /\ \A k \in i..j : s[k] \in S \ {d}
    BY <1>1, <2>1, <2>3
  <2>5. SubSeq(s, i, j) \in Seq(S \ {d})
    BY <2>4, SubSeqProperties
  <2> QED
    BY <2>3, <2>5
<1>3. StrTok(s, d) = [n \in 1..N |-> StrTok(s, d)[n]]
  <2> HIDE DEF N
  <2> QED
    BY <1>1, StrTokFunction
<1>4. StrTok(s, d) \in [1..N -> Seq(S \ {d})]
  <2> HIDE DEF N
  <2> QED
    BY <1>2, <1>3
<1> DEFINE T == Seq(S \ {d})
<1>5. StrTok(s, d) \in [1..N -> T] /\ N \in Nat
  BY <1>1, <1>4
<1> HIDE DEF T, N
<1> QED
  BY <1>5, SeqDef DEF T

(* Where a run without the delimiter ends is determined.                   *)
LEMMA RunIs ==
  ASSUME NEW s, NEW d, NEW l \in Nat, NEW i \in 1..l, NEW j \in i..l, NEW k \in i..l,
         \A m \in i..j : s[m] # d, j < l => s[j + 1] = d,
         \A m \in i..k : s[m] # d, k < l => s[k + 1] = d
  PROVE  j = k
<1>1. i \in Nat /\ j \in Nat /\ k \in Nat
  OBVIOUS
<1>2. j < k => j + 1 \in i..k /\ j < l
  BY <1>1
<1>3. k < j => k + 1 \in i..j /\ k < l
  BY <1>1
<1> QED
  BY <1>1, <1>2, <1>3

(* Two texts and the delimiter between them.                               *)
Join(x, d, y) == x \o <<d>> \o y

(* Its symbols are theirs.                                                 *)
LEMMA Joined ==
  ASSUME NEW S, NEW x \in Seq(S), NEW y \in Seq(S), NEW d \in S
  PROVE  /\ x \o <<d>> \o y \in Seq(S)
         /\ Len(x \o <<d>> \o y) = Len(x) + 1 + Len(y)
         /\ \A i \in 1..Len(x) : (x \o <<d>> \o y)[i] = x[i]
         /\ (x \o <<d>> \o y)[Len(x) + 1] = d
         /\ \A i \in 1..Len(y) : (x \o <<d>> \o y)[i + (Len(x) + 1)] = y[i]
<1>1. Len(x) \in Nat /\ Len(y) \in Nat /\ <<d>> \in Seq(S) /\ Len(<<d>>) = 1 /\ <<d>>[1] = d
  OBVIOUS
<1> DEFINE z == x \o <<d>>
<1>2. /\ z \in Seq(S) /\ Len(z) = Len(x) + 1
      /\ \A i \in 1..Len(x) + 1 : z[i] = IF i <= Len(x) THEN x[i] ELSE <<d>>[i - Len(x)]
  BY <1>1, ConcatProperties
<1>3. (\A i \in 1..Len(x) : z[i] = x[i]) /\ z[Len(x) + 1] = d
  BY <1>1, <1>2
<1> HIDE DEF z
<1>4. /\ z \o y \in Seq(S) /\ Len(z \o y) = Len(z) + Len(y)
      /\ \A i \in 1..Len(z) + Len(y) : (z \o y)[i] = IF i <= Len(z) THEN z[i] ELSE y[i - Len(z)]
  <2>1. z \in Seq(S)
    BY <1>2
  <2> QED
    BY <2>1, ConcatProperties
<1>5. ASSUME NEW i \in 1..Len(x) PROVE (z \o y)[i] = x[i]
  <2>1. i \in 1..Len(z) + Len(y) /\ i <= Len(z)
    BY <1>1, <1>2
  <2> QED
    BY <1>3, <1>4, <2>1
<1>6. (z \o y)[Len(x) + 1] = d
  <2>1. Len(x) + 1 \in 1..Len(z) + Len(y) /\ Len(x) + 1 <= Len(z)
    BY <1>1, <1>2
  <2> QED
    BY <1>3, <1>4, <2>1
<1>7. \A i \in 1..Len(y) : (z \o y)[i + (Len(x) + 1)] = y[i]
  BY <1>1, <1>2, <1>4
<1> QED
  BY <1>2, <1>4, <1>5, <1>6, <1>7 DEF z

(* The tokens start where those of both texts do.                          *)
LEMMA StartsConcat ==
  ASSUME NEW S, NEW x \in Seq(S), NEW y \in Seq(S), NEW d \in S
  PROVE  Starts(x \o <<d>> \o y, d) = Starts(x, d) \cup Shift(Starts(y, d), Len(x) + 1)
<1> DEFINE s == x \o <<d>> \o y
           n == Len(x) + 1
<1>1. /\ s \in Seq(S) /\ Len(s) = n + Len(y)
      /\ \A i \in 1..Len(x) : s[i] = x[i]
      /\ s[n] = d
      /\ \A i \in 1..Len(y) : s[i + n] = y[i]
  BY Joined
<1>2. Len(x) \in Nat /\ Len(y) \in Nat /\ n \in Nat /\ n >= 1
  OBVIOUS
<1>3. DOMAIN s = 1..(n + Len(y)) /\ DOMAIN x = 1..Len(x) /\ DOMAIN y = 1..Len(y)
  BY <1>1
<1> HIDE DEF s
<1>4. ASSUME NEW i \in Starts(s, d) PROVE i \in Starts(x, d) \cup Shift(Starts(y, d), n)
  <2>1. i \in 1..(n + Len(y)) /\ s[i] # d /\ (i > 1 => s[i - 1] = d)
    BY <1>3 DEF Starts
  <2>2. CASE i < n
    <3>1. i \in 1..Len(x) /\ (i > 1 => i - 1 \in 1..Len(x))
      BY <1>2, <2>1, <2>2
    <3>2. x[i] # d /\ (i > 1 => x[i - 1] = d)
      BY <1>1, <2>1, <3>1
    <3> QED
      BY <1>3, <3>1, <3>2 DEF Starts
  <2>3. CASE i > n
    <3> DEFINE j == i - n
    <3>1. j \in 1..Len(y) /\ j + n = i /\ (j > 1 => j - 1 \in 1..Len(y) /\ (j - 1) + n = i - 1)
      BY <1>2, <2>1, <2>3
    <3> HIDE DEF j
    <3>2. y[j] # d /\ (j > 1 => y[j - 1] = d)
      <4>1. s[j + n] = y[j]
        BY <1>1, <3>1
      <4>2. ASSUME j > 1 PROVE y[j - 1] = d
        <5>1. s[(j - 1) + n] = y[j - 1]
          BY <1>1, <3>1, <4>2
        <5>2. s[i - 1] = d
          BY <1>2, <2>1, <2>3
        <5> QED
          BY <3>1, <4>2, <5>1, <5>2
      <4> QED
        BY <2>1, <3>1, <4>1, <4>2
    <3>3. j \in Starts(y, d)
      BY <1>3, <3>1, <3>2 DEF Starts
    <3> QED
      BY <3>1, <3>3 DEF Shift
  <2> QED
    BY <1>1, <1>2, <2>1, <2>2, <2>3
<1>5. ASSUME NEW i \in Starts(x, d) PROVE i \in Starts(s, d)
  <2>1. i \in 1..Len(x) /\ x[i] # d /\ (i > 1 => x[i - 1] = d)
    BY <1>3 DEF Starts
  <2>2. i \in 1..(n + Len(y)) /\ (i > 1 => i - 1 \in 1..Len(x))
    BY <1>2, <2>1
  <2> QED
    BY <1>1, <1>3, <2>1, <2>2 DEF Starts
<1>6. ASSUME NEW j \in Starts(y, d) PROVE j + n \in Starts(s, d)
  <2>1. j \in 1..Len(y) /\ y[j] # d /\ (j > 1 => y[j - 1] = d)
    BY <1>3 DEF Starts
  <2>2. /\ j + n \in 1..(n + Len(y)) /\ (j > 1 => j - 1 \in 1..Len(y) /\ (j - 1) + n = (j + n) - 1)
        /\ j = 1 => (j + n) - 1 = n
    BY <1>2, <2>1
  <2>3. s[j + n] # d /\ s[(j + n) - 1] = d
    <3>1. j = 1 \/ j > 1
      BY <1>2, <2>1
    <3>2. s[j + n] = y[j] /\ (j > 1 => s[(j - 1) + n] = y[j - 1])
      BY <1>1, <2>1, <2>2
    <3> QED
      BY <1>1, <2>1, <2>2, <3>1, <3>2
  <2> QED
    BY <1>3, <2>2, <2>3 DEF Starts
<1>7. Starts(s, d) = Starts(x, d) \cup Shift(Starts(y, d), n)
  BY <1>4, <1>5, <1>6 DEF Shift
<1> QED
  BY <1>7 DEF s

(* The tokens of two texts with the delimiter between them are those of    *)
(* the one and then those of the other.                                    *)
LEMMA StrTokConcat ==
  ASSUME NEW S, NEW x \in Seq(S), NEW y \in Seq(S), NEW d \in S
  PROVE  StrTok(Join(x, d, y), d) = StrTok(x, d) \o StrTok(y, d)
<1> DEFINE s == x \o <<d>> \o y
           n == Len(x) + 1
           A == Starts(x, d)
           B == Starts(y, d)
           P == Starts(s, d)
           a == Cardinality(A)
           b == Cardinality(B)
           X == StrTok(x, d)
           Y == StrTok(y, d)
           Z == StrTok(s, d)
           T == Seq(S \ {d})
<1>1. /\ s \in Seq(S) /\ Len(s) = n + Len(y)
      /\ \A i \in 1..Len(x) : s[i] = x[i]
      /\ s[n] = d
      /\ \A i \in 1..Len(y) : s[i + n] = y[i]
  BY Joined
<1>2. Len(x) \in Nat /\ Len(y) \in Nat /\ n \in Nat /\ n = Len(x) + 1
  OBVIOUS
<1>16. s \in Seq(S)
  BY <1>1
<1>3. P = A \cup Shift(B, n)
  BY StartsConcat
<1>4. /\ A \in SUBSET (1..Len(x)) /\ a \in Nat /\ IsFiniteSet(A)
      /\ B \in SUBSET (1..Len(y)) /\ b \in Nat /\ IsFiniteSet(B)
  BY TokensType
<1> HIDE DEF s
<1>5. P \in SUBSET (1..Len(s)) /\ Len(s) \in Nat /\ Cardinality(P) \in Nat /\ IsFiniteSet(P)
  BY <1>16, TokensType
<1>6. X \in Seq(T) /\ Y \in Seq(T) /\ Z \in Seq(T)
  BY <1>16, StrTokType
<1>7. Len(X) = a /\ Len(Y) = b /\ Len(Z) = Cardinality(P)
  <2>1. DOMAIN X = 1..a /\ DOMAIN Y = 1..b /\ DOMAIN Z = 1..Cardinality(P)
    BY <1>16, TokensType
  <2> HIDE DEF X, Y, Z, a, b, P
  <2> QED
    BY <1>4, <1>5, <1>6, <2>1
<1> HIDE DEF n, A, B, P, X, Y, Z, T
<1>8. ASSUME NEW i \in A PROVE P \cap 1..i = A \cap 1..i
  <2>1. \A j \in B : j + n \notin 1..i
    BY <1>2, <1>4
  <2> QED
    BY <1>3, <2>1 DEF Shift
<1>9. ASSUME NEW j \in B PROVE Cardinality(P \cap 1..(j + n)) = a + Cardinality(B \cap 1..j)
  <2> DEFINE C == B \cap 1..j
  <2>1. P \cap 1..(j + n) = A \cup Shift(C, n)
    <3>1. \A i \in A : i \in 1..(j + n)
      BY <1>2, <1>4
    <3>2. \A k \in B : k + n \in 1..(j + n) <=> k \in 1..j
      BY <1>2, <1>4
    <3> QED
      BY <1>3, <3>1, <3>2 DEF Shift
  <2>2. C \in SUBSET (1..Len(y))
    BY <1>4
  <2>3. IsFiniteSet(Shift(C, n)) /\ Cardinality(Shift(C, n)) = Cardinality(C) /\ Cardinality(C) \in Nat
    <3> HIDE DEF C
    <3> QED
      BY <1>2, <2>2, ShiftCardinality, PositionsFinite
  <2>4. A \cap Shift(C, n) = {}
    BY <1>2, <1>4 DEF Shift
  <2> HIDE DEF C
  <2>5. Cardinality(A \cup Shift(C, n)) = a + Cardinality(Shift(C, n)) - Cardinality(A \cap Shift(C, n))
    BY <1>4, <2>3, FS_Union DEF a
  <2>6. Cardinality(A \cap Shift(C, n)) = 0
    BY <2>4, FS_EmptySet
  <2>7. Cardinality(P \cap 1..(j + n)) = Cardinality(A \cup Shift(C, n))
    BY <2>1, Zenon
  <2>8. Cardinality(A \cup Shift(C, n)) = a + Cardinality(C)
    <3> HIDE DEF a
    <3> QED
      BY <1>4, <2>3, <2>5, <2>6
  <2> QED
    BY <2>7, <2>8 DEF C
<1>10. Cardinality(P) = a + b
  <2>1. IsFiniteSet(Shift(B, n)) /\ Cardinality(Shift(B, n)) = b
    BY <1>2, <1>4, ShiftCardinality DEF b
  <2>2. A \cap Shift(B, n) = {}
    BY <1>2, <1>4 DEF Shift
  <2>3. Cardinality(P) = a + Cardinality(Shift(B, n)) - Cardinality(A \cap Shift(B, n))
    BY <1>3, <1>4, <2>1, FS_Union DEF a
  <2>4. Cardinality(A \cap Shift(B, n)) = 0
    BY <2>2, FS_EmptySet
  <2> QED
    BY <1>4, <2>1, <2>3, <2>4
<1>11. ASSUME NEW k \in 1..a PROVE Z[k] = X[k]
  <2> DEFINE i == Nth(A, k)
  <2>1. i \in A /\ Cardinality(A \cap 1..i) = k
    BY <1>2, <1>4, NthExists DEF a
  <2> HIDE DEF i
  <2>2. i \in P /\ Nth(P, k) = i /\ k \in 1..Cardinality(P)
    <3>1. i \in P /\ Cardinality(P \cap 1..i) = k
      BY <1>3, <1>8, <2>1
    <3>2. k \in 1..Cardinality(P)
      BY <1>4, <1>10
    <3> QED
      BY <1>5, <3>1, <3>2, NthIs
  <2>3. PICK p \in i..Len(x) : /\ \A m \in i..p : x[m] # d
                               /\ p < Len(x) => x[p + 1] = d
                               /\ X[k] = SubSeq(x, i, p)
    BY <2>1, TokenAt DEF i, A, X, a
  <2>4. PICK q \in i..Len(s) : /\ \A m \in i..q : s[m] # d
                               /\ q < Len(s) => s[q + 1] = d
                               /\ Z[k] = SubSeq(s, i, q)
    BY <1>16, <2>2, TokenAt, SMTT(30) DEF P, Z
  <2>5. i \in 1..Len(x) /\ p \in 1..Len(x)
    BY <1>2, <1>4, <2>1, <2>3
  <2>6. p = q
    <3>1. i \in 1..Len(s) /\ p \in i..Len(s) /\ p < Len(s)
      BY <1>1, <1>2, <2>5
    <3>2. ASSUME NEW m \in i..p PROVE s[m] # d
      <4>1. m \in 1..Len(x)
        BY <1>2, <2>5
      <4> QED
        BY <1>1, <2>3, <4>1
    <3>3. s[p + 1] = d
      <4>1. p = Len(x) \/ p + 1 \in 1..Len(x)
        BY <1>2, <2>5
      <4> QED
        BY <1>1, <1>2, <2>3, <4>1
    <3> QED
      BY <1>5, <2>4, <3>1, <3>2, <3>3, RunIs
  <2>7. SubSeq(s, i, p) = SubSeq(x, i, p)
    <3>1. <<d>> \in Seq(S) /\ x \o <<d>> \in Seq(S) /\ Len(x \o <<d>>) = Len(x) + 1
      BY <1>1, ConcatProperties
    <3>2. i \in 1..Len(x \o <<d>>) /\ p \in 1..Len(x \o <<d>>)
      BY <1>2, <2>5, <3>1
    <3>3. SubSeq(s, i, p) = SubSeq(x \o <<d>>, i, p)
      BY <3>1, <3>2, SubSeqOfConcat1 DEF s
    <3>4. SubSeq(x \o <<d>>, i, p) = SubSeq(x, i, p)
      BY <2>5, <3>1, SubSeqOfConcat1
    <3> QED
      BY <3>3, <3>4
  <2> QED
    BY <2>3, <2>4, <2>6, <2>7
<1>12. ASSUME NEW k \in 1..b PROVE Z[k + a] = Y[k]
  <2> DEFINE i == Nth(B, k)
  <2>1. i \in B /\ Cardinality(B \cap 1..i) = k
    BY <1>2, <1>4, NthExists DEF b
  <2> HIDE DEF i
  <2>2. i + n \in P /\ Nth(P, k + a) = i + n /\ k + a \in 1..Cardinality(P)
    <3>1. i + n \in P
      BY <1>3, <2>1 DEF Shift
    <3>2. Cardinality(P \cap 1..(i + n)) = k + a
      BY <1>4, <1>9, <2>1
    <3>3. k + a \in 1..Cardinality(P)
      BY <1>4, <1>10
    <3> QED
      BY <1>5, <3>1, <3>2, <3>3, NthIs
  <2>3. PICK p \in i..Len(y) : /\ \A m \in i..p : y[m] # d
                               /\ p < Len(y) => y[p + 1] = d
                               /\ Y[k] = SubSeq(y, i, p)
    BY <2>1, TokenAt DEF i, B, Y, b
  <2>4. PICK q \in (i + n)..Len(s) : /\ \A m \in (i + n)..q : s[m] # d
                                     /\ q < Len(s) => s[q + 1] = d
                                     /\ Z[k + a] = SubSeq(s, i + n, q)
    BY <1>16, <2>2, TokenAt DEF P, Z
  <2>5. i \in 1..Len(y) /\ p \in 1..Len(y) /\ i <= p
    BY <1>2, <1>4, <2>1, <2>3
  <2>6. p + n = q
    <3>1. i + n \in 1..Len(s) /\ p + n \in (i + n)..Len(s)
      BY <1>1, <1>2, <2>5
    <3>2. ASSUME NEW m \in (i + n)..(p + n) PROVE s[m] # d
      <4>1. m - n \in i..p /\ m - n \in 1..Len(y) /\ (m - n) + n = m
        BY <1>2, <2>5
      <4>2. s[(m - n) + n] = y[m - n] /\ y[m - n] # d
        BY <1>1, <2>3, <4>1
      <4> QED
        BY <4>1, <4>2
    <3>3. p + n < Len(s) => s[(p + n) + 1] = d
      <4>1. p + n < Len(s) => p < Len(y) /\ p + 1 \in 1..Len(y) /\ (p + 1) + n = (p + n) + 1
        BY <1>1, <1>2, <2>5
      <4>2. p < Len(y) => y[p + 1] = d
        BY <2>3
      <4>3. p + 1 \in 1..Len(y) => s[(p + 1) + n] = y[p + 1]
        BY <1>1
      <4> QED
        BY <4>1, <4>2, <4>3
    <3> QED
      BY <1>5, <2>4, <3>1, <3>2, <3>3, RunIs, SMTT(30)
  <2>7. SubSeq(s, i + n, p + n) = SubSeq(y, i, p)
    <3> DEFINE w == x \o <<d>>
    <3>1. w \in Seq(S) /\ Len(w) = n
      <4>1. <<d>> \in Seq(S) /\ Len(<<d>>) = 1
        OBVIOUS
      <4> QED
        BY <1>2, <4>1, ConcatProperties
    <3>2. s = w \o y
      BY DEF s
    <3> HIDE DEF w
    <3>3. /\ i + n \in Len(w) + 1 .. Len(w) + Len(y) /\ p + n \in Len(w) + 1 .. Len(w) + Len(y)
          /\ (i + n) - Len(w) = i /\ (p + n) - Len(w) = p
      BY <1>2, <2>5, <3>1
    <3>4. w \in Seq(S) /\ y \in Seq(S)
      BY <3>1
    <3>5. \A g \in Len(w) + 1 .. Len(w) + Len(y) : \A h \in Len(w) + 1 .. Len(w) + Len(y) :
            SubSeq(w \o y, g, h) = SubSeq(y, g - Len(w), h - Len(w))
      BY <3>4, SubSeqOfConcat2, Zenon
    <3> QED
      BY <3>2, <3>3, <3>5
  <2> QED
    BY <2>3, <2>4, <2>6, <2>7
<1>13. /\ X \o Y \in Seq(T) /\ Len(X \o Y) = a + b
       /\ \A k \in 1..(a + b) : (X \o Y)[k] = IF k <= a THEN X[k] ELSE Y[k - a]
  <2>1. X \in Seq(T) /\ Y \in Seq(T)
    BY <1>6
  <2>2. /\ X \o Y \in Seq(T) /\ Len(X \o Y) = Len(X) + Len(Y)
        /\ \A k \in 1..Len(X) + Len(Y) : (X \o Y)[k] = IF k <= Len(X) THEN X[k] ELSE Y[k - Len(X)]
    BY <2>1, ConcatProperties
  <2>3. Len(X) = a /\ Len(Y) = b
    BY <1>7
  <2> HIDE DEF a, b
  <2> QED
    BY <2>2, <2>3
<1>14. ASSUME NEW k \in 1..(a + b) PROVE Z[k] = (X \o Y)[k]
  <2>1. CASE k <= a
    <3>1. k \in 1..a
      BY <1>4, <2>1
    <3> QED
      BY <1>11, <1>13, <2>1, <3>1
  <2>2. CASE ~(k <= a)
    <3>1. k - a \in 1..b /\ (k - a) + a = k
      BY <1>4, <2>2
    <3> QED
      BY <1>12, <1>13, <2>2, <3>1
  <2> QED
    BY <2>1, <2>2
<1>15. Z = X \o Y
  <2>1. Len(Z) = a + b
    BY <1>7, <1>10
  <2> QED
    BY <1>6, <1>13, <1>14, <2>1, SeqEqual
<1> QED
  BY <1>15 DEF X, Y, Z, s, Join

(* A text without the delimiter is its one token, and no text has none.    *)
LEMMA StrTokOne ==
  ASSUME NEW S, NEW d, NEW x \in Seq(S \ {d})
  PROVE  StrTok(x, d) = IF x = <<>> THEN <<>> ELSE <<x>>
<1> DEFINE T == S \ {d}
           X == StrTok(x, d)
           N == Cardinality(Starts(x, d))
<1>1. /\ x \in Seq(T) /\ Len(x) \in Nat /\ DOMAIN x = 1..Len(x)
      /\ \A i \in 1..Len(x) : x[i] \in T /\ x[i] # d
  OBVIOUS
<1>2. X \in Seq(Seq(T)) /\ DOMAIN X = 1..N /\ N \in Nat
  <2>1. StrTok(x, d) \in Seq(Seq(T \ {d})) /\ T \ {d} = T
    BY <1>1, StrTokType
  <2>2. DOMAIN X = 1..N /\ N \in Nat
    BY <1>1, TokensType
  <2> QED
    BY <2>1, <2>2
<1>3. CASE x = <<>>
  <2>1. Starts(x, d) = {}
    BY <1>3 DEF Starts
  <2>2. N = 0
    BY <2>1, FS_EmptySet
  <2> HIDE DEF X, N, T
  <2>3. Len(X) = 0
    BY <1>2, <2>2
  <2>4. X = <<>>
    BY <1>2, <2>3, EmptySeq
  <2> QED
    BY <1>3, <2>4 DEF X
<1>4. CASE x # <<>>
  <2>1. Len(x) >= 1
    BY <1>1, <1>4, EmptySeq
  <2>2. Starts(x, d) = {1}
    <3>1. 1 \in Starts(x, d)
      BY <1>1, <2>1 DEF Starts
    <3>2. ASSUME NEW i \in Starts(x, d) PROVE i = 1
      <4>1. i \in 1..Len(x) /\ (i > 1 => x[i - 1] = d)
        BY <1>1 DEF Starts
      <4>2. i > 1 => i - 1 \in 1..Len(x)
        BY <1>1, <4>1
      <4> QED
        BY <1>1, <4>1, <4>2
    <3> QED
      BY <3>1, <3>2
  <2>3. N = 1
    BY <2>2, FS_Singleton
  <2>4. PICK j \in 1..Len(x) : /\ j < Len(x) => x[j + 1] = d
                               /\ X[1] = SubSeq(x, 1, j)
    <3>1. x \in Seq(T) /\ Len(x) >= 1 /\ x[1] # d
      BY <1>1, <2>1
    <3> HIDE DEF T
    <3>2. \E j \in 1..Len(x) : /\ \A k \in 1..j : x[k] # d
                               /\ j < Len(x) => x[j + 1] = d
                               /\ StrTok(x, d)[1] = SubSeq(x, 1, j)
      BY <3>1, FirstToken
    <3> QED
      BY <3>2
  <2>5. j = Len(x)
    <3>1. j < Len(x) => j + 1 \in 1..Len(x)
      BY <1>1
    <3> QED
      BY <1>1, <2>4, <3>1
  <2>6. X[1] = x
    BY <1>1, <2>4, <2>5, SubSeqFull
  <2> HIDE DEF X, N, T
  <2>7. Len(X) = 1
    BY <1>2, <2>3
  <2>8. <<x>> \in Seq(Seq(T)) /\ Len(<<x>>) = 1 /\ <<x>>[1] = x
    BY <1>1
  <2>9. \A i \in 1..1 : X[i] = <<x>>[i]
    BY <2>6, <2>8
  <2>10. X = <<x>>
    BY <1>2, <2>7, <2>8, <2>9, SeqEqual
  <2> QED
    BY <1>4, <2>10 DEF X
<1> QED
  BY <1>3, <1>4

(* The first token of a text, and the last.                                *)
LEMMA StrTokEnds ==
  ASSUME NEW S, NEW d \in S, NEW x \in Seq(S \ {d}), x # <<>>, NEW y \in Seq(S)
  PROVE  /\ StrTok(Join(x, d, y), d) = <<x>> \o StrTok(y, d)
         /\ StrTok(Join(y, d, x), d) = StrTok(y, d) \o <<x>>
<1>1. x \in Seq(S)
  BY SeqMonotone
<1>2. StrTok(x, d) = <<x>>
  BY StrTokOne
<1>3. \A u, v \in Seq(S) : StrTok(Join(u, d, v), d) = StrTok(u, d) \o StrTok(v, d)
  BY StrTokConcat, ZenonT(40)
<1>4. StrTok(Join(x, d, y), d) = StrTok(x, d) \o StrTok(y, d)
  BY <1>1, <1>3
<1>5. StrTok(Join(y, d, x), d) = StrTok(y, d) \o StrTok(x, d)
  BY <1>1, <1>3
<1> QED
  BY <1>2, <1>4, <1>5

(* A symbol that is not found is not there.                                *)
LEMMA FindNone ==
  ASSUME NEW S, NEW c, NEW s \in Seq(S)
  PROVE  Find(s, c) = 0 <=> s \in Seq(S \ {c})
<1>1. /\ Find(s, c) \in 0..Len(s)
      /\ Find(s, c) = 0 => \A i \in 1..Len(s) : s[i] # c
      /\ Find(s, c) # 0 => s[Find(s, c)] = c
  BY FindProperties
<1>2. ASSUME Find(s, c) = 0 PROVE s \in Seq(S \ {c})
  <2>1. \A i \in 1..Len(s) : s[i] \in S \ {c}
    BY <1>1, <1>2
  <2>2. Len(s) \in Nat /\ s = [i \in 1..Len(s) |-> s[i]]
    OBVIOUS
  <2>3. s \in [1..Len(s) -> S \ {c}]
    BY <2>1, <2>2, Zenon
  <2> QED
    BY <2>2, <2>3, SeqDef
<1>3. ASSUME s \in Seq(S \ {c}) PROVE Find(s, c) = 0
  <2>1. \A i \in 1..Len(s) : s[i] \in S \ {c}
    BY <1>3
  <2> QED
    BY <1>1, <2>1
<1> QED
  BY <1>2, <1>3

(* A text that lacks two sets of symbols.                                  *)
LEMMA SeqBoth ==
  ASSUME NEW S, NEW T, NEW s \in Seq(S), s \in Seq(T)
  PROVE  s \in Seq(S \cap T)
<1>1. Len(s) \in Nat /\ s = [i \in 1..Len(s) |-> s[i]] /\ \A i \in 1..Len(s) : s[i] \in S \cap T
  OBVIOUS
<1>2. s \in [1..Len(s) -> S \cap T]
  BY <1>1, Zenon
<1> QED
  BY <1>1, <1>2, SeqDef

(* A text lacks symbols just when it is one of the others.                 *)
LEMMA LacksNone ==
  ASSUME NEW S, NEW C, NEW s \in Seq(S)
  PROVE  Lacks(s, C) <=> s \in Seq(S \ C)
<1>1. ASSUME Lacks(s, C) PROVE s \in Seq(S \ C)
  <2>1. ASSUME NEW c \in C PROVE \A i \in 1..Len(s) : s[i] # c
    BY <1>1, FindProperties DEF Lacks
  <2>2. \A i \in 1..Len(s) : s[i] \in S \ C
    BY <2>1
  <2>3. Len(s) \in Nat /\ s = [i \in 1..Len(s) |-> s[i]]
    OBVIOUS
  <2>4. s \in [1..Len(s) -> S \ C]
    BY <2>2, <2>3, Zenon
  <2> QED
    BY <2>3, <2>4, SeqDef
<1>2. ASSUME s \in Seq(S \ C) PROVE Lacks(s, C)
  <2>1. ASSUME NEW c \in C PROVE Find(s, c) = 0
    <3>1. s \in Seq(S \ {c})
      <4>1. S \ C \subseteq S \ {c}
        OBVIOUS
      <4> QED
        BY <1>2, <4>1, SeqMonotone
    <3> QED
      BY <3>1, FindNone
  <2> QED
    BY <2>1 DEF Lacks
<1> QED
  BY <1>1, <1>2

-----------------------------------------------------------------------------
(* A parser after some tokens.                                             *)
Parsed(type, tokens) ==
  FoldLeft(LAMBDA parsed, token : ParseToken(type, parsed, token), Unparsed, tokens)

(* The parser from token to token.                                         *)
States(type, tokens, n, state) ==
  /\ state[0] = Unparsed
  /\ \A k \in 1..n : state[k] = ParseToken(type, state[k - 1], tokens[k])
  /\ Parsed(type, tokens) = state[n]

(* A parser goes from token to token.                                      *)
LEMMA ParsedStates ==
  ASSUME NEW type, NEW tokens, NEW n \in Nat, DOMAIN tokens = 1..n
  PROVE  \E state : States(type, tokens, n, state)
<1> DEFINE iter == CHOOSE f : ParseStep(type, tokens, n, f)
<1>1. ParseStep(type, tokens, n, iter)
  BY ParseFunction
<1>2. Parsed(type, tokens) = iter[1..n]
  BY DEF Parsed, FoldLeft, MapThenFoldSet, ParseStep
<1> HIDE DEF iter
<1> DEFINE state == [k \in 0..n |-> iter[1..k]]
<1>3. state[0] = Unparsed
  <2>1. 1..0 = {} /\ {} \in SUBSET (1..n) /\ 0 \in 0..n
    OBVIOUS
  <2> QED
    BY <1>1, <2>1 DEF ParseStep
<1>4. ASSUME NEW k \in 1..n PROVE state[k] = ParseToken(type, state[k - 1], tokens[k])
  <2>1. /\ k \in Nat /\ k \in 1..k /\ k - 1 \in 0..n /\ k \in 0..n
        /\ 1..k \in SUBSET (1..n) /\ 1..k # {}
    <3>1. k \in Nat /\ k \in 1..k /\ k - 1 \in 0..n /\ k \in 0..n
      OBVIOUS
    <3>2. \A i \in 1..k : i \in 1..n
      OBVIOUS
    <3> QED
      BY <3>1, <3>2
  <2>2. Max(1..k) = k
    <3>1. Max(1..k) \in 1..k /\ \A y \in 1..k : y <= Max(1..k)
      BY <2>1, MaxExists
    <3> QED
      BY <2>1, <3>1
  <2>3. (1..k) \ {k} = 1..(k - 1)
    BY <2>1
  <2>4. iter[1..k] = ParseToken(type, iter[(1..k) \ {Max(1..k)}], tokens[Max(1..k)])
    BY <1>1, <2>1 DEF ParseStep
  <2>5. state[k] = iter[1..k] /\ state[k - 1] = iter[1..(k - 1)]
    BY <2>1
  <2> HIDE DEF state
  <2> QED
    BY <2>2, <2>3, <2>4, <2>5
<1>5. state[n] = iter[1..n]
  OBVIOUS
<1> HIDE DEF state
<1>6. States(type, tokens, n, state)
  BY <1>2, <1>3, <1>4, <1>5 DEF States
<1> QED
  BY <1>6

(* One token more.                                                         *)
LEMMA ParsedAppend ==
  ASSUME NEW type, NEW T, NEW tokens \in Seq(T), NEW token \in T
  PROVE  Parsed(type, tokens \o <<token>>) = ParseToken(type, Parsed(type, tokens), token)
<1> DEFINE n == Len(tokens)
           more == tokens \o <<token>>
<1>1. n \in Nat /\ DOMAIN tokens = 1..n /\ <<token>> \in Seq(T) /\ Len(<<token>>) = 1
  OBVIOUS
<1>2. /\ DOMAIN more = 1..(n + 1)
      /\ \A k \in 1..n : more[k] = tokens[k]
      /\ more[n + 1] = token
  <2>1. /\ more \in Seq(T) /\ Len(more) = n + 1
        /\ \A i \in 1..n + 1 : more[i] = IF i <= n THEN tokens[i] ELSE <<token>>[i - n]
    BY <1>1, ConcatProperties
  <2>2. n + 1 \in 1..n + 1 /\ ~(n + 1 <= n) /\ (n + 1) - n = 1 /\ <<token>>[1] = token
    BY <1>1
  <2> QED
    BY <1>1, <2>1, <2>2
<1>3. PICK f : States(type, tokens, n, f)
  BY <1>1, ParsedStates
<1> HIDE DEF more
<1>4. PICK g : States(type, more, n + 1, g)
  <2>1. n + 1 \in Nat
    BY <1>1
  <2> QED
    BY <1>2, <2>1, ParsedStates
<1> HIDE DEF n
<1> DEFINE I == {k \in Nat : k \in 0..n => g[k] = f[k]}
<1>5. 0 \in I
  BY <1>3, <1>4 DEF States
<1>6. ASSUME NEW k \in Nat, k \in I PROVE k + 1 \in I
  <2>1. ASSUME k + 1 \in 0..n PROVE g[k + 1] = f[k + 1]
    <3>1. k \in 0..n /\ k + 1 \in 1..n /\ k + 1 \in 1..(n + 1) /\ (k + 1) - 1 = k
      BY <1>1, <2>1
    <3>2. f[k + 1] = ParseToken(type, f[k], tokens[k + 1])
      BY <1>3, <3>1 DEF States
    <3>3. g[k + 1] = ParseToken(type, g[k], more[k + 1])
      BY <1>4, <3>1 DEF States
    <3> QED
      BY <1>2, <1>6, <3>1, <3>2, <3>3
  <2>2. k + 1 \in Nat
    OBVIOUS
  <2> QED
    BY <2>1, <2>2
<1>7. n \in I
  <2> HIDE DEF I
  <2> QED
    BY <1>1, <1>5, <1>6, Induction
<1>8. g[n] = f[n]
  BY <1>1, <1>7
<1>9. n + 1 \in 1..(n + 1) /\ (n + 1) - 1 = n
  BY <1>1
<1>10. g[n + 1] = ParseToken(type, g[n], token)
  BY <1>2, <1>4, <1>9 DEF States
<1> QED
  BY <1>3, <1>4, <1>8, <1>10 DEF States, more

(* Before any token.                                                       *)
LEMMA ParsedNothing ==
  ASSUME NEW type
  PROVE  Parsed(type, <<>>) = Unparsed
<1>1. 0 \in Nat /\ DOMAIN <<>> = 1..0
  OBVIOUS
<1>2. \E f : f[0] = Unparsed /\ Parsed(type, <<>>) = f[0]
  <2> DEFINE e == <<>>
  <2>1. DOMAIN e = 1..0
    BY <1>1
  <2> HIDE DEF e
  <2>2. \E f : States(type, e, 0, f)
    BY <1>1, <2>1, ParsedStates
  <2> QED
    BY <2>2 DEF States, e
<1> QED
  BY <1>2

-----------------------------------------------------------------------------
(* What is before the first of a symbol.                                   *)
Cut(s, d) == IF Find(s, d) = 0 THEN s ELSE SubSeq(s, 1, Find(s, d) - 1)

(* It lacks the symbol, and is the text if that lacks it.                  *)
LEMMA CutType ==
  ASSUME NEW S, NEW s \in Seq(S), NEW d
  PROVE  /\ Cut(s, d) \in Seq(S \ {d})
         /\ Cut(s, d) = s <=> s \in Seq(S \ {d})
         /\ Len(Cut(s, d)) <= Len(s)
<1> DEFINE n == Find(s, d)
<1>1. CASE n = 0
  <2>1. s \in Seq(S \ {d})
    BY <1>1, FindNone
  <2>2. Cut(s, d) = s
    BY <1>1 DEF Cut
  <2> QED
    BY <2>1, <2>2
<1>2. CASE n # 0
  <2>1. n \in 1..Len(s) /\ Len(s) \in Nat /\ n - 1 \in 0..Len(s)
    <3>1. n \in 0..Len(s) /\ Len(s) \in Nat
      BY FindProperties
    <3> HIDE DEF n
    <3> QED
      BY <1>2, <3>1
  <2> DEFINE c == SubSeq(s, 1, n - 1)
  <2>2. Cut(s, d) = c
    BY <1>2 DEF Cut
  <2>3. /\ c \in Seq(S) /\ Len(c) = n - 1
        /\ \A i \in 1..(n - 1) : c[i] = s[i]
    <3> HIDE DEF n
    <3> QED
      BY <2>1, PrefixProperties
  <2>4. \A i \in 1..(n - 1) : s[i] # d
    <3> DEFINE I == {i \in 1..Len(s) : s[i] = d}
    <3>1. n = IF I # {} THEN Min(I) ELSE 0
      BY DEF Find, SelectInSeq
    <3>2. \A i \in I : n <= i
      <4>1. I \in SUBSET Nat
        BY <2>1
      <4> HIDE DEF I, n
      <4> QED
        BY <3>1, <4>1, MinExists
    <3> HIDE DEF n
    <3> QED
      BY <2>1, <3>2
  <2> HIDE DEF c, n
  <2>5. c \in Seq(S \ {d})
    <3>1. \A i \in 1..Len(c) : c[i] \in S \ {d}
      BY <2>1, <2>3, <2>4
    <3>2. Len(c) \in Nat /\ c = [i \in 1..Len(c) |-> c[i]]
      BY <2>3
    <3>3. c \in [1..Len(c) -> S \ {d}]
      BY <3>1, <3>2, Zenon
    <3> QED
      BY <3>2, <3>3, SeqDef
  <2>6. c # s
    BY <2>1, <2>3
  <2>7. s \notin Seq(S \ {d})
    BY <1>2, FindNone DEF n
  <2> QED
    BY <2>1, <2>2, <2>3, <2>5, <2>6, <2>7
<1> QED
  BY <1>1, <1>2

(* A C string has no zero byte, and is the text if that has none.          *)
LEMMA CStringType ==
  ASSUME NEW S, NEW s \in Seq(S)
  PROVE  /\ CString(s) \in Seq(S \ {NUL})
         /\ CString(s) = s <=> s \in Seq(S \ {NUL})
<1>1. CString(s) = Cut(s, NUL)
  BY DEF CString, Cut
<1> QED
  BY <1>1, CutType

(* The zero byte of the second text cuts both.                             *)
LEMMA CStringJoin ==
  ASSUME NEW S, NEW d \in S, d # NUL, NEW x \in Seq(S \ {NUL}), NEW y \in Seq(S)
  PROVE  CString(Join(x, d, y)) = Join(x, d, CString(y))
<1> DEFINE s == Join(x, d, y)
           n == Find(y, NUL)
           l == Len(x) + 1
<1>1. x \in Seq(S) /\ Len(x) \in Nat /\ Len(y) \in Nat /\ \A i \in 1..Len(x) : x[i] # NUL
  <2>1. x \in Seq(S)
    BY SeqMonotone
  <2> QED
    BY <2>1
<1>2. /\ s \in Seq(S) /\ Len(s) = Len(x) + 1 + Len(y)
      /\ \A i \in 1..Len(x) : s[i] = x[i]
      /\ s[l] = d
      /\ \A i \in 1..Len(y) : s[i + l] = y[i]
  BY <1>1, Joined DEF Join
<1>3. n \in 0..Len(y) /\ (n # 0 => y[n] = NUL) /\ \A i \in 1..Len(y) : (n = 0 \/ i < n) => y[i] # NUL
  <2> DEFINE I == {i \in 1..Len(y) : y[i] = NUL}
  <2>1. n = IF I # {} THEN Min(I) ELSE 0
    BY DEF Find, SelectInSeq
  <2>2. I # {} => Min(I) \in I /\ \A i \in I : Min(I) <= i
    <3>1. I \in SUBSET Nat
      OBVIOUS
    <3> HIDE DEF I
    <3> QED
      BY <3>1, MinExists
  <2>3. CASE I = {}
    BY <1>1, <2>1, <2>3
  <2>4. CASE I # {}
    <3>1. n \in I /\ \A i \in I : n <= i
      BY <2>1, <2>2, <2>4
    <3> HIDE DEF n
    <3> QED
      BY <1>1, <3>1
  <2> QED
    BY <2>3, <2>4
<1>4. Find(s, NUL) = IF n = 0 THEN 0 ELSE n + l
  <2> DEFINE J == {j \in 1..Len(s) : s[j] = NUL}
  <2>1. Find(s, NUL) = IF J # {} THEN Min(J) ELSE 0
    BY DEF Find, SelectInSeq
  <2>2. ASSUME NEW j \in J PROVE n # 0 /\ j >= n + l
    <3>1. j \in 1..(Len(x) + 1 + Len(y)) /\ s[j] = NUL
      BY <1>2
    <3> HIDE DEF J, s, n
    <3>2. j > l
      <4>1. j <= l => j \in 1..Len(x) \/ j = l
        BY <1>1, <3>1
      <4> HIDE DEF l
      <4>2. ~(j <= l)
        <5>1. ASSUME j \in 1..Len(x) PROVE s[j] # NUL
          BY <1>1, <1>2, <5>1
        <5> QED
          BY <1>2, <3>1, <4>1, <5>1
      <4>3. j \in Int /\ l \in Int
        BY <1>1, <3>1 DEF l
      <4> QED
        BY <4>2, <4>3
    <3>3. j - l \in 1..Len(y) /\ (j - l) + l = j
      BY <1>1, <3>1, <3>2
    <3>4. y[j - l] = NUL
      BY <1>2, <3>1, <3>3
    <3> QED
      BY <1>1, <1>3, <3>3, <3>4
  <2>3. n # 0 => n + l \in J
    <3>1. n # 0 => n \in 1..Len(y) /\ n + l \in 1..(Len(x) + 1 + Len(y))
      <4> HIDE DEF n
      <4> QED
        BY <1>1, <1>3
    <3> HIDE DEF s, n, l
    <3> QED
      BY <1>2, <1>3, <3>1
  <2>4. CASE n = 0
    <3>1. J = {}
      BY <2>2, <2>4
    <3> HIDE DEF J
    <3> QED
      BY <2>1, <2>4, <3>1
  <2>5. CASE n # 0
    <3>1. J \in SUBSET Nat
      BY <1>2
    <3> HIDE DEF J, s, n
    <3>2. Min(J) \in J /\ \A j \in J : Min(J) <= j
      BY <2>3, <2>5, <3>1, MinExists
    <3>3. Min(J) = n + l
      <4>1. Min(J) >= n + l /\ Min(J) <= n + l
        BY <2>2, <2>3, <2>5, <3>2
      <4>2. Min(J) \in Int /\ n + l \in Int
        <5>1. Min(J) \in Nat
          BY <3>1, <3>2, Zenon
        <5>2. n \in Int /\ l \in Int
          BY <1>1, <1>3
        <5> QED
          BY <5>1, <5>2
      <4> QED
        BY <4>1, <4>2
    <3> QED
      BY <2>1, <2>3, <2>5, <3>3
  <2> QED
    BY <2>4, <2>5
<1> HIDE DEF s, n
<1>5. CASE n = 0
  BY <1>4, <1>5 DEF CString, s, n
<1>6. CASE n # 0
  <2> DEFINE c == SubSeq(y, 1, n - 1)
             t == Join(x, d, c)
             p == SubSeq(s, 1, (n + l) - 1)
  <2>1. n - 1 \in 0..Len(y) /\ n - 1 \in Nat /\ (n + l) - 1 \in 0..Len(s)
    BY <1>1, <1>2, <1>3, <1>6
  <2>2. c \in Seq(S) /\ Len(c) = n - 1 /\ \A i \in 1..(n - 1) : c[i] = y[i]
    BY <2>1, PrefixProperties
  <2>3. CString(s) = p /\ CString(y) = c
    <3>1. n + l # 0
      BY <1>1, <1>3
    <3>2. CString(s) = p
      BY <1>4, <1>6, <3>1 DEF CString
    <3>3. CString(y) = c
      BY <1>6 DEF CString, n
    <3> QED
      BY <3>2, <3>3
  <2>4. p \in Seq(S) /\ Len(p) = (n + l) - 1 /\ \A i \in 1..((n + l) - 1) : p[i] = s[i]
    BY <1>2, <2>1, PrefixProperties
  <2> HIDE DEF c
  <2>5. /\ t \in Seq(S) /\ Len(t) = Len(x) + 1 + Len(c)
        /\ \A i \in 1..Len(x) : t[i] = x[i]
        /\ t[l] = d
        /\ \A i \in 1..Len(c) : t[i + l] = c[i]
    <3>1. c \in Seq(S)
      BY <2>2
    <3> QED
      BY <1>1, <3>1, Joined DEF Join
  <2> HIDE DEF t, p
  <2>6. Len(p) = Len(t)
    <3>1. Len(t) = Len(x) + 1 + (n - 1) /\ Len(p) = (n + (Len(x) + 1)) - 1 /\ n \in Nat
      BY <1>3, <2>2, <2>4, <2>5
    <3> QED
      BY <1>1, <3>1
  <2>7. ASSUME NEW i \in 1..Len(p) PROVE p[i] = t[i]
    <3>1. p[i] = s[i] /\ i \in 1..((n + l) - 1)
      BY <2>4
    <3>2. CASE i <= Len(x)
      <4>1. i \in 1..Len(x)
        BY <1>1, <3>1, <3>2
      <4> QED
        BY <1>2, <2>5, <3>1, <4>1
    <3>3. CASE i = l
      BY <1>2, <2>5, <3>1, <3>3
    <3>4. CASE i > l
      <4>1. i - l \in 1..Len(c) /\ i - l \in 1..Len(y) /\ (i - l) + l = i
        BY <1>1, <1>3, <1>6, <2>2, <3>1, <3>4
      <4>2. s[i] = y[i - l]
        BY <1>2, <4>1
      <4>3. t[i] = c[i - l]
        BY <2>5, <4>1
      <4> QED
        BY <2>2, <3>1, <4>1, <4>2, <4>3
    <3> QED
      BY <1>1, <3>1, <3>2, <3>3, <3>4
  <2>8. p = t
    BY <2>4, <2>5, <2>6, <2>7, SeqEqual
  <2> QED
    BY <2>3, <2>8 DEF s, t
<1> QED
  BY <1>5, <1>6

(* What removing the first of a symbol leaves.                             *)
LEMMA RemoveFirstType ==
  ASSUME NEW S, NEW s \in Seq(S), NEW e
  PROVE  /\ RemoveFirst(s, e) \in Seq(S)
         /\ s \in Seq(S \ {e}) => RemoveFirst(s, e) = s
         /\ s \notin Seq(S \ {e}) => Len(RemoveFirst(s, e)) = Len(s) - 1
<1> DEFINE n == Find(s, e)
<1>1. n \in 0..Len(s) /\ Len(s) \in Nat
  BY FindProperties
<1>2. (\E i \in 1..Len(s) : s[i] = e) <=> n # 0
  BY FindProperties
<1>3. RemoveFirst(s, e) = IF n # 0 THEN SubSeq(s, 1, n - 1) \o SubSeq(s, n + 1, Len(s)) ELSE s
  <2>1. RemoveFirst(s, e) = IF \E i \in 1..Len(s) : s[i] = e THEN RemoveAt(s, n) ELSE s
    BY Zenon DEF RemoveFirst, Find
  <2> HIDE DEF n
  <2> QED
    BY <1>2, <2>1 DEF RemoveAt
<1>4. n = 0 <=> s \in Seq(S \ {e})
  BY FindNone
<1> HIDE DEF n
<1>5. CASE n # 0
  <2> DEFINE u == SubSeq(s, 1, n - 1)
             v == SubSeq(s, n + 1, Len(s))
  <2>1. n - 1 \in 0..Len(s)
    BY <1>1, <1>5
  <2>2. u \in Seq(S) /\ Len(u) = n - 1
    BY <2>1, PrefixProperties
  <2>3. v \in Seq(S) /\ Len(v) = Len(s) - n
    BY <1>1
  <2> HIDE DEF u, v
  <2>4. u \o v \in Seq(S) /\ Len(u \o v) = Len(u) + Len(v)
    BY <2>2, <2>3, ConcatProperties
  <2>5. RemoveFirst(s, e) = u \o v
    BY <1>3, <1>5 DEF u, v
  <2>6. Len(u \o v) = Len(s) - 1
    BY <1>1, <2>2, <2>3, <2>4
  <2> QED
    BY <1>4, <1>5, <2>4, <2>5, <2>6
<1> QED
  BY <1>3, <1>4, <1>5

(* Removing what a text begins with leaves the rest.                       *)
LEMMA RemoveHead ==
  ASSUME NEW S, NEW e \in S, NEW x \in Seq(S)
  PROVE  RemoveFirst(<<e>> \o x, e) = x
<1> DEFINE s == <<e>> \o x
<1>1. <<e>> \in Seq(S) /\ Len(<<e>>) = 1 /\ <<e>>[1] = e /\ Len(x) \in Nat
  OBVIOUS
<1>2. /\ s \in Seq(S) /\ Len(s) = 1 + Len(x)
      /\ \A i \in 1..1 + Len(x) : s[i] = IF i <= 1 THEN <<e>>[i] ELSE x[i - 1]
  BY <1>1, ConcatProperties
<1> HIDE DEF s
<1>3. s[1] = e /\ 1 \in 1..Len(s) /\ \A i \in 1..Len(x) : s[i + 1] = x[i]
  BY <1>1, <1>2
<1>4. SelectInSeq(s, LAMBDA v : v = e) = 1
  <2> DEFINE I == {i \in 1..Len(s) : s[i] = e}
  <2>1. SelectInSeq(s, LAMBDA v : v = e) = IF I # {} THEN Min(I) ELSE 0
    BY DEF SelectInSeq
  <2>2. I \in SUBSET Nat /\ 1 \in I /\ \A i \in I : i >= 1
    BY <1>2, <1>3
  <2> HIDE DEF I
  <2>3. Min(I) \in I /\ \A i \in I : Min(I) <= i
    BY <2>2, MinExists
  <2>4. Min(I) = 1
    <3>1. Min(I) \in Nat /\ Min(I) >= 1 /\ Min(I) <= 1
      BY <2>2, <2>3
    <3> QED
      BY <3>1
  <2> QED
    BY <2>1, <2>2, <2>4
<1>5. RemoveFirst(s, e) = RemoveAt(s, 1)
  <2>1. \E i \in 1..Len(s) : s[i] = e
    BY <1>3
  <2> QED
    BY <1>4, <2>1, Zenon DEF RemoveFirst
<1> DEFINE u == SubSeq(s, 1, 1 - 1)
           v == SubSeq(s, 1 + 1, Len(s))
<1>6. u = <<>>
  <2>1. 1 - 1 = 0 /\ 0 \in 0..Len(s)
    BY <1>2
  <2>2. u \in Seq(S) /\ Len(u) = 0
    BY <1>2, <2>1, PrefixProperties
  <2> QED
    BY <2>2, EmptySeq
<1>7. v = x
  <2>1. v \in Seq(S) /\ Len(v) = Len(x) /\ \A i \in 1..Len(x) : v[i] = s[i + 1]
    BY <1>1, <1>2
  <2> HIDE DEF v
  <2>2. \A i \in 1..Len(v) : v[i] = x[i]
    BY <1>3, <2>1
  <2> QED
    BY <2>1, <2>2, SeqEqual
<1>8. RemoveFirst(s, e) = <<>> \o x
  BY <1>5, <1>6, <1>7 DEF RemoveAt
<1> QED
  BY <1>8, ConcatEmptySeq DEF s

-----------------------------------------------------------------------------
(* One line more.                                                          *)
LEMMA ParseAppend ==
  ASSUME NEW type, NEW S, CR \in S, NEW v \in Seq(S \ {NUL}),
         NEW x \in Seq(S \ {CR, NUL}), x # <<>>
  PROVE  /\ Join(v, CR, x) \in Seq(S \ {NUL})
         /\ Parse(type, Join(v, CR, x)) = ParseToken(type, Parse(type, v), x)
<1> DEFINE T == S \ {NUL}
           tokens == StrTok(v, CR)
<1>1. CR \in T /\ T \ {CR} = S \ {CR, NUL} /\ v \in Seq(T)
  BY DEF CR, NUL
<1>2. x \in Seq(T \ {CR})
  BY <1>1
<1> HIDE DEF T
<1>3. x \in Seq(T)
  BY <1>2, SeqMonotone
<1>4. Join(v, CR, x) \in Seq(T)
  BY <1>1, <1>3, Joined DEF Join
<1>5. CString(v) = v /\ CString(Join(v, CR, x)) = Join(v, CR, x)
  <2>1. \A t \in Seq(T) : CString(t) = t
    <3>1. ASSUME NEW t \in Seq(T) PROVE CString(t) = t
      <4>1. T \ {NUL} = T
        BY DEF T
      <4> QED
        BY <4>1, CStringType
    <3> QED
      BY <3>1
  <2> QED
    BY <1>1, <1>4, <2>1
<1>6. StrTok(Join(v, CR, x), CR) = tokens \o <<x>>
  <2>1. CR \in T /\ x \in Seq(T \ {CR}) /\ x # <<>> /\ v \in Seq(T)
    BY <1>1, <1>2
  <2> QED
    BY <2>1, StrTokEnds, Zenon
<1>7. tokens \in Seq(Seq(T \ {CR}))
  BY <1>1, StrTokType
<1> HIDE DEF tokens
<1>8. Parsed(type, tokens \o <<x>>) = ParseToken(type, Parsed(type, tokens), x)
  BY <1>2, <1>7, ParsedAppend
<1>9. /\ Parse(type, v) = Parsed(type, tokens)
      /\ Parse(type, Join(v, CR, x)) = Parsed(type, tokens \o <<x>>)
  <2>1. \A t : Parse(type, t) = Parsed(type, StrTok(CString(t), CR))
    BY DEF Parse, Parsed
  <2> QED
    BY <1>5, <1>6, <2>1, Zenon DEF tokens
<1> QED
  BY <1>4, <1>8, <1>9 DEF T

(* The first line of all.                                                  *)
LEMMA ParseOne ==
  ASSUME NEW type, NEW S, NEW x \in Seq(S \ {CR, NUL}), x # <<>>
  PROVE  Parse(type, x) = ParseToken(type, Unparsed, x)
<1>1. x \in Seq((S \ {NUL}) \ {CR}) /\ x \in Seq((S \ {CR}) \ {NUL})
  <2>1. S \ {CR, NUL} = (S \ {NUL}) \ {CR} /\ S \ {CR, NUL} = (S \ {CR}) \ {NUL}
    OBVIOUS
  <2> QED
    BY <2>1
<1>2. CString(x) = x
  <2>1. x \in Seq(S \ {CR})
    BY SeqMonotone
  <2> QED
    BY <1>1, <2>1, CStringType
<1>3. StrTok(x, CR) = <<x>>
  BY <1>1, StrTokOne
<1>4. <<>> \o <<x>> = <<x>>
  <2>1. <<x>> \in Seq({x})
    OBVIOUS
  <2> QED
    BY <2>1, ConcatEmptySeq
<1>5. Parsed(type, <<>> \o <<x>>) = ParseToken(type, Parsed(type, <<>>), x)
  <2>1. <<>> \in Seq({x}) /\ x \in {x}
    BY EmptySeq
  <2> DEFINE e == <<>>
  <2>2. e \in Seq({x})
    BY <2>1
  <2> HIDE DEF e
  <2>3. Parsed(type, e \o <<x>>) = ParseToken(type, Parsed(type, e), x)
    BY <2>1, <2>2, ParsedAppend
  <2> QED
    BY <2>3 DEF e
<1>6. Parse(type, x) = Parsed(type, StrTok(CString(x), CR))
  BY DEF Parse, Parsed
<1> QED
  BY <1>2, <1>3, <1>4, <1>5, <1>6, ParsedNothing

(* A parser never looks behind a zero byte.                                *)
LEMMA ParseCString ==
  ASSUME NEW type, NEW S, NEW text \in Seq(S)
  PROVE  Parse(type, CString(text)) = Parse(type, text)
<1>1. CString(text) \in Seq(S \ {NUL})
  BY CStringType
<1>2. (S \ {NUL}) \ {NUL} = S \ {NUL}
  OBVIOUS
<1>3. \A t \in Seq(S \ {NUL}) : CString(t) = t
  <2>1. ASSUME NEW T, T \ {NUL} = T, NEW t \in Seq(T) PROVE CString(t) = t
    BY <2>1, CStringType
  <2> QED
    BY <1>2, <2>1
<1>4. CString(CString(text)) = CString(text)
  BY <1>1, <1>3
<1> QED
  BY <1>4, Zenon DEF Parse

(* Whatever follows the first line, it is what the parser has of it.       *)
LEMMA ParseFirstLine ==
  ASSUME NEW type, NEW S, CR \in S, NEW x \in Seq(S \ {CR, NUL}), x # <<>>, NEW z \in Seq(S),
         NEW line, PastFirstLine(ParseToken(type, Unparsed, x), line)
  PROVE  PastFirstLine(Parse(type, Join(x, CR, z)), line)
<1> DEFINE T == S \ {NUL}
           c == CString(z)
           text == Join(x, CR, z)
           n == Cardinality(Starts(Join(x, CR, c), CR))
<1>1. CR \in T /\ T \ {CR} = S \ {CR, NUL} /\ CR # NUL
  BY DEF CR, NUL
<1>2. x \in Seq(T \ {CR}) /\ x \in Seq(T)
  BY <1>1, SeqMonotone
<1>3. c \in Seq(T)
  BY CStringType
<1>4. CString(text) = Join(x, CR, c)
  BY <1>1, <1>2, CStringJoin
<1> HIDE DEF T, c, text
<1>5. StrTok(CString(text), CR) = <<x>> \o StrTok(c, CR)
  <2>1. CR \in T
    BY <1>1
  <2>2. StrTok(Join(x, CR, c), CR) = <<x>> \o StrTok(c, CR)
    BY <1>2, <1>3, <2>1, StrTokEnds
  <2> QED
    BY <1>4, <2>2
<1>6. StrTok(c, CR) \in Seq(Seq(T \ {CR})) /\ <<x>> \in Seq(Seq(T \ {CR}))
  BY <1>2, <1>3, StrTokType
<1>7. StrTok(CString(text), CR)[1] = x /\ n >= 1
      /\ n \in Nat /\ DOMAIN StrTok(CString(text), CR) = 1..n
  <2>1. Join(x, CR, c) \in Seq(T)
    BY <1>1, <1>2, <1>3, Joined DEF Join
  <2>2. n \in Nat /\ DOMAIN StrTok(CString(text), CR) = 1..n
    BY <1>4, <2>1, TokensType
  <2> DEFINE w == StrTok(c, CR)
  <2> HIDE DEF w, n
  <2>3. /\ Len(<<x>> \o w) = Len(<<x>>) + Len(w)
        /\ \A i \in 1..Len(<<x>>) + Len(w) : (<<x>> \o w)[i] = IF i <= Len(<<x>>) THEN <<x>>[i] ELSE w[i - Len(<<x>>)]
        /\ DOMAIN (<<x>> \o w) = 1..Len(<<x>> \o w)
    BY <1>6, ConcatProperties DEF w
  <2>4. Len(<<x>>) = 1 /\ <<x>>[1] = x /\ Len(w) \in Nat
    BY <1>6 DEF w
  <2>5. (<<x>> \o w)[1] = x /\ Len(<<x>> \o w) >= 1
    BY <2>3, <2>4
  <2>6. 1..n = 1..Len(<<x>> \o w)
    BY <1>5, <2>2, <2>3 DEF w
  <2>7. 1 \in 1..n
    <3>1. Len(<<x>> \o w) = 1 + Len(w)
      BY <2>3, <2>4
    <3>2. 1 \in 1..Len(<<x>> \o w)
      BY <2>4, <3>1
    <3> QED
      BY <2>6, <3>2
  <2>8. n >= 1
    BY <2>2, <2>7
  <2> QED
    BY <1>5, <2>2, <2>5, <2>8 DEF w
<1> HIDE DEF n
<1>8. PastFirstLine(ParseToken(type, Unparsed, StrTok(CString(text), CR)[1]), line)
  BY <1>7
<1>9. PastFirstLine(Parse(type, text), line)
  BY <1>7, <1>8, ParseKeeps
<1> QED
  BY <1>9 DEF text

-----------------------------------------------------------------------------
(* What a parser has is clean: nothing that would have ended it sooner.    *)
CleanParts(S) == Seq(S \ {CR, NUL, ":"})

Clean(type, S, parsed) ==
  /\ DOMAIN parsed = Fields
  /\ parsed.body \in Seq(S \ {CR, NUL})
  /\ \A k \in DOMAIN parsed.headers : k \in CleanParts(S) /\ parsed.headers[k] \in CleanParts(S)
  /\ type = "request_t" => Token(parsed.line, 2) \in Seq(S \ {SP, CR, NUL, "?"})

(* One of some texts, or no text.                                          *)
LEMMA TokenType ==
  ASSUME NEW S, NEW n, NEW tokens, \A i \in DOMAIN tokens : tokens[i] \in Seq(S)
  PROVE  Token(tokens, n) \in Seq(S)
<1>1. <<>> \in Seq(S)
  BY EmptySeq
<1> QED
  BY <1>1 DEF Token

(* The words of a token.                                                   *)
LEMMA WordsType ==
  ASSUME NEW S, NEW token \in Seq(S)
  PROVE  /\ DOMAIN Words(token) = DOMAIN StrTok(token, SP)
         /\ \A n \in DOMAIN Words(token) : Words(token)[n] \in Seq(S \ {SP})
<1> DEFINE t == StrTok(token, SP)
<1>1. t \in Seq(Seq(S \ {SP}))
  BY StrTokType
<1>2. Words(token) = [n \in DOMAIN t |-> RemoveFirst(t[n], LF)]
  BY DEF Words
<1> HIDE DEF t
<1>3. \A n \in DOMAIN t : t[n] \in Seq(S \ {SP})
  BY <1>1
<1>4. \A n \in DOMAIN t : RemoveFirst(t[n], LF) \in Seq(S \ {SP})
  BY <1>3, RemoveFirstType
<1> QED
  BY <1>2, <1>4 DEF t

(* The first line of a request.                                            *)
LEMMA RequestLineIs ==
  ASSUME NEW parsed, DOMAIN parsed = Fields, NEW words
  PROVE  LET first  == SelectInSeq(words, LAMBDA w : w # <<>>)
             target == IF first = 0 THEN <<>> ELSE Token(words, first + 1)
         IN /\ RequestLine(parsed, words).line
                 = IF words = <<>> THEN <<>> ELSE <<Token(words, first), Cut(target, "?")>>
            /\ RequestLine(parsed, words).null \in BOOLEAN
            /\ parsed.null = FALSE /\ Find(target, "?") = 0 => RequestLine(parsed, words).null = FALSE
            /\ RequestLine(parsed, words).headers = parsed.headers
            /\ RequestLine(parsed, words).body = parsed.body
            /\ RequestLine(parsed, words).firstLineParsed = parsed.firstLineParsed
            /\ RequestLine(parsed, words).headersParsed = parsed.headersParsed
            /\ DOMAIN RequestLine(parsed, words) = Fields
<1> DEFINE first  == SelectInSeq(words, LAMBDA w : w # <<>>)
           target == IF first = 0 THEN <<>> ELSE Token(words, first + 1)
           mark   == Find(target, "?")
           line == IF words = <<>> THEN <<>> ELSE <<Token(words, first), Cut(target, "?")>>
           pairs == IF mark = 0 THEN <<>> ELSE StrTok(Substr(target, mark), "&")
           p == [parsed EXCEPT !.line = line]
<1>1. RequestLine(parsed, words) = Query(p, pairs)
  BY Zenon DEF RequestLine, Cut
<1>2. /\ p.line = line /\ DOMAIN p = Fields /\ p.headers = parsed.headers /\ p.body = parsed.body
      /\ p.firstLineParsed = parsed.firstLineParsed /\ p.headersParsed = parsed.headersParsed
      /\ p.null = parsed.null
  <2> HIDE DEF line
  <2> QED
    BY DEF Fields
<1> DEFINE nulled == p.null \/ \E n \in DOMAIN pairs : Len(StrTok(pairs[n], "=")) < 2
<1>6. parsed.null = FALSE /\ Find(target, "?") = 0 => nulled = FALSE
  <2>1. ASSUME mark = 0 PROVE ~ \E n \in DOMAIN pairs : Len(StrTok(pairs[n], "=")) < 2
    <3>1. pairs = <<>> /\ DOMAIN <<>> = {}
      BY <2>1
    <3> HIDE DEF pairs
    <3> QED
      BY <3>1
  <2>2. p.null = parsed.null
    BY <1>2
  <2> HIDE DEF p, pairs, target
  <2> QED
    BY <2>1, <2>2, Zenon
<1>7. nulled \in BOOLEAN
  BY Zenon
<1> HIDE DEF p, pairs, line
<1>3. ASSUME NEW query, NEW null, NEW q, q = [p EXCEPT !.query = query, !.null = null]
      PROVE  /\ q.null = null
             /\ q.line = p.line /\ DOMAIN q = Fields /\ q.headers = p.headers /\ q.body = p.body
             /\ q.firstLineParsed = p.firstLineParsed /\ q.headersParsed = p.headersParsed
  BY <1>2, <1>3 DEF Fields
<1>4. \E query : Query(p, pairs) = [p EXCEPT !.query = query, !.null = nulled]
  BY Zenon DEF Query
<1> HIDE DEF nulled
<1>5. LET q == Query(p, pairs)
      IN /\ q.null = nulled
         /\ q.line = p.line /\ DOMAIN q = Fields /\ q.headers = p.headers /\ q.body = p.body
         /\ q.firstLineParsed = p.firstLineParsed /\ q.headersParsed = p.headersParsed
  BY <1>3, <1>4
<1> QED
  BY <1>1, <1>2, <1>5, <1>6, <1>7, Zenon DEF line

(* A first line of a request gives a clean target.                         *)
LEMMA RequestLineClean ==
  ASSUME NEW S, NEW token \in Seq(S \ {CR, NUL}), NEW parsed, DOMAIN parsed = Fields
  PROVE  Token(RequestLine(parsed, Words(token)).line, 2) \in Seq(S \ {SP, CR, NUL, "?"})
<1> DEFINE words == Words(token)
           first  == SelectInSeq(words, LAMBDA w : w # <<>>)
           target == IF first = 0 THEN <<>> ELSE Token(words, first + 1)
           T == (S \ {CR, NUL}) \ {SP}
<1>1. RequestLine(parsed, words).line
        = IF words = <<>> THEN <<>> ELSE <<Token(words, first), Cut(target, "?")>>
  BY RequestLineIs
<1>2. \A n \in DOMAIN words : words[n] \in Seq(T)
  BY WordsType
<1>3. \A n : Token(words, n) \in Seq(T)
  <2> HIDE DEF words, T
  <2> QED
    BY <1>2, TokenType
<1>4. target \in Seq(T)
  <2>1. <<>> \in Seq(T)
    BY EmptySeq
  <2> HIDE DEF words, T, first
  <2> QED
    BY <1>3, <2>1
<1> DEFINE endpoint == Cut(target, "?")
<1>5. endpoint \in Seq(T \ {"?"})
  <2> HIDE DEF target, T
  <2> QED
    BY <1>4, CutType
<1>6. Token(RequestLine(parsed, words).line, 2) \in {endpoint, <<>>}
  <2> HIDE DEF endpoint, words, first
  <2> DEFINE method == Token(words, first)
  <2> HIDE DEF method
  <2>1. RequestLine(parsed, words).line \in {<<method, endpoint>>, <<>>}
    BY <1>1 DEF endpoint, method
  <2>2. 2 \in DOMAIN <<method, endpoint>> /\ <<method, endpoint>>[2] = endpoint
    OBVIOUS
  <2>3. 2 \notin DOMAIN <<>>
    OBVIOUS
  <2> QED
    BY <2>1, <2>2, <2>3 DEF Token
<1>7. T \ {"?"} = S \ {SP, CR, NUL, "?"}
  OBVIOUS
<1>8. <<>> \in Seq(T \ {"?"})
  BY EmptySeq
<1> HIDE DEF endpoint, T
<1> QED
  BY <1>5, <1>6, <1>7, <1>8 DEF words

(* The key and the value of a header's line.                               *)
LEMMA HeaderParts ==
  ASSUME NEW type, NEW S, NEW token \in Seq(S)
  PROVE  /\ RemoveFirst(Token(StrTok(token, ":"), 1), LF) \in Seq(S \ {":"})
         /\ HeaderValue(type, Token(StrTok(token, ":"), 2)) \in Seq(S \ {":"})
<1> DEFINE parts == StrTok(token, ":")
           T == S \ {":"}
<1>1. parts \in Seq(Seq(T))
  BY StrTokType
<1> HIDE DEF parts, T
<1>2. \A n \in DOMAIN parts : parts[n] \in Seq(T)
  BY <1>1
<1>3. Token(parts, 1) \in Seq(T) /\ Token(parts, 2) \in Seq(T)
  BY <1>2, TokenType
<1>4. RemoveFirst(Token(parts, 1), LF) \in Seq(T)
  BY <1>3, RemoveFirstType
<1>5. ASSUME NEW v \in Seq(T) PROVE WithoutSpace(v) \in Seq(T)
  <2>1. v # <<>> => Tail(v) \in Seq(T)
    OBVIOUS
  <2> QED
    BY <2>1 DEF WithoutSpace
<1>6. HeaderValue(type, Token(parts, 2)) \in Seq(T)
  BY <1>3, <1>5 DEF HeaderValue
<1> QED
  BY <1>4, <1>6 DEF parts, T

(* It stays clean with every token.                                        *)
LEMMA CleanStays ==
  ASSUME NEW type, NEW S, NEW parsed, Clean(type, S, parsed), NEW token \in Seq(S \ {CR, NUL})
  PROVE  Clean(type, S, ParseToken(type, parsed, token))
<1> DEFINE next == ParseToken(type, parsed, token)
<1>1. DOMAIN parsed = Fields
  BY DEF Clean
<1>2. CASE token = <<LF>>
  <2>1. next = [parsed EXCEPT !.headersParsed = TRUE]
    BY <1>2, Zenon DEF ParseToken
  <2>2. Clean(type, S, [parsed EXCEPT !.headersParsed = TRUE])
    BY DEF Clean, Fields
  <2> QED
    BY <2>1, <2>2, Zenon
<1>3. CASE token # <<LF>> /\ ~parsed.firstLineParsed
  <2> DEFINE started == [parsed EXCEPT !.firstLineParsed = TRUE]
             words == Words(token)
  <2>1. next = FirstLine(type, started, words)
    BY <1>3, Zenon DEF ParseToken
  <2>2. Clean(type, S, started)
    BY DEF Clean, Fields
  <2> HIDE DEF started
  <2>3. CASE type = "request_t"
    <3> DEFINE q == RequestLine(started, words)
    <3>1. next = q
      BY <2>1, <2>3 DEF FirstLine
    <3>2. /\ q.headers = started.headers /\ q.body = started.body /\ DOMAIN q = Fields
      BY <2>2, RequestLineIs DEF Clean
    <3>3. Token(q.line, 2) \in Seq(S \ {SP, CR, NUL, "?"})
      BY <2>2, RequestLineClean DEF Clean
    <3> HIDE DEF q
    <3>4. Clean(type, S, q)
      BY <2>2, <3>2, <3>3 DEF Clean
    <3> QED
      BY <3>1, <3>4
  <2>4. CASE type # "request_t"
    <3>1. next = StatusLine(started, words)
      BY <2>1, <2>4 DEF FirstLine
    <3>2. ASSUME NEW line PROVE Clean(type, S, [started EXCEPT !.line = line])
      BY <2>2, <2>4 DEF Clean, Fields
    <3> HIDE DEF words
    <3> QED
      BY <3>1, <3>2, Zenon DEF StatusLine
  <2> QED
    BY <2>3, <2>4
<1>4. CASE token # <<LF>> /\ parsed.firstLineParsed /\ parsed.headersParsed
  <2> DEFINE body == parsed.body \o RemoveFirst(token, LF)
  <2>1. next = [parsed EXCEPT !.body = body]
    BY <1>4, Zenon DEF ParseToken
  <2>2. body \in Seq(S \ {CR, NUL})
    BY RemoveFirstType, ConcatProperties DEF Clean
  <2> HIDE DEF body
  <2>3. Clean(type, S, [parsed EXCEPT !.body = body])
    BY <2>2 DEF Clean, Fields
  <2> QED
    BY <2>1, <2>3, Zenon
<1>5. CASE token # <<LF>> /\ parsed.firstLineParsed /\ ~parsed.headersParsed
  <2>1. next = IF Find(token, ":") # 0 THEN Header(type, parsed, token) ELSE parsed
    BY <1>5, Zenon DEF ParseToken
  <2> DEFINE key == RemoveFirst(Token(StrTok(token, ":"), 1), LF)
             value == HeaderValue(type, Token(StrTok(token, ":"), 2))
  <2>2. key \in CleanParts(S) /\ value \in CleanParts(S)
    <3>1. (S \ {CR, NUL}) \ {":"} = S \ {CR, NUL, ":"}
      OBVIOUS
    <3>2. key \in Seq((S \ {CR, NUL}) \ {":"}) /\ value \in Seq((S \ {CR, NUL}) \ {":"})
      BY HeaderParts, Zenon
    <3> HIDE DEF key, value
    <3> QED
      BY <3>1, <3>2 DEF CleanParts
  <2>3. \E null : Header(type, parsed, token)
                    = [parsed EXCEPT !.headers = Emplace(parsed.headers, key, value), !.null = null]
    BY Zenon DEF Header
  <2> HIDE DEF key, value
  <2>4. ASSUME NEW null
        PROVE Clean(type, S, [parsed EXCEPT !.headers = Emplace(parsed.headers, key, value), !.null = null])
    <3> DEFINE h == Emplace(parsed.headers, key, value)
    <3>1. \A k \in DOMAIN h : k \in CleanParts(S) /\ h[k] \in CleanParts(S)
      BY <2>2 DEF Emplace, Clean
    <3> HIDE DEF h
    <3>2. Clean(type, S, [parsed EXCEPT !.headers = h, !.null = null])
      BY <3>1 DEF Clean, Fields
    <3> QED
      BY <3>2 DEF h
  <2>5. Clean(type, S, Header(type, parsed, token))
    BY <2>3, <2>4, Zenon
  <2> QED
    BY <2>1, <2>5, Zenon
<1>6. \/ token = <<LF>>
      \/ token # <<LF>> /\ ~parsed.firstLineParsed
      \/ token # <<LF>> /\ parsed.firstLineParsed /\ parsed.headersParsed
      \/ token # <<LF>> /\ parsed.firstLineParsed /\ ~parsed.headersParsed
  BY Zenon
<1> HIDE DEF next
<1> QED
  BY <1>2, <1>3, <1>4, <1>5, <1>6, Zenon DEF next

(* Whatever the text, what a parser has of it is clean.                    *)
LEMMA ParseClean ==
  ASSUME NEW type, NEW S, NEW text \in Seq(S)
  PROVE  Clean(type, S, Parse(type, text))
<1> DEFINE tokens == StrTok(CString(text), CR)
           n == Len(tokens)
<1>1. tokens \in Seq(Seq(S \ {CR, NUL}))
  <2>1. (S \ {NUL}) \ {CR} = S \ {CR, NUL}
    OBVIOUS
  <2>2. CString(text) \in Seq(S \ {NUL})
    BY CStringType
  <2>3. tokens \in Seq(Seq((S \ {NUL}) \ {CR}))
    BY <2>2, StrTokType
  <2> HIDE DEF tokens
  <2> QED
    BY <2>1, <2>3
<1> HIDE DEF tokens
<1>2. n \in Nat /\ DOMAIN tokens = 1..n /\ \A k \in 1..n : tokens[k] \in Seq(S \ {CR, NUL})
  BY <1>1
<1> HIDE DEF n
<1>3. PICK f : States(type, tokens, n, f)
  BY <1>2, ParsedStates
<1> DEFINE I == {k \in Nat : k \in 0..n => Clean(type, S, f[k])}
<1>4. 0 \in I
  <2>1. Clean(type, S, Unparsed)
    <3>1. <<>> \in Seq(S \ {CR, NUL}) /\ <<>> \in Seq(S \ {SP, CR, NUL, "?"})
      BY EmptySeq
    <3>2. Token(<<>>, 2) = <<>>
      BY DEF Token
    <3>3. DOMAIN Unparsed = Fields /\ Unparsed.body = <<>> /\ Unparsed.headers = <<>> /\ Unparsed.line = <<>>
      BY DEF Unparsed, Fields
    <3>4. DOMAIN <<>> = {}
      OBVIOUS
    <3> QED
      BY <3>1, <3>2, <3>3, <3>4 DEF Clean
  <2> QED
    BY <1>3, <2>1 DEF States
<1>5. ASSUME NEW k \in Nat, k \in I PROVE k + 1 \in I
  <2>1. ASSUME k + 1 \in 0..n PROVE Clean(type, S, f[k + 1])
    <3>1. k \in 0..n /\ k + 1 \in 1..n /\ (k + 1) - 1 = k
      BY <1>2, <2>1
    <3>2. f[k + 1] = ParseToken(type, f[k], tokens[k + 1])
      BY <1>3, <3>1 DEF States
    <3>3. tokens[k + 1] \in Seq(S \ {CR, NUL})
      BY <1>2, <3>1
    <3> QED
      BY <1>5, <3>1, <3>2, <3>3, CleanStays
  <2>2. k + 1 \in Nat
    OBVIOUS
  <2> QED
    BY <2>1, <2>2
<1>6. n \in I
  <2> HIDE DEF I
  <2> QED
    BY <1>2, <1>4, <1>5, Induction
<1>7. Clean(type, S, Parsed(type, tokens))
  BY <1>2, <1>3, <1>6 DEF States
<1>8. Parse(type, text) = Parsed(type, tokens)
  BY DEF Parse, Parsed, tokens
<1> QED
  BY <1>7, <1>8

-----------------------------------------------------------------------------
(* Where a concatenation begins does not matter.                           *)
LEMMA ConcatThree ==
  ASSUME NEW S, NEW a \in Seq(S), NEW b \in Seq(S), NEW c \in Seq(S)
  PROVE  /\ a \o (b \o c) = a \o b \o c
         /\ a \o b \in Seq(S) /\ b \o c \in Seq(S) /\ a \o b \o c \in Seq(S)
<1>1. (a \o b) \o c = a \o (b \o c)
  BY ConcatAssociative
<1>2. a \o b \in Seq(S) /\ b \o c \in Seq(S)
  BY ConcatProperties
<1>3. (a \o b) \o c \in Seq(S)
  BY <1>2, ConcatProperties
<1> QED
  BY <1>1, <1>2, <1>3

(* The same of an operator the provers do not look into.                   *)
Cat(a, b) == a \o b

(* A concatenation's symbols are those of its parts.                       *)
LEMMA CatType ==
  ASSUME NEW S, NEW a \in Seq(S), NEW b \in Seq(S)
  PROVE  Cat(a, b) \in Seq(S)
  BY ConcatProperties DEF Cat

(* Where it begins does not matter.                                        *)
LEMMA CatAssociative ==
  ASSUME NEW S, NEW a \in Seq(S), NEW b \in Seq(S), NEW c \in Seq(S)
  PROVE  Cat(a, Cat(b, c)) = Cat(Cat(a, b), c)
  BY ConcatThree DEF Cat

(* Of five parts.                                                          *)
LEMMA CatFive ==
  ASSUME NEW S, NEW a \in Seq(S), NEW b \in Seq(S), NEW c \in Seq(S), NEW d \in Seq(S), NEW e \in Seq(S)
  PROVE  Cat(a, Cat(Cat(Cat(b, c), d), e)) = Cat(Cat(Cat(Cat(a, b), c), d), e)
<1>1. Cat(b, c) \in Seq(S) /\ Cat(Cat(b, c), d) \in Seq(S)
  BY CatType
<1>2. Cat(a, Cat(Cat(b, c), d)) = Cat(Cat(Cat(a, b), c), d)
  <2>1. Cat(a, Cat(Cat(b, c), d)) = Cat(Cat(a, Cat(b, c)), d)
    BY <1>1, CatAssociative
  <2>2. Cat(a, Cat(b, c)) = Cat(Cat(a, b), c)
    BY CatAssociative
  <2> QED
    BY <2>1, <2>2, Zenon
<1>3. Cat(a, Cat(Cat(Cat(b, c), d), e)) = Cat(Cat(a, Cat(Cat(b, c), d)), e)
  BY <1>1, CatAssociative
<1> QED
  BY <1>2, <1>3, Zenon

(* Two symbols are one and one more.                                       *)
LEMMA PairIs ==
  ASSUME NEW a, NEW b
  PROVE  <<a>> \o <<b>> = <<a, b>>
<1> DEFINE S == {a, b}
           s == <<a>> \o <<b>>
           t == <<a, b>>
<1>1. /\ <<a>> \in Seq(S) /\ <<b>> \in Seq(S) /\ Len(<<a>>) = 1 /\ Len(<<b>>) = 1
      /\ <<a>>[1] = a /\ <<b>>[1] = b
      /\ t \in Seq(S) /\ Len(t) = 2 /\ t[1] = a /\ t[2] = b
  OBVIOUS
<1>2. /\ s \in Seq(S) /\ Len(s) = Len(<<a>>) + Len(<<b>>)
      /\ \A i \in 1..Len(<<a>>) + Len(<<b>>) :
           s[i] = IF i <= Len(<<a>>) THEN <<a>>[i] ELSE <<b>>[i - Len(<<a>>)]
  BY <1>1, ConcatProperties
<1> HIDE DEF s, t
<1>3. s[1] = a /\ s[2] = b /\ Len(s) = 2
  BY <1>1, <1>2
<1>4. \A i \in 1..Len(s) : s[i] = t[i]
  BY <1>1, <1>3
<1>5. s = t
  BY <1>1, <1>2, <1>3, <1>4, SeqEqual
<1> QED
  BY <1>5 DEF s, t

(* A header's line behind the line before it.                              *)
LineOf(key, value) == Join(<<LF>> \o key, ":", <<SP>> \o value)

(* The line of a header, written symbol by symbol.                         *)
LEMMA LineShape ==
  ASSUME NEW S, {CR, LF, SP, ":"} \subseteq S, NEW a \in Seq(S), NEW k \in Seq(S), NEW v \in Seq(S)
  PROVE  a \o <<CR, LF>> \o k \o <<":", SP>> \o v = Join(a, CR, LineOf(k, v))
<1>1. <<CR>> \in Seq(S) /\ <<LF>> \in Seq(S) /\ <<SP>> \in Seq(S) /\ <<":">> \in Seq(S)
  OBVIOUS
<1>2. <<CR, LF>> = <<CR>> \o <<LF>> /\ <<":", SP>> = <<":">> \o <<SP>>
  BY PairIs
<1> DEFINE cr == <<CR>>
           lf == <<LF>>
           colon == <<":">>
           sp == <<SP>>
<1> HIDE DEF cr, lf, colon, sp
<1>3. Cat(Cat(a, cr), Cat(Cat(Cat(lf, k), colon), Cat(sp, v)))
        = Cat(Cat(Cat(Cat(a, Cat(cr, lf)), k), Cat(colon, sp)), v)
  <2>1. cr \in Seq(S) /\ lf \in Seq(S) /\ colon \in Seq(S) /\ sp \in Seq(S)
    BY <1>1 DEF cr, lf, colon, sp
  <2> DEFINE x == Cat(a, cr)
             y == Cat(lf, k)
             z == Cat(sp, v)
             u == Cat(x, y)
  <2>2. x \in Seq(S) /\ y \in Seq(S) /\ z \in Seq(S)
    BY <2>1, CatType
  <2>3. Cat(y, colon) \in Seq(S)
    BY <2>1, <2>2, CatType
  <2>4. Cat(x, Cat(Cat(y, colon), z)) = Cat(Cat(x, Cat(y, colon)), z)
    BY <2>2, <2>3, CatAssociative
  <2>5. Cat(x, Cat(y, colon)) = Cat(u, colon)
    BY <2>1, <2>2, CatAssociative
  <2>6. u = Cat(Cat(x, lf), k)
    BY <2>1, <2>2, CatAssociative
  <2>7. Cat(x, lf) = Cat(a, Cat(cr, lf))
    BY <2>1, CatAssociative
  <2>8. u \in Seq(S)
    BY <2>2, CatType
  <2> HIDE DEF u
  <2>9. Cat(u, colon) \in Seq(S)
    BY <2>1, <2>8, CatType
  <2>10. Cat(Cat(u, colon), Cat(sp, v)) = Cat(Cat(Cat(u, colon), sp), v)
    BY <2>1, <2>9, CatAssociative
  <2>11. Cat(Cat(u, colon), sp) = Cat(u, Cat(colon, sp))
    BY <2>1, <2>8, CatAssociative
  <2> QED
    BY <2>4, <2>5, <2>6, <2>7, <2>10, <2>11, Zenon
<1>4. Join(a, CR, LineOf(k, v)) = Cat(Cat(Cat(Cat(a, Cat(cr, lf)), k), Cat(colon, sp)), v)
  BY <1>3, Zenon DEF Join, LineOf, Cat, cr, lf, colon, sp
<1>5. Cat(cr, lf) = <<CR, LF>> /\ Cat(colon, sp) = <<":", SP>>
  BY <1>2 DEF Cat, cr, lf, colon, sp
<1> QED
  BY <1>4, <1>5, Zenon DEF Cat

(* What strtok_s() finds behind the colon.                                 *)
FirstPart(value) == Token(StrTok(<<SP>> \o value, ":"), 1)

(* It is the whole value exactly if that has no colon.                     *)
LEMMA FirstPartIs ==
  ASSUME NEW S, SP \in S, NEW v \in Seq(S)
  PROVE  /\ FirstPart(v) = <<SP>> \o v <=> v \in Seq(S \ {":"})
         /\ 1 \in DOMAIN StrTok(<<SP>> \o v, ":")
         /\ v \in Seq(S \ {":"}) => WithoutSpace(FirstPart(v)) = v
<1> DEFINE w == <<SP>> \o v
           T == S \ {":"}
<1>1. SP # ":"
  BY DEF SP
<1>2. <<SP>> \in Seq(S) /\ <<SP>> \in Seq(T) /\ Len(<<SP>>) = 1 /\ <<SP>>[1] = SP /\ Len(v) \in Nat
  BY <1>1
<1>3. /\ w \in Seq(S) /\ Len(w) = 1 + Len(v)
      /\ \A i \in 1..1 + Len(v) : w[i] = IF i <= 1 THEN <<SP>>[i] ELSE v[i - 1]
  BY <1>2, ConcatProperties
<1>4. w[1] = SP /\ Len(w) >= 1 /\ \A i \in 1..Len(v) : w[i + 1] = v[i]
  BY <1>2, <1>3
<1>5. 1 \in DOMAIN StrTok(w, ":")
  <2> HIDE DEF w
  <2> QED
    BY <1>1, <1>3, <1>4, FirstToken, TokensType
<1>6. FirstPart(v) \in Seq(T)
  <2>1. StrTok(w, ":") \in Seq(Seq(T))
    BY <1>3, StrTokType
  <2> HIDE DEF w, T
  <2>2. \A i \in DOMAIN StrTok(w, ":") : StrTok(w, ":")[i] \in Seq(T)
    BY <2>1
  <2> QED
    BY <2>2, TokenType DEF FirstPart, w
<1>7. ASSUME v \in Seq(T) PROVE FirstPart(v) = w
  <2>1. w \in Seq(T)
    BY <1>2, <1>7, ConcatProperties
  <2>2. w # <<>>
    <3> HIDE DEF w
    <3> QED
      BY <1>4
  <2> HIDE DEF w
  <2>3. StrTok(w, ":") = <<w>>
    BY <2>1, <2>2, StrTokOne
  <2>4. Token(<<w>>, 1) = w
    BY DEF Token
  <2> QED
    BY <2>3, <2>4 DEF FirstPart, w
<1>8. ASSUME FirstPart(v) = w PROVE v \in Seq(T)
  <2>1. w \in Seq(T)
    BY <1>6, <1>8
  <2> HIDE DEF w
  <2>2. \A i \in 1..Len(v) : v[i] \in T
    <3>1. \A i \in 1..Len(w) : w[i] \in T
      BY <2>1
    <3>2. \A i \in 1..Len(v) : i + 1 \in 1..Len(w)
      BY <1>2, <1>3
    <3> QED
      BY <1>4, <3>1, <3>2
  <2>3. v = [i \in 1..Len(v) |-> v[i]]
    OBVIOUS
  <2>4. v \in [1..Len(v) -> T]
    BY <2>2, <2>3, Zenon
  <2> QED
    BY <1>2, <2>4, SeqDef
<1>9. WithoutSpace(w) = v
  <2>1. w # <<>> /\ Head(w) = SP
    <3> HIDE DEF w
    <3> QED
      BY <1>3, <1>4
  <2>2. Tail(w) = v
    <3> HIDE DEF w
    <3>1. Tail(w) \in Seq(S) /\ Len(Tail(w)) = Len(w) - 1 /\ \A i \in 1..Len(w) - 1 : Tail(w)[i] = w[i + 1]
      BY <1>3, <2>1
    <3>2. Len(Tail(w)) = Len(v)
      BY <1>2, <1>3, <3>1
    <3>3. \A i \in 1..Len(v) : Tail(w)[i] = v[i]
      <4>1. Len(w) - 1 = Len(v)
        BY <1>2, <1>3
      <4> QED
        BY <1>4, <3>1, <4>1
    <3> QED
      BY <3>1, <3>2, <3>3, SeqEqual
  <2> QED
    BY <2>1, <2>2 DEF WithoutSpace
<1> HIDE DEF w
<1> QED
  BY <1>5, <1>7, <1>8, <1>9 DEF w

-----------------------------------------------------------------------------
(* What a parser has of the first line stays, and as long as every header  *)
(* has a key, so does whether it met a null pointer.                       *)
First(parsed) == <<parsed.line, parsed.null>>

(* A parser that has its first line and these headers.                     *)
Among(parsed, line, headers) ==
  /\ DOMAIN parsed = Fields
  /\ parsed.null \in BOOLEAN
  /\ First(parsed) = line
  /\ parsed.headers = headers
  /\ parsed.body = <<>>
  /\ parsed.firstLineParsed = TRUE
  /\ parsed.headersParsed = FALSE

(* The separators are not among those of a line.                           *)
LEMMA Separate == LF \notin {CR, NUL, SP, ":"} /\ SP \notin {CR, NUL, LF, ":"} /\ ":" \notin {CR, NUL, LF, SP}
BY DEF CR, LF, SP, NUL

(* Two texts with a symbol between them are a text.                        *)
LEMMA JoinType ==
  ASSUME NEW S, NEW x \in Seq(S), NEW y \in Seq(S), NEW d \in S
  PROVE  Join(x, d, y) \in Seq(S) /\ Len(Join(x, d, y)) = Len(x) + 1 + Len(y)
<1>1. x \o <<d>> \o y \in Seq(S) /\ Len(x \o <<d>> \o y) = Len(x) + 1 + Len(y)
  BY Joined
<1> QED
  BY <1>1 DEF Join

(* The line of a header is one line.                                       *)
LEMMA LineType ==
  ASSUME NEW S, {CR, LF, SP, ":"} \subseteq S,
         NEW k \in Seq(S \ {CR, NUL}), NEW v \in Seq(S \ {CR, NUL})
  PROVE  LineOf(k, v) \in Seq(S \ {CR, NUL}) /\ LineOf(k, v) # <<>> /\ LineOf(k, v) # <<LF>>
<1> DEFINE T == S \ {CR, NUL}
           x == <<LF>> \o k
           y == <<SP>> \o v
<1>1. <<LF>> \in Seq(T) /\ <<SP>> \in Seq(T) /\ ":" \in T /\ Len(<<LF>>) = 1 /\ Len(<<SP>>) = 1
  BY Separate
<1>2. k \in Seq(T) /\ v \in Seq(T)
  OBVIOUS
<1> HIDE DEF T
<1>3. x \in Seq(T) /\ Len(x) = 1 + Len(k) /\ y \in Seq(T) /\ Len(y) = 1 + Len(v)
  BY <1>1, <1>2, ConcatProperties
<1> HIDE DEF x, y
<1>4. Join(x, ":", y) \in Seq(T) /\ Len(Join(x, ":", y)) = Len(x) + 1 + Len(y)
  BY <1>1, <1>3, JoinType
<1>5. Len(Join(x, ":", y)) >= 3
  <2>1. Len(k) \in Nat /\ Len(v) \in Nat
    BY <1>2
  <2> QED
    BY <1>3, <1>4, <2>1
<1>6. Join(x, ":", y) # <<>> /\ Join(x, ":", y) # <<LF>>
  <2>1. Len(<<>>) = 0 /\ Len(<<LF>>) = 1
    OBVIOUS
  <2> QED
    BY <1>5, <2>1
<1> QED
  BY <1>4, <1>6 DEF LineOf, x, y, T

(* The key and the value a parser finds in it.                             *)
LEMMA LineParts ==
  ASSUME NEW S, {LF, SP, ":"} \subseteq S, NEW k \in Seq(S \ {":"}), NEW v \in Seq(S)
  PROVE  /\ RemoveFirst(Token(StrTok(LineOf(k, v), ":"), 1), LF) = k
         /\ Token(StrTok(LineOf(k, v), ":"), 2) = FirstPart(v)
         /\ Find(LineOf(k, v), ":") # 0
         /\ StrTok(LineOf(k, v), ":") # <<>>
<1> DEFINE T == S \ {":"}
           x == <<LF>> \o k
           y == <<SP>> \o v
           w == StrTok(y, ":")
<1>1. <<LF>> \in Seq(T) /\ <<SP>> \in Seq(S) /\ ":" \in S /\ Len(<<LF>>) = 1 /\ LF \in T
  BY Separate
<1>2. x \in Seq(T) /\ Len(x) = 1 + Len(k) /\ Len(k) \in Nat
  <2>1. k \in Seq(T)
    OBVIOUS
  <2> HIDE DEF T
  <2> QED
    BY <1>1, <2>1, ConcatProperties
<1>3. y \in Seq(S)
  BY <1>1, ConcatProperties
<1>4. RemoveFirst(x, LF) = k
  <2>1. k \in Seq(T)
    OBVIOUS
  <2> HIDE DEF T
  <2> QED
    BY <1>1, <2>1, RemoveHead
<1> HIDE DEF x, y
<1>5. x # <<>>
  BY <1>2
<1>6. StrTok(Join(x, ":", y), ":") = <<x>> \o w
  BY <1>1, <1>2, <1>3, <1>5, StrTokEnds
<1>7. w \in Seq(Seq(T)) /\ <<x>> \in Seq(Seq(T)) /\ Len(<<x>>) = 1 /\ <<x>>[1] = x
  BY <1>2, <1>3, StrTokType
<1>8. 1 \in DOMAIN w
  BY <1>1, FirstPartIs DEF y
<1> HIDE DEF w
<1>9. /\ DOMAIN (<<x>> \o w) = 1..(1 + Len(w)) /\ Len(w) \in Nat /\ Len(w) >= 1
      /\ (<<x>> \o w)[1] = x /\ (<<x>> \o w)[2] = w[1]
  <2>1. /\ Len(<<x>> \o w) = Len(<<x>>) + Len(w)
        /\ \A i \in 1..Len(<<x>>) + Len(w) : (<<x>> \o w)[i] = IF i <= Len(<<x>>) THEN <<x>>[i] ELSE w[i - Len(<<x>>)]
        /\ DOMAIN (<<x>> \o w) = 1..Len(<<x>> \o w)
    BY <1>7, ConcatProperties
  <2>2. Len(w) \in Nat /\ DOMAIN w = 1..Len(w)
    BY <1>7
  <2>3. Len(w) >= 1
    BY <1>8, <2>2
  <2>4. (<<x>> \o w)[1] = x
    BY <1>7, <2>1, <2>2, <2>3
  <2>5. (<<x>> \o w)[2] = w[1]
    <3>1. 2 \in 1..Len(<<x>>) + Len(w) /\ ~(2 <= Len(<<x>>)) /\ 2 - Len(<<x>>) = 1
      BY <1>7, <2>2, <2>3
    <3> QED
      BY <2>1, <3>1
  <2> QED
    BY <1>7, <2>1, <2>2, <2>3, <2>4, <2>5
<1>10. Token(<<x>> \o w, 1) = x /\ Token(<<x>> \o w, 2) = w[1]
  <2>1. 1 \in 1..(1 + Len(w)) /\ 2 \in 1..(1 + Len(w))
    BY <1>9
  <2> QED
    BY <1>9, <2>1 DEF Token
<1>11. Token(w, 1) = w[1]
  BY <1>8 DEF Token
<1>13. <<x>> \o w # <<>>
  <2>1. 1 \in DOMAIN (<<x>> \o w) /\ 1 \notin DOMAIN <<>>
    BY <1>9
  <2> QED
    BY <2>1, Zenon
<1>12. Find(Join(x, ":", y), ":") # 0
  <2>1. /\ Join(x, ":", y) \in Seq(S) /\ Len(Join(x, ":", y)) = Len(x) + 1 + Len(y)
        /\ Join(x, ":", y)[Len(x) + 1] = ":"
    <3>1. x \in Seq(S)
      BY <1>2, SeqMonotone DEF T
    <3> QED
      BY <1>1, <1>3, <3>1, Joined DEF Join
  <2>2. Len(x) + 1 \in 1..Len(Join(x, ":", y))
    <3>1. Len(x) \in Nat /\ Len(y) \in Nat
      BY <1>2, <1>3
    <3> QED
      BY <2>1, <3>1
  <2> QED
    BY <2>1, <2>2, FindProperties
<1> QED
  BY <1>4, <1>6, <1>10, <1>11, <1>12, <1>13 DEF LineOf, FirstPart, x, y, w

(* A parser among its headers takes one more.                              *)
LEMMA OneHeader ==
  ASSUME NEW type, NEW S, {CR, LF, SP, ":"} \subseteq S,
         NEW k \in Seq(S \ {CR, NUL, ":"}), NEW v \in Seq(S \ {CR, NUL}),
         NEW parsed, NEW line, NEW headers, Among(parsed, line, headers)
  PROVE  Among(ParseToken(type, parsed, LineOf(k, v)), line,
               Emplace(headers, k, HeaderValue(type, FirstPart(v))))
<1> DEFINE token == LineOf(k, v)
           key == RemoveFirst(Token(StrTok(token, ":"), 1), LF)
           value == Token(StrTok(token, ":"), 2)
<1>1. token # <<LF>>
  <2>1. k \in Seq(S \ {CR, NUL})
    BY SeqMonotone
  <2> QED
    BY <2>1, LineType
<1>2. key = k /\ value = FirstPart(v) /\ Find(token, ":") # 0 /\ StrTok(token, ":") # <<>>
  <2>1. k \in Seq(S \ {":"}) /\ v \in Seq(S)
    BY SeqMonotone
  <2> QED
    BY <2>1, LineParts
<1>3. ParseToken(type, parsed, token) = IF Find(token, ":") # 0 THEN Header(type, parsed, token) ELSE parsed
  <2> HIDE DEF token
  <2> QED
    BY <1>1, Zenon DEF ParseToken, Among
<1> DEFINE null == parsed.null
<1>4. Header(type, parsed, token)
        = [parsed EXCEPT !.headers = Emplace(headers, key, HeaderValue(type, value)), !.null = null]
  <2> HIDE DEF token
  <2>1. (parsed.null \/ StrTok(token, ":") = <<>>) = null
    BY <1>2, Zenon DEF Among
  <2> HIDE DEF null
  <2> QED
    BY <2>1, Zenon DEF Header, Among
<1> HIDE DEF token, key, value
<1> DEFINE h == Emplace(headers, k, HeaderValue(type, FirstPart(v)))
<1>5. Emplace(headers, key, HeaderValue(type, value)) = h
  BY <1>2
<1> HIDE DEF h
<1>6. Among([parsed EXCEPT !.headers = h, !.null = null], line, h)
  BY DEF Among, Fields, First
<1>7. Among(Header(type, parsed, token), line, h)
  BY <1>4, <1>5, <1>6, Zenon
<1> QED
  BY <1>2, <1>3, <1>7 DEF h, token

-----------------------------------------------------------------------------
(* A text that begins with b and goes on with the lines t, as far as the   *)
(* end of the last of them: what the parser has then.                      *)
Reached(type, S, b, line, headers, t) ==
  \E v \in Seq(S \ {NUL}) : /\ b \o <<CR, LF>> \o t = v \o <<CR, LF>>
                            /\ Among(Parse(type, v), line, headers)

(* No line.                                                                *)
LEMMA ReachedNone ==
  ASSUME NEW type, NEW S, {CR, LF} \subseteq S, NEW b \in Seq(S \ {NUL}), NEW line, NEW headers,
         Among(Parse(type, b), line, headers)
  PROVE  Reached(type, S, b, line, headers, <<>>)
<1>1. b \o <<CR, LF>> \in Seq(S)
  <2>1. b \in Seq(S) /\ <<CR, LF>> \in Seq(S)
    BY SeqMonotone
  <2> QED
    BY <2>1, ConcatProperties
<1>2. b \o <<CR, LF>> \o <<>> = b \o <<CR, LF>>
  BY <1>1, ConcatEmptySeq
<1> QED
  BY <1>2, Zenon DEF Reached

(* One line more.                                                          *)
LEMMA ReachedOne ==
  ASSUME NEW type, NEW S, {CR, LF, SP, ":"} \subseteq S, NEW b \in Seq(S), NEW line, NEW headers,
         NEW t \in Seq(S), Reached(type, S, b, line, headers, t),
         NEW k \in Seq(S \ {CR, NUL, ":"}), NEW v \in Seq(S \ {CR, NUL})
  PROVE  Reached(type, S, b, line, Emplace(headers, k, HeaderValue(type, FirstPart(v))),
                 t \o k \o <<":", SP>> \o v \o <<CR, LF>>)
<1>1. PICK u \in Seq(S \ {NUL}) : /\ b \o <<CR, LF>> \o t = u \o <<CR, LF>>
                                  /\ Among(Parse(type, u), line, headers)
  BY Zenon DEF Reached
<1> DEFINE x == LineOf(k, v)
           w == Join(u, CR, x)
           e == <<CR, LF>>
           c == <<":", SP>>
<1>2. k \in Seq(S \ {CR, NUL}) /\ k \in Seq(S) /\ v \in Seq(S) /\ u \in Seq(S)
      /\ e \in Seq(S) /\ c \in Seq(S)
  BY SeqMonotone
<1>3. x \in Seq(S \ {CR, NUL}) /\ x # <<>>
  BY <1>2, LineType
<1>4. Among(ParseToken(type, Parse(type, u), x), line, Emplace(headers, k, HeaderValue(type, FirstPart(v))))
  BY <1>1, OneHeader
<1>5. w \in Seq(S \ {NUL}) /\ Parse(type, w) = ParseToken(type, Parse(type, u), x)
  <2> HIDE DEF x
  <2>1. CR \in S
    OBVIOUS
  <2> QED
    BY <1>3, <2>1, ParseAppend, ZenonT(40)
<1>6. u \o e \o k \o c \o v = w
  BY <1>2, LineShape, ZenonT(40)
<1> HIDE DEF w, x
<1>7. b \o e \o (t \o k \o c \o v \o e) = w \o e
  <2> DEFINE f == b \o e
             g == t \o k \o c \o v
  <2>1. f \in Seq(S)
    BY <1>2, ConcatProperties
  <2> HIDE DEF e, c
  <2>2. g \in Seq(S)
    BY <1>2, ConcatThree
  <2>3. f \o (g \o e) = (f \o g) \o e
    <3> HIDE DEF f, g
    <3>1. Cat(f, Cat(g, e)) = Cat(Cat(f, g), e)
      BY <1>2, <2>1, <2>2, CatAssociative
    <3> QED
      BY <3>1, Zenon DEF Cat
  <2>4. f \o (t \o k \o c \o v) = f \o t \o k \o c \o v
    <3> HIDE DEF f
    <3>1. Cat(f, Cat(Cat(Cat(t, k), c), v)) = Cat(Cat(Cat(Cat(f, t), k), c), v)
      BY <1>2, <2>1, CatFive
    <3> QED
      BY <3>1, Zenon DEF Cat
  <2>5. f \o t = u \o e
    BY <1>1 DEF e
  <2> HIDE DEF f
  <2>6. f \o g = u \o e \o k \o c \o v
    BY <2>4, <2>5, Zenon
  <2> HIDE DEF g
  <2>7. f \o (g \o e) = w \o e
    BY <1>6, <2>3, <2>6, Zenon
  <2> QED
    BY <2>7 DEF f, g
<1>8. Among(Parse(type, w), line, Emplace(headers, k, HeaderValue(type, FirstPart(v))))
  BY <1>4, <1>5
<1> QED
  BY <1>5, <1>7, <1>8, Zenon DEF Reached

(* What the headers are after the lines of some keys.                      *)
Merged(type, base, h, keys) ==
  [k \in DOMAIN base \cup keys |->
     IF k \in DOMAIN base THEN base[k] ELSE HeaderValue(type, FirstPart(h[k]))]

(* All lines of a map, in whatever order.                                  *)
LEMMA ReachedAll ==
  ASSUME NEW type, NEW S, {CR, LF, SP, ":"} \subseteq S, NEW b \in Seq(S \ {NUL}), NEW line, NEW base,
         base = [k \in DOMAIN base |-> base[k]], Among(Parse(type, b), line, base),
         NEW h, IsFiniteSet(DOMAIN h),
         \A k \in DOMAIN h : k \in Seq(S \ {CR, NUL, ":"}) /\ h[k] \in Seq(S \ {CR, NUL})
  PROVE  Reached(type, S, b, line, Merged(type, base, h, DOMAIN h), HeaderLines(h))
<1> DEFINE D == DOMAIN h
           f == CHOOSE f : f = [s \in SUBSET D |-> Lines(h, f, s)]
           Good(s) == f[s] \in Seq(S) /\ Reached(type, S, b, line, Merged(type, base, h, s), f[s])
<1>1. f = [s \in SUBSET D |-> Lines(h, f, s)]
  BY LinesFunction
<1>2. HeaderLines(h) = f[D]
  BY DEF HeaderLines, FoldSet, MapThenFoldSet, Lines, OneLine
<1> HIDE DEF f, D
<1> DEFINE I == {n \in Nat : \A s \in SUBSET D : Cardinality(s) = n => Good(s)}
<1>3. \A s \in SUBSET D : IsFiniteSet(s) /\ Cardinality(s) \in Nat
  BY FS_Subset, FS_CardinalityType DEF D
<1>4. 0 \in I
  <2>1. \A s \in SUBSET D : Cardinality(s) = 0 => s = {}
    <3>1. ASSUME NEW s \in SUBSET D PROVE Cardinality(s) = 0 <=> s = {}
      BY <1>3, FS_EmptySet
    <3> QED
      BY <3>1
  <2>2. {} \in SUBSET D /\ Lines(h, f, {}) = <<>>
    BY DEF Lines
  <2>3. f[{}] = <<>> /\ <<>> \in Seq(S)
    BY <1>1, <2>2, EmptySeq
  <2>4. Merged(type, base, h, {}) = base
    BY DEF Merged
  <2>5. Reached(type, S, b, line, base, <<>>)
    BY ReachedNone
  <2>6. Good({})
    BY <2>3, <2>4, <2>5
  <2> HIDE DEF Good
  <2> QED
    BY <2>1, <2>6
<1>5. ASSUME NEW n \in Nat, n \in I PROVE n + 1 \in I
  <2>1. ASSUME NEW s \in SUBSET D, Cardinality(s) = n + 1 PROVE Good(s)
    <3> DEFINE key == CHOOSE key \in s : TRUE
               r == s \ {key}
    <3>1. s # {}
      <4>1. Cardinality(s) = 0 <=> s = {}
        BY <1>3, FS_EmptySet
      <4> QED
        BY <2>1, <4>1
    <3>2. key \in s
      BY <3>1
    <3>3. f[s] = OneLine(h, key, f[r])
      BY <1>1, <3>1 DEF Lines
    <3> HIDE DEF key
    <3>4. Good(r)
      <4>1. Cardinality(r) = IF key \in s THEN Cardinality(s) - 1 ELSE Cardinality(s)
        BY <1>3, FS_RemoveElement
      <4>2. Cardinality(r) = n /\ r \in SUBSET D
        BY <2>1, <3>2, <4>1
      <4> HIDE DEF Good, r
      <4> QED
        BY <1>5, <4>2
    <3>5. key \in Seq(S \ {CR, NUL, ":"}) /\ h[key] \in Seq(S \ {CR, NUL})
      BY <3>2 DEF D
    <3> DEFINE m == Merged(type, base, h, r)
               t == f[r]
               v == h[key]
    <3>6. t \in Seq(S) /\ Reached(type, S, b, line, m, t)
      BY <3>4
    <3>7. b \in Seq(S)
      BY SeqMonotone
    <3>8. f[s] \in Seq(S)
      <4>1. key \in Seq(S) /\ v \in Seq(S) /\ <<":", SP>> \in Seq(S) /\ <<CR, LF>> \in Seq(S)
        BY <3>5, SeqMonotone
      <4> HIDE DEF t
      <4> QED
        BY <3>3, <3>6, <4>1, ConcatThree DEF OneLine, t
    <3>9. Emplace(m, key, HeaderValue(type, FirstPart(v))) = Merged(type, base, h, s)
      <4>1. s = r \cup {key}
        BY <3>2
      <4> HIDE DEF r
      <4> QED
        BY <4>1 DEF Emplace, Merged
    <3>10. Reached(type, S, b, line, Emplace(m, key, HeaderValue(type, FirstPart(v))), OneLine(h, key, t))
      <4> HIDE DEF m, t, v
      <4>1. v \in Seq(S \ {CR, NUL})
        BY <3>5 DEF v
      <4>2. Reached(type, S, b, line, Emplace(m, key, HeaderValue(type, FirstPart(v))),
                    t \o key \o <<":", SP>> \o v \o <<CR, LF>>)
        BY <3>5, <3>6, <3>7, <4>1, ReachedOne
      <4> QED
        BY <4>2 DEF OneLine, v
    <3> QED
      BY <3>3, <3>8, <3>9, <3>10, Zenon
  <2>2. n + 1 \in Nat
    OBVIOUS
  <2> HIDE DEF Good
  <2> QED
    BY <2>1, <2>2
<1>6. Cardinality(D) \in I
  <2>1. Cardinality(D) \in Nat
    BY <1>3
  <2> HIDE DEF I
  <2> QED
    BY <1>4, <1>5, <2>1, Induction
<1>7. Good(D)
  <2> HIDE DEF Good
  <2> QED
    BY <1>6
<1> QED
  BY <1>2, <1>7 DEF D

-----------------------------------------------------------------------------
(* The first line of a request.                                            *)
LineOfRequest(method, endpoint) == Join(<<method>>, SP, Join(endpoint, SP, <<"HTTP/1.1">>))
TargetOf(endpoint) == IF endpoint = <<>> THEN <<"HTTP/1.1">> ELSE RemoveFirst(endpoint, LF)

(* Its words.                                                              *)
LEMMA RequestWords ==
  ASSUME NEW S, SP \in S, NEW method \in S \ {SP, LF}, "HTTP/1.1" \in S,
         NEW e \in Seq(S \ {SP})
  PROVE  /\ \E n \in Nat : n >= 2 /\ DOMAIN Words(LineOfRequest(method, e)) = 1..n
         /\ Words(LineOfRequest(method, e))[1] = <<method>>
         /\ Words(LineOfRequest(method, e))[2] = TargetOf(e)
<1> DEFINE T == S \ {SP}
           x == <<method>>
           z == <<"HTTP/1.1">>
           y == Join(e, SP, z)
           line == LineOfRequest(method, e)
           tokens == StrTok(line, SP)
           r == StrTok(y, SP)
<1>1. "HTTP/1.1" \notin {SP, LF}
  BY Distinct DEF Separators
<1>2. /\ x \in Seq(T) /\ x # <<>> /\ z \in Seq(T) /\ z # <<>> /\ e \in Seq(T) /\ SP \in S
      /\ T \subseteq S
  BY <1>1
<1> HIDE DEF x, z
<1>3. z \in Seq(S) /\ e \in Seq(S) /\ x \in Seq(S)
  BY <1>2, SeqMonotone
<1>4. y \in Seq(S)
  BY <1>3, JoinType
<1>5. r = StrTok(e, SP) \o <<z>>
  BY <1>2, <1>3, StrTokEnds DEF T
<1>6. StrTok(e, SP) = IF e = <<>> THEN <<>> ELSE <<e>>
  BY StrTokOne
<1> HIDE DEF y
<1>7. tokens = <<x>> \o r
  <2>1. x \in Seq(S \ {SP}) /\ x # <<>>
    BY <1>2
  <2>2. StrTok(Join(x, SP, y), SP) = <<x>> \o StrTok(y, SP)
    BY <1>4, <2>1, StrTokEnds
  <2> QED
    BY <2>2 DEF LineOfRequest, x, y, z
<1> HIDE DEF T
<1>8. r \in Seq(Seq(T)) /\ Len(r) >= 1 /\ r[1] = IF e = <<>> THEN z ELSE e
  <2>1. <<z>> \in Seq(Seq(T)) /\ <<e>> \in Seq(Seq(T)) /\ Len(<<z>>) = 1 /\ Len(<<e>>) = 1
        /\ <<z>>[1] = z /\ <<e>>[1] = e
    BY <1>2
  <2> HIDE DEF r
  <2>2. CASE e = <<>>
    <3>1. r = <<z>>
      BY <1>5, <1>6, <2>1, <2>2, ConcatEmptySeq
    <3> QED
      BY <2>1, <2>2, <3>1
  <2>3. CASE e # <<>>
    <3>1. r = <<e>> \o <<z>>
      BY <1>5, <1>6, <2>3
    <3>2. <<e>> \o <<z>> = <<e, z>>
      BY PairIs
    <3>3. <<e, z>> \in Seq(Seq(T)) /\ Len(<<e, z>>) = 2 /\ <<e, z>>[1] = e
      BY <1>2
    <3> QED
      BY <2>3, <3>1, <3>2, <3>3
  <2> QED
    BY <2>2, <2>3
<1> HIDE DEF r, tokens
<1> DEFINE n == 1 + Len(r)
<1>9. /\ n \in Nat /\ n >= 2 /\ DOMAIN tokens = 1..n
      /\ tokens[1] = x /\ tokens[2] = r[1]
  <2>1. <<x>> \in Seq(Seq(T)) /\ Len(<<x>>) = 1 /\ <<x>>[1] = x /\ r \in Seq(Seq(T)) /\ Len(r) \in Nat
    BY <1>2, <1>8
  <2>2. /\ Len(<<x>> \o r) = Len(<<x>>) + Len(r)
        /\ \A i \in 1..Len(<<x>>) + Len(r) : (<<x>> \o r)[i] = IF i <= Len(<<x>>) THEN <<x>>[i] ELSE r[i - Len(<<x>>)]
        /\ DOMAIN (<<x>> \o r) = 1..Len(<<x>> \o r)
    BY <2>1, ConcatProperties
  <2>3. Len(r) >= 1
    BY <1>8
  <2>4. (<<x>> \o r)[1] = x
    BY <2>1, <2>2, <2>3
  <2>5. (<<x>> \o r)[2] = r[1]
    <3>1. 2 \in 1..Len(<<x>>) + Len(r) /\ ~(2 <= Len(<<x>>)) /\ 2 - Len(<<x>>) = 1
      BY <2>1, <2>3
    <3> QED
      BY <2>2, <3>1
  <2> QED
    BY <1>7, <2>1, <2>2, <2>3, <2>4, <2>5
<1> DEFINE words == Words(line)
<1>10. words = [i \in DOMAIN tokens |-> RemoveFirst(tokens[i], LF)]
  BY DEF Words, tokens
<1> HIDE DEF words, n
<1>11. words[1] = <<method>>
  <2>1. 1 \in DOMAIN tokens
    BY <1>9
  <2>2. RemoveFirst(<<method>>, LF) = <<method>>
    BY RemoveNone
  <2> QED
    BY <1>9, <1>10, <2>1, <2>2 DEF x
<1>12. words[2] = TargetOf(e)
  <2>1. 2 \in DOMAIN tokens
    BY <1>9
  <2>2. RemoveFirst(z, LF) = z
    BY <1>1, RemoveNone DEF z
  <2>3. words[2] = RemoveFirst(IF e = <<>> THEN z ELSE e, LF)
    BY <1>8, <1>9, <1>10, <2>1
  <2> QED
    BY <2>2, <2>3 DEF TargetOf, z
<1>13. n \in Nat /\ n >= 2 /\ DOMAIN words = 1..n
  BY <1>9, <1>10
<1> QED
  BY <1>11, <1>12, <1>13 DEF words

(* Three texts with separators between them are longer than a symbol.      *)
LEMMA JoinLong ==
  ASSUME NEW S, NEW x \in Seq(S), NEW y \in Seq(S), NEW d \in S, NEW c, x # <<>>
  PROVE  Join(x, d, y) # <<>> /\ Join(x, d, y) # <<c>>
<1> DEFINE j == Join(x, d, y)
<1>1. j \in Seq(S) /\ Len(j) = Len(x) + 1 + Len(y)
  BY JoinType
<1>2. Len(x) \in Nat /\ Len(x) >= 1 /\ Len(y) \in Nat
  BY EmptySeq
<1> HIDE DEF j
<1>3. Len(j) \in Nat /\ Len(j) >= 2
  BY <1>1, <1>2
<1>4. Len(<<>>) = 0 /\ Len(<<c>>) = 1
  OBVIOUS
<1> DEFINE n == Len(j)
<1> HIDE DEF n
<1>5. n # 0 /\ n # 1
  <2>1. n \in Nat /\ n >= 2
    BY <1>3 DEF n
  <2> QED
    BY <2>1
<1>6. j # <<>> /\ j # <<c>>
  BY <1>4, <1>5, Zenon DEF n
<1> QED
  BY <1>6 DEF j

(* The first line of a request is one line.                                *)
LEMMA RequestLineType ==
  ASSUME NEW S, SP \in S, NEW method \in S \ {CR, NUL}, "HTTP/1.1" \in S,
         NEW e \in Seq(S \ {CR, NUL})
  PROVE  /\ LineOfRequest(method, e) \in Seq(S \ {CR, NUL})
         /\ LineOfRequest(method, e) # <<>> /\ LineOfRequest(method, e) # <<LF>>
<1> DEFINE T == S \ {CR, NUL}
           x == <<method>>
           z == <<"HTTP/1.1">>
           y == Join(e, SP, z)
<1>1. x \in Seq(T) /\ z \in Seq(T) /\ SP \in T /\ e \in Seq(T) /\ x # <<>>
  <2>1. "HTTP/1.1" \in T /\ SP \in T /\ method \in T
    BY Distinct DEF Separators
  <2> HIDE DEF T
  <2>2. <<method>> \in Seq(T) /\ <<"HTTP/1.1">> \in Seq(T) /\ <<method>> # <<>>
    BY <2>1
  <2>3. e \in Seq(T)
    BY DEF T
  <2> QED
    BY <2>1, <2>2, <2>3
<1> HIDE DEF x, z, T
<1>2. y \in Seq(T)
  BY <1>1, JoinType
<1> HIDE DEF y
<1>3. Join(x, SP, y) \in Seq(T)
  BY <1>1, <1>2, JoinType
<1>4. Join(x, SP, y) # <<>> /\ Join(x, SP, y) # <<LF>>
  BY <1>1, <1>2, JoinLong
<1> QED
  BY <1>3, <1>4 DEF LineOfRequest, x, y, z, T

(* What the server's parser has of it.                                     *)
FirstOfRequest(method, endpoint) ==
  First(ParseToken("request_t", Unparsed, LineOfRequest(method, endpoint)))

LEMMA RequestLineParsed ==
  ASSUME NEW S, SP \in S, NEW method \in S \ {CR, NUL, SP, LF}, "HTTP/1.1" \in S,
         NEW e \in Seq(S \ {SP, CR, NUL})
  PROVE  LET q == ParseToken("request_t", Unparsed, LineOfRequest(method, e))
         IN /\ Among(q, FirstOfRequest(method, e), <<>>)
            /\ q.line = <<<<method>>, Cut(TargetOf(e), "?")>>
            /\ Find(TargetOf(e), "?") = 0 => q.null = FALSE
<1> DEFINE line == LineOfRequest(method, e)
           words == Words(line)
           first == SelectInSeq(words, LAMBDA w : w # <<>>)
           started == [Unparsed EXCEPT !.firstLineParsed = TRUE]
           target == IF first = 0 THEN <<>> ELSE Token(words, first + 1)
<1>1. line # <<LF>>
  <2>1. e \in Seq(S \ {CR, NUL}) /\ method \in S \ {CR, NUL}
    BY SeqMonotone
  <2>2. LineOfRequest(method, e) # <<LF>>
    BY <2>1, RequestLineType
  <2> QED
    BY <2>2 DEF line
<1>2. /\ words[1] = <<method>> /\ words[2] = TargetOf(e)
      /\ \E n \in Nat : n >= 2 /\ DOMAIN words = 1..n
  <2>1. e \in Seq(S \ {SP})
    BY SeqMonotone
  <2> QED
    BY <2>1, RequestWords
<1> HIDE DEF line
<1>3. PICK n \in Nat : n >= 2 /\ DOMAIN words = 1..n
  BY <1>2
<1>10. words # <<>>
  <2>1. 1 \in DOMAIN words /\ 1 \notin DOMAIN <<>>
    BY <1>3
  <2> HIDE DEF words
  <2> QED
    BY <2>1, Zenon
<1>4. Len(words) = n
  <2>1. words = [i \in 1..n |-> words[i]]
    BY <1>3 DEF Words
  <2> HIDE DEF words
  <2> QED
    BY <2>1
<1> HIDE DEF words
<1>5. first = 1
  <2> DEFINE I == {i \in 1..Len(words) : words[i] # <<>>}
  <2>1. first = IF I # {} THEN Min(I) ELSE 0
    BY DEF SelectInSeq
  <2>2. 1 \in I /\ I \in SUBSET Nat /\ \A i \in I : i >= 1
    <3>1. <<method>> # <<>>
      OBVIOUS
    <3> QED
      BY <1>2, <1>3, <1>4, <3>1
  <2> HIDE DEF I, first
  <2>3. Min(I) \in I /\ \A i \in I : Min(I) <= i
    BY <2>2, MinExists
  <2>4. Min(I) \in Nat /\ Min(I) <= 1 /\ Min(I) >= 1
    BY <2>2, <2>3
  <2>5. Min(I) = 1
    BY <2>4
  <2> QED
    BY <2>1, <2>2, <2>5
<1> HIDE DEF first
<1>6. Token(words, first) = <<method>> /\ target = TargetOf(e)
  <2>1. 1 \in DOMAIN words /\ 1 + 1 \in DOMAIN words /\ 1 + 1 = 2
    BY <1>3
  <2> QED
    BY <1>2, <1>5, <2>1 DEF Token
<1> HIDE DEF target
<1>7. /\ DOMAIN started = Fields /\ started.headers = <<>> /\ started.body = <<>>
      /\ started.firstLineParsed = TRUE /\ started.headersParsed = FALSE /\ started.null = FALSE
  BY DEF Unparsed, Fields
<1> HIDE DEF started
<1>8. ParseToken("request_t", Unparsed, line) = RequestLine(started, words)
  <2>1. ~Unparsed.firstLineParsed
    BY DEF Unparsed
  <2>2. ParseToken("request_t", Unparsed, line) = FirstLine("request_t", started, words)
    BY <1>1, <2>1, Zenon DEF ParseToken, started, words
  <2> QED
    BY <2>2 DEF FirstLine
<1>9. /\ RequestLine(started, words).line = <<Token(words, first), Cut(target, "?")>>
      /\ RequestLine(started, words).null \in BOOLEAN
      /\ started.null = FALSE /\ Find(target, "?") = 0 => RequestLine(started, words).null = FALSE
      /\ RequestLine(started, words).headers = started.headers
      /\ RequestLine(started, words).body = started.body
      /\ RequestLine(started, words).firstLineParsed = started.firstLineParsed
      /\ RequestLine(started, words).headersParsed = started.headersParsed
      /\ DOMAIN RequestLine(started, words) = Fields
  BY <1>7, <1>10, RequestLineIs DEF first, target
<1> DEFINE q == ParseToken("request_t", Unparsed, line)
<1> HIDE DEF q
<1>11. /\ Among(q, First(q), <<>>)
       /\ q.line = <<<<method>>, Cut(TargetOf(e), "?")>>
       /\ Find(TargetOf(e), "?") = 0 => q.null = FALSE
  BY <1>6, <1>7, <1>8, <1>9 DEF Among, q
<1> QED
  BY <1>11 DEF q, line, FirstOfRequest

-----------------------------------------------------------------------------
(* A text is another with a third behind it.                               *)
LEMMA CatIs ==
  ASSUME NEW S, NEW x \in Seq(S), NEW y \in Seq(S), NEW z \in Seq(S),
         Len(z) = Len(x) + Len(y),
         \A i \in 1..Len(z) : z[i] = IF i <= Len(x) THEN x[i] ELSE y[i - Len(x)]
  PROVE  z = Cat(x, y)
<1> DEFINE c == x \o y
<1>1. /\ c \in Seq(S) /\ Len(c) = Len(x) + Len(y)
      /\ \A i \in 1..(Len(x) + Len(y)) : c[i] = IF i <= Len(x) THEN x[i] ELSE y[i - Len(x)]
  BY ConcatProperties
<1> HIDE DEF c
<1>2. Len(c) = Len(z) /\ \A i \in 1..Len(c) : c[i] = z[i]
  BY <1>1
<1>3. c = z
  BY <1>1, <1>2, SeqEqual
<1> QED
  BY <1>3 DEF Cat, c

(* The texts a program writes between the others.                          *)
LEMMA ThreePieces ==
  ASSUME NEW a, NEW b, NEW c
  PROVE  <<a, b, c>> = Cat(<<a>>, <<b, c>>)
<1> DEFINE S == {a, b, c}
           z == <<a, b, c>>
           x == <<a>>
           y == <<b, c>>
<1>1. z \in Seq(S) /\ x \in Seq(S) /\ y \in Seq(S)
  OBVIOUS
<1>2. Len(z) = 3 /\ Len(x) = 1 /\ Len(y) = 2
  OBVIOUS
<1>3. z[1] = x[1] /\ z[2] = y[1] /\ z[3] = y[2]
  OBVIOUS
<1> HIDE DEF S, x, y, z
<1>4. Len(z) = Len(x) + Len(y)
  BY <1>2
<1>5. \A i \in 1..Len(z) : z[i] = IF i <= Len(x) THEN x[i] ELSE y[i - Len(x)]
  BY <1>2, <1>3
<1>6. z = Cat(x, y)
  BY <1>1, <1>4, <1>5, CatIs
<1> QED
  BY <1>6 DEF x, y, z

(* Four symbols are two and two.                                           *)
LEMMA FourPieces ==
  ASSUME NEW a, NEW b, NEW c, NEW d
  PROVE  <<a, b, c, d>> = Cat(<<a, b>>, <<c, d>>)
<1> DEFINE S == {a, b, c, d}
           z == <<a, b, c, d>>
           x == <<a, b>>
           y == <<c, d>>
<1>1. z \in Seq(S) /\ x \in Seq(S) /\ y \in Seq(S)
  OBVIOUS
<1>2. Len(z) = 4 /\ Len(x) = 2 /\ Len(y) = 2
  OBVIOUS
<1>3. z[1] = x[1] /\ z[2] = x[2] /\ z[3] = y[1] /\ z[4] = y[2]
  OBVIOUS
<1> HIDE DEF S, x, y, z
<1>4. Len(z) = Len(x) + Len(y)
  BY <1>2
<1>5. \A i \in 1..Len(z) : z[i] = IF i <= Len(x) THEN x[i] ELSE y[i - Len(x)]
  BY <1>2, <1>3
<1>6. z = Cat(x, y)
  BY <1>1, <1>4, <1>5, CatIs
<1> QED
  BY <1>6 DEF x, y, z

(* The header's line and the blank one in front of a request's body.       *)
LEMMA EightPieces ==
  ASSUME NEW a, NEW b, NEW c, NEW d, NEW e, NEW f, NEW g, NEW h
  PROVE  <<a, b, c, d, e, f, g, h>> = Cat(<<a, b, c, d>>, <<e, f, g, h>>)
<1> DEFINE S == {a, b, c, d, e, f, g, h}
           z == <<a, b, c, d, e, f, g, h>>
           x == <<a, b, c, d>>
           y == <<e, f, g, h>>
<1>1. z \in Seq(S) /\ x \in Seq(S) /\ y \in Seq(S)
  OBVIOUS
<1>2. Len(z) = 8 /\ Len(x) = 4 /\ Len(y) = 4
  OBVIOUS
<1>3. /\ z[1] = x[1] /\ z[2] = x[2] /\ z[3] = x[3] /\ z[4] = x[4]
      /\ z[5] = y[1] /\ z[6] = y[2] /\ z[7] = y[3] /\ z[8] = y[4]
  OBVIOUS
<1> HIDE DEF S, x, y, z
<1>4. Len(z) = Len(x) + Len(y)
  BY <1>2
<1>5. \A i \in 1..Len(z) : z[i] = IF i <= Len(x) THEN x[i] ELSE y[i - Len(x)]
  BY <1>2, <1>3
<1>6. z = Cat(x, y)
  BY <1>1, <1>4, <1>5, CatIs
<1> QED
  BY <1>6 DEF x, y, z

(* A blank line.                                                           *)
LEMMA BlankLine ==
  ASSUME NEW S, {CR, LF} \subseteq S, NEW v \in Seq(S)
  PROVE  /\ v \o <<CR, LF>> = Join(v, CR, <<LF>>)
         /\ v \o <<CR, LF>> \in Seq(S)
<1> DEFINE cr == <<CR>>
           lf == <<LF>>
<1>1. cr \in Seq(S) /\ lf \in Seq(S) /\ <<CR, LF>> \in Seq(S)
  OBVIOUS
<1>2. <<CR, LF>> = Cat(cr, lf)
  BY PairIs DEF Cat
<1> HIDE DEF cr, lf
<1>3. Cat(v, Cat(cr, lf)) = Cat(Cat(v, cr), lf)
  BY <1>1, CatAssociative
<1>4. Cat(v, <<CR, LF>>) \in Seq(S)
  BY <1>1, CatType
<1> QED
  BY <1>2, <1>3, <1>4, Zenon DEF Join, Cat, cr, lf

(* LineShape of the operator the provers do not look into.                 *)
LEMMA LineIs ==
  ASSUME NEW S, {CR, LF, SP, ":"} \subseteq S, NEW a \in Seq(S), NEW k \in Seq(S), NEW v \in Seq(S)
  PROVE  Cat(Cat(Cat(Cat(a, <<CR, LF>>), k), <<":", SP>>), v) = Join(a, CR, LineOf(k, v))
<1>1. a \o <<CR, LF>> \o k \o <<":", SP>> \o v = Join(a, CR, LineOf(k, v))
  BY LineShape
<1> QED
  BY <1>1, Zenon DEF Cat

(* A request begins with its first line and the line of the host.          *)
LEMMA RequestBegins ==
  ASSUME NEW S, {CR, LF, SP, ":", "HTTP/1.1", "Host"} \subseteq S, NEW method \in S,
         NEW e \in Seq(S), NEW host \in Seq(S)
  PROVE  <<method, SP>> \o e \o <<SP, "HTTP/1.1", CR, LF>> \o <<"Host", ":", SP>> \o host
           = Join(LineOfRequest(method, e), CR, LineOf(<<"Host">>, host))
<1> DEFINE m == <<method>>
           sp == <<SP>>
           h == <<"HTTP/1.1">>
           crlf == <<CR, LF>>
           k == <<"Host">>
           colon == <<":", SP>>
           L == LineOfRequest(method, e)
<1>1. /\ m \in Seq(S) /\ sp \in Seq(S) /\ h \in Seq(S) /\ crlf \in Seq(S) /\ k \in Seq(S)
      /\ colon \in Seq(S)
  OBVIOUS
<1>2. /\ <<method, SP>> = Cat(m, sp)
      /\ <<SP, "HTTP/1.1", CR, LF>> = Cat(Cat(sp, h), crlf)
      /\ <<"Host", ":", SP>> = Cat(k, colon)
  <2>1. <<method, SP>> = Cat(m, sp) /\ <<SP, "HTTP/1.1">> = Cat(sp, h)
    BY PairIs DEF Cat
  <2>2. <<SP, "HTTP/1.1", CR, LF>> = Cat(<<SP, "HTTP/1.1">>, crlf)
    BY FourPieces
  <2>3. <<"Host", ":", SP>> = Cat(k, colon)
    BY ThreePieces
  <2> QED
    BY <2>1, <2>2, <2>3, Zenon
<1>3. L = Cat(Cat(m, sp), Cat(Cat(e, sp), h))
  BY Zenon DEF LineOfRequest, Join, Cat
<1>4. Cat(Cat(Cat(Cat(L, crlf), k), colon), host) = Join(L, CR, LineOf(k, host))
  <2>1. e \in Seq(S)
    OBVIOUS
  <2>2. Cat(m, sp) \in Seq(S) /\ Cat(e, sp) \in Seq(S)
    BY <1>1, CatType
  <2>3. Cat(Cat(e, sp), h) \in Seq(S)
    BY <1>1, <2>2, CatType
  <2>4. L \in Seq(S)
    BY <1>3, <2>2, <2>3, CatType
  <2>5. {CR, LF, SP, ":"} \subseteq S /\ k \in Seq(S) /\ host \in Seq(S)
    BY <1>1
  <2> HIDE DEF L, k
  <2>6. Cat(Cat(Cat(Cat(L, <<CR, LF>>), k), <<":", SP>>), host) = Join(L, CR, LineOf(k, host))
    BY <2>4, <2>5, LineIs
  <2> QED
    BY <2>6, Zenon
<1> HIDE DEF m, sp, h, crlf, k, colon, L
<1>5. Cat(Cat(Cat(m, sp), e), Cat(Cat(sp, h), crlf)) = Cat(L, crlf)
  <2> DEFINE a == Cat(m, sp)
             x == Cat(a, e)
             y == Cat(sp, h)
  <2>1. a \in Seq(S) /\ y \in Seq(S) /\ Cat(e, sp) \in Seq(S)
    BY <1>1, CatType
  <2> HIDE DEF a
  <2>2. x \in Seq(S)
    BY <2>1, CatType
  <2>3. L = Cat(Cat(a, Cat(e, sp)), h)
    BY <1>1, <1>3, <2>1, CatAssociative DEF a
  <2>4. Cat(a, Cat(e, sp)) = Cat(x, sp)
    BY <1>1, <2>1, CatAssociative
  <2> HIDE DEF x
  <2>5. Cat(Cat(x, sp), h) = Cat(x, y)
    BY <1>1, <2>2, CatAssociative
  <2> HIDE DEF y
  <2>6. Cat(x, Cat(y, crlf)) = Cat(Cat(x, y), crlf)
    BY <1>1, <2>1, <2>2, CatAssociative
  <2> QED
    BY <2>3, <2>4, <2>5, <2>6, Zenon DEF a, x, y
<1>6. Cat(Cat(L, crlf), Cat(k, colon)) = Cat(Cat(Cat(L, crlf), k), colon)
  <2>1. L \in Seq(S)
    <3>1. Cat(m, sp) \in Seq(S) /\ Cat(e, sp) \in Seq(S)
      BY <1>1, CatType
    <3>2. Cat(Cat(e, sp), h) \in Seq(S)
      BY <1>1, <3>1, CatType
    <3> QED
      BY <1>3, <3>1, <3>2, CatType
  <2>2. Cat(L, crlf) \in Seq(S)
    BY <1>1, <2>1, CatType
  <2> QED
    BY <1>1, <2>2, CatAssociative
<1>7. Cat(Cat(Cat(Cat(Cat(m, sp), e), Cat(Cat(sp, h), crlf)), Cat(k, colon)), host)
        = Join(L, CR, LineOf(k, host))
  BY <1>4, <1>5, <1>6, Zenon
<1>8. Cat(Cat(Cat(Cat(<<method, SP>>, e), <<SP, "HTTP/1.1", CR, LF>>), <<"Host", ":", SP>>), host)
        = Join(L, CR, LineOf(k, host))
  BY <1>2, <1>7, Zenon
<1> QED
  BY <1>8, Zenon DEF Cat, L, k

(* It ends with the line of the body's length, a blank one and the body.   *)
Ended(v, length, body) ==
  (v \o <<CR, LF>>) \o (<<"Content-Length", ":", SP, length, CR, LF, CR, LF>> \o body)

(* The same as lines.                                                      *)
LEMMA RequestEnds ==
  ASSUME NEW S, {CR, LF, SP, ":", "Content-Length"} \subseteq S, NEW length \in S,
         NEW v \in Seq(S), NEW body \in Seq(S)
  PROVE  Ended(v, length, body)
           = Join(Join(Join(v, CR, LineOf(<<"Content-Length">>, <<length>>)), CR, <<LF>>),
                  CR, <<LF>> \o body)
<1> DEFINE k == <<"Content-Length">>
           n == <<length>>
           co == <<":">>
           sp == <<SP>>
           cr == <<CR>>
           lf == <<LF>>
           crlf == <<CR, LF>>
           colon == <<":", SP>>
           all == <<"Content-Length", ":", SP, length, CR, LF, CR, LF>>
           q == Cat(v, crlf)
           w == Join(v, CR, LineOf(k, n))
           u == Cat(w, crlf)
<1>1. /\ k \in Seq(S) /\ n \in Seq(S) /\ co \in Seq(S) /\ sp \in Seq(S) /\ cr \in Seq(S)
      /\ lf \in Seq(S) /\ crlf \in Seq(S) /\ colon \in Seq(S)
  OBVIOUS
<1>2. crlf = Cat(cr, lf) /\ colon = Cat(co, sp)
  BY PairIs DEF Cat
<1>3. all = Cat(Cat(Cat(k, co), Cat(sp, n)), Cat(crlf, crlf))
  <2>1. all = Cat(<<"Content-Length", ":", SP, length>>, <<CR, LF, CR, LF>>)
    BY EightPieces
  <2>2. <<"Content-Length", ":", SP, length>> = Cat(<<"Content-Length", ":">>, <<SP, length>>)
    BY FourPieces
  <2>3. <<CR, LF, CR, LF>> = Cat(crlf, crlf)
    BY FourPieces
  <2>4. <<"Content-Length", ":">> = Cat(k, co) /\ <<SP, length>> = Cat(sp, n)
    BY PairIs DEF Cat
  <2> QED
    BY <2>1, <2>2, <2>3, <2>4, Zenon
<1>4. w = Cat(Cat(Cat(q, k), colon), n)
  <2>1. {CR, LF, SP, ":"} \subseteq S /\ k \in Seq(S) /\ n \in Seq(S)
    BY <1>1
  <2> HIDE DEF k, n
  <2>2. Cat(Cat(Cat(Cat(v, <<CR, LF>>), k), <<":", SP>>), n) = Join(v, CR, LineOf(k, n))
    BY <2>1, LineIs
  <2> QED
    BY <2>2, Zenon
<1> HIDE DEF k, n, co, sp, cr, lf, crlf, colon, all, w
<1>5. q \in Seq(S) /\ Cat(k, co) \in Seq(S) /\ Cat(sp, n) \in Seq(S) /\ Cat(crlf, crlf) \in Seq(S)
  BY <1>1, CatType
<1> HIDE DEF q
<1>6. Cat(q, Cat(Cat(k, co), Cat(sp, n))) = w /\ w \in Seq(S) /\ Cat(Cat(k, co), Cat(sp, n)) \in Seq(S)
  <2> DEFINE x == Cat(q, k)
             y == Cat(x, co)
  <2>1. Cat(q, Cat(Cat(k, co), Cat(sp, n))) = Cat(Cat(q, Cat(k, co)), Cat(sp, n))
    BY <1>5, CatAssociative
  <2>2. Cat(q, Cat(k, co)) = y
    BY <1>1, <1>5, CatAssociative
  <2>3. x \in Seq(S)
    BY <1>1, <1>5, CatType
  <2> HIDE DEF x
  <2>4. y \in Seq(S)
    BY <1>1, <2>3, CatType
  <2>5. Cat(y, sp) = Cat(x, Cat(co, sp))
    BY <1>1, <2>3, CatAssociative
  <2> HIDE DEF y
  <2>6. Cat(y, Cat(sp, n)) = Cat(Cat(y, sp), n) /\ Cat(y, sp) \in Seq(S)
    BY <1>1, <2>4, CatAssociative, CatType
  <2>7. Cat(Cat(y, sp), n) = w
    BY <1>2, <1>4, <2>5, Zenon DEF x
  <2>8. w \in Seq(S)
    BY <1>1, <2>6, <2>7, CatType
  <2>9. Cat(Cat(k, co), Cat(sp, n)) \in Seq(S)
    BY <1>5, CatType
  <2> QED
    BY <2>1, <2>2, <2>6, <2>7, <2>8, <2>9, Zenon
<1>7. Cat(q, Cat(all, body)) = Cat(Cat(w, Cat(crlf, crlf)), body)
  <2>1. all \in Seq(S)
    BY <1>3, <1>5, <1>6, CatType
  <2>2. Cat(q, Cat(all, body)) = Cat(Cat(q, all), body)
    BY <1>5, <2>1, CatAssociative
  <2>3. Cat(q, all) = Cat(w, Cat(crlf, crlf))
    <3>1. Cat(q, Cat(Cat(Cat(k, co), Cat(sp, n)), Cat(crlf, crlf)))
            = Cat(Cat(q, Cat(Cat(k, co), Cat(sp, n))), Cat(crlf, crlf))
      BY <1>5, <1>6, CatAssociative
    <3> QED
      BY <1>3, <1>6, <3>1, Zenon
  <2> QED
    BY <2>2, <2>3, Zenon
<1>8. Cat(w, Cat(crlf, crlf)) = Cat(u, crlf) /\ u \in Seq(S) /\ u = Cat(Cat(w, cr), lf)
  <2>1. Cat(w, Cat(crlf, crlf)) = Cat(Cat(w, crlf), crlf)
    BY <1>1, <1>6, CatAssociative
  <2>2. Cat(w, Cat(cr, lf)) = Cat(Cat(w, cr), lf)
    BY <1>1, <1>6, CatAssociative
  <2>3. Cat(w, crlf) \in Seq(S)
    BY <1>1, <1>6, CatType
  <2> QED
    BY <1>2, <2>1, <2>2, <2>3, Zenon
<1> HIDE DEF u
<1>9. Cat(Cat(u, crlf), body) = Cat(Cat(u, cr), Cat(lf, body))
  <2>1. Cat(u, Cat(cr, lf)) = Cat(Cat(u, cr), lf)
    BY <1>1, <1>8, CatAssociative
  <2>2. Cat(u, cr) \in Seq(S)
    BY <1>1, <1>8, CatType
  <2>3. Cat(Cat(u, cr), Cat(lf, body)) = Cat(Cat(Cat(u, cr), lf), body)
    BY <1>1, <2>2, CatAssociative
  <2> QED
    BY <1>2, <2>1, <2>3, Zenon
<1>10. Cat(q, Cat(all, body)) = Cat(Cat(Cat(Cat(w, cr), lf), cr), Cat(lf, body))
  BY <1>7, <1>8, <1>9, Zenon
<1> QED
  BY <1>10, Zenon DEF Ended, Cat, Join, q, all, w, cr, lf, crlf, k, n

-----------------------------------------------------------------------------
(* What a request is written with.                                         *)
Letters(m) == Symbols \cup Methods \cup {"Host", "Content-Length", ToString(Len(m.body))}

(* Every text of a request is written with them.                           *)
LEMMA RequestTexts ==
  ASSUME NEW m, IsRequest(m)
  PROVE  /\ {"HTTP/1.1", ":", SP, CR, LF, "Host", "Content-Length", ToString(Len(m.body)), m.method} \subseteq Letters(m)
         /\ {m.endpoint, m.host, m.body} \subseteq Seq(Letters(m))
         /\ IsFiniteSet(DOMAIN m.headers)
         /\ \A k \in DOMAIN m.headers : k \in Seq(Letters(m)) /\ m.headers[k] \in Seq(Letters(m))
<1> DEFINE S == Letters(m)
<1>1. /\ Symbols \subseteq S /\ m.method \in S /\ {"HTTP/1.1", ":", SP, CR, LF} \subseteq S
      /\ {"Host", "Content-Length", ToString(Len(m.body))} \subseteq S
  BY TextsAreSymbols DEF Letters, IsRequest
<1> HIDE DEF S
<1>2. \A t \in Seq(STRING) : t \in Seq(S)
  <2>1. ASSUME NEW t \in Seq(Symbols) PROVE t \in Seq(S)
    BY <1>1, SeqMonotone
  <2> QED
    BY <2>1, TextsAreSymbols
<1>3. {m.endpoint, m.host, m.body} \subseteq Seq(S)
  BY <1>2 DEF IsRequest
<1>4. IsFiniteSet(DOMAIN m.headers)
  BY DEF IsRequest, IsMap
<1>5. \A k \in DOMAIN m.headers : k \in Seq(S) /\ m.headers[k] \in Seq(S)
  BY <1>2 DEF IsRequest, IsMap
<1>6. {"HTTP/1.1", ":", SP, CR, LF, "Host", "Content-Length", ToString(Len(m.body)), m.method} \subseteq S
  BY <1>1
<1> QED
  BY <1>3, <1>4, <1>5, <1>6 DEF S

(* What ends a request whose body is not empty.                            *)
LengthAndBody(body) ==
  <<"Content-Length", ":", SP, ToString(Len(body)), CR, LF, CR, LF>> \o body

(* Its first lines, its headers and its end.                               *)
LEMMA RequestShape ==
  ASSUME NEW m, IsRequest(m)
  PROVE  BuildRequest(m)
           = (Join(LineOfRequest(m.method, m.endpoint), CR, LineOf(<<"Host">>, m.host))
                \o <<CR, LF>> \o HeaderLines(m.headers))
               \o (IF m.body = <<>> THEN <<>> ELSE LengthAndBody(m.body))
<1> DEFINE S == Letters(m)
           b == Join(LineOfRequest(m.method, m.endpoint), CR, LineOf(<<"Host">>, m.host))
           c == <<m.method, SP>> \o m.endpoint \o <<SP, "HTTP/1.1", CR, LF>> \o <<"Host", ":", SP>> \o m.host
<1>1. /\ {CR, LF, SP, ":", "HTTP/1.1", "Host"} \subseteq S /\ m.method \in S
      /\ m.endpoint \in Seq(S) /\ m.host \in Seq(S)
  BY RequestTexts
<1> HIDE DEF S
<1>2. c = b
  BY <1>1, RequestBegins
<1>3. BuildRequest(m) = (c \o <<CR, LF>> \o HeaderLines(m.headers))
                          \o (IF m.body = <<>> THEN <<>> ELSE LengthAndBody(m.body))
  BY Zenon DEF BuildRequest, LengthAndBody
<1> QED
  BY <1>2, <1>3, Zenon

(* A request is of its letters.                                            *)
LEMMA RequestType ==
  ASSUME NEW m, IsRequest(m)
  PROVE  BuildRequest(m) \in Seq(Letters(m))
<1> DEFINE S == Letters(m)
           b == Join(LineOfRequest(m.method, m.endpoint), CR, LineOf(<<"Host">>, m.host))
           rest == IF m.body = <<>> THEN <<>> ELSE LengthAndBody(m.body)
           lines == HeaderLines(m.headers)
<1>1. /\ {CR, LF, SP, ":", "HTTP/1.1", "Host", "Content-Length", ToString(Len(m.body)), m.method} \subseteq S
      /\ m.endpoint \in Seq(S) /\ m.host \in Seq(S) /\ m.body \in Seq(S)
      /\ IsFiniteSet(DOMAIN m.headers)
      /\ \A k \in DOMAIN m.headers : k \in Seq(S) /\ m.headers[k] \in Seq(S)
  BY RequestTexts
<1> HIDE DEF S
<1>2. lines \in Seq(S)
  <2>1. {":", SP, CR, LF} \subseteq S
    BY <1>1
  <2> QED
    BY <1>1, <2>1, HeaderLinesType
<1>3. b \in Seq(S)
  <2>1. <<m.method>> \in Seq(S) /\ <<"HTTP/1.1">> \in Seq(S) /\ <<LF>> \in Seq(S)
        /\ <<"Host">> \in Seq(S) /\ <<SP>> \in Seq(S) /\ CR \in S /\ SP \in S /\ ":" \in S
    BY <1>1
  <2>2. Join(m.endpoint, SP, <<"HTTP/1.1">>) \in Seq(S)
    BY <1>1, <2>1, JoinType
  <2>3. LineOfRequest(m.method, m.endpoint) \in Seq(S)
    BY <2>1, <2>2, JoinType DEF LineOfRequest
  <2>4. <<LF>> \o <<"Host">> \in Seq(S) /\ <<SP>> \o m.host \in Seq(S)
    BY <1>1, <2>1, ConcatProperties
  <2>5. LineOf(<<"Host">>, m.host) \in Seq(S)
    BY <2>1, <2>4, JoinType DEF LineOf
  <2> QED
    BY <2>1, <2>3, <2>5, JoinType
<1>4. rest \in Seq(S)
  <2>1. <<"Content-Length", ":", SP, ToString(Len(m.body)), CR, LF, CR, LF>> \in Seq(S) /\ <<>> \in Seq(S)
    BY <1>1
  <2>2. LengthAndBody(m.body) \in Seq(S)
    BY <1>1, <2>1, ConcatProperties DEF LengthAndBody
  <2> QED
    BY <2>1, <2>2
<1>5. <<CR, LF>> \in Seq(S)
  BY <1>1
<1>6. BuildRequest(m) = Cat(Cat(Cat(b, <<CR, LF>>), lines), rest)
  <2>1. BuildRequest(m) = (b \o <<CR, LF>> \o lines) \o rest
    BY RequestShape, Zenon
  <2> QED
    BY <2>1, Zenon DEF Cat
<1> HIDE DEF b, lines, rest
<1>7. Cat(b, <<CR, LF>>) \in Seq(S)
  BY <1>3, <1>5, CatType
<1>8. Cat(Cat(b, <<CR, LF>>), lines) \in Seq(S)
  BY <1>2, <1>7, CatType
<1>9. Cat(Cat(Cat(b, <<CR, LF>>), lines), rest) \in Seq(S)
  BY <1>4, <1>8, CatType
<1> QED
  BY <1>6, <1>9 DEF S

(* A plain message, by the symbols of its texts.                           *)
IsPlain(m, S) ==
  /\ m.endpoint # <<>> /\ m.endpoint \in Seq(S \ {CR, LF, SP, NUL, "?"})
  /\ m.host \in Seq(S \ {CR, NUL, ":"})
  /\ \A k \in DOMAIN m.headers :
       k \in Seq(S \ {CR, NUL, ":"}) /\ (k # <<"Host">> => m.headers[k] \in Seq(S \ {CR, NUL, ":"}))
  /\ m.body \in Seq(S \ {CR, NUL})

(* A plain text lacks three symbols.                                       *)
LEMMA PlainTextIs ==
  ASSUME NEW S, NEW v \in Seq(S)
  PROVE  /\ PlainText(v) <=> v \in Seq(S \ {CR, NUL, ":"})
         /\ OneLineText(v) <=> v \in Seq(S \ {CR, NUL})
<1>1. OneLineText(v) <=> v \in Seq(S \ {CR, NUL})
  BY LacksNone DEF OneLineText
<1>2. Find(v, ":") = 0 <=> v \in Seq(S \ {":"})
  BY FindNone
<1>3. v \in Seq(S \ {CR, NUL}) /\ v \in Seq(S \ {":"}) => v \in Seq(S \ {CR, NUL, ":"})
  <2>1. S \ {CR, NUL, ":"} = (S \ {CR, NUL}) \cap (S \ {":"})
    OBVIOUS
  <2> QED
    BY <2>1, SeqBoth
<1>4. v \in Seq(S \ {CR, NUL, ":"}) => v \in Seq(S \ {CR, NUL}) /\ v \in Seq(S \ {":"})
  <2>1. S \ {CR, NUL, ":"} \subseteq S \ {CR, NUL} /\ S \ {CR, NUL, ":"} \subseteq S \ {":"}
    OBVIOUS
  <2> QED
    BY <2>1, SeqMonotone
<1> QED
  BY <1>1, <1>2, <1>3, <1>4 DEF PlainText

(* A plain message is one of texts that lack those symbols.                *)
LEMMA PlainIs ==
  ASSUME NEW m, IsRequest(m)
  PROVE  PlainMessage(m) <=> IsPlain(m, Letters(m))
<1> DEFINE S == Letters(m)
<1>1. /\ m.endpoint \in Seq(S) /\ m.host \in Seq(S) /\ m.body \in Seq(S)
      /\ \A k \in DOMAIN m.headers : k \in Seq(S) /\ m.headers[k] \in Seq(S)
  BY RequestTexts
<1> HIDE DEF S
<1>2. Lacks(m.endpoint, {CR, LF, SP, NUL, "?"}) <=> m.endpoint \in Seq(S \ {CR, LF, SP, NUL, "?"})
  BY <1>1, LacksNone
<1>3. \A v \in Seq(S) : (PlainText(v) <=> v \in Seq(S \ {CR, NUL, ":"})) /\ (OneLineText(v) <=> v \in Seq(S \ {CR, NUL}))
  BY PlainTextIs
<1> QED
  BY <1>1, <1>2, <1>3 DEF PlainMessage, IsPlain, S

-----------------------------------------------------------------------------
(* The method and the numbers are no separators.                           *)
LEMMA MethodIsWord ==
  ASSUME NEW method \in Methods
  PROVE  method \notin {SP, LF, CR, NUL} /\ MethodOf(<<method>>) = method
<1>1. method \notin {SP, LF, CR, NUL}
  BY DEF Methods, SP, LF, CR, NUL
<1>2. MethodOf(<<method>>) = method
  <2>1. CASE method = "POST"
    BY <2>1 DEF MethodOf
  <2>2. CASE method = "GET"
    <3>1. <<"GET">> # <<"POST">>
      OBVIOUS
    <3> QED
      BY <2>2, <3>1 DEF MethodOf
  <2> QED
    BY <2>1, <2>2 DEF Methods
<1> QED
  BY <1>1, <1>2

(* The parser behind the line of the host.                                 *)
LEMMA HostIsParsed ==
  ASSUME NEW S, {CR, LF, SP, ":", "HTTP/1.1", "Host"} \subseteq S,
         NEW method \in S \ {CR, NUL, SP, LF},
         NEW e \in Seq(S \ {SP, CR, NUL}), NEW host \in Seq(S \ {CR, NUL})
  PROVE  LET b == Join(LineOfRequest(method, e), CR, LineOf(<<"Host">>, host))
         IN /\ b \in Seq(S \ {NUL})
            /\ Among(Parse("request_t", b), FirstOfRequest(method, e),
                     Emplace(<<>>, <<"Host">>, WithoutSpace(FirstPart(host))))
<1> DEFINE line == LineOfRequest(method, e)
           host_line == LineOf(<<"Host">>, host)
           L == FirstOfRequest(method, e)
<1>1. line \in Seq(S \ {CR, NUL}) /\ line # <<>>
  <2>1. e \in Seq(S \ {CR, NUL})
    BY SeqMonotone
  <2>2. SP \in S /\ method \in S \ {CR, NUL} /\ "HTTP/1.1" \in S
    OBVIOUS
  <2> QED
    BY <2>1, <2>2, RequestLineType
<1>2. Among(ParseToken("request_t", Unparsed, line), L, <<>>)
  <2>1. SP \in S /\ "HTTP/1.1" \in S
    OBVIOUS
  <2> QED
    BY <2>1, RequestLineParsed
<1>3. <<"Host">> \in Seq(S \ {CR, NUL, ":"}) /\ <<"Host">> \in Seq(S \ {CR, NUL})
  <2>1. "Host" \notin {CR, NUL, ":"}
    BY DEF CR, NUL
  <2> QED
    BY <2>1
<1>4. host_line \in Seq(S \ {CR, NUL}) /\ host_line # <<>>
  <2>1. {CR, LF, SP, ":"} \subseteq S
    OBVIOUS
  <2> QED
    BY <1>3, <2>1, LineType
<1> HIDE DEF line, host_line, L
<1>5. Among(Parse("request_t", line), L, <<>>)
  BY <1>1, <1>2, ParseOne
<1>6. /\ Join(line, CR, host_line) \in Seq(S \ {NUL})
      /\ Parse("request_t", Join(line, CR, host_line)) = ParseToken("request_t", Parse("request_t", line), host_line)
  <2>1. line \in Seq(S \ {NUL}) /\ CR \in S
    BY <1>1, SeqMonotone
  <2> QED
    BY <1>4, <2>1, ParseAppend
<1>7. Among(ParseToken("request_t", Parse("request_t", line), host_line), L,
            Emplace(<<>>, <<"Host">>, HeaderValue("request_t", FirstPart(host))))
  <2>1. {CR, LF, SP, ":"} \subseteq S
    OBVIOUS
  <2> QED
    BY <1>3, <1>5, <2>1, OneHeader DEF host_line
<1>8. HeaderValue("request_t", FirstPart(host)) = WithoutSpace(FirstPart(host))
  BY DEF HeaderValue
<1> QED
  BY <1>6, <1>7, <1>8 DEF line, host_line, L

(* A parser behind the blank line.                                         *)
Behind(parsed, line, headers, body) ==
  /\ DOMAIN parsed = Fields
  /\ First(parsed) = line
  /\ parsed.headers = headers
  /\ parsed.body = body
  /\ parsed.firstLineParsed = TRUE
  /\ parsed.headersParsed = TRUE

(* The blank line brings it there.                                         *)
LEMMA BlankIsParsed ==
  ASSUME NEW type, NEW S, {CR, LF} \subseteq S, NEW v \in Seq(S \ {NUL}), NEW line, NEW headers,
         Among(Parse(type, v), line, headers)
  PROVE  /\ v \o <<CR, LF>> \in Seq(S \ {NUL})
         /\ Behind(Parse(type, v \o <<CR, LF>>), line, headers, <<>>)
<1>1. <<LF>> \in Seq(S \ {CR, NUL}) /\ <<LF>> # <<>> /\ CR \in S
  BY Separate
<1>2. Join(v, CR, <<LF>>) \in Seq(S \ {NUL})
      /\ Parse(type, Join(v, CR, <<LF>>)) = ParseToken(type, Parse(type, v), <<LF>>)
  <2> DEFINE x == <<LF>>
  <2>1. x \in Seq(S \ {CR, NUL}) /\ x # <<>> /\ CR \in S
    BY <1>1
  <2> HIDE DEF x
  <2>2. Join(v, CR, x) \in Seq(S \ {NUL})
        /\ Parse(type, Join(v, CR, x)) = ParseToken(type, Parse(type, v), x)
    BY <2>1, ParseAppend, ZenonT(40)
  <2> QED
    BY <2>2 DEF x
<1>3. v \o <<CR, LF>> = Join(v, CR, <<LF>>)
  <2>1. v \in Seq(S)
    BY SeqMonotone
  <2> QED
    BY <2>1, BlankLine
<1> DEFINE q == Parse(type, v)
<1>4. ParseToken(type, q, <<LF>>) = [q EXCEPT !.headersParsed = TRUE]
  BY DEF ParseToken
<1>5. Among(q, line, headers)
  OBVIOUS
<1> HIDE DEF q
<1>6. Behind([q EXCEPT !.headersParsed = TRUE], line, headers, <<>>)
  BY <1>5 DEF Among, Behind, Fields, First
<1> QED
  BY <1>2, <1>3, <1>4, <1>6 DEF q

(* A symbol and a text that is not empty are more than a symbol.           *)
LEMMA MoreThanOne ==
  ASSUME NEW S, NEW c \in S, NEW x \in Seq(S), x # <<>>
  PROVE  <<c>> \o x # <<>> /\ <<c>> \o x # <<c>>
<1> DEFINE j == <<c>> \o x
           n == Len(j)
<1>1. <<c>> \in Seq(S) /\ Len(<<c>>) = 1 /\ Len(x) \in Nat /\ Len(x) >= 1
  BY EmptySeq
<1>2. Len(j) = Len(<<c>>) + Len(x)
  BY <1>1, ConcatProperties
<1> HIDE DEF j
<1>3. n \in Nat /\ n >= 2
  BY <1>1, <1>2
<1>4. Len(<<>>) = 0 /\ Len(<<c>>) = 1
  OBVIOUS
<1> HIDE DEF n
<1>5. n # 0 /\ n # 1
  BY <1>3
<1>6. j # <<>> /\ j # <<c>>
  BY <1>4, <1>5, Zenon DEF n
<1> QED
  BY <1>6 DEF j

(* The parser behind a line of the body.                                   *)
LEMMA BodyIsParsed ==
  ASSUME NEW type, NEW S, {CR, LF} \subseteq S, NEW v \in Seq(S \ {NUL}), NEW line, NEW headers,
         NEW before, Behind(Parse(type, v), line, headers, before),
         NEW body \in Seq(S \ {CR, NUL}), body # <<>>
  PROVE  /\ Join(v, CR, <<LF>> \o body) \in Seq(S \ {NUL})
         /\ Behind(Parse(type, Join(v, CR, <<LF>> \o body)), line, headers, before \o body)
<1> DEFINE x == <<LF>> \o body
           q == Parse(type, v)
           b == before \o body
<1>1. <<LF>> \in Seq(S \ {CR, NUL}) /\ LF \in S \ {CR, NUL} /\ CR \in S
  BY Separate
<1>2. x \in Seq(S \ {CR, NUL}) /\ x # <<>> /\ x # <<LF>>
  <2>1. x \in Seq(S \ {CR, NUL})
    BY <1>1, ConcatProperties
  <2>2. body \in Seq(S \ {CR, NUL}) /\ LF \in S \ {CR, NUL}
    BY <1>1
  <2>3. <<LF>> \o body # <<>> /\ <<LF>> \o body # <<LF>>
    BY <2>2, MoreThanOne
  <2> QED
    BY <2>1, <2>3
<1>3. RemoveFirst(x, LF) = body
  BY <1>1, RemoveHead
<1> HIDE DEF x
<1>4. /\ Join(v, CR, x) \in Seq(S \ {NUL})
      /\ Parse(type, Join(v, CR, x)) = ParseToken(type, q, x)
  BY <1>1, <1>2, ParseAppend
<1>5. Behind(q, line, headers, before)
  OBVIOUS
<1> HIDE DEF q
<1>6. ParseToken(type, q, x) = [q EXCEPT !.body = b]
  <2>1. q.firstLineParsed /\ q.headersParsed /\ q.body = before
    BY <1>5 DEF Behind
  <2>2. ParseToken(type, q, x) = [q EXCEPT !.body = @ \o RemoveFirst(x, LF)]
    BY <1>2, <2>1 DEF ParseToken
  <2>3. [q EXCEPT !.body = @ \o RemoveFirst(x, LF)] = [q EXCEPT !.body = b]
    BY <1>3, <2>1
  <2> QED
    BY <2>2, <2>3
<1> HIDE DEF b
<1>7. Behind([q EXCEPT !.body = b], line, headers, b)
  BY <1>5 DEF Behind, Fields, First
<1> QED
  BY <1>4, <1>6, <1>7 DEF x, b

-----------------------------------------------------------------------------
(* The parser behind all headers of a request.                             *)
LEMMA HeadersAreParsed ==
  ASSUME NEW m, IsRequest(m), NEW S, S = Letters(m), ToString(Len(m.body)) \notin {CR, NUL, ":"},
         m.endpoint \in Seq(S \ {SP, CR, NUL}), m.host \in Seq(S \ {CR, NUL}),
         \A k \in DOMAIN m.headers : k \in Seq(S \ {CR, NUL, ":"}) /\ m.headers[k] \in Seq(S \ {CR, NUL})
  PROVE  LET line == FirstOfRequest(m.method, m.endpoint)
             base == Emplace(<<>>, <<"Host">>, WithoutSpace(FirstPart(m.host)))
         IN \E v \in Seq(S \ {NUL}) :
              /\ BuildRequest(m) = (v \o <<CR, LF>>)
                                     \o (IF m.body = <<>> THEN <<>> ELSE LengthAndBody(m.body))
              /\ Among(Parse("request_t", v), line,
                       Merged("request_t", base, m.headers, DOMAIN m.headers))
<1> DEFINE line == FirstOfRequest(m.method, m.endpoint)
           base == Emplace(<<>>, <<"Host">>, WithoutSpace(FirstPart(m.host)))
           b == Join(LineOfRequest(m.method, m.endpoint), CR, LineOf(<<"Host">>, m.host))
           rest == IF m.body = <<>> THEN <<>> ELSE LengthAndBody(m.body)
           all == Merged("request_t", base, m.headers, DOMAIN m.headers)
<1>1. /\ {CR, LF, SP, ":", "HTTP/1.1", "Host", m.method} \subseteq S
      /\ IsFiniteSet(DOMAIN m.headers)
  BY RequestTexts
<1>2. m.method \in S \ {CR, NUL, SP, LF}
  BY <1>1, MethodIsWord DEF IsRequest
<1>3. b \in Seq(S \ {NUL}) /\ Among(Parse("request_t", b), line, base)
  <2>1. {CR, LF, SP, ":", "HTTP/1.1", "Host"} \subseteq S
    BY <1>1
  <2> QED
    BY <1>2, <2>1, HostIsParsed
<1>4. BuildRequest(m) = (b \o <<CR, LF>> \o HeaderLines(m.headers)) \o rest
  BY RequestShape
<1>5. base = [k \in DOMAIN base |-> base[k]]
  BY DEF Emplace
<1> HIDE DEF line, base, b, rest
<1>6. Reached("request_t", S, b, line, all, HeaderLines(m.headers))
  <2>1. {CR, LF, SP, ":"} \subseteq S
    BY <1>1
  <2> DEFINE h == m.headers
  <2>2. IsFiniteSet(DOMAIN h) /\ \A k \in DOMAIN h : k \in Seq(S \ {CR, NUL, ":"}) /\ h[k] \in Seq(S \ {CR, NUL})
    BY <1>1
  <2> HIDE DEF h
  <2>3. Reached("request_t", S, b, line, Merged("request_t", base, h, DOMAIN h), HeaderLines(h))
    BY <1>3, <1>5, <2>1, <2>2, ReachedAll
  <2> QED
    BY <2>3 DEF h
<1> HIDE DEF all
<1>7. PICK v \in Seq(S \ {NUL}) : /\ b \o <<CR, LF>> \o HeaderLines(m.headers) = v \o <<CR, LF>>
                                  /\ Among(Parse("request_t", v), line, all)
  BY <1>6 DEF Reached
<1>8. BuildRequest(m) = (v \o <<CR, LF>>) \o rest
  BY <1>4, <1>7, Zenon
<1> QED
  BY <1>7, <1>8 DEF line, base, rest, all

(* Behind the headers come nothing or the length, a blank line and the     *)
(* body.                                                                   *)
LEMMA EndIsParsed ==
  ASSUME NEW S, {CR, LF, SP, ":", "Content-Length"} \subseteq S,
         NEW length \in S \ {CR, NUL, ":"}, NEW v \in Seq(S \ {NUL}), NEW line, NEW headers,
         Among(Parse("request_t", v), line, headers),
         NEW body \in Seq(S \ {CR, NUL}), body # <<>>
  PROVE  Behind(Parse("request_t", Ended(v, length, body)), line,
                Emplace(headers, <<"Content-Length">>, <<length>>), body)
<1> DEFINE k == <<"Content-Length">>
           n == <<length>>
           w == Join(v, CR, LineOf(k, n))
           u == Join(w, CR, <<LF>>)
<1>1. k \in Seq(S \ {CR, NUL, ":"}) /\ k \in Seq(S \ {CR, NUL})
  <2>1. "Content-Length" \notin {CR, NUL, ":"}
    BY DEF CR, NUL
  <2> QED
    BY <2>1
<1>2. n \in Seq(S \ {CR, NUL}) /\ n \in Seq(S \ {":"}) /\ n \in Seq(S)
  OBVIOUS
<1> HIDE DEF k, n
<1>3. WithoutSpace(FirstPart(n)) = n
  <2>1. SP \in S
    OBVIOUS
  <2> QED
    BY <1>2, <2>1, FirstPartIs
<1>4. w \in Seq(S \ {NUL}) /\ Among(Parse("request_t", w), line, Emplace(headers, k, n))
  <2>1. {CR, LF, SP, ":"} \subseteq S /\ CR \in S
    OBVIOUS
  <2>2. LineOf(k, n) \in Seq(S \ {CR, NUL}) /\ LineOf(k, n) # <<>>
    BY <1>1, <1>2, <2>1, LineType
  <2>3. w \in Seq(S \ {NUL}) /\ Parse("request_t", w) = ParseToken("request_t", Parse("request_t", v), LineOf(k, n))
    BY <2>1, <2>2, ParseAppend
  <2>4. Among(ParseToken("request_t", Parse("request_t", v), LineOf(k, n)), line,
              Emplace(headers, k, HeaderValue("request_t", FirstPart(n))))
    BY <1>1, <1>2, <2>1, OneHeader
  <2>5. HeaderValue("request_t", FirstPart(n)) = n
    BY <1>3 DEF HeaderValue
  <2> QED
    BY <2>3, <2>4, <2>5
<1> HIDE DEF w
<1>5. u \in Seq(S \ {NUL}) /\ Behind(Parse("request_t", u), line, Emplace(headers, k, n), <<>>)
  <2>1. {CR, LF} \subseteq S
    OBVIOUS
  <2>2. w \o <<CR, LF>> = u
    <3>1. w \in Seq(S)
      BY <1>4, SeqMonotone
    <3> QED
      BY <2>1, <3>1, BlankLine
  <2> HIDE DEF u
  <2>3. /\ w \o <<CR, LF>> \in Seq(S \ {NUL})
        /\ Behind(Parse("request_t", w \o <<CR, LF>>), line, Emplace(headers, k, n), <<>>)
    BY <1>4, <2>1, BlankIsParsed
  <2> QED
    BY <2>2, <2>3
<1> HIDE DEF u
<1> DEFINE z == Join(u, CR, <<LF>> \o body)
<1>6. Behind(Parse("request_t", z), line, Emplace(headers, k, n), <<>> \o body)
  <2>1. {CR, LF} \subseteq S
    OBVIOUS
  <2> QED
    BY <1>5, <2>1, BodyIsParsed
<1>7. <<>> \o body = body
  BY ConcatEmptySeq
<1>8. Ended(v, length, body) = z
  <2>1. v \in Seq(S) /\ body \in Seq(S)
    BY SeqMonotone
  <2>2. {CR, LF, SP, ":", "Content-Length"} \subseteq S /\ length \in S
    OBVIOUS
  <2>3. Ended(v, length, body)
          = Join(Join(Join(v, CR, LineOf(<<"Content-Length">>, <<length>>)), CR, <<LF>>),
                 CR, <<LF>> \o body)
    BY <2>1, <2>2, RequestEnds
  <2> QED
    BY <2>3, Zenon DEF z, u, w, k, n
<1> HIDE DEF z
<1> QED
  BY <1>6, <1>7, <1>8 DEF k, n

-----------------------------------------------------------------------------
(* The headers of a request as its message has them.                       *)
HeadersOf(m) ==
  LET length == IF m.body = <<>> THEN {} ELSE {<<"Content-Length">>}
  IN [k \in DOMAIN m.headers \cup {<<"Host">>} \cup length |->
        CASE k = <<"Host">> -> m.host
          [] k # <<"Host">> /\ k \in DOMAIN m.headers -> m.headers[k]
          [] k # <<"Host">> /\ k \notin DOMAIN m.headers -> <<ToString(Len(m.body))>>]

(* A plain message's headers are read as they are.                         *)
LEMMA HeadersAreThose ==
  ASSUME NEW m, NEW S, SP \in S,
         m.host \in Seq(S \ {":"}),
         \A k \in DOMAIN m.headers : k # <<"Host">> => m.headers[k] \in Seq(S \ {":"})
  PROVE  LET base == Emplace(<<>>, <<"Host">>, WithoutSpace(FirstPart(m.host)))
             all == Merged("request_t", base, m.headers, DOMAIN m.headers)
         IN HeadersOf(m) = IF m.body = <<>> THEN all
                           ELSE Emplace(all, <<"Content-Length">>, <<ToString(Len(m.body))>>)
<1> DEFINE host == <<"Host">>
           length == <<"Content-Length">>
           h == m.headers
           base == Emplace(<<>>, host, WithoutSpace(FirstPart(m.host)))
           all == Merged("request_t", base, h, DOMAIN h)
           n == <<ToString(Len(m.body))>>
<1>1. host # length
  OBVIOUS
<1> HIDE DEF host, length, n
<1>2. \A v \in Seq(S \ {":"}) : WithoutSpace(FirstPart(v)) = v
  <2>1. ASSUME NEW v \in Seq(S \ {":"}) PROVE WithoutSpace(FirstPart(v)) = v
    <3>1. v \in Seq(S)
      BY SeqMonotone
    <3> QED
      BY <3>1, FirstPartIs
  <2> QED
    BY <2>1
<1>3. base = [k \in {host} |-> m.host]
  <2>1. WithoutSpace(FirstPart(m.host)) = m.host
    BY <1>2
  <2>2. DOMAIN <<>> = {}
    OBVIOUS
  <2> QED
    BY <2>1, <2>2 DEF Emplace
<1> HIDE DEF base
<1>4. DOMAIN base = {host} /\ base[host] = m.host
  BY <1>3
<1>5. all = [k \in {host} \cup DOMAIN h |-> IF k = host THEN m.host ELSE h[k]]
  <2>1. all = [k \in {host} \cup DOMAIN h |->
                 IF k \in {host} THEN base[k] ELSE HeaderValue("request_t", FirstPart(h[k]))]
    BY <1>4 DEF Merged
  <2>2. ASSUME NEW k \in {host} \cup DOMAIN h
        PROVE (IF k \in {host} THEN base[k] ELSE HeaderValue("request_t", FirstPart(h[k])))
                = (IF k = host THEN m.host ELSE h[k])
    <3>1. CASE k = host
      BY <1>4, <3>1
    <3>2. CASE k # host
      <4>1. k \in DOMAIN h /\ k # <<"Host">>
        BY <3>2 DEF host
      <4>2. WithoutSpace(FirstPart(h[k])) = h[k]
        BY <1>2, <4>1
      <4>3. HeaderValue("request_t", FirstPart(h[k])) = h[k]
        BY <4>2 DEF HeaderValue
      <4> QED
        BY <3>2, <4>3
    <3> QED
      BY <3>1, <3>2
  <2> QED
    BY <2>1, <2>2
<1> HIDE DEF all, h
<1>6. CASE m.body = <<>>
  <2>1. HeadersOf(m) = [k \in DOMAIN h \cup {host} \cup {} |->
                          CASE k = host -> m.host
                            [] k # host /\ k \in DOMAIN h -> h[k]
                            [] k # host /\ k \notin DOMAIN h -> n]
    BY <1>6 DEF HeadersOf, host, n, h
  <2>2. HeadersOf(m) = all
    BY <1>5, <2>1
  <2> QED
    BY <1>6, <2>2 DEF all, base, host, h
<1>7. CASE m.body # <<>>
  <2>1. HeadersOf(m) = [k \in DOMAIN h \cup {host} \cup {length} |->
                          CASE k = host -> m.host
                            [] k # host /\ k \in DOMAIN h -> h[k]
                            [] k # host /\ k \notin DOMAIN h -> n]
    BY <1>7 DEF HeadersOf, host, n, h, length
  <2>2. Emplace(all, length, n) = [k \in ({host} \cup DOMAIN h) \cup {length} |->
                                     IF k \in {host} \cup DOMAIN h THEN all[k] ELSE n]
    BY <1>5 DEF Emplace
  <2>3. HeadersOf(m) = Emplace(all, length, n)
    BY <1>5, <2>1, <2>2
  <2> QED
    BY <1>7, <2>3 DEF all, base, host, h, length, n
<1> QED
  BY <1>6, <1>7

(* A plain message is read as it is.                                       *)
LEMMA PlainIsRead ==
  ASSUME NEW m, IsRequest(m), NEW S, S = Letters(m), ToString(Len(m.body)) \notin {CR, NUL, ":"},
         IsPlain(m, S),
         <<"Host">> \in DOMAIN m.headers => m.headers[<<"Host">>] \in Seq(S \ {CR, NUL})
  PROVE  LET p == Parse("request_t", BuildRequest(m))
         IN /\ p.line = <<<<m.method>>, m.endpoint>> /\ p.null = FALSE
            /\ p.headers = HeadersOf(m) /\ p.body = m.body
<1> DEFINE h == m.headers
           base == Emplace(<<>>, <<"Host">>, WithoutSpace(FirstPart(m.host)))
           all == Merged("request_t", base, h, DOMAIN h)
           line == FirstOfRequest(m.method, m.endpoint)
           length == ToString(Len(m.body))
<1>1. {CR, LF, SP, ":", "Content-Length", length} \subseteq S
  BY RequestTexts
<1>2. /\ m.endpoint \in Seq(S \ {SP, CR, NUL}) /\ m.endpoint \in Seq(S \ {LF})
      /\ m.endpoint \in Seq(S \ {"?"}) /\ m.endpoint \in Seq(S)
  <2>1. m.endpoint \in Seq(S \ {CR, LF, SP, NUL, "?"})
    BY DEF IsPlain
  <2>2. /\ S \ {CR, LF, SP, NUL, "?"} \subseteq S \ {SP, CR, NUL}
        /\ S \ {CR, LF, SP, NUL, "?"} \subseteq S \ {LF}
        /\ S \ {CR, LF, SP, NUL, "?"} \subseteq S \ {"?"}
        /\ S \ {CR, LF, SP, NUL, "?"} \subseteq S
    OBVIOUS
  <2> QED
    BY <2>1, <2>2, SeqMonotone
<1>3. line = <<<<<<m.method>>, m.endpoint>>, FALSE>>
  <2>1. TargetOf(m.endpoint) = m.endpoint
    <3>1. m.endpoint # <<>>
      BY DEF IsPlain
    <3>2. RemoveFirst(m.endpoint, LF) = m.endpoint
      BY <1>2, RemoveFirstType
    <3> QED
      BY <3>1, <3>2 DEF TargetOf
  <2>2. Cut(m.endpoint, "?") = m.endpoint
    BY <1>2, CutType
  <2>3. Find(m.endpoint, "?") = 0
    <3> DEFINE e == m.endpoint
    <3>1. Find(e, "?") \in 0..Len(e) /\ (Find(e, "?") # 0 => e[Find(e, "?")] = "?")
      BY <1>2, FindProperties
    <3>2. Len(e) \in Nat /\ \A i \in 1..Len(e) : e[i] # "?"
      BY <1>2
    <3> QED
      BY <3>1, <3>2
  <2>4. SP \in S /\ "HTTP/1.1" \in S /\ m.method \in S \ {CR, NUL, SP, LF}
    BY RequestTexts, MethodIsWord DEF IsRequest
  <2> DEFINE q == ParseToken("request_t", Unparsed, LineOfRequest(m.method, m.endpoint))
  <2>5. q.line = <<<<m.method>>, Cut(TargetOf(m.endpoint), "?")>> /\ q.null = FALSE
    <3> DEFINE method == m.method
               e == m.endpoint
    <3>1. method \in S \ {CR, NUL, SP, LF} /\ e \in Seq(S \ {SP, CR, NUL}) /\ Find(TargetOf(e), "?") = 0
      BY <1>2, <2>1, <2>3, <2>4
    <3> HIDE DEF method, e, h, base, all, line, length
    <3>2. LET r == ParseToken("request_t", Unparsed, LineOfRequest(method, e))
          IN /\ r.line = <<<<method>>, Cut(TargetOf(e), "?")>>
             /\ Find(TargetOf(e), "?") = 0 => r.null = FALSE
      BY <2>4, <3>1, RequestLineParsed
    <3> QED
      BY <3>1, <3>2, Zenon DEF method, e
  <2>6. line = First(q)
    BY DEF FirstOfRequest
  <2> HIDE DEF line, q
  <2> QED
    BY <2>1, <2>2, <2>5, <2>6 DEF First
<1>4. /\ m.host \in Seq(S \ {CR, NUL}) /\ m.host \in Seq(S \ {":"})
      /\ m.body \in Seq(S \ {CR, NUL})
      /\ \A k \in DOMAIN h : k \in Seq(S \ {CR, NUL, ":"}) /\ h[k] \in Seq(S \ {CR, NUL})
      /\ \A k \in DOMAIN h : k # <<"Host">> => h[k] \in Seq(S \ {":"})
  <2>1. \A v \in Seq(S \ {CR, NUL, ":"}) : v \in Seq(S \ {CR, NUL}) /\ v \in Seq(S \ {":"})
    <3>1. S \ {CR, NUL, ":"} \subseteq S \ {CR, NUL} /\ S \ {CR, NUL, ":"} \subseteq S \ {":"}
      OBVIOUS
    <3> QED
      BY <3>1, SeqMonotone
  <2> QED
    BY <2>1 DEF IsPlain
<1> DEFINE rest == IF m.body = <<>> THEN <<>> ELSE LengthAndBody(m.body)
<1>5. PICK v \in Seq(S \ {NUL}) : /\ BuildRequest(m) = (v \o <<CR, LF>>) \o rest
                                  /\ Among(Parse("request_t", v), line, all)
  BY <1>2, <1>4, HeadersAreParsed
<1>6. HeadersOf(m) = IF m.body = <<>> THEN all ELSE Emplace(all, <<"Content-Length">>, <<length>>)
  BY <1>1, <1>4, HeadersAreThose
<1> HIDE DEF all, h, base, line, length
<1>9. ASSUME NEW p, First(p) = line PROVE p.line = <<<<m.method>>, m.endpoint>> /\ p.null = FALSE
  <2> DEFINE a == <<<<m.method>>, m.endpoint>>
  <2>1. <<p.line, p.null>> = <<a, FALSE>>
    BY <1>3, <1>9 DEF First
  <2> HIDE DEF a
  <2>2. p.line = a
    BY <2>1
  <2>3. p.null = FALSE
    BY <2>1
  <2> QED
    BY <2>2, <2>3 DEF a
<1>7. CASE m.body = <<>>
  <2>1. {CR, LF} \subseteq S
    BY <1>1
  <2>2. v \o <<CR, LF>> \in Seq(S \ {NUL}) /\ Behind(Parse("request_t", v \o <<CR, LF>>), line, all, <<>>)
    BY <1>5, <2>1, BlankIsParsed
  <2>3. (v \o <<CR, LF>>) \o <<>> = v \o <<CR, LF>>
    BY <2>2, ConcatEmptySeq
  <2>4. BuildRequest(m) = v \o <<CR, LF>>
    BY <1>5, <1>7, <2>3
  <2> QED
    BY <1>6, <1>7, <1>9, <2>2, <2>4 DEF Behind
<1>8. CASE m.body # <<>>
  <2>1. {CR, LF, SP, ":", "Content-Length"} \subseteq S /\ length \in S \ {CR, NUL, ":"}
    BY <1>1 DEF length
  <2>2. Behind(Parse("request_t", Ended(v, length, m.body)), line,
               Emplace(all, <<"Content-Length">>, <<length>>), m.body)
    BY <1>4, <1>5, <1>8, <2>1, EndIsParsed
  <2>3. BuildRequest(m) = Ended(v, length, m.body)
    BY <1>5, <1>8, Zenon DEF Ended, LengthAndBody, length
  <2> QED
    BY <1>6, <1>8, <1>9, <2>2, <2>3 DEF Behind
<1> QED
  BY <1>7, <1>8

-----------------------------------------------------------------------------
(* Whatever its headers and its body are, the first line of a request is   *)
(* read as it is written.                                                  *)
LEMMA LineIsRead ==
  ASSUME NEW m, IsRequest(m), NEW S, S = Letters(m), m.endpoint \in Seq(S \ {SP, CR, NUL})
  PROVE  Parse("request_t", BuildRequest(m)).line = <<<<m.method>>, Cut(TargetOf(m.endpoint), "?")>>
<1> DEFINE line == LineOfRequest(m.method, m.endpoint)
           hostLine == LineOf(<<"Host">>, m.host)
           lines == HeaderLines(m.headers)
           rest == IF m.body = <<>> THEN <<>> ELSE LengthAndBody(m.body)
           crlf == <<CR, LF>>
           cr == <<CR>>
           z == Cat(Cat(Cat(hostLine, crlf), lines), rest)
           L == <<<<m.method>>, Cut(TargetOf(m.endpoint), "?")>>
<1>1. /\ {CR, LF, SP, ":", "HTTP/1.1", "Host", "Content-Length", ToString(Len(m.body)), m.method} \subseteq S
      /\ m.endpoint \in Seq(S) /\ m.host \in Seq(S) /\ m.body \in Seq(S)
      /\ IsFiniteSet(DOMAIN m.headers)
      /\ \A k \in DOMAIN m.headers : k \in Seq(S) /\ m.headers[k] \in Seq(S)
  BY RequestTexts
<1>2. m.method \in S \ {CR, NUL, SP, LF}
  BY <1>1, MethodIsWord DEF IsRequest
<1>3. line \in Seq(S \ {CR, NUL}) /\ line # <<>>
  <2>1. m.endpoint \in Seq(S \ {CR, NUL})
    BY SeqMonotone
  <2>2. SP \in S /\ m.method \in S \ {CR, NUL} /\ "HTTP/1.1" \in S
    BY <1>1, <1>2
  <2> QED
    BY <2>1, <2>2, RequestLineType
<1>4. /\ Among(ParseToken("request_t", Unparsed, line), FirstOfRequest(m.method, m.endpoint), <<>>)
      /\ ParseToken("request_t", Unparsed, line).line = L
  <2>1. SP \in S /\ "HTTP/1.1" \in S
    BY <1>1
  <2> QED
    BY <1>2, <2>1, RequestLineParsed
<1>5. lines \in Seq(S)
  <2>1. {":", SP, CR, LF} \subseteq S
    BY <1>1
  <2> QED
    BY <1>1, <2>1, HeaderLinesType
<1>6. hostLine \in Seq(S)
  <2>1. <<LF>> \in Seq(S) /\ <<"Host">> \in Seq(S) /\ <<SP>> \in Seq(S) /\ ":" \in S
    BY <1>1
  <2>2. <<LF>> \o <<"Host">> \in Seq(S) /\ <<SP>> \o m.host \in Seq(S)
    BY <1>1, <2>1, ConcatProperties
  <2> QED
    BY <2>1, <2>2, JoinType DEF LineOf
<1>7. rest \in Seq(S)
  <2>1. <<"Content-Length", ":", SP, ToString(Len(m.body)), CR, LF, CR, LF>> \in Seq(S) /\ <<>> \in Seq(S)
    BY <1>1
  <2>2. LengthAndBody(m.body) \in Seq(S)
    BY <1>1, <2>1, ConcatProperties DEF LengthAndBody
  <2> QED
    BY <2>1, <2>2
<1>8. crlf \in Seq(S) /\ cr \in Seq(S) /\ CR \in S
  BY <1>1
<1>9. BuildRequest(m) = Cat(Cat(Cat(Cat(Cat(line, cr), hostLine), crlf), lines), rest)
  <2>1. BuildRequest(m) = (Join(line, CR, hostLine) \o crlf \o lines) \o rest
    BY RequestShape, Zenon
  <2> QED
    BY <2>1, Zenon DEF Cat, Join
<1> HIDE DEF line, hostLine, lines, rest, crlf, cr, L
<1>10. z \in Seq(S)
  <2>1. Cat(hostLine, crlf) \in Seq(S)
    BY <1>6, <1>8, CatType
  <2>2. Cat(Cat(hostLine, crlf), lines) \in Seq(S)
    BY <1>5, <2>1, CatType
  <2> QED
    BY <1>7, <2>2, CatType
<1>11. BuildRequest(m) = Join(line, CR, z)
  <2>1. line \in Seq(S)
    BY <1>3, SeqMonotone
  <2>2. Cat(line, cr) \in Seq(S)
    BY <1>8, <2>1, CatType
  <2>3. Cat(Cat(line, cr), z) = Cat(Cat(Cat(Cat(Cat(line, cr), hostLine), crlf), lines), rest)
    BY <1>5, <1>6, <1>7, <1>8, <2>2, CatFive
  <2> HIDE DEF z
  <2> QED
    BY <1>9, <2>3, Zenon DEF Cat, Join, cr
<1> HIDE DEF z
<1>12. PastFirstLine(ParseToken("request_t", Unparsed, line), L)
  <2> DEFINE q == ParseToken("request_t", Unparsed, line)
  <2>1. Parser(Unparsed)
    BY DEF Parser, Unparsed, Fields
  <2>2. Parser(q)
    BY <2>1, ParserStays
  <2>3. Among(q, FirstOfRequest(m.method, m.endpoint), <<>>) /\ q.line = L
    BY <1>4
  <2> HIDE DEF q
  <2>4. PastFirstLine(q, L)
    BY <2>2, <2>3 DEF Among, Parser, PastFirstLine
  <2> QED
    BY <2>4 DEF q
<1>13. PastFirstLine(Parse("request_t", Join(line, CR, z)), L)
  BY <1>3, <1>8, <1>10, <1>12, ParseFirstLine
<1> QED
  BY <1>11, <1>13 DEF PastFirstLine, L

(* A message that is read as it is is plain.                               *)
LEMMA ReadIsPlain ==
  ASSUME NEW m, IsRequest(m), NEW S, S = Letters(m),
         LET p == Parse("request_t", BuildRequest(m))
         IN Token(p.line, 2) = m.endpoint /\ p.headers = HeadersOf(m) /\ p.body = m.body
  PROVE  IsPlain(m, S)
<1> DEFINE p == Parse("request_t", BuildRequest(m))
           e == m.endpoint
           target == TargetOf(e)
<1>1. BuildRequest(m) \in Seq(S) /\ e \in Seq(S) /\ "HTTP/1.1" \in S
  BY RequestType, RequestTexts
<1>2. Clean("request_t", S, p)
  BY <1>1, ParseClean
<1>3. e \in Seq(S \ {SP, CR, NUL, "?"}) /\ m.body \in Seq(S \ {CR, NUL})
  BY <1>2 DEF Clean
<1>4. \A k \in DOMAIN HeadersOf(m) : k \in Seq(S \ {CR, NUL, ":"}) /\ HeadersOf(m)[k] \in Seq(S \ {CR, NUL, ":"})
  BY <1>2 DEF Clean, CleanParts
<1>5. /\ m.host \in Seq(S \ {CR, NUL, ":"})
      /\ \A k \in DOMAIN m.headers : /\ k \in Seq(S \ {CR, NUL, ":"})
                                     /\ k # <<"Host">> => m.headers[k] \in Seq(S \ {CR, NUL, ":"})
  <2>1. <<"Host">> \in DOMAIN HeadersOf(m) /\ HeadersOf(m)[<<"Host">>] = m.host
    BY DEF HeadersOf
  <2>2. ASSUME NEW k \in DOMAIN m.headers
        PROVE k \in DOMAIN HeadersOf(m) /\ (k # <<"Host">> => HeadersOf(m)[k] = m.headers[k])
    BY DEF HeadersOf
  <2> QED
    BY <1>4, <2>1, <2>2
<1>6. p.line = <<<<m.method>>, Cut(target, "?")>>
  <2>1. e \in Seq(S \ {SP, CR, NUL})
    BY <1>3, SeqMonotone
  <2> QED
    BY <2>1, LineIsRead
<1>7. Cut(target, "?") = e
  <2>1. Token(<<<<m.method>>, Cut(target, "?")>>, 2) = Cut(target, "?")
    BY DEF Token
  <2> QED
    BY <1>6, <2>1
<1> HIDE DEF p
<1>8. e # <<>>
  <2> SUFFICES ASSUME e = <<>> PROVE FALSE
    OBVIOUS
  <2>1. target = <<"HTTP/1.1">>
    BY DEF TargetOf
  <2>2. <<"HTTP/1.1">> \in Seq(S) /\ <<"HTTP/1.1">> \in Seq(S \ {"?"}) /\ <<"HTTP/1.1">> # <<>>
    BY <1>1
  <2>3. Cut(<<"HTTP/1.1">>, "?") = <<"HTTP/1.1">>
    BY <2>2, CutType
  <2> QED
    BY <1>7, <2>1, <2>2, <2>3
<1>9. e \in Seq(S \ {LF})
  <2> SUFFICES ASSUME e \notin Seq(S \ {LF}) PROVE FALSE
    OBVIOUS
  <2>1. target = RemoveFirst(e, LF)
    BY <1>8 DEF TargetOf
  <2> HIDE DEF e, target
  <2>2. target \in Seq(S) /\ Len(target) = Len(e) - 1
    BY <1>1, <2>1, RemoveFirstType
  <2>3. Len(Cut(target, "?")) <= Len(target)
    BY <2>2, CutType
  <2>4. Len(e) \in Nat
    BY <1>1
  <2> QED
    BY <1>7, <2>2, <2>3, <2>4
<1>10. e \in Seq(S \ {CR, LF, SP, NUL, "?"})
  <2>1. S \ {CR, LF, SP, NUL, "?"} = (S \ {SP, CR, NUL, "?"}) \cap (S \ {LF})
    OBVIOUS
  <2> QED
    BY <1>3, <1>9, <2>1, SeqBoth
<1> QED
  BY <1>3, <1>5, <1>8, <1>10 DEF IsPlain

-----------------------------------------------------------------------------
(* The first line of an answer.                                            *)
AnswerLine(status, phrase) == <<"HTTP/1.1", SP, status, SP>> \o phrase
LineOfAnswer(status) == AnswerLine(status, Phrase[status])

(* A sequence with one more in front.                                      *)
LEMMA InFront ==
  ASSUME NEW S, NEW a \in S, NEW x \in Seq(S)
  PROVE  /\ <<a>> \o x \in Seq(S) /\ Len(<<a>> \o x) = 1 + Len(x) /\ (<<a>> \o x)[1] = a
         /\ \A i \in 1..Len(x) : (<<a>> \o x)[i + 1] = x[i]
<1>1. <<a>> \in Seq(S) /\ Len(<<a>>) = 1 /\ <<a>>[1] = a /\ Len(x) \in Nat
  OBVIOUS
<1> DEFINE c == <<a>> \o x
<1>2. /\ c \in Seq(S) /\ Len(c) = Len(<<a>>) + Len(x)
      /\ \A i \in 1..(Len(<<a>>) + Len(x)) : c[i] = IF i <= Len(<<a>>) THEN <<a>>[i] ELSE x[i - Len(<<a>>)]
  BY <1>1, ConcatProperties
<1> HIDE DEF c
<1>3. c[1] = a
  BY <1>1, <1>2
<1>4. ASSUME NEW i \in 1..Len(x) PROVE c[i + 1] = x[i]
  <2>1. i + 1 \in 1..(1 + Len(x)) /\ ~(i + 1 <= 1) /\ (i + 1) - 1 = i
    BY <1>1
  <2> QED
    BY <1>1, <1>2, <2>1
<1> QED
  BY <1>1, <1>2, <1>3, <1>4 DEF c

(* A phrase is a word, with others behind it or not.                       *)
LEMMA PhraseShape ==
  ASSUME NEW S, NEW p \in Seq(S), Len(p) >= 1, Len(p) >= 2 => p[2] = SP
  PROVE  /\ Head(p) = p[1] /\ p[1] \in S
         /\ \/ p = <<p[1]>>
            \/ SP \in S /\ \E z \in Seq(S) : p = Join(<<p[1]>>, SP, z)
<1> DEFINE n == Len(p)
<1>1. n \in Nat /\ p[1] \in S /\ SubSeq(p, 1, n) = p /\ Head(p) = p[1]
  BY SubSeqFull
<1>2. p = <<p[1]>> \o SubSeq(p, 2, n)
  <2>1. 1 \in 1..Len(p) /\ n \in 1..Len(p) /\ 1 + 1 = 2
    BY <1>1
  <2>2. SubSeq(p, 1, n) = <<p[1]>> \o SubSeq(p, 1 + 1, n)
    BY <2>1, SubSeqRecursiveFirst
  <2> QED
    BY <1>1, <2>1, <2>2
<1>3. CASE n = 1
  <2>1. p = <<p[1]>>
    BY <1>1, <1>3, SeqEqual
  <2> QED
    BY <1>1, <2>1
<1>4. CASE n >= 2
  <2>1. 2 \in 1..Len(p) /\ n \in 2..Len(p) /\ 2 + 1 = 3
    BY <1>1, <1>4
  <2>2. SubSeq(p, 2, n) = <<p[2]>> \o SubSeq(p, 2 + 1, n)
    BY <2>1, SubSeqRecursiveFirst
  <2> DEFINE z == SubSeq(p, 3, n)
             x == <<p[1]>>
             y == <<p[2]>>
  <2>3. z \in Seq(S)
    <3>1. \A i \in 3..n : p[i] \in S
      OBVIOUS
    <3>2. 3 \in Int /\ n \in Int
      BY <1>1
    <3> QED
      BY <3>1, <3>2, SubSeqProperties
  <2>4. x \in Seq(S) /\ y \in Seq(S) /\ p[2] \in S
    BY <1>1, <2>1
  <2>5. p = Cat(x, Cat(y, z))
    BY <1>2, <2>1, <2>2 DEF Cat
  <2>6. p[2] = SP
    BY <1>4
  <2> HIDE DEF x, y, z
  <2>7. p = Cat(Cat(x, y), z)
    BY <2>3, <2>4, <2>5, CatAssociative
  <2>8. y = <<SP>>
    BY <2>6 DEF y
  <2>9. p = Join(x, SP, z)
    BY <2>7, <2>8, Zenon DEF Cat, Join
  <2> QED
    BY <1>1, <2>3, <2>4, <2>6, <2>9 DEF x
<1> QED
  BY <1>1, <1>3, <1>4

(* Its words: the version, the status, and those of the phrase.            *)
BeginWith(words, status, word) ==
  /\ \E n \in Nat : n >= 3 /\ DOMAIN words = 1..n
  /\ words[1] = <<"HTTP/1.1">> /\ words[2] = <<status>> /\ words[3] = <<word>>

(* Split at the spaces, a first line begins with them.                     *)
LEMMA AnswerWords ==
  ASSUME NEW S, SP \in S, "HTTP/1.1" \in S, NEW status \in S \ {SP, LF},
         NEW p \in Seq(S), Len(p) >= 1, p[1] \notin {SP, LF}, Len(p) >= 2 => p[2] = SP
  PROVE  BeginWith(Words(AnswerLine(status, p)), status, Head(p))
<1> DEFINE T == S \ {SP}
           h == <<"HTTP/1.1">>
           s == <<status>>
           w == <<p[1]>>
           y == Join(s, SP, p)
           line == Join(h, SP, y)
<1>1. "HTTP/1.1" \notin {SP, LF}
  BY Distinct DEF Separators
<1>2. /\ Head(p) = p[1] /\ p[1] \in S
      /\ \/ p = <<p[1]>>
         \/ SP \in S /\ \E z \in Seq(S) : p = Join(<<p[1]>>, SP, z)
  BY PhraseShape
<1>3. /\ h \in Seq(T) /\ s \in Seq(T) /\ w \in Seq(T) /\ h # <<>> /\ s # <<>> /\ w # <<>>
  BY <1>1, <1>2
<1>4. h \in Seq(S) /\ s \in Seq(S) /\ w \in Seq(S) /\ p \in Seq(S) /\ SP \in S /\ <<SP>> \in Seq(S)
  BY <1>1, <1>2
<1>5. <<"HTTP/1.1", SP, status, SP>> \o p = line
  <2>1. <<"HTTP/1.1", SP, status, SP>> = Cat(<<"HTTP/1.1", SP>>, <<status, SP>>)
    BY FourPieces
  <2> DEFINE sp == <<SP>>
  <2>2. <<"HTTP/1.1", SP>> = Cat(h, sp) /\ <<status, SP>> = Cat(s, sp)
    BY PairIs DEF Cat
  <2>3. sp \in Seq(S)
    BY <1>4
  <2> HIDE DEF h, s, sp
  <2>4. Cat(h, sp) \in Seq(S) /\ Cat(s, sp) \in Seq(S)
    BY <1>4, <2>3, CatType
  <2>5. Cat(Cat(h, sp), Cat(Cat(s, sp), p)) = Cat(Cat(Cat(h, sp), Cat(s, sp)), p)
    BY <1>4, <2>4, CatAssociative
  <2> QED
    BY <2>1, <2>2, <2>5, Zenon DEF Cat, Join, sp
<1> HIDE DEF h, s, w
<1>6. PICK r \in Seq(Seq(T)) : StrTok(p, SP) = <<w>> \o r
  <2>1. CASE p = w
    <3>1. StrTok(w, SP) = <<w>>
      BY <1>3, StrTokOne DEF T
    <3>2. <<w>> \o <<>> = <<w>> /\ <<>> \in Seq(Seq(T))
      <4>1. <<w>> \in Seq(Seq(T))
        BY <1>3
      <4> QED
        BY <4>1, ConcatEmptySeq
    <3> QED
      BY <2>1, <3>1, <3>2
  <2>2. CASE \E z \in Seq(S) : p = Join(w, SP, z)
    <3>1. PICK z \in Seq(S) : p = Join(w, SP, z)
      BY <2>2
    <3>2. StrTok(Join(w, SP, z), SP) = <<w>> \o StrTok(z, SP)
      BY <1>3, <1>4, StrTokEnds DEF T
    <3>3. StrTok(z, SP) \in Seq(Seq(T))
      BY StrTokType DEF T
    <3> QED
      BY <3>1, <3>2, <3>3
  <2> QED
    BY <1>2, <2>1, <2>2 DEF w
<1>7. y \in Seq(S)
  BY <1>4, JoinType
<1>8. StrTok(y, SP) = <<s>> \o (<<w>> \o r)
  <2>1. StrTok(Join(s, SP, p), SP) = <<s>> \o StrTok(p, SP)
    BY <1>3, <1>4, StrTokEnds DEF T
  <2> QED
    BY <1>6, <2>1
<1> HIDE DEF y
<1>9. StrTok(line, SP) = <<h>> \o (<<s>> \o (<<w>> \o r))
  <2>1. StrTok(Join(h, SP, y), SP) = <<h>> \o StrTok(y, SP)
    BY <1>3, <1>4, <1>7, StrTokEnds DEF T
  <2> QED
    BY <1>8, <2>1
<1> HIDE DEF line, T
<1> DEFINE r1 == <<w>> \o r
           r2 == <<s>> \o r1
           r3 == <<h>> \o r2
           n == 3 + Len(r)
<1>10. r1 \in Seq(Seq(T)) /\ Len(r1) = 1 + Len(r) /\ r1[1] = w
  BY <1>3, InFront
<1> HIDE DEF r1
<1>11. r2 \in Seq(Seq(T)) /\ Len(r2) = 2 + Len(r) /\ r2[1] = s /\ r2[2] = w
  <2>1. r2 \in Seq(Seq(T)) /\ Len(r2) = 1 + Len(r1) /\ r2[1] = s /\ \A i \in 1..Len(r1) : r2[i + 1] = r1[i]
    BY <1>3, <1>10, InFront
  <2>2. Len(r) \in Nat /\ 1 \in 1..Len(r1) /\ 1 + 1 = 2
    BY <1>10
  <2>3. r2[1 + 1] = r1[1]
    BY <2>1, <2>2
  <2> QED
    BY <1>10, <2>1, <2>2, <2>3
<1> HIDE DEF r2
<1>12. r3 \in Seq(Seq(T)) /\ Len(r3) = n /\ r3[1] = h /\ r3[2] = s /\ r3[3] = w
  <2> DEFINE A == Seq(T)
  <2>0. h \in A /\ r2 \in Seq(A)
    BY <1>3, <1>11
  <2> HIDE DEF A
  <2>1. r3 \in Seq(A) /\ Len(r3) = 1 + Len(r2) /\ r3[1] = h /\ \A i \in 1..Len(r2) : r3[i + 1] = r2[i]
    BY <2>0, InFront
  <2> USE DEF A
  <2>2. Len(r) \in Nat /\ 1 \in 1..Len(r2) /\ 2 \in 1..Len(r2) /\ 1 + 1 = 2 /\ 2 + 1 = 3
    BY <1>11
  <2>3. r3[1 + 1] = r2[1] /\ r3[2 + 1] = r2[2]
    BY <2>1, <2>2
  <2> QED
    BY <1>11, <2>1, <2>2, <2>3
<1>13. n \in Nat /\ n >= 3 /\ DOMAIN r3 = 1..n
  <2>1. Len(r) \in Nat
    OBVIOUS
  <2> QED
    BY <1>12, <2>1
<1>14. Words(line) = [i \in DOMAIN r3 |-> RemoveFirst(r3[i], LF)]
  BY <1>9, Zenon DEF Words, r3, r2, r1
<1> HIDE DEF r3, n
<1>15. /\ DOMAIN Words(line) = 1..n
       /\ Words(line)[1] = h /\ Words(line)[2] = s /\ Words(line)[3] = w
  <2>1. RemoveFirst(h, LF) = h /\ RemoveFirst(s, LF) = s /\ RemoveFirst(w, LF) = w
    BY <1>1, RemoveNone DEF h, s, w
  <2>2. 1 \in 1..n /\ 2 \in 1..n /\ 3 \in 1..n
    BY <1>13
  <2> QED
    BY <1>12, <1>13, <1>14, <2>1, <2>2
<1>16. BeginWith(Words(line), status, Head(p))
  BY <1>2, <1>13, <1>15 DEF h, s, w, BeginWith
<1> QED
  BY <1>5, <1>16 DEF AnswerLine

-----------------------------------------------------------------------------
(* What the client's parser has of the first line of an answer.            *)
LEMMA AnswerLineParsed ==
  ASSUME NEW status \in Statuses
  PROVE  LET q == ParseToken("response_t", Unparsed, LineOfAnswer(status))
         IN /\ Among(q, First(q), <<>>)
            /\ Token(q.line, 2) = <<status>>
            /\ Token(q.line, 3) = <<Head(Phrase[status])>>
<1> DEFINE S == Symbols
           p == Phrase[status]
           line == LineOfAnswer(status)
           words == Words(line)
           full == {n \in DOMAIN words : words[n] # <<>>}
           started == [Unparsed EXCEPT !.firstLineParsed = TRUE]
           new == [n \in 1..Cardinality(full) |-> words[Nth(full, n)]]
           q == ParseToken("response_t", Unparsed, line)
<1>1. /\ SP \in S /\ "HTTP/1.1" \in S /\ status \in S \ {SP, LF} /\ status # NUL
      /\ p \in Seq(S) /\ p \in Seq(S \ {CR, LF, NUL}) /\ Len(p) >= 1 /\ p[1] # SP
      /\ Len(p) >= 2 => p[2] = SP
  <2>1. p \in Seq(S \ {CR, LF, NUL}) => p \in Seq(S)
    BY SeqMonotone
  <2> QED
    BY <2>1, StatusTexts, TextsAreSymbols DEF Separators
<1>2. p[1] \notin {SP, LF}
  BY <1>1
<1> HIDE DEF S, p
<1>3. /\ \E n \in Nat : n >= 3 /\ DOMAIN words = 1..n
      /\ words[1] = <<"HTTP/1.1">> /\ words[2] = <<status>> /\ words[3] = <<Head(p)>>
  <2>1. /\ SP \in S /\ "HTTP/1.1" \in S /\ status \in S \ {SP, LF} /\ p \in Seq(S) /\ Len(p) >= 1
        /\ p[1] \notin {SP, LF} /\ (Len(p) >= 2 => p[2] = SP)
    BY <1>1, <1>2
  <2>2. BeginWith(Words(AnswerLine(status, p)), status, Head(p))
    BY <2>1, AnswerWords
  <2> QED
    BY <2>2 DEF BeginWith, LineOfAnswer, p
<1>4. line # <<LF>>
  <2>1. line = Cat(<<"HTTP/1.1", SP, status, SP>>, p)
    BY DEF LineOfAnswer, AnswerLine, Cat, p
  <2> DEFINE j == Cat(<<"HTTP/1.1", SP, status, SP>>, p)
             f == <<"HTTP/1.1", SP, status, SP>>
  <2>2. f \in Seq(S) /\ Len(f) = 4 /\ Len(p) \in Nat
    BY <1>1
  <2> HIDE DEF f
  <2>3. Len(f \o p) = Len(f) + Len(p)
    BY <1>1, <2>2, ConcatProperties
  <2> DEFINE l == Len(f \o p)
  <2>4. l # 1
    <3> HIDE DEF l
    <3>1. l \in Nat /\ l >= 4
      BY <2>2, <2>3 DEF l
    <3> QED
      BY <3>1
  <2>5. Len(<<LF>>) = 1
    OBVIOUS
  <2> QED
    BY <2>1, <2>4, <2>5, Zenon DEF Cat, f
<1> HIDE DEF line, words
<1>5. PICK n \in Nat : n >= 3 /\ DOMAIN words = 1..n
  BY <1>3
<1>6. full \in SUBSET (1..n) /\ 1 \in full /\ 2 \in full /\ 3 \in full
  <2>1. <<"HTTP/1.1">> # <<>> /\ <<status>> # <<>> /\ <<Head(p)>> # <<>>
    OBVIOUS
  <2>2. 1 \in 1..n /\ 2 \in 1..n /\ 3 \in 1..n
    BY <1>5
  <2> QED
    BY <1>3, <1>5, <2>1, <2>2
<1> HIDE DEF full
<1>7. /\ full \cap 1..2 = {1} \cup {2} /\ full \cap 1..3 = ({1} \cup {2}) \cup {3}
  <2>1. 1..2 = {1, 2} /\ 1..3 = {1, 2, 3}
    OBVIOUS
  <2> QED
    BY <1>6, <2>1
<1>8. /\ Cardinality({1} \cup {2}) = 2 /\ Cardinality(({1} \cup {2}) \cup {3}) = 3
  <2>1. IsFiniteSet({1} \cup {2}) /\ Cardinality({1} \cup {2}) = 2
    <3>1. 1 # 2
      OBVIOUS
    <3> QED
      BY <3>1, PairCardinality, Zenon
  <2>2. 3 \notin {1} \cup {2}
    OBVIOUS
  <2>3. Cardinality(({1} \cup {2}) \cup {3}) = IF 3 \in {1} \cup {2} THEN Cardinality({1} \cup {2}) ELSE Cardinality({1} \cup {2}) + 1
    BY <2>1, FS_AddElement
  <2> QED
    BY <2>1, <2>2, <2>3
<1>9. Nth(full, 2) = 2 /\ Nth(full, 3) = 3
  <2>1. Cardinality(full \cap 1..2) = 2 /\ Cardinality(full \cap 1..3) = 3
    BY <1>7, <1>8
  <2>2. n \in Nat /\ full \in SUBSET (1..n) /\ 2 \in full /\ 3 \in full
    BY <1>6
  <2>3. Nth(full, 2) = 2
    <3>1. \A i \in full : Cardinality(full \cap 1..i) = 2 => Nth(full, 2) = i
      BY <2>2, NthIs
    <3> QED
      BY <2>1, <2>2, <3>1
  <2>4. Nth(full, 3) = 3
    <3>1. \A i \in full : Cardinality(full \cap 1..i) = 3 => Nth(full, 3) = i
      BY <2>2, NthIs
    <3> QED
      BY <2>1, <2>2, <3>1
  <2> QED
    BY <2>3, <2>4
<1>10. 2 \in DOMAIN new /\ 3 \in DOMAIN new
  <2>1. IsFiniteSet(full) /\ Cardinality(full) \in Nat
    BY <1>6, PositionsFinite
  <2> DEFINE three == ({1} \cup {2}) \cup {3}
  <2>2. three \in SUBSET full
    BY <1>6
  <2> HIDE DEF three
  <2>3. Cardinality(three) <= Cardinality(full)
    BY <2>1, <2>2, FS_Subset
  <2>4. Cardinality(full) >= 3
    BY <1>8, <2>1, <2>3 DEF three
  <2> DEFINE c == Cardinality(full)
  <2>5. 2 \in 1..c /\ 3 \in 1..c
    <3> HIDE DEF c
    <3>1. c \in Nat /\ c >= 3
      BY <2>1, <2>4 DEF c
    <3> QED
      BY <3>1
  <2>6. DOMAIN new = 1..c
    OBVIOUS
  <2> HIDE DEF c
  <2> QED
    BY <2>5, <2>6
<1>11. new[2] = words[2] /\ new[3] = words[3]
  BY <1>9, <1>10
<1>12. Token(new, 2) = <<status>> /\ Token(new, 3) = <<Head(p)>>
  <2> HIDE DEF new
  <2> QED
    BY <1>3, <1>10, <1>11 DEF Token
<1>13. q = [started EXCEPT !.line = new]
  <2>1. ~Unparsed.firstLineParsed
    BY DEF Unparsed
  <2>2. q = FirstLine("response_t", started, words)
    BY <1>4, <2>1, Zenon DEF ParseToken, started, words
  <2>3. "response_t" # "request_t"
    OBVIOUS
  <2> HIDE DEF q, started, new
  <2>4. q = StatusLine(started, words)
    BY <2>2, <2>3 DEF FirstLine
  <2> QED
    BY <2>4, Zenon DEF StatusLine, full, new
<1> HIDE DEF new, q
<1>14. LET r == [started EXCEPT !.line = new] IN Among(r, First(r), <<>>) /\ r.line = new
  BY DEF Unparsed, Fields, Among
<1>15. q.line = new /\ Among(q, First(q), <<>>)
  <2> HIDE DEF started
  <2> QED
    BY <1>13, <1>14
<1> QED
  BY <1>12, <1>15 DEF q, line, p

(* Behind the blank line nothing changes the headers nor the first line.   *)
Past(parsed, line, headers) == \E body : Behind(parsed, line, headers, body)

(* No token changes that.                                                  *)
LEMMA PastStays ==
  ASSUME NEW type, NEW parsed, NEW line, NEW headers, Past(parsed, line, headers), NEW token
  PROVE  Past(ParseToken(type, parsed, token), line, headers)
<1>1. PICK body : Behind(parsed, line, headers, body)
  BY DEF Past
<1>2. CASE token = <<LF>>
  <2>1. ParseToken(type, parsed, token) = [parsed EXCEPT !.headersParsed = TRUE]
    BY <1>2, Zenon DEF ParseToken
  <2>2. Behind([parsed EXCEPT !.headersParsed = TRUE], line, headers, body)
    BY <1>1 DEF Behind, Fields, First
  <2> QED
    BY <2>1, <2>2 DEF Past
<1>3. CASE token # <<LF>>
  <2> DEFINE b == parsed.body \o RemoveFirst(token, LF)
  <2>1. parsed.firstLineParsed /\ parsed.headersParsed
    BY <1>1 DEF Behind
  <2>2. ParseToken(type, parsed, token) = [parsed EXCEPT !.body = b]
    BY <1>3, <2>1 DEF ParseToken
  <2> HIDE DEF b
  <2>3. Behind([parsed EXCEPT !.body = b], line, headers, b)
    BY <1>1 DEF Behind, Fields, First
  <2> QED
    BY <2>2, <2>3 DEF Past
<1> QED
  BY <1>2, <1>3

(* So of a text that goes on behind the blank line.                        *)
LEMMA PastParsed ==
  ASSUME NEW type, NEW line, NEW headers, NEW T, NEW first \in Seq(T), NEW others \in Seq(T),
         Past(Parsed(type, first), line, headers)
  PROVE  Past(Parsed(type, first \o others), line, headers)
<1> DEFINE n == Len(others)
           part(i) == first \o SubSeq(others, 1, i)
           I == {i \in Nat : i <= n => Past(Parsed(type, part(i)), line, headers)}
<1>1. n \in Nat
  OBVIOUS
<1>2. 0 \in I
  <2>1. SubSeq(others, 1, 0) = <<>>
    BY SubSeqEmpty
  <2>2. first \o <<>> = first
    BY ConcatEmptySeq
  <2>3. part(0) = first
    BY <2>1, <2>2
  <2> QED
    BY <2>3
<1>3. ASSUME NEW i \in Nat, i \in I PROVE i + 1 \in I
  <2>1. ASSUME i + 1 <= n PROVE Past(Parsed(type, part(i + 1)), line, headers)
    <3>1. i <= n /\ 1 \in 1..n /\ i + 1 \in 1..n /\ (i + 1) - 1 = i /\ i + 1 \in 1..Len(others)
      BY <1>1, <2>1
    <3> DEFINE x == SubSeq(others, 1, i)
               t == others[i + 1]
    <3>2. SubSeq(others, 1, i + 1) = x \o <<t>>
      BY <3>1, SubSeqRecursiveSecond
    <3>3. x \in Seq(T) /\ t \in T /\ <<t>> \in Seq(T)
      <4>1. \A k \in 1..i : others[k] \in T
        BY <3>1
      <4> QED
        BY <3>1, <4>1, SubSeqProperties
    <3> HIDE DEF x, t
    <3>4. Cat(first, Cat(x, <<t>>)) = Cat(Cat(first, x), <<t>>) /\ Cat(first, x) \in Seq(T)
      <4> DEFINE y == <<t>>
      <4>1. x \in Seq(T) /\ y \in Seq(T)
        BY <3>3
      <4> HIDE DEF y
      <4>2. Cat(first, Cat(x, y)) = Cat(Cat(first, x), y)
        BY <4>1, CatAssociative
      <4>3. Cat(first, x) \in Seq(T)
        BY <4>1, CatType
      <4> QED
        BY <4>2, <4>3 DEF y
    <3>5. part(i + 1) = Cat(Cat(first, x), <<t>>)
      BY <3>2, <3>4 DEF Cat
    <3>6. Parsed(type, Cat(first, x) \o <<t>>) = ParseToken(type, Parsed(type, Cat(first, x)), t)
      BY <3>3, <3>4, ParsedAppend
    <3>7. Past(Parsed(type, Cat(first, x)), line, headers)
      BY <1>3, <3>1 DEF Cat, x
    <3> QED
      BY <3>5, <3>6, <3>7, PastStays DEF Cat
  <2> QED
    BY <2>1
<1>4. n \in I
  <2> HIDE DEF I
  <2> QED
    BY <1>1, <1>2, <1>3, Induction
<1>5. part(n) = first \o others
  BY SubSeqFull
<1> HIDE DEF part, n
<1>6. n <= n
  BY <1>1
<1>7. Past(Parsed(type, part(n)), line, headers)
  BY <1>4, <1>6
<1> QED
  BY <1>5, <1>7

-----------------------------------------------------------------------------
(* Whatever a text has behind its blank line, its first line and its       *)
(* headers stay.                                                           *)
LEMMA PastParse ==
  ASSUME NEW type, NEW S, CR \in S, NEW u \in Seq(S \ {NUL}), NEW line, NEW headers,
         Past(Parse(type, u), line, headers), NEW z \in Seq(S)
  PROVE  Past(Parse(type, Join(u, CR, z)), line, headers)
<1> DEFINE T == S \ {NUL}
           c == CString(z)
           text == Join(u, CR, z)
           cut == Join(u, CR, c)
<1>1. CR # NUL
  BY DEF CR, NUL
<1>2. CString(text) = cut
  BY <1>1, CStringJoin
<1>3. c \in Seq(T) /\ u \in Seq(T) /\ CR \in T
  BY <1>1, CStringType
<1>4. CString(u) = u
  <2>1. u \in Seq(S)
    BY SeqMonotone
  <2> QED
    BY <2>1, CStringType
<1> HIDE DEF T, c
<1>5. StrTok(cut, CR) = StrTok(u, CR) \o StrTok(c, CR)
  BY <1>3, StrTokConcat
<1> DEFINE first == StrTok(u, CR)
           others == StrTok(c, CR)
           A == Seq(T \ {CR})
<1>6. first \in Seq(A) /\ others \in Seq(A)
  BY <1>3, StrTokType
<1>7. Parse(type, u) = Parsed(type, first)
  BY <1>4, Zenon DEF Parse, Parsed
<1>8. Parse(type, text) = Parsed(type, first \o others)
  BY <1>2, <1>5, Zenon DEF Parse, Parsed
<1> HIDE DEF first, others, A, text
<1>9. Past(Parsed(type, first), line, headers)
  BY <1>7
<1>10. Past(Parsed(type, first \o others), line, headers)
  BY <1>6, <1>9, PastParsed
<1> QED
  BY <1>8, <1>10 DEF text

(* An answer up to its blank line.                                         *)
AnswerHead(a) == LineOfAnswer(a.status) \o <<CR, LF>> \o HeaderLines(a.headers) \o <<CR, LF>>

HeadersAreLines(a) ==
  \A k \in DOMAIN a.headers : k \in Seq(Symbols \ {CR, NUL, ":"}) /\ a.headers[k] \in Seq(Symbols \ {CR, NUL})

HeadParsed(a, u) ==
  \E line : /\ Behind(Parse("response_t", u), line,
                      Merged("response_t", <<>>, a.headers, DOMAIN a.headers), <<>>)
            /\ Token(line[1], 2) = <<a.status>>
            /\ Token(line[1], 3) = <<Head(Phrase[a.status])>>

(* A blank line more changes nothing.                                      *)
LEMMA BlankStays ==
  ASSUME NEW type, NEW S, {CR, LF} \subseteq S, NEW v \in Seq(S \ {NUL}), NEW line, NEW headers,
         NEW body, Behind(Parse(type, v), line, headers, body)
  PROVE  /\ Join(v, CR, <<LF>>) \in Seq(S \ {NUL})
         /\ Behind(Parse(type, Join(v, CR, <<LF>>)), line, headers, body)
<1>1. <<LF>> \in Seq(S \ {CR, NUL}) /\ <<LF>> # <<>> /\ CR \in S
  BY Separate
<1>2. Join(v, CR, <<LF>>) \in Seq(S \ {NUL})
      /\ Parse(type, Join(v, CR, <<LF>>)) = ParseToken(type, Parse(type, v), <<LF>>)
  <2> DEFINE x == <<LF>>
  <2>1. x \in Seq(S \ {CR, NUL}) /\ x # <<>> /\ CR \in S
    BY <1>1
  <2> HIDE DEF x
  <2>2. Join(v, CR, x) \in Seq(S \ {NUL})
        /\ Parse(type, Join(v, CR, x)) = ParseToken(type, Parse(type, v), x)
    BY <2>1, ParseAppend, ZenonT(40)
  <2> QED
    BY <2>2 DEF x
<1> DEFINE q == Parse(type, v)
<1>3. ParseToken(type, q, <<LF>>) = [q EXCEPT !.headersParsed = TRUE]
  BY DEF ParseToken
<1>4. Behind(q, line, headers, body)
  OBVIOUS
<1> HIDE DEF q
<1>5. Behind([q EXCEPT !.headersParsed = TRUE], line, headers, body)
  BY <1>4 DEF Behind, Fields, First
<1> QED
  BY <1>2, <1>3, <1>5 DEF q

(* The client's parser there.                                              *)
LEMMA AnswerHeadParsed ==
  ASSUME NEW a, IsResponse(a), HeadersAreLines(a)
  PROVE  \E w \in Seq(Symbols \ {NUL}) : AnswerHead(a) = w \o <<CR, LF>> /\ HeadParsed(a, w)
<1> DEFINE S == Symbols
           b == LineOfAnswer(a.status)
           q == ParseToken("response_t", Unparsed, b)
           line == First(q)
           h == a.headers
           crlf == <<CR, LF>>
           all == Merged("response_t", <<>>, h, DOMAIN h)
<1>1. a.status \in Statuses /\ IsFiniteSet(DOMAIN h) /\ {CR, LF, SP, ":"} \subseteq S
  BY TextsAreSymbols DEF IsResponse, IsMap
<1>2. /\ Among(q, line, <<>>)
      /\ Token(line[1], 2) = <<a.status>> /\ Token(line[1], 3) = <<Head(Phrase[a.status])>>
  <2>1. /\ Among(q, line, <<>>)
        /\ Token(q.line, 2) = <<a.status>> /\ Token(q.line, 3) = <<Head(Phrase[a.status])>>
    BY <1>1, AnswerLineParsed
  <2>2. First(q)[1] = q.line
    BY DEF First
  <2> QED
    BY <2>1, <2>2
<1>3. b \in Seq(S \ {CR, NUL}) /\ b # <<>>
  <2> DEFINE T == S \ {CR, NUL}
             x == <<"HTTP/1.1", SP, a.status, SP>>
             p == Phrase[a.status]
  <2>1. x \in Seq(T) /\ Len(x) = 4
    <3>1. {"HTTP/1.1", SP, a.status} \subseteq T
      BY <1>1, StatusTexts, TextsAreSymbols, Distinct DEF Separators
    <3> QED
      BY <3>1
  <2>2. p \in Seq(T) /\ Len(p) \in Nat
    <3>1. p \in Seq(S \ {CR, LF, NUL})
      BY <1>1, StatusTexts
    <3>2. S \ {CR, LF, NUL} \subseteq T
      OBVIOUS
    <3> QED
      BY <3>1, <3>2, SeqMonotone
  <2>3. b = x \o p
    BY DEF LineOfAnswer, AnswerLine
  <2> HIDE DEF x, p, b, T
  <2> DEFINE n == Len(x \o p)
  <2>4. x \o p \in Seq(T) /\ n = Len(x) + Len(p)
    BY <2>1, <2>2, ConcatProperties
  <2> HIDE DEF n
  <2>5. n # 0
    <3>1. n \in Nat /\ n >= 4
      BY <2>1, <2>2, <2>4
    <3> QED
      BY <3>1
  <2>6. Len(<<>>) = 0
    OBVIOUS
  <2>7. x \o p # <<>>
    BY <2>5, <2>6, Zenon DEF n
  <2> QED
    BY <2>3, <2>4, <2>7 DEF T
<1> HIDE DEF S, b, line, h
<1>4. Among(Parse("response_t", b), line, <<>>) /\ b \in Seq(S \ {NUL})
  <2>1. Parse("response_t", b) = q
    BY <1>3, ParseOne
  <2>2. b \in Seq(S \ {NUL})
    <3>1. S \ {CR, NUL} \subseteq S \ {NUL}
      OBVIOUS
    <3> QED
      BY <1>3, <3>1, SeqMonotone
  <2> QED
    BY <1>2, <2>1, <2>2
<1> HIDE DEF q
<1>5. Reached("response_t", S, b, line, all, HeaderLines(h))
  <2> DEFINE base == <<>>
  <2>1. base = [k \in DOMAIN base |-> base[k]]
    OBVIOUS
  <2>2. \A k \in DOMAIN h : k \in Seq(S \ {CR, NUL, ":"}) /\ h[k] \in Seq(S \ {CR, NUL})
    BY DEF HeadersAreLines, h, S
  <2>3. Among(Parse("response_t", b), line, base)
    BY <1>4
  <2> HIDE DEF base
  <2>4. Reached("response_t", S, b, line, Merged("response_t", base, h, DOMAIN h), HeaderLines(h))
    BY <1>1, <1>4, <2>1, <2>2, <2>3, ReachedAll
  <2> QED
    BY <2>4 DEF base
<1> HIDE DEF all
<1>6. PICK v \in Seq(S \ {NUL}) : /\ b \o <<CR, LF>> \o HeaderLines(h) = v \o <<CR, LF>>
                                  /\ Among(Parse("response_t", v), line, all)
  BY <1>5 DEF Reached
<1>7. /\ v \o <<CR, LF>> \in Seq(S \ {NUL})
      /\ Behind(Parse("response_t", v \o <<CR, LF>>), line, all, <<>>)
  <2>1. {CR, LF} \subseteq S
    BY <1>1
  <2> QED
    BY <1>6, <2>1, BlankIsParsed
<1> DEFINE w == v \o <<CR, LF>>
           u == AnswerHead(a)
<1>8. u = w \o <<CR, LF>>
  <2>1. u = (b \o <<CR, LF>> \o HeaderLines(h)) \o <<CR, LF>>
    BY Zenon DEF AnswerHead, b, h
  <2> DEFINE x == b \o <<CR, LF>> \o HeaderLines(h)
  <2>2. x = w
    BY <1>6
  <2>3. u = x \o <<CR, LF>>
    BY <2>1
  <2> HIDE DEF w, x, u
  <2> QED
    BY <2>2, <2>3
<1> HIDE DEF u
<1>9. w \in Seq(S \ {NUL}) /\ Behind(Parse("response_t", w), line, all, <<>>)
  BY <1>7
<1> HIDE DEF w
<1>10. HeadParsed(a, w)
  BY <1>2, <1>9 DEF HeadParsed, all, h
<1> QED
  BY <1>8, <1>9, <1>10 DEF u, S

(* Nothing flattened is nothing.                                           *)
LEMMA FlattenEmpty == FlattenSeq(<<>>) = <<>>
  BY DEF FlattenSeq

(* What ResponseText has behind the blank line.                            *)
LEMMA AnswerShape ==
  ASSUME NEW a, IsResponse(a)
  PROVE  /\ FlattenSeq(a.body) \in Seq(Symbols) /\ ResponseText(a) \in Seq(Symbols)
         /\ a.body = <<>> => FlattenSeq(a.body) = <<>> /\ ResponseText(a) = AnswerHead(a)
         /\ a.body # <<>> =>
              ResponseText(a) = Cat(AnswerHead(a), Cat(FlattenSeq(a.body), <<CR, LF>>))
<1> DEFINE f == FlattenSeq(a.body)
           crlf == <<CR, LF>>
           end == IF a.body = <<>> THEN <<>> ELSE f \o crlf
<1>1. f \in Seq(Symbols)
  <2>1. a.body \in Seq(Seq(Symbols))
    BY TextsAreSymbols DEF IsResponse, IsMap
  <2> QED
    BY <2>1, FlattenType
<1>2. ResponseText(a) = AnswerHead(a) \o end
  BY Zenon DEF ResponseText, AnswerHead, LineOfAnswer, AnswerLine, end, f, crlf
<1>3. AnswerHead(a) \in Seq(Symbols)
  <2> DEFINE x == <<"HTTP/1.1", SP, a.status, SP>>
             p == Phrase[a.status]
             h == HeaderLines(a.headers)
  <2>1. x \in Seq(Symbols)
    <3>1. a.status \in Symbols
      BY StatusTexts DEF IsResponse
    <3> QED
      BY <3>1, TextsAreSymbols
  <2>2. p \in Seq(Symbols) /\ crlf \in Seq(Symbols)
    <3>1. p \in Seq(Symbols \ {CR, LF, NUL})
      BY StatusTexts DEF IsResponse
    <3> QED
      BY <3>1, SeqMonotone, TextsAreSymbols
  <2>3. h \in Seq(Symbols)
    <3>1. {":", SP, CR, LF} \subseteq Symbols
      BY TextsAreSymbols
    <3> DEFINE g == a.headers
    <3>2. IsFiniteSet(DOMAIN g) /\ \A k \in DOMAIN g : k \in Seq(Symbols) /\ g[k] \in Seq(Symbols)
      BY TextsAreSymbols DEF IsResponse, IsMap
    <3> HIDE DEF g
    <3>3. HeaderLines(g) \in Seq(Symbols)
      BY <3>1, <3>2, HeaderLinesType
    <3> QED
      BY <3>3 DEF g
  <2>4. AnswerHead(a) = Cat(Cat(Cat(Cat(x, p), crlf), h), crlf)
    BY Zenon DEF Cat, AnswerHead, LineOfAnswer, AnswerLine, x, p, h, crlf
  <2> HIDE DEF x, p, h, crlf
  <2>5. Cat(Cat(Cat(Cat(x, p), crlf), h), crlf) \in Seq(Symbols)
    BY <2>1, <2>2, <2>3, CatType
  <2> QED
    BY <2>4, <2>5
<1>4. CASE a.body = <<>>
  <2>1. f = <<>>
    BY <1>4, FlattenEmpty
  <2>2. AnswerHead(a) \o <<>> = AnswerHead(a)
    BY <1>3, ConcatEmptySeq
  <2>3. ResponseText(a) = AnswerHead(a)
    BY <1>2, <1>4, <2>2
  <2> QED
    BY <1>1, <1>3, <1>4, <2>1, <2>3
<1>5. CASE a.body # <<>>
  <2>1. ResponseText(a) = Cat(AnswerHead(a), Cat(f, crlf))
    BY <1>2, <1>5, Zenon DEF Cat
  <2>2. crlf \in Seq(Symbols)
    BY TextsAreSymbols
  <2> HIDE DEF f, crlf
  <2>3. Cat(AnswerHead(a), Cat(f, crlf)) \in Seq(Symbols)
    BY <1>1, <1>3, <2>2, CatType
  <2> QED
    BY <1>1, <1>5, <2>1, <2>3 DEF f, crlf
<1> QED
  BY <1>4, <1>5

(* The client's parser behind a text that ends in a body.                  *)
ReadTo(parsed, line, headers, f, S) ==
  /\ Past(parsed, line, headers)
  /\ parsed.body = f <=> f \in Seq(S \ {CR, NUL})

(* What the client's parser has of a text that ends in a body and a line's *)
(* end.                                                                    *)
LEMMA EndIsRead ==
  ASSUME NEW type, NEW S, {CR, LF, SP, ":"} \subseteq S, NEW w \in Seq(S \ {NUL}), NEW line,
         NEW headers, Behind(Parse(type, w), line, headers, <<>>), NEW f \in Seq(S),
         NEW z, z = Cat(Cat(w, <<CR, LF>>), Cat(f, <<CR, LF>>))
  PROVE  /\ z \in Seq(S)
         /\ ReadTo(Parse(type, z), line, headers, f, S)
<1> DEFINE crlf == <<CR, LF>>
           cr == <<CR>>
           lf == <<LF>>
           y == Cat(lf, f)
           t == Join(w, CR, y)
           u == Cat(w, crlf)
<1>1. /\ crlf \in Seq(S) /\ cr \in Seq(S) /\ lf \in Seq(S) /\ crlf = Cat(cr, lf)
      /\ w \in Seq(S) /\ CR \in S
  <2>1. crlf \in Seq(S) /\ cr \in Seq(S) /\ lf \in Seq(S) /\ CR \in S
    OBVIOUS
  <2>2. w \in Seq(S)
    BY SeqMonotone
  <2>3. crlf = Cat(cr, lf)
    BY PairIs DEF Cat
  <2> QED
    BY <2>1, <2>2, <2>3
<1> HIDE DEF crlf, cr, lf
<1>2. u \in Seq(S) /\ y \in Seq(S) /\ Cat(y, crlf) \in Seq(S) /\ z \in Seq(S)
  BY <1>1, CatType DEF crlf
<1>3. z = Cat(Cat(Cat(w, cr), y), crlf) /\ z = Cat(Cat(w, cr), Cat(y, crlf))
  <2> DEFINE c == Cat(w, cr)
  <2>1. c \in Seq(S) /\ u = Cat(c, lf)
    BY <1>1, CatType, CatAssociative
  <2>2. z = Cat(Cat(u, f), crlf)
    <3>1. z = Cat(u, Cat(f, crlf))
      BY DEF crlf
    <3> HIDE DEF u
    <3> QED
      BY <1>1, <1>2, <3>1, CatAssociative
  <2> HIDE DEF c
  <2>3. Cat(u, f) = Cat(c, y)
    BY <1>1, <2>1, CatAssociative
  <2>4. Cat(Cat(c, y), crlf) = Cat(c, Cat(y, crlf))
    BY <1>1, <1>2, <2>1, CatAssociative
  <2> QED
    BY <2>2, <2>3, <2>4 DEF c
<1>4. /\ t = Cat(Cat(w, cr), y) /\ z = Join(w, CR, Cat(y, crlf))
      /\ z = t \o <<CR, LF>>
  <2>1. t = Cat(Cat(w, cr), y)
    BY Zenon DEF Join, Cat, cr
  <2>2. Join(w, CR, Cat(y, crlf)) = Cat(Cat(w, cr), Cat(y, crlf))
    BY Zenon DEF Join, Cat, cr
  <2>3. Cat(t, crlf) = t \o <<CR, LF>>
    BY Zenon DEF Cat, crlf
  <2> QED
    BY <1>3, <2>1, <2>2, <2>3
<1>5. Past(Parse(type, z), line, headers)
  <2> DEFINE x == Cat(y, crlf)
  <2>1. x \in Seq(S) /\ z = Join(w, CR, x)
    BY <1>2, <1>4
  <2> HIDE DEF x
  <2>2. Past(Parse(type, w), line, headers)
    BY DEF Past
  <2>3. Past(Parse(type, Join(w, CR, x)), line, headers)
    BY <1>1, <2>1, <2>2, PastParse
  <2> QED
    BY <2>1, <2>3
<1>6. ASSUME f \in Seq(S \ {CR, NUL}) PROVE Parse(type, z).body = f
  <2>1. {CR, LF} \subseteq S
    OBVIOUS
  <2>2. t \in Seq(S \ {NUL}) /\ Behind(Parse(type, t), line, headers, f)
    <3>1. CASE f = <<>>
      <4>1. y = <<LF>>
        <5>1. lf \o <<>> = lf
          BY <1>1, ConcatEmptySeq
        <5> QED
          BY <3>1, <5>1 DEF Cat, lf
      <4>2. /\ Join(w, CR, <<LF>>) \in Seq(S \ {NUL})
            /\ Behind(Parse(type, Join(w, CR, <<LF>>)), line, headers, <<>>)
        BY <2>1, BlankStays
      <4> QED
        BY <3>1, <4>1, <4>2
    <3>2. CASE f # <<>>
      <4>1. /\ Join(w, CR, <<LF>> \o f) \in Seq(S \ {NUL})
            /\ Behind(Parse(type, Join(w, CR, <<LF>> \o f)), line, headers, <<>> \o f)
        <5> DEFINE e == <<>>
        <5>1. Behind(Parse(type, w), line, headers, e)
          OBVIOUS
        <5> HIDE DEF e
        <5>2. /\ Join(w, CR, <<LF>> \o f) \in Seq(S \ {NUL})
              /\ Behind(Parse(type, Join(w, CR, <<LF>> \o f)), line, headers, e \o f)
          BY <1>6, <2>1, <3>2, <5>1, BodyIsParsed
        <5> QED
          BY <5>2 DEF e
      <4>2. <<>> \o f = f
        BY ConcatEmptySeq
      <4> QED
        BY <4>1, <4>2, Zenon DEF Cat, lf
    <3> QED
      BY <3>1, <3>2
  <2>3. Behind(Parse(type, z), line, headers, f)
    <3>1. Behind(Parse(type, Join(t, CR, <<LF>>)), line, headers, f)
      <4> HIDE DEF t
      <4> QED
        BY <2>1, <2>2, BlankStays
    <3>2. t \o <<CR, LF>> = Join(t, CR, <<LF>>)
      <4>1. t \in Seq(S)
        BY <2>2, SeqMonotone
      <4> HIDE DEF t
      <4> QED
        BY <2>1, <4>1, BlankLine
    <3> QED
      BY <1>4, <3>1, <3>2
  <2> QED
    BY <2>3 DEF Behind
<1>7. Parse(type, z).body \in Seq(S \ {CR, NUL})
  BY <1>2, ParseClean DEF Clean
<1> QED
  BY <1>2, <1>5, <1>6, <1>7 DEF ReadTo

(* What the client's parser has of an answer whose headers are lines.      *)
LEMMA AnswerIsRead ==
  ASSUME NEW a, IsResponse(a), HeadersAreLines(a)
  PROVE  LET r == ParseResponse(CString(ResponseText(a)))
             body == FlattenSeq(a.body)
         IN /\ r.status = <<a.status>>
            /\ r.phrase = <<Head(Phrase[a.status])>>
            /\ r.body = body <=> body \in Seq(Symbols \ {CR, NUL})
            /\ DOMAIN r.headers = DOMAIN a.headers
            /\ \A k \in DOMAIN a.headers :
                 r.headers[k] = <<SP>> \o a.headers[k] <=> a.headers[k] \in Seq(Symbols \ {":"})
<1> DEFINE S == Symbols
           h == a.headers
           f == FlattenSeq(a.body)
           z == ResponseText(a)
           all == Merged("response_t", <<>>, h, DOMAIN h)
           p == Parse("response_t", z)
           r == ParseResponse(CString(z))
<1>1. {CR, LF, SP, ":"} \subseteq S /\ f \in Seq(S)
  BY TextsAreSymbols, AnswerShape
<1>2. PICK w \in Seq(S \ {NUL}) : AnswerHead(a) = w \o <<CR, LF>> /\ HeadParsed(a, w)
  BY AnswerHeadParsed
<1>3. PICK line : /\ Behind(Parse("response_t", w), line, all, <<>>)
                  /\ Token(line[1], 2) = <<a.status>>
                  /\ Token(line[1], 3) = <<Head(Phrase[a.status])>>
  BY <1>2 DEF HeadParsed
<1> HIDE DEF S, all
<1>4. z \in Seq(S) /\ Past(p, line, all) /\ (p.body = f <=> f \in Seq(S \ {CR, NUL}))
  <2>1. CASE a.body = <<>>
    <3>1. z = w \o <<CR, LF>> /\ f = <<>>
      BY <1>2, <2>1, AnswerShape
    <3> HIDE DEF z, f
    <3>2. {CR, LF} \subseteq S
      BY <1>1
    <3>3. w \in Seq(S)
      BY SeqMonotone
    <3>4. w \o <<CR, LF>> = Join(w, CR, <<LF>>) /\ w \o <<CR, LF>> \in Seq(S)
      BY <3>2, <3>3, BlankLine
    <3>5. Behind(Parse("response_t", Join(w, CR, <<LF>>)), line, all, <<>>)
      <4>1. Behind(Parse("response_t", w), line, all, <<>>)
        BY <1>3
      <4> QED
        BY <3>2, <4>1, BlankStays
    <3>6. z = Join(w, CR, <<LF>>)
      BY <3>1, <3>4
    <3>7. Behind(p, line, all, <<>>)
      BY <3>5, <3>6
    <3>8. Past(p, line, all) /\ p.body = <<>>
      <4> HIDE DEF p
      <4> QED
        BY <3>7 DEF Past, Behind
    <3>9. f \in Seq(S \ {CR, NUL}) /\ z \in Seq(S)
      BY <3>1, <3>4, EmptySeq
    <3> QED
      BY <3>1, <3>8, <3>9
  <2>2. CASE a.body # <<>>
    <3>1. z = Cat(Cat(w, <<CR, LF>>), Cat(f, <<CR, LF>>))
      <4>1. z = Cat(AnswerHead(a), Cat(f, <<CR, LF>>))
        BY <2>2, AnswerShape
      <4> QED
        BY <1>2, <4>1, Zenon DEF Cat
    <3> HIDE DEF z, f
    <3>2. Behind(Parse("response_t", w), line, all, <<>>)
      BY <1>3
    <3> DEFINE type == "response_t"
    <3>3. Behind(Parse(type, w), line, all, <<>>)
      BY <3>2
    <3> HIDE DEF type
    <3>4. z \in Seq(S) /\ ReadTo(Parse(type, z), line, all, f, S)
      BY <1>1, <3>1, <3>3, EndIsRead
    <3> QED
      BY <3>4 DEF type, ReadTo
  <2> QED
    BY <2>1, <2>2
<1> HIDE DEF z, p
<1>5. Parse("response_t", CString(z)) = p
  BY <1>4, ParseCString DEF p
<1>6. r.status = Token(p.line, 2) /\ r.phrase = Token(p.line, 3) /\ r.headers = p.headers /\ r.body = p.body
  BY <1>5 DEF ParseResponse
<1>7. p.line = line[1] /\ p.headers = all
  <2>1. First(p) = line /\ p.headers = all
    BY <1>4 DEF Past, Behind
  <2>2. First(p)[1] = p.line
    BY DEF First
  <2> QED
    BY <2>1, <2>2
<1>8. DOMAIN all = DOMAIN h
  BY DEF all, Merged
<1>9. ASSUME NEW k \in DOMAIN h
      PROVE  all[k] = <<SP>> \o h[k] <=> h[k] \in Seq(S \ {":"})
  <2>1. all[k] = FirstPart(h[k])
    <3>1. all[k] = HeaderValue("response_t", FirstPart(h[k]))
      BY DEF all, Merged
    <3>2. "response_t" # "request_t"
      OBVIOUS
    <3> QED
      BY <3>1, <3>2 DEF HeaderValue
  <2>2. h[k] \in Seq(S) /\ SP \in S
    <3>1. h[k] \in Seq(S \ {CR, NUL})
      BY DEF HeadersAreLines, h, S
    <3>2. S \ {CR, NUL} \subseteq S
      OBVIOUS
    <3> QED
      BY <1>1, <3>1, <3>2, SeqMonotone
  <2> DEFINE v == h[k]
  <2> HIDE DEF v
  <2>3. FirstPart(v) = <<SP>> \o v <=> v \in Seq(S \ {":"})
    BY <2>2, FirstPartIs DEF v
  <2> QED
    BY <2>1, <2>3 DEF v
<1> HIDE DEF r
<1>10. r.status = <<a.status>> /\ r.phrase = <<Head(Phrase[a.status])>>
  BY <1>3, <1>6, <1>7
<1>11. r.body = f <=> f \in Seq(S \ {CR, NUL})
  BY <1>4, <1>6
<1>12. DOMAIN r.headers = DOMAIN h
  BY <1>6, <1>7, <1>8
<1>13. \A k \in DOMAIN h : r.headers[k] = <<SP>> \o h[k] <=> h[k] \in Seq(S \ {":"})
  <2>1. r.headers = all
    BY <1>6, <1>7
  <2> QED
    BY <1>9, <2>1, Zenon
<1> QED
  BY <1>10, <1>11, <1>12, <1>13 DEF r, h, f, S, z

-----------------------------------------------------------------------------
(* The server's parser reads a request back exactly if it is plain.        *)
LEMMA RequestReadBack ==
  ASSUME NEW m, IsRequest(m), ToString(Len(m.body)) \notin {CR, NUL, ":"},
         <<"Host">> \in DOMAIN m.headers => OneLineText(m.headers[<<"Host">>]), NEW method
  PROVE  LET r == ParseRequest(CString(BuildRequest(m)), method)
         IN PlainMessage(m) <=> /\ ~r.null
                                /\ r.method = m.method /\ r.endpoint = m.endpoint
                                /\ r.headers = HeadersOf(m) /\ r.body = m.body
<1> DEFINE S == Letters(m)
           text == BuildRequest(m)
           p == Parse("request_t", text)
           r == ParseRequest(CString(text), method)
<1>1. text \in Seq(S)
  BY RequestType
<1>2. Parse("request_t", CString(text)) = p
  <2> HIDE DEF S, text
  <2> QED
    BY <1>1, ParseCString
<1>3. /\ p.line # <<>> => r.method = MethodOf(Token(p.line, 1))
      /\ r.endpoint = Token(p.line, 2)
      /\ r.headers = p.headers /\ r.body = p.body /\ r.null = p.null
  <2> HIDE DEF p, text
  <2> QED
    BY <1>2 DEF ParseRequest
<1>4. ASSUME PlainMessage(m)
      PROVE  /\ ~r.null
             /\ r.method = m.method /\ r.endpoint = m.endpoint
             /\ r.headers = HeadersOf(m) /\ r.body = m.body
  <2>1. IsPlain(m, S)
    BY <1>4, PlainIs
  <2>2. <<"Host">> \in DOMAIN m.headers => m.headers[<<"Host">>] \in Seq(S \ {CR, NUL})
    BY RequestTexts, PlainTextIs
  <2>3. /\ p.line = <<<<m.method>>, m.endpoint>> /\ p.null = FALSE
        /\ p.headers = HeadersOf(m) /\ p.body = m.body
    BY <2>1, <2>2, PlainIsRead
  <2>4. p.line # <<>> /\ Token(p.line, 1) = <<m.method>> /\ Token(p.line, 2) = m.endpoint
    <3> HIDE DEF p
    <3> DEFINE a == <<m.method>>
               e == m.endpoint
    <3>1. p.line = <<a, e>>
      BY <2>3
    <3> HIDE DEF a, e
    <3>2. p.line # <<>> /\ Token(p.line, 1) = a /\ Token(p.line, 2) = e
      BY <3>1 DEF Token
    <3> QED
      BY <3>2 DEF a, e
  <2>5. MethodOf(<<m.method>>) = m.method
    BY MethodIsWord DEF IsRequest
  <2> HIDE DEF p, r
  <2> QED
    BY <1>3, <2>3, <2>4, <2>5
<1>5. ASSUME r.endpoint = m.endpoint, r.headers = HeadersOf(m), r.body = m.body
      PROVE  PlainMessage(m)
  <2>1. Token(p.line, 2) = m.endpoint /\ p.headers = HeadersOf(m) /\ p.body = m.body
    <3> HIDE DEF p, r
    <3> QED
      BY <1>3, <1>5
  <2>2. IsPlain(m, S)
    BY <2>1, ReadIsPlain
  <2> QED
    BY <2>2, PlainIs
<1> QED
  BY <1>4, <1>5

(* What arrives whole is the text.                                         *)
LEMMA ArrivesWhole ==
  ASSUME NEW S, NEW text \in Seq(S), NEW thirds \in Thirds, NEW method,
         Arrived(text, thirds, method).whole
  PROVE  Arrived(text, thirds, method).request = ParseRequest(text, method)
<1> DEFINE l == Len(text)
           n == (l * thirds) \div 3
           k == IF n < l - n THEN l - n ELSE 0
           q == ParseRequest(SubSeq(text, 1, n) \o SubSeq(text, 1, k), method)
<1>1. Arrived(text, thirds, method) = [whole |-> thirds = 3, request |-> q]
  BY DEF Arrived
<1>2. l \in Nat /\ SubSeq(text, 1, l) \o SubSeq(text, 1, 0) = text
  <2>1. SubSeq(text, 1, l) = text /\ SubSeq(text, 1, 0) = <<>>
    BY SubSeqFull, SubSeqEmpty
  <2>2. text \o <<>> = text
    BY ConcatEmptySeq
  <2> QED
    BY <2>1, <2>2
<1> HIDE DEF q
<1>3. thirds = 3
  <2> DEFINE e == [whole |-> thirds = 3, request |-> q]
  <2>1. e.whole => thirds = 3
    OBVIOUS
  <2>2. Arrived(text, thirds, method) = e
    BY <1>1
  <2> HIDE DEF e
  <2> QED
    BY <2>1, <2>2
<1>4. n = l /\ k = 0
  <2> HIDE DEF l
  <2>1. (l * 3) \div 3 = l
    BY <1>2
  <2>2. n = l
    BY <1>3, <2>1
  <2> QED
    BY <1>2, <2>2
<1> HIDE DEF n, k
<1>5. q = ParseRequest(text, method)
  BY <1>2, <1>4 DEF q
<1> QED
  BY <1>1, <1>5

(* So it does of whatever has arrived of a request the client built.       *)
LEMMA ArrivedType ==
  ASSUME NEW m, IsRequest(m), NEW thirds \in Thirds, NEW method
  PROVE  /\ Arrived(CString(BuildRequest(m)), thirds, method).whole \in BOOLEAN
         /\ Arrived(CString(BuildRequest(m)), thirds, method).request.null \in BOOLEAN
<1> DEFINE S == Letters(m)
           built == BuildRequest(m)
           text == CString(built)
           n == (Len(text) * thirds) \div 3
           k == IF n < Len(text) - n THEN Len(text) - n ELSE 0
           x == SubSeq(text, 1, n) \o SubSeq(text, 1, k)
<1>1. built \in Seq(S)
  BY RequestType
<1> HIDE DEF S, built
<1>4. text \in Seq(S)
  <2>1. text \in Seq(S \ {NUL})
    BY <1>1, CStringType
  <2> QED
    BY <2>1, SeqMonotone
<1> HIDE DEF text
<1>5. n \in 0..Len(text) /\ k \in 0..Len(text)
  <2> DEFINE l == Len(text)
  <2>1. l \in Nat
    BY <1>4
  <2> HIDE DEF l
  <2>2. (l * thirds) \div 3 \in 0..l
    BY <2>1 DEF Thirds
  <2>3. n \in 0..l
    BY <2>2 DEF l
  <2> HIDE DEF n
  <2> QED
    BY <2>1, <2>3 DEF l
<1> HIDE DEF n, k
<1>6. x \in Seq(S)
  BY <1>4, <1>5, PrefixProperties, ConcatProperties
<1>7. ParseRequest(x, method).null \in BOOLEAN
  <2> HIDE DEF x
  <2> QED
    BY <1>6, RequestIsParsed
<1>8. Arrived(text, thirds, method) = [whole |-> thirds = 3, request |-> ParseRequest(x, method)]
  BY DEF Arrived, n, k
<1>9. (thirds = 3) \in BOOLEAN
  BY Zenon
<1> HIDE DEF x
<1> QED
  BY <1>7, <1>8, <1>9 DEF text, built

-----------------------------------------------------------------------------
Steps == Connected \cup {"new", "wait", "socket", "return", "done"}

(* The variables that say who holds the socket, and what is left of a      *)
(* socket once the library is cleaned up.                                  *)
HoldersOK ==
  /\ mutex_ \in Senders \cup {None}
  /\ pc \in [Senders -> Steps]
  /\ _socket \in Handles \cup {None}
  /\ peer \in [Handles -> Senders \cup {None}]
  /\ initialized \in BOOLEAN
  /\ ~initialized => \A h \in Handles : peer[h] = None

HInv == HoldersOK /\ OneOpenSocket

Inside(s) == pc[s] \in Connected \cup {"socket", "return"}

(* Initially nobody is inside.                                             *)
LEMMA InitHInv == Init => HInv
<1> SUFFICES ASSUME Init PROVE HInv
  OBVIOUS
<1>1. initialized \in BOOLEAN
  BY Zenon DEF Init
<1> QED
  BY <1>1, NobodyAssumption DEF Init, HInv, HoldersOK, OneOpenSocket, Steps, Connected

(* Nobody is inside while the mutex is free, and nothing is open.          *)
LEMMA FreeMeansClosed ==
  ASSUME HInv, mutex_ = None
  PROVE  /\ \A s \in Senders : ~Inside(s)
         /\ \A h \in Handles : peer[h] = None
  BY NobodyAssumption DEF HInv, HoldersOK, OneOpenSocket, Inside

(* The thread inside is alone, and only its socket is open.                *)
LEMMA InsideIsAlone ==
  ASSUME HInv, NEW s \in Senders, Inside(s)
  PROVE  /\ mutex_ = s
         /\ \A t \in Senders \ {s} : ~Inside(t)
         /\ \A h \in Handles : peer[h] # None => _socket = h /\ peer[h] = s
         /\ pc[s] \notin Connected => \A h \in Handles : peer[h] = None
  BY DEF HInv, HoldersOK, OneOpenSocket, Inside

(* Closing _socket leaves nothing open.                                    *)
LEMMA CloseClosesAll ==
  ASSUME HInv, NEW s \in Senders, Inside(s), Close(_socket)
  PROVE  /\ peer' \in [Handles -> Senders \cup {None}]
         /\ \A h \in Handles : peer'[h] = None
<1>1. CASE _socket = None
  BY <1>1, InsideIsAlone, NobodyAssumption DEF Close, HInv, HoldersOK
<1>2. CASE _socket # None
  BY <1>2, InsideIsAlone DEF Close, HInv, HoldersOK
<1> QED
  BY <1>1, <1>2

(* main() starts threads while nobody is inside, or takes everything away. *)
LEMMA MainHInv ==
  ASSUME HInv, Spawn \/ MainReturns \/ Terminate \/ ServerStep
  PROVE  HInv'
<1> USE DEF HInv
<1>1. CASE Spawn
  <2>1. /\ UNCHANGED <<mutex_, _socket, initialized, peer>> /\ mutex_ = None
        /\ \A s \in Senders : pc'[s] = "wait" \/ pc'[s] = pc[s]
        /\ pc' \in [Senders -> Steps]
    BY <1>1 DEF Spawn, HoldersOK, Steps
  <2>2. \A s \in Senders : ~Inside(s)' /\ ~Inside(s)
    BY <2>1, FreeMeansClosed DEF Inside, Connected
  <2>3. HoldersOK'
    BY <2>1 DEF HoldersOK
  <2>4. OneOpenSocket'
    BY <2>1, <2>2, FreeMeansClosed, NobodyAssumption DEF OneOpenSocket, Inside
  <2> QED
    BY <2>3, <2>4
<1>2. CASE MainReturns
  <2>1. /\ UNCHANGED <<mutex_, pc, _socket>>
        /\ peer' = [h \in Handles |-> None]
    BY <1>2 DEF MainReturns
  <2>2. initialized' \in BOOLEAN /\ ~initialized'
    BY <1>2, Zenon DEF MainReturns
  <2>3. HoldersOK'
    BY <2>1, <2>2 DEF HoldersOK
  <2>4. OneOpenSocket'
    BY <2>1, <2>2 DEF OneOpenSocket
  <2> QED
    BY <2>3, <2>4
<1>3. CASE Terminate \/ ServerStep
  <2>1. UNCHANGED <<mutex_, pc, _socket, initialized, peer>>
    BY <1>3 DEF Terminate, ServerStep, clientVars
  <2> QED
    BY <2>1 DEF HoldersOK, OneOpenSocket
<1> QED
  BY <1>1, <1>2, <1>3

(* The thread that takes the mutex, and the one that leaves it.            *)
LEMMA LockHInv ==
  ASSUME HInv, NEW s \in Senders, Lock(s) \/ Return(s)
  PROVE  HInv'
<1> USE DEF HInv
<1>1. UNCHANGED <<_socket, initialized, peer>>
  BY DEF Lock, Return
<1>2. CASE Lock(s)
  <2>1. /\ mutex_ = None /\ mutex_' = s
        /\ pc' = [pc EXCEPT ![s] = IF initialized THEN "socket" ELSE "return"]
    BY <1>2 DEF Lock, Go
  <2>2. HoldersOK'
    BY <1>1, <2>1 DEF HoldersOK, Steps
  <2>3. \A t \in Senders : Inside(t)' <=> t = s
    BY <2>1, FreeMeansClosed DEF Inside, HoldersOK
  <2>4. \A t \in Senders : pc'[t] \notin Connected
    BY <2>1, FreeMeansClosed DEF Inside, HoldersOK, Connected
  <2>5. OneOpenSocket'
    BY <1>1, <2>1, <2>3, <2>4, FreeMeansClosed DEF OneOpenSocket, Inside
  <2> QED
    BY <2>2, <2>5
<1>3. CASE Return(s)
  <2>1. /\ pc[s] = "return" /\ mutex_' = None /\ pc' = [pc EXCEPT ![s] = "done"]
    BY <1>3 DEF Return, At, Go
  <2>2. HoldersOK'
    BY <1>1, <2>1 DEF HoldersOK, Steps
  <2>3. Inside(s) /\ pc[s] \notin Connected
    BY <2>1 DEF Inside, Connected
  <2>4. \A t \in Senders : ~Inside(t)'
    BY <2>1, <2>3, InsideIsAlone DEF Inside, HoldersOK, Connected
  <2>5. \A h \in Handles : peer[h] = None
    BY <2>3, InsideIsAlone
  <2>6. OneOpenSocket'
    BY <1>1, <2>1, <2>4, <2>5, NobodyAssumption DEF OneOpenSocket, Inside
  <2> QED
    BY <2>2, <2>6
<1> QED
  BY <1>2, <1>3

(* The thread inside goes on, with its socket or without one.              *)
LEMMA InsideHInv ==
  ASSUME HInv, NEW s \in Senders,
         \/ Socket(s) \/ SocketFails(s) \/ Resolve(s) \/ ResolveFails(s) \/ Connects(s)
         \/ ConnectFails(s) \/ Send(s) \/ Receive(s) \/ CloseSocket(s)
  PROVE  HInv'
<1> USE DEF HInv
<1>1. UNCHANGED <<mutex_, initialized>>
  BY DEF Socket, SocketFails, Resolve, ResolveFails, Connects, ConnectFails, Send, Receive,
         CloseSocket, localVars
<1>2. Inside(s)
  BY DEF Socket, SocketFails, Resolve, ResolveFails, Connects, ConnectFails, Send, Receive,
         CloseSocket, At, Inside, Connected
<1>3. CASE Socket(s)
  <2>1. PICK h \in Handles : _socket' = h /\ peer' = [peer EXCEPT ![h] = s]
    BY <1>3 DEF Socket
  <2>2. pc[s] = "socket" /\ pc' = [pc EXCEPT ![s] = "resolve"] /\ initialized
    BY <1>3 DEF Socket, At, Go
  <2>3. \A g \in Handles : peer[g] = None
    BY <1>2, <2>2, InsideIsAlone DEF Connected
  <2>4. peer'[h] = s /\ \A g \in Handles : peer'[g] # None => g = h
    BY <2>1, <2>3 DEF HoldersOK
  <2>5. HoldersOK'
    BY <1>1, <2>1, <2>2 DEF HoldersOK, Steps, Connected
  <2>6. pc'[s] = "resolve" /\ \A t \in Senders \ {s} : pc'[t] = pc[t]
    BY <2>2 DEF HoldersOK
  <2>7. mutex_ = s /\ \A t \in Senders \ {s} : ~Inside(t)
    BY <1>2, InsideIsAlone
  <2>8. OneOpenSocket'
    BY <1>1, <2>1, <2>4, <2>6, <2>7, NobodyAssumption DEF OneOpenSocket, Inside, Connected
  <2> QED
    BY <2>5, <2>8
<1>4. ASSUME \/ SocketFails(s) \/ ConnectFails(s) \/ CloseSocket(s)
             \/ ResolveFails(s) /\ Close(_socket) /\ Go(s, "return")
      PROVE  HInv'
  <2>1. pc' = [pc EXCEPT ![s] = "return"]
    BY <1>4 DEF SocketFails, ConnectFails, CloseSocket, Go
  <2>2. _socket' \in Handles \cup {None}
    BY <1>4 DEF SocketFails, ConnectFails, CloseSocket, ResolveFails, HoldersOK
  <2>3. /\ peer' \in [Handles -> Senders \cup {None}]
        /\ \A h \in Handles : peer'[h] = None
    <3>1. CASE SocketFails(s)
      <4>1. pc[s] = "socket" /\ peer' = peer
        BY <3>1 DEF SocketFails, At
      <4> QED
        BY <1>2, <4>1, InsideIsAlone DEF HoldersOK, Connected
    <3>2. CASE Close(_socket)
      BY <1>2, <3>2, CloseClosesAll
    <3> QED
      BY <1>4, <3>1, <3>2 DEF ConnectFails, CloseSocket
  <2>4. HoldersOK'
    BY <1>1, <2>1, <2>2, <2>3 DEF HoldersOK, Steps
  <2>5. pc'[s] = "return" /\ \A t \in Senders \ {s} : pc'[t] = pc[t]
    BY <2>1 DEF HoldersOK
  <2>6. mutex_ = s /\ \A t \in Senders \ {s} : ~Inside(t)
    BY <1>2, InsideIsAlone
  <2>7. OneOpenSocket'
    BY <1>1, <2>3, <2>5, <2>6 DEF OneOpenSocket, Inside, Connected
  <2> QED
    BY <2>4, <2>7
<1>5. ASSUME \/ Resolve(s) \/ Connects(s) \/ Send(s) \/ Receive(s)
             \/ ResolveFails(s) /\ UNCHANGED <<pc, peer>>
      PROVE  HInv'
  <2>1. /\ UNCHANGED <<_socket, peer>>
        /\ pc[s] \in Connected
        /\ pc' = pc \/ \E l \in Connected : pc' = [pc EXCEPT ![s] = l]
    BY <1>5 DEF Resolve, Connects, Send, Receive, ResolveFails, At, Go, Connected
  <2>2. /\ pc' \in [Senders -> Steps] /\ pc'[s] \in Connected
        /\ \A t \in Senders \ {s} : pc'[t] = pc[t]
    BY <2>1 DEF HoldersOK, Steps
  <2>3. HoldersOK'
    BY <1>1, <2>1, <2>2 DEF HoldersOK
  <2>4. OneOpenSocket'
    BY <1>1, <2>1, <2>2 DEF OneOpenSocket
  <2> QED
    BY <2>3, <2>4
<1>6. ResolveFails(s) => (Close(_socket) /\ Go(s, "return")) \/ UNCHANGED <<pc, peer>>
  BY DEF ResolveFails
<1> QED
  BY <1>3, <1>4, <1>5, <1>6

(* No step breaks the invariant of the holders.                            *)
LEMMA NextHInv ==
  ASSUME HInv, [Next]_vars
  PROVE  HInv'
<1>1. CASE UNCHANGED vars
  BY <1>1 DEF HInv, HoldersOK, OneOpenSocket, vars, clientVars
<1>2. CASE Next
  BY <1>2, MainHInv, LockHInv, InsideHInv DEF Next, Step
<1> QED
  BY <1>1, <1>2

(* However many threads share the one request_sender_t, at most one socket *)
(* is open: the one _socket names, made for the request of the thread that *)
(* holds the mutex; every way out of create_connection() and               *)
(* send_request() closes it (http_client.cpp:30-70, 90-122).               *)
THEOREM OneSocketAtATime == Spec => []OneOpenSocket
<1>1. Spec => []HInv
  BY InitHInv, NextHInv, PTL DEF Spec
<1>2. HInv => OneOpenSocket
  BY DEF HInv
<1> QED
  BY <1>1, <1>2, PTL

-----------------------------------------------------------------------------
(* What a thread has sent, been answered and been given, wherever it is:   *)
(* nothing has been sent before the send loop and nothing is kept after    *)
(* the end; an answer is read whole enough to have a status; and when      *)
(* the thread inside has read to the end, send_request() returns exactly   *)
(* what the server sent.                                                   *)
Sender(s) ==
  /\ phase[s] \in {"away", "waiting", "held"} \/ pc[s] = "send" => answers[s] = 0
  /\ IF Inside(s) THEN message[s] \in Messages(s) ELSE message[s] = NoMessage
  /\ sent[s] > 0 => pc[s] \in {"receive", "close", "return"}
  /\ pc[s] = "receive" => sent[s] > 0
  /\ received[s].whole \in BOOLEAN /\ received[s].request.null \in BOOLEAN
  /\ IF answers[s] = 1 /\ sent[s] > 0
     THEN /\ answer[s].of \in Answers(message[s]) /\ answer[s].read # Empty
          /\ ~received[s].request.null
     ELSE answer[s] = NoAnswer
  /\ (pc[s] \in {"close", "return"} /\ sent[s] > 0 /\ initialized)
       => phase[s] = "closed" /\ response = answer[s].read
  /\ mutex_ = s /\ (sent[s] = 0 \/ pc[s] = "receive") => response = Empty

Shapes ==
  /\ phase \in [Senders -> {"away", "waiting", "held", "answered", "closed"}]
  /\ answers \in [Senders -> {0, 1}]
  /\ sent \in [Senders -> Thirds]
  /\ DOMAIN message = Senders /\ DOMAIN received = Senders /\ DOMAIN answer = Senders
  /\ iteration \in 0..Len(Batches)
  /\ mainPc \in {"spawn", "get", "returned"}
  /\ aborted \in BOOLEAN
  /\ mutex_ = None => response = Empty

SInv == Shapes /\ \A s \in Senders : Sender(s)

(* The request of nobody has its types.                                    *)
LEMMA NothingIsParsed ==
  Nothing.whole \in BOOLEAN /\ Nothing.request.null \in BOOLEAN
<1>1. <<>> \in Seq({})
  BY EmptySeq
<1>2. ParseRequest(<<>>, "GET").null \in BOOLEAN
  BY <1>1, RequestIsParsed
<1> QED
  BY <1>2 DEF Nothing

(* Initially nothing has been sent.                                        *)
LEMMA InitSInv == Init => SInv
<1> SUFFICES ASSUME Init PROVE SInv
  OBVIOUS
<1>1. aborted \in BOOLEAN
  BY Zenon DEF Init
<1>2. Len(Batches) \in Nat
  BY BatchesAssumption
<1>3. Shapes
  BY <1>1, <1>2 DEF Init, Shapes, Server!Init, Thirds
<1>4. ASSUME NEW s \in Senders PROVE Sender(s)
  <2>1. /\ phase[s] = "away" /\ answers[s] = 0 /\ pc[s] = "new" /\ sent[s] = 0 /\ mutex_ # s
        /\ message[s] = NoMessage /\ received[s] = Nothing /\ answer[s] = NoAnswer
    BY NobodyAssumption DEF Init, Server!Init
  <2> QED
    BY <2>1, NothingIsParsed DEF Sender, Inside, Connected
<1> QED
  BY <1>3, <1>4 DEF SInv

(* A thread outside stays as it is while others move.                      *)
LEMMA OutsideStays ==
  ASSUME NEW s \in Senders, Sender(s), sent[s] \in Thirds, ~Inside(s), mutex_' # s,
         pc'[s] = pc[s] \/ pc'[s] = "wait",
         phase'[s] = phase[s], answers'[s] = answers[s], message'[s] = message[s],
         sent'[s] = sent[s], received'[s] = received[s], answer'[s] = answer[s]
  PROVE  Sender(s)'
<1>1. ~Inside(s)' /\ pc'[s] \notin {"send", "receive", "close", "return"}
  BY DEF Inside, Connected
<1>2. sent[s] = 0
  BY DEF Sender, Inside, Connected, Thirds
<1> QED
  BY <1>1, <1>2 DEF Sender

(* What main() does.                                                       *)
LEMMA MainSInv ==
  ASSUME SInv, HInv, Spawn \/ MainReturns \/ Terminate
  PROVE  SInv'
<1>1. CASE Spawn
  <2>1. /\ UNCHANGED <<phase, answers, received, answer, mutex_, message, sent, response, aborted>>
        /\ mutex_ = None /\ iteration' = iteration + 1 /\ iteration < Len(Batches)
        /\ mainPc' \in {"spawn", "get", "returned"}
        /\ \A s \in Senders : pc'[s] = pc[s] \/ pc'[s] = "wait"
    BY <1>1 DEF Spawn, serverVars
  <2>2. Len(Batches) \in Nat
    BY BatchesAssumption
  <2>3. Shapes'
    BY <2>1, <2>2 DEF SInv, Shapes
  <2>4. ASSUME NEW s \in Senders PROVE Sender(s)'
    <3>1. ~Inside(s) /\ mutex_' # s
      BY <2>1, FreeMeansClosed, NobodyAssumption
    <3>2. Sender(s) /\ sent[s] \in Thirds
      BY DEF SInv, Shapes
    <3> QED
      BY <2>1, <3>1, <3>2, OutsideStays
  <2> QED
    BY <2>3, <2>4 DEF SInv
<1>2. CASE MainReturns
  <2>1. /\ UNCHANGED <<serverVars, mutex_, pc, iteration, message, sent, response, aborted>>
        /\ mainPc' = "returned" /\ ~initialized'
    BY <1>2 DEF MainReturns
  <2>2. Shapes'
    BY <2>1 DEF SInv, Shapes, serverVars
  <2>3. \A s \in Senders : Sender(s)'
    BY <2>1 DEF SInv, Sender, Inside, serverVars
  <2> QED
    BY <2>2, <2>3 DEF SInv
<1>3. CASE Terminate
  <2>1. aborted' \in BOOLEAN
    BY <1>3, Zenon DEF Terminate
  <2>2. UNCHANGED <<serverVars, mutex_, pc, mainVars, initialized, message, sent, response>>
    BY <1>3 DEF Terminate
  <2>3. Shapes'
    BY <2>1, <2>2 DEF SInv, Shapes, serverVars, mainVars
  <2>4. \A s \in Senders : Sender(s)'
    BY <2>2 DEF SInv, Sender, Inside, serverVars
  <2> QED
    BY <2>3, <2>4 DEF SInv
<1> QED
  BY <1>1, <1>2, <1>3

(* The server has parsed what has arrived of a request of a thread inside. *)
LEMMA ParsesType ==
  ASSUME SInv, NEW s \in Senders, Parses(s)
  PROVE  /\ Inside(s) /\ message[s] \in Messages(s) /\ IsRequest(message[s])
         /\ phase[s] = "held" /\ answers[s] = 0 /\ answer[s] = NoAnswer /\ sent[s] > 0
         /\ received'[s].whole \in BOOLEAN /\ received'[s].request.null \in BOOLEAN
         /\ DOMAIN received' = Senders /\ \A t \in Senders \ {s} : received'[t] = received[t]
<1>1. PICK method \in Methods \cup {"NONE"} :
        received' = [received EXCEPT ![s] = Arrived(CString(BuildRequest(message[s])), sent[s], method)]
  BY DEF Parses
<1>2. Sender(s) /\ sent[s] \in Thirds /\ phase[s] = "held" /\ sent[s] > 0
  BY DEF SInv, Shapes, Parses
<1>3. Inside(s) /\ message[s] \in Messages(s) /\ answers[s] = 0 /\ answer[s] = NoAnswer
  BY <1>2 DEF Sender, Inside, Connected
<1>4. IsRequest(message[s])
  BY <1>3, TextsAssumption
<1> DEFINE e == Arrived(CString(BuildRequest(message[s])), sent[s], method)
<1>5. e.whole \in BOOLEAN /\ e.request.null \in BOOLEAN
  BY <1>2, <1>4, ArrivedType
<1>6. DOMAIN received = Senders
  BY DEF SInv, Shapes
<1>7. received' = [received EXCEPT ![s] = e]
  BY <1>1
<1> HIDE DEF e
<1>8. /\ received'[s].whole \in BOOLEAN /\ received'[s].request.null \in BOOLEAN
      /\ DOMAIN received' = Senders /\ \A t \in Senders \ {s} : received'[t] = received[t]
  BY <1>5, <1>6, <1>7
<1> QED
  BY <1>2, <1>3, <1>4, <1>8

(* The server parses, and sends nothing: connections only come closer to   *)
(* their end.                                                              *)
Gone ==
  /\ UNCHANGED <<answers, answer>>
  /\ phase' \in [Senders -> {"away", "waiting", "held", "answered", "closed"}]
  /\ \A t \in Senders : /\ phase[t] = "closed" => phase'[t] = "closed"
                        /\ phase'[t] \in {"away", "waiting", "held"}
                             => phase[t] \in {"away", "waiting", "held"}

LEMMA GoneSInv ==
  ASSUME SInv, UNCHANGED clientVars, NEW s \in Senders, Parses(s), Gone
  PROVE  SInv'
<1>1. /\ answers[s] = 0
      /\ received'[s].whole \in BOOLEAN /\ received'[s].request.null \in BOOLEAN
      /\ DOMAIN received' = Senders /\ \A t \in Senders \ {s} : received'[t] = received[t]
  BY ParsesType
<1>2. Shapes'
  BY <1>1 DEF SInv, Shapes, Gone, clientVars, mainVars
<1>3. Sender(s)'
  BY <1>1 DEF SInv, Sender, Gone, Inside, clientVars
<1>4. \A t \in Senders \ {s} : Sender(t)'
  BY <1>1 DEF SInv, Sender, Gone, Inside, clientVars
<1> QED
  BY <1>2, <1>3, <1>4 DEF SInv

(* It sends an answer, or a part of it.                                    *)
Sends(s, a) ==
  LET text == CString(ResponseText(a))
  IN \E n \in {Len(text) \div 2 + 1, Len(text)} :
       answer' = [answer EXCEPT ![s] = [of |-> a, whole |-> n = Len(text),
                                        read |-> ParseResponse(SubSeq(text, 1, n))]]

(* The answer it sends has a status, whatever is cut off.                  *)
LEMMA AnswerSInv ==
  ASSUME SInv, UNCHANGED clientVars, NEW s \in Senders, Parses(s), ~received'[s].request.null,
         Server!AnswerOnce(s), NEW a \in Answers(message[s]), Sends(s, a)
  PROVE  SInv'
<1>1. UNCHANGED clientVars
  OBVIOUS
<1> DEFINE text == CString(ResponseText(a))
<1>13. PICK n \in {Len(text) \div 2 + 1, Len(text)} :
         answer' = [answer EXCEPT ![s] = [of |-> a, whole |-> n = Len(text),
                                          read |-> ParseResponse(SubSeq(text, 1, n))]]
  BY DEF Sends
<1>2. /\ phase' = [phase EXCEPT ![s] = "answered"]
      /\ answers' = [answers EXCEPT ![s] = answers[s] + 1]
  BY DEF Server!AnswerOnce, Server!Move
<1>3. Sender(s) /\ sent[s] \in Thirds
  BY DEF SInv, Shapes
<1>4. /\ Inside(s) /\ message[s] \in Messages(s) /\ answers[s] = 0 /\ phase[s] = "held" /\ sent[s] > 0
      /\ received'[s].whole \in BOOLEAN /\ received'[s].request.null \in BOOLEAN
      /\ DOMAIN received' = Senders /\ \A t \in Senders \ {s} : received'[t] = received[t]
      /\ ~received'[s].request.null
  BY ParsesType
<1>5. IsRequest(message[s]) /\ IsResponse(a)
  BY <1>4, TextsAssumption
<1> HIDE DEF text
<1>6. ParseResponse(SubSeq(text, 1, n)).status = <<a.status>>
  <2>1. BeginsAsAnswer(SubSeq(text, 1, n), a.status)
    BY <1>5, AnswerBegins DEF text
  <2>2. a.status \in Symbols \ Separators
    BY <1>5, StatusTexts, TextsAreSymbols DEF IsResponse
  <2> QED
    BY <2>1, <2>2, StatusIsParsed
<1>7. ParseResponse(SubSeq(text, 1, n)) # Empty
  BY <1>6 DEF Empty
<1>8. /\ answer'[s].of = a /\ answer'[s].read = ParseResponse(SubSeq(text, 1, n))
      /\ DOMAIN answer' = Senders /\ \A t \in Senders \ {s} : answer'[t] = answer[t]
  <2> DEFINE e == [of |-> a, whole |-> n = Len(text), read |-> ParseResponse(SubSeq(text, 1, n))]
  <2>1. e.of = a /\ e.read = ParseResponse(SubSeq(text, 1, n))
    OBVIOUS
  <2>2. DOMAIN answer = Senders
    BY DEF SInv, Shapes
  <2>3. answer' = [answer EXCEPT ![s] = e]
    BY <1>13
  <2> HIDE DEF e
  <2> QED
    BY <2>1, <2>2, <2>3
<1>9. /\ phase'[s] = "answered" /\ \A t \in Senders \ {s} : phase'[t] = phase[t]
      /\ answers'[s] = 1 /\ \A t \in Senders \ {s} : answers'[t] = answers[t]
  BY <1>2, <1>4 DEF SInv, Shapes
<1>10. Shapes'
  BY <1>1, <1>2, <1>4, <1>8 DEF SInv, Shapes, clientVars, mainVars
<1>11. Sender(s)'
  BY <1>1, <1>3, <1>4, <1>7, <1>8, <1>9 DEF Sender, Inside, clientVars
<1>12. \A t \in Senders \ {s} : Sender(t)'
  BY <1>1, <1>4, <1>8, <1>9 DEF SInv, Sender, Inside, clientVars
<1> QED
  BY <1>10, <1>11, <1>12 DEF SInv

(* What the server does: an answer, or none.                               *)
LEMMA ServerSInv ==
  ASSUME SInv, ServerStep
  PROVE  SInv'
<1>1. UNCHANGED clientVars
  BY DEF ServerStep
<1>2. ASSUME NEW s \in Senders, ServerAnswers(s), Server!AnswerOnce(s),
             NEW a \in Answers(message[s]), Sends(s, a)
      PROVE  SInv'
  <2>1. Parses(s) /\ ~received'[s].request.null
    BY <1>2, Zenon DEF ServerAnswers
  <2> QED
    BY <1>1, <1>2, <2>1, AnswerSInv
<1>3. CASE \E s \in Senders : ServerAnswers(s) /\ Server!AnswerLost(s) /\ UNCHANGED answer
  <2>1. PICK s \in Senders : Parses(s) /\ Server!AnswerLost(s) /\ UNCHANGED answer
    BY <1>3, Zenon DEF ServerAnswers
  <2>2. Gone
    BY <2>1 DEF Gone, Server!AnswerLost, Server!Move, SInv, Shapes
  <2> QED
    BY <1>1, <2>1, <2>2, GoneSInv
<1>4. CASE \E s \in Senders : ServerEnds(s)
  <2>1. PICK s \in Senders : Parses(s) /\ Server!Crash /\ UNCHANGED answer
    BY <1>4, Zenon DEF ServerEnds
  <2>2. Gone
    BY <2>1 DEF Gone, Server!Crash, SInv, Shapes
  <2> QED
    BY <1>1, <2>1, <2>2, GoneSInv
<1>5. CASE /\ Server!Crash \/ \E s \in Senders : Server!Admit(s) \/ Server!Finish(s)
           /\ UNCHANGED <<received, answer>>
  <2>1. /\ answers' = answers
        /\ phase' \in [Senders -> {"away", "waiting", "held", "answered", "closed"}]
        /\ \A s \in Senders : /\ phase[s] = "closed" => phase'[s] = "closed"
                              /\ phase'[s] \in {"away", "waiting", "held"}
                                   => phase[s] \in {"away", "waiting", "held"}
    BY <1>5 DEF SInv, Shapes, Server!Crash, Server!Admit, Server!Finish, Server!Move
  <2>2. Shapes'
    BY <1>1, <1>5, <2>1 DEF SInv, Shapes, clientVars, mainVars
  <2>3. \A s \in Senders : Sender(s)'
    BY <1>1, <1>5, <2>1 DEF SInv, Sender, Inside, clientVars
  <2> QED
    BY <2>2, <2>3 DEF SInv
<1>6. \A s \in Senders : ServerAnswers(s) =>
        \/ Server!AnswerOnce(s) /\ \E a \in Answers(message[s]) : Sends(s, a)
        \/ Server!AnswerLost(s) /\ UNCHANGED answer
  BY Zenon DEF ServerAnswers, Sends
<1>7. \/ \E s \in Senders : ServerAnswers(s) \/ ServerEnds(s)
      \/ /\ Server!Crash \/ \E s \in Senders : Server!Admit(s) \/ Server!Finish(s)
         /\ UNCHANGED <<received, answer>>
  BY Zenon DEF ServerStep
<1> QED
  BY <1>2, <1>3, <1>4, <1>5, <1>6, <1>7, Zenon

(* Taking the mutex and leaving it: nothing has been sent, or is kept.     *)
LEMMA LockSInv ==
  ASSUME SInv, HInv, NEW s \in Senders, Lock(s) \/ Return(s)
  PROVE  SInv'
<1>1. CASE Lock(s)
  <2>1. PICK m \in Messages(s) : message' = [message EXCEPT ![s] = m]
    BY <1>1 DEF Lock
  <2>2. /\ UNCHANGED <<serverVars, mainVars, initialized, sent, response, aborted>>
        /\ pc[s] = "wait" /\ mutex_ = None /\ mutex_' = s
        /\ pc' = [pc EXCEPT ![s] = IF initialized THEN "socket" ELSE "return"]
    BY <1>1 DEF Lock, At, Go
  <2>3. /\ pc'[s] \in {"socket", "return"} /\ \A t \in Senders \ {s} : pc'[t] = pc[t]
        /\ message'[s] = m /\ \A t \in Senders \ {s} : message'[t] = message[t]
        /\ DOMAIN message' = Senders
    BY <2>1, <2>2 DEF HInv, HoldersOK, SInv, Shapes
  <2>4. Shapes'
    BY <2>2, <2>3, NobodyAssumption DEF SInv, Shapes, serverVars, mainVars
  <2>5. sent[s] = 0 /\ response = Empty
    BY <2>2 DEF SInv, Shapes, Sender, Thirds
  <2>6. Sender(s)'
    BY <2>2, <2>3, <2>5 DEF SInv, Sender, Inside, serverVars
  <2>7. \A t \in Senders \ {s} : Sender(t)'
    <3>1. ASSUME NEW t \in Senders \ {s} PROVE Sender(t)'
      <4>1. ~Inside(t) /\ mutex_' # t /\ Sender(t) /\ sent[t] \in Thirds
        BY <2>2, FreeMeansClosed DEF SInv, Shapes
      <4> QED
        BY <2>2, <2>3, <4>1, OutsideStays DEF serverVars
    <3> QED
      BY <3>1
  <2> QED
    BY <2>4, <2>6, <2>7 DEF SInv
<1>2. CASE Return(s)
  <2>1. /\ UNCHANGED <<phase, answers, mainVars, initialized, aborted>>
        /\ pc[s] = "return" /\ pc' = [pc EXCEPT ![s] = "done"]
        /\ mutex_' = None /\ response' = Empty
        /\ message' = [message EXCEPT ![s] = NoMessage]
        /\ sent' = [sent EXCEPT ![s] = 0]
        /\ received' = [received EXCEPT ![s] = Nothing]
        /\ answer' = [answer EXCEPT ![s] = NoAnswer]
    BY <1>2 DEF Return, At, Go
  <2>2. /\ pc'[s] = "done" /\ message'[s] = NoMessage /\ sent'[s] = 0 /\ received'[s] = Nothing
        /\ answer'[s] = NoAnswer
        /\ \A t \in Senders \ {s} : /\ pc'[t] = pc[t] /\ message'[t] = message[t]
                                    /\ sent'[t] = sent[t] /\ received'[t] = received[t]
                                    /\ answer'[t] = answer[t]
    BY <2>1 DEF HInv, HoldersOK, SInv, Shapes
  <2>3. Shapes'
    BY <2>1 DEF SInv, Shapes, mainVars, Thirds
  <2>4. Sender(s)'
    BY <2>1, <2>2, NothingIsParsed, NobodyAssumption DEF SInv, Sender, Inside, Connected
  <2>5. \A t \in Senders \ {s} : Sender(t)'
    <3>1. ASSUME NEW t \in Senders \ {s} PROVE Sender(t)'
      <4>1. Inside(s)
        BY <2>1 DEF Inside
      <4>2. ~Inside(t) /\ mutex_' # t /\ Sender(t) /\ sent[t] \in Thirds
        BY <2>1, <4>1, InsideIsAlone, NobodyAssumption DEF SInv, Shapes
      <4> QED
        BY <2>1, <2>2, <4>2, OutsideStays
    <3> QED
      BY <3>1
  <2> QED
    BY <2>3, <2>4, <2>5 DEF SInv
<1> QED
  BY <1>1, <1>2

(* The thread inside goes on: what it has sent and what it returns.        *)
LEMMA InsideSInv ==
  ASSUME SInv, HInv, NEW s \in Senders,
         \/ Socket(s) \/ SocketFails(s) \/ Resolve(s) \/ ResolveFails(s) \/ Connects(s)
         \/ ConnectFails(s) \/ Send(s) \/ Receive(s) \/ CloseSocket(s)
  PROVE  SInv'
<1>1. UNCHANGED <<received, answer, answers, mutex_, mainVars, initialized, message>>
  BY DEF Socket, SocketFails, Resolve, ResolveFails, Connects, ConnectFails, Send, Receive,
         CloseSocket, localVars, serverVars, Server!Arrives
<1>2. Inside(s) /\ Sender(s) /\ mutex_ = s /\ sent[s] \in Thirds
  <2>1. Inside(s)
    BY DEF Socket, SocketFails, Resolve, ResolveFails, Connects, ConnectFails, Send, Receive,
           CloseSocket, At, Inside, Connected
  <2> QED
    BY <2>1, InsideIsAlone DEF SInv, Shapes
<1>3. ASSUME Shapes', Sender(s)',
             \A t \in Senders \ {s} : /\ phase'[t] = phase[t] /\ pc'[t] = pc[t]
                                      /\ sent'[t] = sent[t]
      PROVE  SInv'
  <2>1. ASSUME NEW t \in Senders \ {s} PROVE Sender(t)'
    <3>1. ~Inside(t) /\ mutex_' # t /\ Sender(t) /\ sent[t] \in Thirds
      BY <1>1, <1>2, InsideIsAlone DEF SInv, Shapes
    <3> QED
      BY <1>1, <1>3, <3>1, OutsideStays
  <2> QED
    BY <1>3, <2>1 DEF SInv
<1>4. ASSUME \/ Socket(s) \/ SocketFails(s) \/ Resolve(s) \/ ConnectFails(s)
             \/ ResolveFails(s) /\ aborted' = aborted
      PROVE  SInv'
  <2>1. /\ UNCHANGED <<phase, sent, response, aborted>>
        /\ pc[s] \in {"socket", "resolve", "connect"}
        /\ \E l \in {"resolve", "connect", "return"} : pc' = [pc EXCEPT ![s] = l]
    BY <1>4 DEF Socket, SocketFails, Resolve, ResolveFails, ConnectFails, At, Go, localVars, serverVars
  <2>2. pc'[s] \in {"resolve", "connect", "return"} /\ \A t \in Senders \ {s} : pc'[t] = pc[t]
    BY <2>1 DEF HInv, HoldersOK
  <2>3. Shapes'
    BY <1>1, <2>1 DEF SInv, Shapes, mainVars
  <2>4. sent[s] = 0
    BY <1>2, <2>1 DEF Sender, Thirds
  <2>5. Sender(s)'
    BY <1>1, <1>2, <2>1, <2>2, <2>4 DEF Sender, Inside, Connected
  <2> QED
    BY <1>3, <2>1, <2>2, <2>3, <2>5
<1>5. ASSUME \/ ResolveFails(s) /\ aborted' /\ UNCHANGED <<pc, peer>>
             \/ Receive(s) /\ aborted' = TRUE /\ UNCHANGED <<pc, response>>
      PROVE  SInv'
  <2>1. UNCHANGED <<phase, sent, response, pc>> /\ aborted' \in BOOLEAN
    <3>1. UNCHANGED <<phase, sent, response, pc>>
      BY <1>5 DEF ResolveFails, Receive, localVars, serverVars
    <3>2. aborted' = TRUE \/ aborted' = aborted
      BY <1>5, Zenon DEF ResolveFails
    <3>3. aborted' \in BOOLEAN
      BY <3>2, Zenon DEF SInv, Shapes
    <3> QED
      BY <3>1, <3>3
  <2>2. Shapes'
    BY <1>1, <2>1 DEF SInv, Shapes, mainVars
  <2>3. Sender(s)'
    BY <1>1, <1>2, <2>1 DEF Sender, Inside
  <2> QED
    BY <1>3, <2>1, <2>2, <2>3
<1>6. CASE Connects(s)
  <2>1. /\ UNCHANGED <<sent, response, aborted>> /\ pc[s] = "connect"
        /\ phase[s] = "away" /\ phase' = [phase EXCEPT ![s] = "waiting"]
        /\ pc' = [pc EXCEPT ![s] = "send"]
    BY <1>6 DEF Connects, At, Go, localVars, Server!Arrives, Server!Move
  <2>2. /\ pc'[s] = "send" /\ phase'[s] = "waiting"
        /\ \A t \in Senders \ {s} : pc'[t] = pc[t] /\ phase'[t] = phase[t]
    BY <2>1 DEF HInv, HoldersOK, SInv, Shapes
  <2>3. Shapes'
    BY <1>1, <2>1 DEF SInv, Shapes, mainVars
  <2>4. sent[s] = 0
    BY <1>2, <2>1 DEF Sender, Thirds
  <2>5. Sender(s)'
    BY <1>1, <1>2, <2>1, <2>2, <2>4 DEF Sender, Inside, Connected
  <2> QED
    BY <1>3, <2>1, <2>2, <2>3, <2>5
<1>7. CASE Send(s)
  <2>1. PICK n \in Thirds : /\ sent' = [sent EXCEPT ![s] = n]
                            /\ pc' = [pc EXCEPT ![s] = IF n > 0 THEN "receive" ELSE "close"]
    BY <1>7 DEF Send, Go, Thirds
  <2>2. UNCHANGED <<phase, response, aborted>> /\ pc[s] = "send"
    BY <1>7 DEF Send, At, localVars, serverVars
  <2>3. /\ sent'[s] = n /\ pc'[s] = (IF n > 0 THEN "receive" ELSE "close")
        /\ \A t \in Senders \ {s} : pc'[t] = pc[t] /\ sent'[t] = sent[t]
    BY <2>1 DEF HInv, HoldersOK, SInv, Shapes
  <2>4. Shapes'
    BY <1>1, <2>1, <2>2 DEF SInv, Shapes, mainVars
  <2>5. sent[s] = 0 /\ answers[s] = 0 /\ answer[s] = NoAnswer /\ response = Empty
    BY <1>2, <2>2 DEF Sender, Thirds
  <2>6. Sender(s)'
    BY <1>1, <1>2, <2>2, <2>3, <2>5 DEF Sender, Inside, Connected, Thirds
  <2> QED
    BY <1>3, <2>2, <2>3, <2>4, <2>6
<1>8. ASSUME Receive(s), ~answer[s].read.null PROVE SInv'
  <2>1. /\ UNCHANGED <<phase, sent, aborted>> /\ pc[s] = "receive"
        /\ phase[s] = "closed" \/ ~initialized
        /\ response' = answer[s].read
        /\ pc' = [pc EXCEPT ![s] = "close"]
    BY <1>8 DEF Receive, At, Go, serverVars
  <2>2. pc'[s] = "close" /\ \A t \in Senders \ {s} : pc'[t] = pc[t]
    BY <2>1 DEF HInv, HoldersOK
  <2>3. Shapes'
    BY <1>1, <1>2, <2>1, NobodyAssumption DEF SInv, Shapes, mainVars
  <2>4. sent[s] > 0 /\ sent[s] # 0
    BY <1>2, <2>1 DEF Sender, Thirds
  <2>5. Sender(s)'
    BY <1>1, <1>2, <2>1, <2>2, <2>4 DEF Sender, Inside, Connected
  <2> QED
    BY <1>3, <2>1, <2>2, <2>3, <2>5
<1>9. CASE CloseSocket(s)
  <2>1. /\ UNCHANGED <<phase, sent, response, aborted>> /\ pc[s] = "close"
        /\ pc' = [pc EXCEPT ![s] = "return"]
    BY <1>9 DEF CloseSocket, At, Go, localVars, serverVars
  <2>2. pc'[s] = "return" /\ \A t \in Senders \ {s} : pc'[t] = pc[t]
    BY <2>1 DEF HInv, HoldersOK
  <2>3. Shapes'
    BY <1>1, <2>1 DEF SInv, Shapes, mainVars
  <2>4. Sender(s)'
    BY <1>1, <1>2, <2>1, <2>2 DEF Sender, Inside, Connected
  <2> QED
    BY <1>3, <2>1, <2>2, <2>3, <2>4
<1>10. ResolveFails(s) => \/ aborted' = aborted
                          \/ aborted' /\ UNCHANGED <<pc, peer>>
  BY Zenon DEF ResolveFails
<1>11. Receive(s) => \/ aborted' = TRUE /\ UNCHANGED <<pc, response>>
                     \/ ~answer[s].read.null /\ response' = answer[s].read /\ Go(s, "close") /\ UNCHANGED aborted
  BY Zenon DEF Receive
<1> QED
  BY <1>4, <1>5, <1>6, <1>7, <1>8, <1>9, <1>10, <1>11

(* No step breaks the invariant of the requests and answers.               *)
LEMMA NextSInv ==
  ASSUME SInv, HInv, [Next]_vars
  PROVE  SInv'
<1>1. CASE UNCHANGED vars
  BY <1>1 DEF SInv, Shapes, Sender, Inside, vars, clientVars, serverVars, mainVars
<1>2. CASE Next
  BY <1>2, MainSInv, ServerSInv, LockSInv, InsideSInv DEF Next, Step
<1> QED
  BY <1>1, <1>2

(* Both invariants hold throughout.                                        *)
LEMMA InvariantSInv == Spec => [](HInv /\ SInv)
<1>1. Init => HInv /\ SInv
  BY InitHInv, InitSInv
<1>2. HInv /\ SInv /\ [Next]_vars => (HInv /\ SInv)'
  BY NextHInv, NextSInv
<1> QED
  BY <1>1, <1>2, PTL DEF Spec

(* Every variable keeps its type, and an answer that the client has to     *)
(* read fits the message of the thread it is for and comes from a server   *)
(* that got through the request: that met no null pointer in it, cut       *)
(* anywhere and repeated as it may be (http_server/request.cpp:62-75).     *)
THEOREM ClientType == Spec => []TypeOK
<1>1. HInv /\ SInv => TypeOK
  <2> SUFFICES ASSUME HInv, SInv PROVE TypeOK
    OBVIOUS
  <2>1. /\ phase \in [Senders -> {"away", "waiting", "held", "answered", "closed"}]
        /\ answers \in [Senders -> Nat] /\ iteration \in 0..Len(Batches)
        /\ mainPc \in {"spawn", "get", "returned"} /\ aborted \in BOOLEAN
    BY DEF SInv, Shapes
  <2>2. /\ mutex_ \in Senders \cup {None} /\ _socket \in Handles \cup {None}
        /\ initialized \in BOOLEAN /\ peer \in [Handles -> Senders \cup {None}]
        /\ pc \in [Senders -> {"new", "wait", "socket", "resolve", "connect", "send", "receive",
                               "close", "return", "done"}]
    BY DEF HInv, HoldersOK, Steps, Connected
  <2>3. \A s \in Senders :
          /\ message[s] \in Messages(s) \cup {NoMessage}
          /\ received[s].whole \in BOOLEAN /\ received[s].request.null \in BOOLEAN
          /\ answer[s] # NoAnswer => answer[s].of \in Answers(message[s]) /\ ~received[s].request.null
    BY DEF SInv, Sender
  <2> QED
    BY <2>1, <2>2, <2>3 DEF TypeOK
<1> QED
  BY <1>1, InvariantSInv, PTL

(* Whatever the threads send and the server answers, however much of the   *)
(* answer's second half is lost: until main() returns, a response with     *)
(* nothing in it means that the server has not answered this request, and  *)
(* one with anything in it that it has answered this very one              *)
(* (http_client.cpp:72-124, response.cpp:20-93).                           *)
THEOREM AnswersAreOwn == Spec => []StatusMeansAnswered
<1>1. HInv /\ SInv => StatusMeansAnswered
  <2> SUFFICES ASSUME HInv, SInv, NEW s \in Senders,
                      mutex_ = s, pc[s] \in {"close", "return"}, initialized
               PROVE  response # Empty <=> answers[s] = 1 /\ sent[s] > 0
    BY DEF StatusMeansAnswered
  <2>1. Sender(s) /\ sent[s] \in Thirds /\ answers[s] \in {0, 1}
    BY DEF SInv, Shapes
  <2>2. CASE sent[s] = 0
    BY <2>1, <2>2 DEF Sender
  <2>3. CASE sent[s] > 0
    <3>1. response = answer[s].read
      BY <2>1, <2>3 DEF Sender
    <3>2. NoAnswer.read = Empty
      BY DEF NoAnswer
    <3> QED
      BY <2>1, <2>3, <3>1, <3>2 DEF Sender
  <2> QED
    BY <2>1, <2>2, <2>3 DEF Thirds
<1> QED
  BY <1>1, InvariantSInv, PTL

-----------------------------------------------------------------------------
(* It is what the server's parser has of the text of a message.            *)
ReadAs(request, m) == \E method : request = ParseRequest(CString(BuildRequest(m)), method)

(* What the parsers have of what arrived whole, and whose it is.           *)
Read(s) ==
  /\ received[s].whole => /\ Inside(s)
                          /\ ReadAs(received[s].request, message[s])
  /\ answer[s].whole => /\ IsResponse(answer[s].of)
                        /\ answer[s].read = ParseResponse(CString(ResponseText(answer[s].of)))
  /\ mutex_ = s /\ response # Empty => response = answer[s].read

RInv == \A s \in Senders : Read(s)

(* Nothing has arrived yet.                                                *)
LEMMA NothingIsWhole == ~Nothing.whole /\ ~NoAnswer.whole /\ NoAnswer.read = Empty
  BY DEF Nothing, NoAnswer

(* Initially nothing has been read.                                        *)
LEMMA InitRInv == Init => RInv
<1> SUFFICES ASSUME Init, NEW s \in Senders PROVE Read(s)
  BY DEF RInv
<1>1. mutex_ # s /\ received[s] = Nothing /\ answer[s] = NoAnswer
  BY NobodyAssumption DEF Init
<1> QED
  BY <1>1, NothingIsWhole DEF Read

(* The server has parsed a request.                                        *)
LEMMA ParsesWhole ==
  ASSUME SInv, NEW s \in Senders, Parses(s), received'[s].whole
  PROVE  ReadAs(received'[s].request, message[s])
<1>1. PICK method \in Methods \cup {"NONE"} :
        received' = [received EXCEPT ![s] = Arrived(CString(BuildRequest(message[s])), sent[s], method)]
  BY DEF Parses
<1> DEFINE t == CString(BuildRequest(message[s]))
<1>2. received'[s] = Arrived(t, sent[s], method) /\ sent[s] \in Thirds
  BY <1>1 DEF SInv, Shapes
<1>3. t \in Seq(Letters(message[s]) \ {NUL})
  BY ParsesType, RequestType, CStringType
<1> HIDE DEF t
<1>4. Arrived(t, sent[s], method).request = ParseRequest(t, method)
  BY <1>2, <1>3, ArrivesWhole
<1> QED
  BY <1>2, <1>4, Zenon DEF t, ReadAs

(* What the server sends.                                                  *)
LEMMA AnswerRInv ==
  ASSUME SInv, RInv, UNCHANGED <<mutex_, pc, message, response>>, NEW s \in Senders, Parses(s),
         NEW a \in Answers(message[s]), Sends(s, a)
  PROVE  RInv'
<1> DEFINE text == CString(ResponseText(a))
<1>7. PICK n \in {Len(text) \div 2 + 1, Len(text)} :
        answer' = [answer EXCEPT ![s] = [of |-> a, whole |-> n = Len(text),
                                         read |-> ParseResponse(SubSeq(text, 1, n))]]
  BY DEF Sends
<1>1. /\ Inside(s) /\ message[s] \in Messages(s) /\ answer[s] = NoAnswer
      /\ \A t \in Senders \ {s} : received'[t] = received[t]
  BY ParsesType
<1>2. IsResponse(a)
  BY <1>1, TextsAssumption
<1>3. text \in Seq(Symbols \ {NUL})
  BY <1>2, AnswerShape, CStringType
<1> HIDE DEF text
<1>4. /\ answer'[s].of = a /\ (answer'[s].whole => answer'[s].read = ParseResponse(text))
      /\ \A t \in Senders \ {s} : answer'[t] = answer[t]
  <2> DEFINE e == [of |-> a, whole |-> n = Len(text), read |-> ParseResponse(SubSeq(text, 1, n))]
  <2>1. e.of = a /\ e.read = ParseResponse(SubSeq(text, 1, n)) /\ (e.whole => n = Len(text))
    OBVIOUS
  <2>2. answer' = [answer EXCEPT ![s] = e] /\ DOMAIN answer = Senders
    BY <1>7 DEF SInv, Shapes
  <2> HIDE DEF e
  <2>3. SubSeq(text, 1, Len(text)) = text
    BY <1>3, SubSeqFull
  <2> QED
    BY <2>1, <2>2, <2>3
<1>5. Read(s)'
  <2>1. mutex_ = s => response = Empty
    BY <1>1, NothingIsWhole DEF RInv, Read
  <2> QED
    BY <1>1, <1>2, <1>4, <2>1, ParsesWhole DEF Read, Inside, text
<1>6. \A t \in Senders \ {s} : Read(t)'
  BY <1>1, <1>4 DEF RInv, Read, Inside
<1> QED
  BY <1>5, <1>6 DEF RInv

(* What the server does.                                                   *)
LEMMA ServerRInv ==
  ASSUME SInv, RInv, ServerStep
  PROVE  RInv'
<1>1. UNCHANGED <<mutex_, pc, message, response>>
  BY DEF ServerStep, clientVars
<1>2. ASSUME NEW s \in Senders, Parses(s), UNCHANGED answer PROVE RInv'
  <2>1. Inside(s) /\ \A t \in Senders \ {s} : received'[t] = received[t]
    BY <1>2, ParsesType
  <2>2. Read(s)'
    BY <1>1, <1>2, <2>1, ParsesWhole DEF RInv, Read, Inside
  <2>3. \A t \in Senders \ {s} : Read(t)'
    BY <1>1, <1>2, <2>1 DEF RInv, Read, Inside
  <2> QED
    BY <2>2, <2>3 DEF RInv
<1>3. ASSUME NEW s \in Senders, Parses(s), NEW a \in Answers(message[s]), Sends(s, a) PROVE RInv'
  BY <1>1, <1>3, AnswerRInv
<1>4. CASE UNCHANGED <<received, answer>>
  BY <1>1, <1>4 DEF RInv, Read, Inside
<1>5. \A s \in Senders : ServerAnswers(s) =>
        /\ Parses(s)
        /\ \/ UNCHANGED answer
           \/ \E a \in Answers(message[s]) : Sends(s, a)
  BY Zenon DEF ServerAnswers, Sends
<1>6. \A s \in Senders : ServerEnds(s) => Parses(s) /\ UNCHANGED answer
  BY Zenon DEF ServerEnds
<1>7. (\E s \in Senders : ServerAnswers(s) \/ ServerEnds(s)) \/ UNCHANGED <<received, answer>>
  BY Zenon DEF ServerStep
<1> QED
  BY <1>2, <1>3, <1>4, <1>5, <1>6, <1>7, Zenon

(* What the threads and main() do.                                         *)
LEMMA ClientRInv ==
  ASSUME HInv, SInv, RInv, NEW s \in Senders, Step(s)
  PROVE  RInv'
<1>1. CASE Lock(s)
  <2>1. /\ UNCHANGED <<received, answer, response>>
        /\ pc[s] = "wait" /\ mutex_ = None /\ mutex_' = s
        /\ pc' = [pc EXCEPT ![s] = IF initialized THEN "socket" ELSE "return"]
        /\ \E m \in Messages(s) : message' = [message EXCEPT ![s] = m]
    BY <1>1 DEF Lock, At, Go, serverVars
  <2>2. response = Empty /\ ~Inside(s)
    BY <2>1 DEF SInv, Shapes, Inside, Connected
  <2>3. ~received[s].whole
    BY <2>2 DEF RInv, Read
  <2>4. \A t \in Senders \ {s} : pc'[t] = pc[t] /\ message'[t] = message[t]
    BY <2>1 DEF HInv, HoldersOK, SInv, Shapes
  <2> QED
    BY <2>1, <2>2, <2>3, <2>4 DEF RInv, Read, Inside
<1>2. CASE Return(s)
  <2>1. /\ mutex_' = None /\ response' = Empty
        /\ pc' = [pc EXCEPT ![s] = "done"]
        /\ message' = [message EXCEPT ![s] = NoMessage]
        /\ received' = [received EXCEPT ![s] = Nothing]
        /\ answer' = [answer EXCEPT ![s] = NoAnswer]
    BY <1>2 DEF Return, Go
  <2>2. /\ received'[s] = Nothing /\ answer'[s] = NoAnswer
        /\ \A t \in Senders \ {s} : /\ pc'[t] = pc[t] /\ message'[t] = message[t]
                                    /\ received'[t] = received[t] /\ answer'[t] = answer[t]
    BY <2>1 DEF HInv, HoldersOK, SInv, Shapes
  <2>3. Read(s)'
    BY <2>1, <2>2, NothingIsWhole DEF Read
  <2>4. \A t \in Senders \ {s} : Read(t)'
    BY <2>1, <2>2 DEF RInv, Read, Inside
  <2> QED
    BY <2>3, <2>4 DEF RInv
<1>3. CASE \/ Socket(s) \/ SocketFails(s) \/ Resolve(s) \/ ResolveFails(s) \/ Connects(s)
           \/ ConnectFails(s) \/ Send(s) \/ Receive(s) \/ CloseSocket(s)
  <2>1. UNCHANGED <<received, answer, mutex_, message>>
    BY <1>3 DEF Socket, SocketFails, Resolve, ResolveFails, Connects, ConnectFails, Send, Receive,
                CloseSocket, localVars, serverVars, Server!Arrives
  <2>2. Inside(s)
    BY <1>3 DEF Socket, SocketFails, Resolve, ResolveFails, Connects, ConnectFails, Send, Receive,
                CloseSocket, At, Inside, Connected
  <2>3. \/ pc' = pc
        \/ \E l \in Connected \cup {"return"} : pc' = [pc EXCEPT ![s] = l]
    BY <1>3 DEF Socket, SocketFails, Resolve, ResolveFails, Connects, ConnectFails, Send, Receive,
                CloseSocket, Go, Connected
  <2>4. \A t \in Senders : Inside(t) => Inside(t)'
    BY <2>3 DEF HInv, HoldersOK, Inside
  <2>5. response' = response \/ response' = answer[s].read
    BY <1>3 DEF Socket, SocketFails, Resolve, ResolveFails, Connects, ConnectFails, Send, Receive,
                CloseSocket, localVars
  <2>6. mutex_ = s
    BY <2>2, InsideIsAlone
  <2> QED
    BY <2>1, <2>4, <2>5, <2>6 DEF RInv, Read
<1> QED
  BY <1>1, <1>2, <1>3 DEF Step

(* No step breaks it.                                                      *)
LEMMA NextRInv ==
  ASSUME HInv, SInv, RInv, [Next]_vars
  PROVE  RInv'
<1>1. CASE UNCHANGED vars
  BY <1>1 DEF RInv, Read, Inside, vars, clientVars, serverVars
<1>2. CASE Spawn
  <2>1. UNCHANGED <<received, answer, mutex_, message, response>> /\ mutex_ = None
    BY <1>2 DEF Spawn, serverVars
  <2>2. \A s \in Senders : ~Inside(s)
    BY <2>1, FreeMeansClosed
  <2> QED
    BY <2>1, <2>2, NobodyAssumption DEF RInv, Read
<1>3. CASE MainReturns \/ Terminate
  <2>1. UNCHANGED <<received, answer, mutex_, message, response, pc>>
    BY <1>3 DEF MainReturns, Terminate, serverVars
  <2> QED
    BY <2>1 DEF RInv, Read, Inside
<1> QED
  BY <1>1, <1>2, <1>3, ServerRInv, ClientRInv DEF Next

(* What has arrived whole is read from whole texts, in every state.        *)
LEMMA InvariantRInv == Spec => [](HInv /\ SInv /\ RInv)
<1>1. Init => HInv /\ SInv /\ RInv
  BY InitHInv, InitSInv, InitRInv
<1>2. HInv /\ SInv /\ RInv /\ [Next]_vars => (HInv /\ SInv /\ RInv)'
  BY NextHInv, NextSInv, NextRInv
<1> QED
  BY <1>1, <1>2, PTL DEF Spec

(* A request that arrives whole is read as the message the client was      *)
(* given exactly if that is plain: for every endpoint, host, body and map  *)
(* of headers (http_client/request.cpp:22-45, http_server/request.cpp).    *)
THEOREM RequestsSurvive == Spec => []RequestSurvives
<1>1. HInv /\ SInv /\ RInv => RequestSurvives
  <2> SUFFICES ASSUME SInv, RInv, NEW s \in Senders, received[s].whole,
                      <<"Host">> \in DOMAIN message[s].headers =>
                        OneLineText(message[s].headers[<<"Host">>])
               PROVE  LET r == received[s].request
                          m == message[s]
                      IN PlainMessage(m) <=> /\ ~r.null
                                             /\ r.method = m.method /\ r.endpoint = m.endpoint
                                             /\ r.headers = HeadersOf(m) /\ r.body = m.body
    BY Zenon DEF RequestSurvives, HeadersOf
  <2>1. PICK method : /\ Inside(s)
                      /\ received[s].request = ParseRequest(CString(BuildRequest(message[s])), method)
    BY DEF RInv, Read, ReadAs
  <2>2. message[s] \in Messages(s)
    BY <2>1 DEF SInv, Sender
  <2>3. IsRequest(message[s]) /\ ToString(Len(message[s].body)) \notin {CR, NUL, ":"}
    BY <2>2, TextsAssumption, NumbersAssumption
  <2> DEFINE m == message[s]
  <2>4. received[s].request = ParseRequest(CString(BuildRequest(m)), method)
    BY <2>1
  <2>5. /\ IsRequest(m) /\ ToString(Len(m.body)) \notin {CR, NUL, ":"}
        /\ <<"Host">> \in DOMAIN m.headers => OneLineText(m.headers[<<"Host">>])
    BY <2>3
  <2> HIDE DEF m
  <2>6. LET r == ParseRequest(CString(BuildRequest(m)), method)
        IN PlainMessage(m) <=> /\ ~r.null
                               /\ r.method = m.method /\ r.endpoint = m.endpoint
                               /\ r.headers = HeadersOf(m) /\ r.body = m.body
    BY <2>5, RequestReadBack
  <2> QED
    BY <2>4, <2>6, Zenon DEF m
<1> QED
  BY <1>1, InvariantRInv, PTL

(* What send_request() returns for an answer that arrived whole: for every *)
(* status, body and map of headers that are lines (response.cpp:          *)
(* to_string(), http_client/response.cpp).                                 *)
THEOREM AnswersSurvive == Spec => []AnswerSurvives
<1>1. HInv /\ SInv /\ RInv => AnswerSurvives
  <2> SUFFICES ASSUME RInv, NEW s \in Senders, mutex_ = s, response # Empty, answer[s].whole,
                      \A k \in DOMAIN answer[s].of.headers :
                        PlainText(k) /\ OneLineText(answer[s].of.headers[k])
               PROVE  LET a == answer[s].of
                          body == FlattenSeq(a.body)
                      IN /\ response.status = <<a.status>>
                         /\ response.phrase = <<Head(Phrase[a.status])>>
                         /\ response.body = body <=> OneLineText(body)
                         /\ DOMAIN response.headers = DOMAIN a.headers
                         /\ \A k \in DOMAIN a.headers :
                              response.headers[k] = <<SP>> \o a.headers[k] <=> Find(a.headers[k], ":") = 0
    BY Zenon DEF AnswerSurvives
  <2> DEFINE a == answer[s].of
             r == ParseResponse(CString(ResponseText(a)))
             body == FlattenSeq(a.body)
  <2>1. response = r /\ IsResponse(a)
    BY DEF RInv, Read
  <2>2. \A k \in DOMAIN a.headers : PlainText(k) /\ OneLineText(a.headers[k])
    OBVIOUS
  <2> HIDE DEF a, r
  <2>3. \A k \in DOMAIN a.headers : k \in Seq(Symbols) /\ a.headers[k] \in Seq(Symbols)
    BY <2>1, TextsAreSymbols DEF IsResponse, IsMap
  <2>4. HeadersAreLines(a)
    BY <2>2, <2>3, PlainTextIs DEF HeadersAreLines
  <2>5. /\ r.status = <<a.status>>
        /\ r.phrase = <<Head(Phrase[a.status])>>
        /\ r.body = body <=> body \in Seq(Symbols \ {CR, NUL})
        /\ DOMAIN r.headers = DOMAIN a.headers
        /\ \A k \in DOMAIN a.headers :
             r.headers[k] = <<SP>> \o a.headers[k] <=> a.headers[k] \in Seq(Symbols \ {":"})
    BY <2>1, <2>4, AnswerIsRead DEF r
  <2>6. OneLineText(body) <=> body \in Seq(Symbols \ {CR, NUL})
    BY <2>1, AnswerShape, PlainTextIs
  <2> HIDE DEF body
  <2>7. \A k \in DOMAIN a.headers : Find(a.headers[k], ":") = 0 <=> a.headers[k] \in Seq(Symbols \ {":"})
    BY <2>3, FindNone
  <2>8. /\ r.status = <<a.status>>
        /\ r.phrase = <<Head(Phrase[a.status])>>
        /\ r.body = body <=> OneLineText(body)
        /\ DOMAIN r.headers = DOMAIN a.headers
        /\ \A k \in DOMAIN a.headers :
             r.headers[k] = <<SP>> \o a.headers[k] <=> Find(a.headers[k], ":") = 0
    BY <2>5, <2>6, <2>7, Zenon
  <2> QED
    BY <2>1, <2>8, Zenon DEF a, body
<1> QED
  BY <1>1, InvariantRInv, PTL

=============================================================================
