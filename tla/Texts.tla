-------------------------------- MODULE Texts --------------------------------
(***************************************************************************)
(* What the code uses of std::string and of the C library (external).  A   *)
(* text is a sequence of symbols: the separators below, the characters of  *)
(* a path, and whole words wherever the code never looks inside them.      *)
(* Positions start at 1; 0 stands for npos.                                *)
(***************************************************************************)
EXTENDS Integers, SequencesExt

CR  == "\r"
LF  == "\n"
SP  == " "
NUL == "nul"

Find(s, c) == SelectInSeq(s, LAMBDA x : x = c)
FindLast(s, c) == SelectLastInSeq(s, LAMBDA x : x = c)

(* s.find(t) != npos                                                       *)
Holds(s, t) == \E i \in 0..(Len(s) - Len(t)) : SubSeq(s, i + 1, i + Len(t)) = t

(* s.substr(n)                                                             *)
Substr(s, n) == SubSeq(s, n + 1, Len(s))

(* What a char pointer to s denotes: nothing after the first zero byte.    *)
CString(s) == IF Find(s, NUL) = 0 THEN s ELSE SubSeq(s, 1, Find(s, NUL) - 1)

(* The n-th of a set of positions.                                         *)
Nth(positions, n) == CHOOSE i \in positions : Cardinality(positions \cap 1..i) = n

(* The tokens strtok_s() returns one after the other: the longest runs     *)
(* without the delimiter, so never an empty one.                           *)
StrTok(s, delimiter) ==
  LET starts == {i \in DOMAIN s : s[i] # delimiter /\ (i > 1 => s[i - 1] = delimiter)}
      LastOf(i) == CHOOSE j \in i..Len(s) : /\ \A k \in i..j : s[k] # delimiter
                                            /\ j < Len(s) => s[j + 1] = delimiter
  IN [n \in 1..Cardinality(starts) |-> SubSeq(s, Nth(starts, n), LastOf(Nth(starts, n)))]
=============================================================================
