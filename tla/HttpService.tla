----------------------------- MODULE HttpService -----------------------------
(***************************************************************************)
(* What a server promises the peers that make plain HTTP requests, as an   *)
(* abstract specification: a connection is admitted once, answered at most *)
(* once, and closed by the server only after its answer has been sent or   *)
(* was lost to a send() that failed, except that the process may end and   *)
(* reset every connection at once.  Nothing here promises that an admitted *)
(* connection is ever answered.                                            *)
(***************************************************************************)
EXTENDS Integers

CONSTANT Conns

VARIABLES phase,     \* phase[c]: how far c has come
          answers    \* answers[c]: answers sent on c

svars == <<phase, answers>>

Init ==
  /\ phase = [c \in Conns |-> "away"]
  /\ answers = [c \in Conns |-> 0]

Move(c, from, to) == phase[c] = from /\ phase' = [phase EXCEPT ![c] = to]

Arrives(c) == Move(c, "away", "waiting") /\ UNCHANGED answers
Admit(c)   == Move(c, "waiting", "held") /\ UNCHANGED answers
Finish(c)  == Move(c, "answered", "closed") /\ UNCHANGED answers

AnswerOnce(c) ==
  /\ Move(c, "held", "answered")
  /\ answers' = [answers EXCEPT ![c] = @ + 1]

AnswerLost(c) == Move(c, "held", "answered") /\ UNCHANGED answers

Crash ==
  /\ phase' = [c \in Conns |-> IF phase[c] = "away" THEN "away" ELSE "closed"]
  /\ UNCHANGED answers

Next ==
  \/ \E c \in Conns : Arrives(c) \/ Admit(c) \/ AnswerOnce(c) \/ AnswerLost(c) \/ Finish(c)
  \/ Crash

Spec == Init /\ [][Next]_svars
=============================================================================
