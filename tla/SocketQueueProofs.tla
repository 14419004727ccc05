-------------------------- MODULE SocketQueueProofs --------------------------
(***************************************************************************)
(* Proofs about SocketQueue, for any number of threads and clients.  The   *)
(* inductive invariant joins the type invariant, mutual exclusion with     *)
(* pop()'s tmp still at the front, and the fact that a pushing thread      *)
(* carries a client; the last is what keeps empty slots out of the vector. *)
(* The refinement of BusyPeriodQueue then holds step by step: only the     *)
(* bodies inside the lock map to a step, everything else stutters.         *)
(***************************************************************************)
EXTENDS SocketQueue, SequenceLemmas

IInv == TypeOK /\ TmpIsFront /\ PushHasItem

(* The queue starts empty, unlocked and with every thread outside it.      *)
LEMMA InitIInv == Init => IInv
<1>1. SUFFICES ASSUME Init PROVE IInv
  OBVIOUS
<1>2. queue \in Seq(Clients)
  BY <1>1, EmptySeq DEF Init
<1>3. TypeOK
  BY <1>1, <1>2 DEF Init, TypeOK
<1>4. TmpIsFront
  BY <1>1, NoneAssumption DEF Init, TmpIsFront, Critical
<1>5. PushHasItem
  BY <1>1 DEF Init, PushHasItem
<1>6. QED
  BY <1>3, <1>4, <1>5 DEF IInv

(* A call only moves its caller from idle to the lock, with the argument   *)
(* of a push stored (http_server.h:60, 66, 78).                            *)
LEMMA CallStep ==
  ASSUME IInv, NEW t \in Threads,
         (\E c \in Clients : CallPush(t, c)) \/ CallPop(t) \/ CallSize(t)
  PROVE  IInv'
<1> USE DEF IInv
<1>1. CASE \E c \in Clients : CallPush(t, c)
  <2>1. PICK c \in Clients : CallPush(t, c)
    BY <1>1
  <2>2. TypeOK'
    BY <2>1 DEF TypeOK, CallPush, Goto, Waiting, Critical
  <2>3. TmpIsFront'
    BY <2>1 DEF TypeOK, TmpIsFront, CallPush, Goto, Critical
  <2>4. PushHasItem'
    BY <2>1 DEF TypeOK, PushHasItem, CallPush, Goto
  <2>5. QED
    BY <2>2, <2>3, <2>4
<1>2. CASE CallPop(t)
  <2>1. TypeOK'
    BY <1>2 DEF TypeOK, CallPop, Goto, Waiting, Critical
  <2>2. TmpIsFront' /\ PushHasItem'
    BY <1>2 DEF TypeOK, TmpIsFront, PushHasItem, CallPop, Goto, Critical
  <2>3. QED
    BY <2>1, <2>2
<1>3. CASE CallSize(t)
  <2>1. TypeOK'
    BY <1>3 DEF TypeOK, CallSize, Goto, Waiting, Critical
  <2>2. TmpIsFront' /\ PushHasItem'
    BY <1>3 DEF TypeOK, TmpIsFront, PushHasItem, CallSize, Goto, Critical
  <2>3. QED
    BY <2>1, <2>2
<1>4. QED
  BY <1>1, <1>2, <1>3

(* Taking and releasing the mutex: a thread comes in only when nobody is   *)
(* inside, and is outside again when it lets go.                           *)
LEMMA LockStep ==
  ASSUME IInv, NEW t \in Threads, Enter(t) \/ Leave(t)
  PROVE  IInv'
<1> USE DEF IInv
<1>1. CASE Enter(t)
  <2>1. \A u \in Threads : pc[u] \notin Critical
    BY <1>1, NoneAssumption DEF TmpIsFront, Enter
  <2>2. pc' = [pc EXCEPT ![t] = pc'[t]] /\ pc'[t] \in {"push", "pop", "size"}
    BY <1>1 DEF TypeOK, Enter, Goto, Waiting
  <2>3. pc[t] = "push?" <=> pc'[t] = "push"
    BY <1>1 DEF TypeOK, Enter, Goto, Waiting
  <2>4. TypeOK'
    BY <1>1, <2>2 DEF TypeOK, Enter, Waiting, Critical
  <2>5. TmpIsFront'
    BY <1>1, <2>1, <2>2 DEF TypeOK, TmpIsFront, Enter, Critical
  <2>6. PushHasItem'
    BY <1>1, <2>2, <2>3 DEF TypeOK, PushHasItem, Enter
  <2>7. QED
    BY <2>4, <2>5, <2>6
<1>2. CASE Leave(t)
  <2>1. TypeOK'
    BY <1>2 DEF TypeOK, Leave, Goto, Waiting, Critical
  <2>2. TmpIsFront'
    BY <1>2, NoneAssumption DEF TypeOK, TmpIsFront, Leave, Goto, Critical
  <2>3. PushHasItem'
    BY <1>2 DEF TypeOK, PushHasItem, Leave, Goto
  <2>4. QED
    BY <2>1, <2>2, <2>3
<1>3. QED
  BY <1>1, <1>2

(* The bodies inside the lock.                                             *)
LEMMA BodyStep ==
  ASSUME IInv, NEW t \in Threads,
         DoPush(t) \/ PopNone(t) \/ PopCopy(t) \/ PopErase(t) \/ DoSize(t)
  PROVE  IInv'
<1> USE DEF IInv
<1>1. pc[t] \in Critical /\ mutex = t
  BY DEF TmpIsFront, DoPush, PopNone, PopCopy, PopErase, DoSize, Critical
<1>2. \A u \in Threads : u # t => pc[u] \notin Critical
  BY <1>1 DEF TmpIsFront
<1>3. CASE DoPush(t)
  <2>1. queue' \in Seq(Clients)
    BY <1>3, PushBackProperties DEF TypeOK, PushHasItem, DoPush
  <2>2. TypeOK'
    BY <1>3, <2>1 DEF TypeOK, DoPush, Goto, Waiting, Critical
  <2>3. TmpIsFront'
    BY <1>1, <1>2, <1>3 DEF TypeOK, TmpIsFront, DoPush, Goto, Critical
  <2>4. PushHasItem'
    BY <1>3 DEF TypeOK, PushHasItem, DoPush, Goto
  <2>5. QED
    BY <2>2, <2>3, <2>4
<1>4. CASE PopNone(t)
  <2>1. TypeOK'
    BY <1>4 DEF TypeOK, PopNone, Goto, Waiting, Critical
  <2>2. TmpIsFront'
    BY <1>1, <1>2, <1>4 DEF TypeOK, TmpIsFront, PopNone, Goto, Critical
  <2>3. PushHasItem'
    BY <1>4 DEF TypeOK, PushHasItem, PopNone, Goto
  <2>4. QED
    BY <2>1, <2>2, <2>3
<1>5. CASE PopCopy(t)
  <2>1. PopValue(queue) \in Clients /\ PopValue(queue) = Head(queue)
    BY <1>5, PopProperties DEF TypeOK, PopCopy, PopValue
  <2>2. TypeOK'
    BY <1>5, <2>1 DEF TypeOK, PopCopy, Goto, Waiting, Critical
  <2>3. TmpIsFront'
    BY <1>1, <1>2, <1>5, <2>1 DEF TypeOK, TmpIsFront, PopCopy, Goto, Critical
  <2>4. PushHasItem'
    BY <1>5, <2>1 DEF TypeOK, PushHasItem, PopCopy, Goto
  <2>5. QED
    BY <2>2, <2>3, <2>4
<1>6. CASE PopErase(t)
  <2>1. queue' \in Seq(Clients)
    BY <1>6, PopProperties DEF TypeOK, TmpIsFront, PopErase
  <2>2. TypeOK'
    BY <1>6, <2>1 DEF TypeOK, PopErase, Goto, Waiting, Critical
  <2>3. TmpIsFront'
    BY <1>1, <1>2, <1>6 DEF TypeOK, TmpIsFront, PopErase, Goto, Critical
  <2>4. PushHasItem'
    BY <1>6 DEF TypeOK, PushHasItem, PopErase, Goto
  <2>5. QED
    BY <2>2, <2>3, <2>4
<1>7. CASE DoSize(t)
  <2>1. Len(queue) \in Nat
    BY LenProperties DEF TypeOK
  <2>2. TypeOK'
    BY <1>7, <2>1 DEF TypeOK, DoSize, Goto, Waiting, Critical
  <2>3. TmpIsFront'
    BY <1>1, <1>2, <1>7 DEF TypeOK, TmpIsFront, DoSize, Goto, Critical
  <2>4. PushHasItem'
    BY <1>7 DEF TypeOK, PushHasItem, DoSize, Goto
  <2>5. QED
    BY <2>2, <2>3, <2>4
<1>8. QED
  BY <1>3, <1>4, <1>5, <1>6, <1>7

(* The invariant is kept by every step of every thread.                    *)
LEMMA NextIInv == IInv /\ [Next]_vars => IInv'
<1>1. SUFFICES ASSUME IInv, [Next]_vars PROVE IInv'
  OBVIOUS
<1>2. CASE UNCHANGED vars
  BY <1>1, <1>2 DEF IInv, TypeOK, TmpIsFront, PushHasItem, vars
<1>3. ASSUME NEW t \in Threads, Step(t)
      PROVE  IInv'
  BY <1>1, <1>3, CallStep, LockStep, BodyStep DEF Step
<1>4. QED
  BY <1>1, <1>2, <1>3 DEF Next

(* The inductive invariant holds of every behaviour.                       *)
THEOREM Invariance == Spec => []IInv
BY InitIInv, NextIInv, PTL DEF Spec

(* The vector holds clients only, whatever the number of callers           *)
(* (http_server.h:37-83).                                                  *)
THEOREM TypeCorrect == Spec => []TypeOK
<1>1. IInv => TypeOK
  BY DEF IInv
<1>2. QED
  BY <1>1, Invariance, PTL

(* pop()'s copy is the front of a non-empty vector when pop_back() runs,   *)
(* and only the holder of the mutex is inside (http_server.h:66-76).       *)
THEOREM CopyStaysFront == Spec => []TmpIsFront
<1>1. IInv => TmpIsFront
  BY DEF IInv
<1>2. QED
  BY <1>1, Invariance, PTL

-----------------------------------------------------------------------------
(* The refinement: an empty vector is two empty cells.                     *)
LEMMA InitImplements == Init => Promise!Init
<1>1. SUFFICES ASSUME Init PROVE Promise!Init
  OBVIOUS
<1>2. queue = <<>> /\ Len(queue) = 0
  BY <1>1, EmptySeq DEF Init
<1>3. QED
  BY <1>1, <1>2 DEF Init, Promise!Init

(* A step outside the bodies changes nothing the promise speaks of.        *)
LEMMA OutsideStutters ==
  ASSUME UNCHANGED <<queue, ret, len>>
  PROVE  UNCHANGED Promise!bpvars
BY DEF Promise!bpvars

(* A body inside the lock is one operation of the two-cell queue: with     *)
(* TmpIsFront, what pop() returns is what the cell "first" holds.          *)
LEMMA BodyImplements ==
  ASSUME IInv, NEW t \in Threads,
         DoPush(t) \/ PopNone(t) \/ PopCopy(t) \/ PopErase(t) \/ DoSize(t)
  PROVE  Promise!Next \/ UNCHANGED Promise!bpvars
<1> USE DEF IInv
<1>1. queue \in Seq(Clients) /\ Len(queue) \in Nat /\ (queue = <<>> <=> Len(queue) = 0)
  BY EmptySeq, LenProperties DEF TypeOK
<1>2. CASE DoPush(t)
  <2>1. item[t] \in Clients
    BY <1>2 DEF PushHasItem, DoPush
  <2>2. /\ Len(queue') = Len(queue) + 1
        /\ queue' # <<>>
        /\ Head(queue') = IF queue = <<>> THEN item[t] ELSE Head(queue)
    BY <1>1, <1>2, <2>1, PushBackProperties DEF DoPush
  <2>3. Promise!Push(item[t])
    BY <1>1, <1>2, <2>2 DEF DoPush, Promise!Push
  <2>4. QED
    BY <2>1, <2>3 DEF Promise!Next
<1>3. CASE PopNone(t)
  <2>1. Promise!PopNothing(t)
    BY <1>1, <1>3 DEF PopNone, Promise!PopNothing
  <2>2. QED
    BY <2>1 DEF Promise!Next
<1>4. CASE PopCopy(t)
  BY <1>4, OutsideStutters DEF PopCopy
<1>5. CASE PopErase(t)
  <2>1. queue # <<>> /\ item[t] = Head(queue)
    BY <1>5 DEF TmpIsFront, PopErase
  <2>2. /\ Len(queue') = Len(queue) - 1
        /\ queue' = <<>> <=> Len(queue) = 1
        /\ queue' # <<>> => Head(queue') = Head(queue)
    BY <1>1, <1>5, <2>1, PopProperties DEF PopErase
  <2>3. Promise!PopFirst(t)
    BY <1>1, <1>5, <2>1, <2>2 DEF PopErase, Promise!PopFirst
  <2>4. QED
    BY <2>3 DEF Promise!Next
<1>6. CASE DoSize(t)
  <2>1. Promise!Size(t)
    BY <1>6 DEF DoSize, Promise!Size
  <2>2. QED
    BY <2>1 DEF Promise!Next
<1>7. QED
  BY <1>2, <1>3, <1>4, <1>5, <1>6

(* Every step is a step of the promise or a stutter.                       *)
LEMMA StepImplements == IInv /\ [Next]_vars => [Promise!Next]_(Promise!bpvars)
<1>1. SUFFICES ASSUME IInv, [Next]_vars
               PROVE  Promise!Next \/ UNCHANGED Promise!bpvars
  OBVIOUS
<1>2. CASE UNCHANGED vars
  BY <1>2, OutsideStutters DEF vars
<1>3. ASSUME NEW t \in Threads, Step(t)
      PROVE  Promise!Next \/ UNCHANGED Promise!bpvars
  <2>1. CASE \E c \in Clients : CallPush(t, c)
    BY <2>1, OutsideStutters DEF CallPush
  <2>2. CASE CallPop(t) \/ CallSize(t)
    BY <2>2, OutsideStutters DEF CallPop, CallSize
  <2>3. CASE Enter(t) \/ Leave(t)
    BY <2>3, OutsideStutters DEF Enter, Leave
  <2>4. CASE DoPush(t) \/ PopNone(t) \/ PopCopy(t) \/ PopErase(t) \/ DoSize(t)
    BY <1>1, <2>4, BodyImplements
  <2>5. QED
    BY <1>3, <2>1, <2>2, <2>3, <2>4 DEF Step
<1>4. QED
  BY <1>1, <1>2, <1>3 DEF Next

(* socket_queue_t, with its vector, its mutex and any number of callers,   *)
(* keeps the promise of BusyPeriodQueue: in a busy period every pop hands  *)
(* out the item pushed first (http_server.h:66-82).                        *)
THEOREM Refinement == Spec => ImplementsPromise
BY InitImplements, StepImplements, Invariance, PTL
DEF Spec, ImplementsPromise, Promise!Spec
=============================================================================
