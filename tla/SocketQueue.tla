----------------------------- MODULE SocketQueue -----------------------------
(***************************************************************************)
(* socket_queue_t (http_server.h): a vector of accepted clients guarded by *)
(* a mutex, called by the accept threads (push), by the consumer loop      *)
(* (pop) and by clear() (size and pop).  A step is what one thread does    *)
(* between two points where another thread may run, so the lock_guard of   *)
(* each operation is three steps: take the mutex, the body, release it,    *)
(* and pop() has its copy and its erase apart.                             *)
(***************************************************************************)
EXTENDS SocketQueueOps

CONSTANTS Threads,   \* callers of the queue
          Clients,   \* n_socket_client_t values
          None,      \* std::nullopt, and "nobody holds the mutex"
          MaxLen     \* bound: pushes are only started below this length

ASSUME NoneAssumption == None \notin Clients /\ None \notin Threads
ASSUME MaxLenAssumption == MaxLen \in Nat

VARIABLES queue,     \* _socket_queue
          mutex,     \* holder of mutex_, or None
          pc,        \* pc[t]: where t is in the operation it called
          item,      \* item[t]: push()'s argument, or pop()'s tmp
          ret,       \* ret[t]: what the last pop() of t returned
          len        \* len[t]: what the last size() of t returned

vars == <<queue, mutex, pc, item, ret, len>>

Waiting  == {"push?", "pop?", "size?"}
Critical == {"push", "pop", "erase", "size", "unlock"}

TypeOK ==
  /\ queue \in Seq(Clients)
  /\ mutex \in Threads \cup {None}
  /\ pc \in [Threads -> {"idle"} \cup Waiting \cup Critical]
  /\ item \in [Threads -> Clients \cup {None}]
  /\ ret \in [Threads -> Clients \cup {None}]
  /\ len \in [Threads -> Nat]

Init ==
  /\ queue = <<>>
  /\ mutex = None
  /\ pc = [t \in Threads |-> "idle"]
  /\ item = [t \in Threads |-> None]
  /\ ret = [t \in Threads |-> None]
  /\ len = [t \in Threads |-> 0]

Goto(t, l) == pc' = [pc EXCEPT ![t] = l]

-----------------------------------------------------------------------------
(* Calls.  MaxLen bounds the callers, not the code.                        *)
CallPush(t, c) ==
  /\ pc[t] = "idle"
  /\ Len(queue) < MaxLen
  /\ item' = [item EXCEPT ![t] = c]
  /\ Goto(t, "push?")
  /\ UNCHANGED <<queue, mutex, ret, len>>

CallPop(t) ==
  /\ pc[t] = "idle"
  /\ Goto(t, "pop?")
  /\ UNCHANGED <<queue, mutex, item, ret, len>>

CallSize(t) ==
  /\ pc[t] = "idle"
  /\ Goto(t, "size?")
  /\ UNCHANGED <<queue, mutex, item, ret, len>>

(* A lock_guard that locks nothing: the body runs whoever holds the mutex. *)
Enter_Unguarded(t) ==
  /\ pc[t] \in Waiting
  /\ mutex' = t
  /\ Goto(t, CASE pc[t] = "push?" -> "push"
               [] pc[t] = "pop?"  -> "pop"
               [] pc[t] = "size?" -> "size")
  /\ UNCHANGED <<queue, item, ret, len>>

(* std::lock_guard<std::mutex> lock(mutex_), first line of each operation. *)
Enter(t) ==
  /\ pc[t] \in Waiting
  /\ mutex = None
  /\ mutex' = t
  /\ Goto(t, CASE pc[t] = "push?" -> "push"
               [] pc[t] = "pop?"  -> "pop"
               [] pc[t] = "size?" -> "size")
  /\ UNCHANGED <<queue, item, ret, len>>

(* emplace_back() with no argument: an empty slot is queued.               *)
DoPush_Empty(t) ==
  /\ pc[t] = "push"
  /\ queue' = PushBack(queue, None)
  /\ Goto(t, "unlock")
  /\ UNCHANGED <<mutex, item, ret, len>>

(* _socket_queue.push_back(item)                                           *)
DoPush(t) ==
  /\ pc[t] = "push"
  /\ queue' = PushBack(queue, item[t])
  /\ Goto(t, "unlock")
  /\ UNCHANGED <<mutex, item, ret, len>>

(* return {}                                                               *)
PopNone(t) ==
  /\ pc[t] = "pop"
  /\ queue = <<>>
  /\ ret' = [ret EXCEPT ![t] = None]
  /\ Goto(t, "unlock")
  /\ UNCHANGED <<queue, mutex, item, len>>

(* A lock_guard around the copy only: pop() split over two locks.          *)
PopCopy_OwnLock(t) ==
  /\ pc[t] = "pop"
  /\ queue # <<>>
  /\ item' = [item EXCEPT ![t] = PopValue(queue)]
  /\ mutex' = None
  /\ Goto(t, "erase")
  /\ UNCHANGED <<queue, ret, len>>

(* tmp = _socket_queue.front()                                             *)
PopCopy(t) ==
  /\ pc[t] = "pop"
  /\ queue # <<>>
  /\ item' = [item EXCEPT ![t] = PopValue(queue)]
  /\ Goto(t, "erase")
  /\ UNCHANGED <<queue, mutex, ret, len>>

(* _socket_queue.pop_back(); return tmp                                    *)
PopErase(t) ==
  /\ pc[t] = "erase"
  /\ queue' = PopRest(queue)
  /\ ret' = [ret EXCEPT ![t] = item[t]]
  /\ Goto(t, "unlock")
  /\ UNCHANGED <<mutex, item, len>>

(* return _socket_queue.size()                                             *)
DoSize(t) ==
  /\ pc[t] = "size"
  /\ len' = [len EXCEPT ![t] = Len(queue)]
  /\ Goto(t, "unlock")
  /\ UNCHANGED <<queue, mutex, item, ret>>

(* The lock_guard's destructor.                                            *)
Leave(t) ==
  /\ pc[t] = "unlock"
  /\ mutex' = None
  /\ Goto(t, "idle")
  /\ UNCHANGED <<queue, item, ret, len>>

Step(t) ==
  \/ \E c \in Clients : CallPush(t, c)
  \/ CallPop(t) \/ CallSize(t)
  \/ Enter(t)
  \/ DoPush(t)
  \/ PopNone(t) \/ PopCopy(t) \/ PopErase(t)
  \/ DoSize(t)
  \/ Leave(t)

Next == \E t \in Threads : Step(t)

Spec == Init /\ [][Next]_vars

-----------------------------------------------------------------------------
(* The copy pop() made is still the front of a non-empty vector when it    *)
(* erases, and a thread is inside an operation exactly while it holds the  *)
(* mutex: pop_back() never runs on a vector another caller has emptied or  *)
(* refilled since the copy (http_server.h:66-76).                          *)
TmpIsFront ==
  \A t \in Threads :
    /\ pc[t] \in Critical <=> mutex = t
    /\ pc[t] = "erase" => queue # <<>> /\ item[t] = Head(queue)

(* Each pushing thread still carries the item it was called with, so       *)
(* DoPush appends a client and never an empty slot (http_server.h:78-82).  *)
PushHasItem ==
  \A t \in Threads : pc[t] \in {"push?", "push"} => item[t] \in Clients

-----------------------------------------------------------------------------
(* The vector seen as the two cells of BusyPeriodQueue.                    *)
Promise == INSTANCE BusyPeriodQueue
  WITH first <- IF queue = <<>> THEN None ELSE Head(queue),
       count <- Len(queue)

(* Every operation, with its mutex, behaves as one atomic step of the      *)
(* two-cell queue: pops hand out the item that opened the busy period,     *)
(* once for every item pushed in it (http_server.h:66-82).                 *)
ImplementsPromise == Promise!Spec
=============================================================================
