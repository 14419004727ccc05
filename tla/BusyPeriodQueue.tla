--------------------------- MODULE BusyPeriodQueue ---------------------------
(***************************************************************************)
(* What socket_queue_t promises to its callers, as an abstract             *)
(* specification.  pop() copies front() and erases the back, so the vector *)
(* behaves as two cells only: the item pushed first since the queue was    *)
(* last empty (a busy period has one such item), and how many times it     *)
(* will still be handed out.  Every other pushed item is only counted.     *)
(* SocketQueue, with its vector and its mutex, is shown to implement this. *)
(***************************************************************************)
EXTENDS Integers

CONSTANTS Threads,   \* callers of the queue
          Clients,   \* n_socket_client_t values
          None       \* std::nullopt

VARIABLES first,     \* the item of the current busy period, None between two
          count,     \* how many pops the busy period still has
          ret,       \* ret[t]: what the last pop() of t returned
          len        \* len[t]: what the last size() of t returned

bpvars == <<first, count, ret, len>>

Init ==
  /\ first = None
  /\ count = 0
  /\ ret = [t \in Threads |-> None]
  /\ len = [t \in Threads |-> 0]

Push(c) ==
  /\ first' = IF count = 0 THEN c ELSE first
  /\ count' = count + 1
  /\ UNCHANGED <<ret, len>>

PopNothing(t) ==
  /\ count = 0
  /\ ret' = [ret EXCEPT ![t] = None]
  /\ UNCHANGED <<first, count, len>>

PopFirst(t) ==
  /\ count > 0
  /\ ret' = [ret EXCEPT ![t] = first]
  /\ first' = IF count = 1 THEN None ELSE first
  /\ count' = count - 1
  /\ UNCHANGED len

Size(t) ==
  /\ len' = [len EXCEPT ![t] = count]
  /\ UNCHANGED <<first, count, ret>>

Next ==
  \/ \E c \in Clients : Push(c)
  \/ \E t \in Threads : PopNothing(t) \/ PopFirst(t) \/ Size(t)

Spec == Init /\ [][Next]_bpvars
=============================================================================
