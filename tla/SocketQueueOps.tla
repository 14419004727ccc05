--------------------------- MODULE SocketQueueOps ---------------------------
(***************************************************************************)
(* The operations of socket_queue_t (http_server.h) on its vector, as pure *)
(* operators.  They are used by SocketQueue, which adds the mutex, and by  *)
(* QueueServer, which uses each operation as one atomic step.              *)
(***************************************************************************)
EXTENDS Integers, SequencesExt

(* push(): _socket_queue.push_back(item).                                  *)
PushBack(q, item) == Append(q, item)

(* pop() on a non-empty vector returns a copy of front() ...               *)
PopValue(q) == Head(q)

(* ... and then removes the element at the other end, with pop_back().     *)
PopRest(q) == Front(q)
=============================================================================
