---------------------------- MODULE CircularQueue ----------------------------
(***************************************************************************)
(* The life of one threadpool_queue: it is initialised and then enqueue    *)
(* and dequeue are called on it in any order, as the code does under a     *)
(* mutex.  CircularQueue implements BoundedFifo.                           *)
(***************************************************************************)
EXTENDS ThreadPoolQueue

CONSTANT Items   \* the pointers that are enqueued

ASSUME ItemsAssumption == NULL \notin Items

VARIABLES
  queue,   \* the struct
  ret,     \* what the last threadpool_queue_enqueue returned
  got      \* what the last threadpool_queue_dequeue returned

queueVars == <<queue, ret, got>>

QueueInit ==
  /\ queue = threadpool_queue_init
  /\ ret = 0
  /\ got = NULL

Enqueue(d) ==
  LET r == threadpool_queue_enqueue(queue, d)
  IN  /\ queue' = r.queue
      /\ ret' = r.ret
      /\ UNCHANGED got

Dequeue ==
  LET r == threadpool_queue_dequeue(queue)
  IN  /\ queue' = r.queue
      /\ got' = r.data
      /\ UNCHANGED ret

QueueNext == Dequeue \/ \E d \in Items : Enqueue(d)

QueueSpec == QueueInit /\ [][QueueNext]_queueVars

-----------------------------------------------------------------------------
(* Type correctness of the struct and of the two results.                  *)
QueueTypeOK ==
  /\ queue \in Queue(Items)
  /\ ret \in {0, -1}
  /\ got \in Items \cup {NULL}

(* The representation invariant of threadpool_queue: head, tail and        *)
(* num_of_cells agree, and exactly the cells between head and tail are     *)
(* not NULL, through every wrap-around and every rewind to 0.              *)
QueueWellFormed == WellFormed(queue)

Fifo == INSTANCE BoundedFifo
          WITH Capacity <- THREAD_POOL_QUEUE_SIZE, items <- Contents(queue)

(* The circular queue behaves as a bounded FIFO buffer: what dequeue       *)
(* returns is what was enqueued first, nothing is lost, duplicated or      *)
(* overwritten, and enqueue fails exactly when the buffer is full, so its  *)
(* check "expected NULL, but found a different value" never fires.         *)
ImplementsFifo == Fifo!Spec
=============================================================================
