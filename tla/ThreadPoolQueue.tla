--------------------------- MODULE ThreadPoolQueue ---------------------------
(***************************************************************************)
(* The circular queue of c-study/cthreadpool/threadpool.c (struct          *)
(* threadpool_queue and its functions), as operators on a record.  The     *)
(* pool keeps two of them: tasks_queue and free_tasks_queue.               *)
(*                                                                         *)
(* A C function that changes *queue and returns a value is an operator     *)
(* that returns a record with the new queue and the value.                 *)
(***************************************************************************)
EXTENDS Integers, Sequences

CONSTANTS
  THREAD_POOL_QUEUE_SIZE,   \* number of cells; 10000 in the code
  NULL                      \* the null pointer

ASSUME QueueSizeAssumption == THREAD_POOL_QUEUE_SIZE \in Nat \ {0}

(* Indices of the array cells[]. *)
Cells == 0 .. (THREAD_POOL_QUEUE_SIZE - 1)

(* The struct, holding elements of the set T (or NULL). *)
Queue(T) ==
  [ head : Cells, tail : Cells,
    num_of_cells : 0 .. THREAD_POOL_QUEUE_SIZE,
    cells : [Cells -> T \cup {NULL}] ]

threadpool_queue_init ==
  [ head |-> 0, tail |-> 0, num_of_cells |-> 0, cells |-> [i \in Cells |-> NULL] ]

(* A faulty threadpool_queue_is_empty: it never says so. *)
IsEmptyNever(queue) == queue.num_of_cells < 0

threadpool_queue_is_empty(queue) == queue.num_of_cells = 0

threadpool_queue_getsize(queue) == queue.num_of_cells

(* A faulty Advance: the index is incremented and never wraps. *)
AdvanceNoWrap(i) == i + 1

(* queue->x++; if (queue->x == THREAD_POOL_QUEUE_SIZE) queue->x = 0 *)
Advance(i) == IF i + 1 = THREAD_POOL_QUEUE_SIZE THEN 0 ELSE i + 1

(* The two checks that make enqueue return -1: a full queue, a tail cell   *)
(* that is not NULL ("A problem was detected in the queue").               *)
EnqueueFails(queue) ==
  \/ queue.num_of_cells = THREAD_POOL_QUEUE_SIZE
  \/ queue.cells[queue.tail] # NULL

threadpool_queue_enqueue(queue, data) ==
  IF EnqueueFails(queue)
  THEN [ ret |-> -1, queue |-> queue ]
  ELSE [ ret |-> 0,
         queue |-> [ head |-> queue.head,
                     tail |-> Advance(queue.tail),
                     num_of_cells |-> queue.num_of_cells + 1,
                     cells |-> [queue.cells EXCEPT ![queue.tail] = data] ] ]

(* A faulty dequeue: the cell it empties is not set to NULL. *)
DequeueLeavesCell(queue) ==
  IF queue.num_of_cells = 0
  THEN [ data |-> NULL, queue |-> queue ]
  ELSE [ data |-> queue.cells[queue.head],
         queue |-> [ queue EXCEPT
                       !.head = IF queue.num_of_cells = 1 THEN 0 ELSE Advance(@),
                       !.tail = IF queue.num_of_cells = 1 THEN 0 ELSE @,
                       !.num_of_cells = @ - 1 ] ]

(* When the last element leaves, the code rewinds head and tail to 0.      *)
threadpool_queue_dequeue(queue) ==
  IF queue.num_of_cells = 0
  THEN [ data |-> NULL, queue |-> queue ]
  ELSE [ data |-> queue.cells[queue.head],
         queue |->
           [ head |-> IF queue.num_of_cells = 1 THEN 0 ELSE Advance(queue.head),
             tail |-> IF queue.num_of_cells = 1 THEN 0 ELSE queue.tail,
             num_of_cells |-> queue.num_of_cells - 1,
             cells |-> [queue.cells EXCEPT ![queue.head] = NULL] ] ]

-----------------------------------------------------------------------------
(* What a queue stands for. *)

(* The cell that is k places after cell h, for k =< THREAD_POOL_QUEUE_SIZE. *)
CellAfter(h, k) ==
  IF h + k < THREAD_POOL_QUEUE_SIZE THEN h + k ELSE h + k - THREAD_POOL_QUEUE_SIZE

(* The elements in the queue, oldest first. *)
Contents(queue) ==
  [ k \in 1 .. queue.num_of_cells |-> queue.cells[CellAfter(queue.head, k - 1)] ]

(* The same elements as a set. *)
Elements(queue) == { queue.cells[i] : i \in Cells } \ {NULL}

(* Cell i lies in the window that starts at head and has num_of_cells cells. *)
Occupied(queue, i) ==
  \/ queue.head =< i /\ i < queue.head + queue.num_of_cells
  \/ i + THREAD_POOL_QUEUE_SIZE < queue.head + queue.num_of_cells

(* The representation invariant: tail is num_of_cells places after head,   *)
(* and a cell holds an element exactly when it lies in the window.         *)
WellFormed(queue) ==
  /\ queue.tail = CellAfter(queue.head, queue.num_of_cells)
  /\ \A i \in Cells : queue.cells[i] # NULL <=> Occupied(queue, i)
=============================================================================
