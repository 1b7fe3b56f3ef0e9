------------------------ MODULE ThreadPoolQueueProofs ------------------------
(***************************************************************************)
(* What the functions of threadpool_queue compute, for every queue size    *)
(* and every set of elements, and the theorems about one queue under any   *)
(* sequence of calls.  The proofs about the whole thread pool rest on the  *)
(* lemmas.                                                                 *)
(***************************************************************************)
EXTENDS CircularQueue, FiniteSets, SequenceTheorems, FiniteSetTheorems, TLAPS

(* The initial struct is a well-formed, empty queue.                       *)
LEMMA QueueInitLemma ==
  ASSUME NEW T
  PROVE  /\ threadpool_queue_init \in Queue(T)
         /\ WellFormed(threadpool_queue_init)
         /\ threadpool_queue_init.num_of_cells = 0
BY QueueSizeAssumption
   DEF threadpool_queue_init, Queue, WellFormed, Cells, CellAfter, Occupied

(* Enqueue of a non-null element keeps a queue well-formed, and it fails   *)
(* exactly when the queue is full.                                         *)
LEMMA EnqueueWellFormed ==
  ASSUME NEW T, NULL \notin T, NEW q \in Queue(T), WellFormed(q), NEW d \in T
  PROVE  LET r == threadpool_queue_enqueue(q, d)
         IN  /\ r.queue \in Queue(T)
             /\ WellFormed(r.queue)
             /\ r.ret \in {0, -1}
             /\ r.ret = -1 <=> q.num_of_cells = THREAD_POOL_QUEUE_SIZE
             /\ r.ret = -1 => r.queue = q
             /\ r.ret = 0 => r.queue.num_of_cells = q.num_of_cells + 1
<1> DEFINE N == THREAD_POOL_QUEUE_SIZE
<1>1. N \in Nat \ {0}
  BY QueueSizeAssumption
<1>2. EnqueueFails(q) <=> q.num_of_cells = N
  BY <1>1 DEF EnqueueFails, WellFormed, Queue, Cells, CellAfter, Occupied
<1>3. CASE q.num_of_cells = N
  BY <1>1, <1>2, <1>3 DEF threadpool_queue_enqueue
<1>4. CASE q.num_of_cells # N
  <2> DEFINE t == q.tail
             e == [ head |-> q.head, tail |-> Advance(t),
                    num_of_cells |-> q.num_of_cells + 1,
                    cells |-> [q.cells EXCEPT ![t] = d] ]
  <2>1. threadpool_queue_enqueue(q, d) = [ret |-> 0, queue |-> e]
    BY <1>2, <1>4 DEF threadpool_queue_enqueue
  <2>2. /\ q.head \in Cells /\ t \in Cells
        /\ q.num_of_cells \in 0 .. (N - 1)
        /\ q.cells \in [Cells -> T \cup {NULL}]
    BY <1>1, <1>4 DEF Queue
  <2>3. e \in Queue(T)
    BY <1>1, <2>2 DEF Queue, Cells, Advance
  <2>4. e.tail = CellAfter(e.head, e.num_of_cells)
    BY <1>1, <2>2 DEF WellFormed, Cells, CellAfter, Advance
  <2>5. ASSUME NEW i \in Cells
        PROVE  e.cells[i] # NULL <=> Occupied(e, i)
    <3>1. q.cells[i] # NULL <=> Occupied(q, i)
      BY DEF WellFormed
    <3>2. Occupied(e, i) <=> Occupied(q, i) \/ i = t
      <4>1. t = CellAfter(q.head, q.num_of_cells)
        BY DEF WellFormed
      <4>2. e.head = q.head /\ e.num_of_cells = q.num_of_cells + 1
        OBVIOUS
      <4>3. ASSUME NEW h \in Cells, NEW n \in 0 .. (N - 1)
            PROVE  \/ h =< i /\ i < h + (n + 1)
                   \/ i + N < h + (n + 1)
                   <=> \/ h =< i /\ i < h + n
                       \/ i + N < h + n
                       \/ i = CellAfter(h, n)
        BY <1>1 DEF Cells, CellAfter
      <4> QED
        BY <2>2, <4>1, <4>2, <4>3 DEF Occupied
    <3>3. e.cells[i] = IF i = t THEN d ELSE q.cells[i]
      BY <2>2
    <3>4. d # NULL
      OBVIOUS
    <3> HIDE DEF e
    <3> QED
      BY <3>1, <3>2, <3>3, <3>4
  <2>6. WellFormed(e)
    BY <2>4, <2>5 DEF WellFormed
  <2>7. e.num_of_cells = q.num_of_cells + 1
    OBVIOUS
  <2> HIDE DEF e
  <2> QED
    BY <1>1, <1>4, <2>1, <2>2, <2>3, <2>6, <2>7
<1> QED
  BY <1>3, <1>4

(* Dequeue keeps a queue well-formed; on a queue that is not empty it      *)
(* returns the element of the head cell, on an empty one it returns NULL.  *)
LEMMA DequeueWellFormed ==
  ASSUME NEW T, NULL \notin T, NEW q \in Queue(T), WellFormed(q)
  PROVE  LET r == threadpool_queue_dequeue(q)
         IN  /\ r.queue \in Queue(T)
             /\ WellFormed(r.queue)
             /\ q.num_of_cells = 0 => r.data = NULL /\ r.queue = q
             /\ q.num_of_cells # 0 => /\ r.data = q.cells[q.head]
                                      /\ r.data \in T
                                      /\ r.queue.num_of_cells = q.num_of_cells - 1
<1> DEFINE N == THREAD_POOL_QUEUE_SIZE
           n == q.num_of_cells
           h == q.head
<1>1. N \in Nat \ {0}
  BY QueueSizeAssumption
<1>2. CASE n = 0
  BY <1>2 DEF threadpool_queue_dequeue
<1>3. CASE n # 0
  <2> DEFINE e == [ head |-> IF n = 1 THEN 0 ELSE Advance(h),
                    tail |-> IF n = 1 THEN 0 ELSE q.tail,
                    num_of_cells |-> n - 1,
                    cells |-> [q.cells EXCEPT ![h] = NULL] ]
  <2>1. threadpool_queue_dequeue(q) = [data |-> q.cells[h], queue |-> e]
    BY <1>3 DEF threadpool_queue_dequeue
  <2>2. /\ h \in Cells /\ q.tail \in Cells
        /\ n \in 1 .. N
        /\ q.cells \in [Cells -> T \cup {NULL}]
    BY <1>1, <1>3 DEF Queue
  <2>3. e \in Queue(T)
    BY <1>1, <2>2 DEF Queue, Cells, Advance
  <2>4. e.tail = CellAfter(e.head, e.num_of_cells)
    BY <1>1, <2>2 DEF WellFormed, Cells, CellAfter, Advance
  <2>5. ASSUME NEW i \in Cells
        PROVE  e.cells[i] # NULL <=> Occupied(e, i)
    <3>1. q.cells[i] # NULL <=> Occupied(q, i)
      BY DEF WellFormed
    <3>2. Occupied(e, i) <=> Occupied(q, i) /\ i # h
      BY <1>1, <2>2 DEF Occupied, Cells, Advance
    <3> QED
      BY <2>2, <3>1, <3>2
  <2>6. q.cells[h] # NULL
    BY <1>1, <2>2 DEF WellFormed, Occupied, Cells
  <2> QED
    BY <1>1, <1>3, <2>1, <2>2, <2>3, <2>4, <2>5, <2>6 DEF WellFormed
<1> QED
  BY <1>2, <1>3

(* The contents of a queue are a sequence of elements, one per occupied    *)
(* cell.                                                                   *)
LEMMA ContentsType ==
  ASSUME NEW T, NULL \notin T, NEW q \in Queue(T), WellFormed(q)
  PROVE  /\ Contents(q) \in Seq(T)
         /\ Len(Contents(q)) = q.num_of_cells
         /\ DOMAIN Contents(q) = 1 .. q.num_of_cells
<1>1. ASSUME NEW k \in 1 .. q.num_of_cells
      PROVE  q.cells[CellAfter(q.head, k - 1)] \in T
  <2> DEFINE c == CellAfter(q.head, k - 1)
  <2>1. /\ q.head \in Cells /\ q.num_of_cells \in 0 .. THREAD_POOL_QUEUE_SIZE
        /\ q.cells \in [Cells -> T \cup {NULL}]
    BY DEF Queue
  <2>2. c \in Cells /\ Occupied(q, c)
    BY <2>1, QueueSizeAssumption DEF Cells, CellAfter, Occupied
  <2>3. q.cells[c] # NULL
    BY <2>2 DEF WellFormed
  <2> QED
    BY <2>1, <2>2, <2>3
<1>2. q.num_of_cells \in Nat
  BY QueueSizeAssumption DEF Queue
<1> QED
  BY <1>1, <1>2 DEF Contents

(* A successful enqueue appends to the contents.                           *)
LEMMA EnqueueAppends ==
  ASSUME NEW T, NULL \notin T, NEW q \in Queue(T), WellFormed(q), NEW d \in T,
         q.num_of_cells # THREAD_POOL_QUEUE_SIZE
  PROVE  Contents(threadpool_queue_enqueue(q, d).queue) = Append(Contents(q), d)
<1> DEFINE N == THREAD_POOL_QUEUE_SIZE
           e == threadpool_queue_enqueue(q, d).queue
           n == q.num_of_cells
<1>1. N \in Nat \ {0}
  BY QueueSizeAssumption
<1>2. /\ q.head \in Cells /\ q.tail \in Cells /\ n \in 0 .. (N - 1)
      /\ q.cells \in [Cells -> T \cup {NULL}]
  BY <1>1 DEF Queue
<1>3. q.tail = CellAfter(q.head, n)
  BY DEF WellFormed
<1>4. ~Occupied(q, q.tail)
  BY <1>1, <1>2, <1>3 DEF Occupied, CellAfter, Cells
<1>5. q.cells[q.tail] = NULL
  BY <1>2, <1>4 DEF WellFormed
<1>6. /\ e.head = q.head /\ e.num_of_cells = n + 1
      /\ e.cells = [q.cells EXCEPT ![q.tail] = d]
  BY <1>5 DEF threadpool_queue_enqueue, EnqueueFails
<1> HIDE DEF e
<1>7. Len(Contents(q)) = n /\ Contents(q) \in Seq(T)
  BY ContentsType
<1>8. ASSUME NEW k \in 1 .. (n + 1)
      PROVE  Contents(e)[k] = Append(Contents(q), d)[k]
  <2>1. CellAfter(q.head, k - 1) \in Cells
    BY <1>1, <1>2 DEF CellAfter, Cells
  <2>2. CellAfter(q.head, k - 1) = q.tail <=> k = n + 1
    <3>1. ASSUME NEW h \in Cells, NEW m \in 0 .. (N - 1), NEW l \in 0 .. m
          PROVE  CellAfter(h, l) = CellAfter(h, m) <=> l = m
      BY <1>1 DEF CellAfter, Cells
    <3>2. k - 1 \in 0 .. n
      BY <1>2
    <3>3. k - 1 = n <=> k = n + 1
      BY <1>2
    <3> QED
      BY <1>2, <1>3, <3>1, <3>2, <3>3
  <2>3. Contents(e)[k] = e.cells[CellAfter(q.head, k - 1)]
    BY <1>6 DEF Contents
  <2>4. k # n + 1 => Contents(q)[k] = q.cells[CellAfter(q.head, k - 1)]
    BY <1>2 DEF Contents
  <2>5. e.cells[CellAfter(q.head, k - 1)] =
          IF k = n + 1 THEN d ELSE q.cells[CellAfter(q.head, k - 1)]
    BY <1>2, <1>6, <2>1, <2>2
  <2>6. Append(Contents(q), d)[k] = IF k = n + 1 THEN d ELSE Contents(q)[k]
    BY <1>2, <1>7
  <2> QED
    BY <2>3, <2>4, <2>5, <2>6
<1>9. e \in Queue(T) /\ WellFormed(e)
  BY EnqueueWellFormed DEF e
<1>10. Contents(e) \in Seq(T) /\ Len(Contents(e)) = n + 1
  BY <1>6, <1>9, ContentsType
<1>11. Append(Contents(q), d) \in Seq(T) /\ Len(Append(Contents(q), d)) = n + 1
  BY <1>7
<1>12. Contents(e) = Append(Contents(q), d)
  BY <1>8, <1>10, <1>11, SeqEqual
<1> QED
  BY <1>12 DEF e

(* A dequeue from a queue that is not empty returns the head of the        *)
(* contents and leaves their tail.                                         *)
LEMMA DequeueTakesHead ==
  ASSUME NEW T, NULL \notin T, NEW q \in Queue(T), WellFormed(q),
         q.num_of_cells # 0
  PROVE  LET r == threadpool_queue_dequeue(q)
         IN  /\ r.data = Head(Contents(q))
             /\ Contents(r.queue) = Tail(Contents(q))
<1> DEFINE N == THREAD_POOL_QUEUE_SIZE
           e == threadpool_queue_dequeue(q).queue
           n == q.num_of_cells
           h == q.head
<1>1. N \in Nat \ {0}
  BY QueueSizeAssumption
<1>2. /\ h \in Cells /\ n \in 1 .. N
      /\ q.cells \in [Cells -> T \cup {NULL}]
  BY <1>1 DEF Queue
<1>3. /\ e.head = IF n = 1 THEN 0 ELSE Advance(h)
      /\ e.num_of_cells = n - 1
      /\ e.cells = [q.cells EXCEPT ![h] = NULL]
      /\ threadpool_queue_dequeue(q).data = q.cells[h]
  BY <1>2 DEF threadpool_queue_dequeue
<1> HIDE DEF e
<1>4. Len(Contents(q)) = n /\ Contents(q) \in Seq(T)
  BY ContentsType
<1>5. q.cells[h] = Head(Contents(q))
  BY <1>1, <1>2, <1>4 DEF Contents, CellAfter, Cells
<1>6. ASSUME NEW k \in 1 .. (n - 1)
      PROVE  Contents(e)[k] = Tail(Contents(q))[k]
  <2>1. /\ CellAfter(e.head, k - 1) = CellAfter(h, k)
        /\ CellAfter(h, k) \in Cells /\ CellAfter(h, k) # h
    <3>1. n # 1 /\ e.head = Advance(h)
      BY <1>2, <1>3
    <3>2. k < n /\ k >= 1 /\ n =< N
      BY <1>2
    <3>3. CellAfter(Advance(h), k - 1) = CellAfter(h, k)
      BY <1>1, <1>2, <3>2 DEF CellAfter, Cells, Advance
    <3>4. CellAfter(h, k) \in Cells /\ CellAfter(h, k) # h
      BY <1>1, <1>2, <3>2 DEF CellAfter, Cells
    <3> QED
      BY <3>1, <3>3, <3>4
  <2>2. Contents(e)[k] = q.cells[CellAfter(h, k)]
    BY <1>2, <1>3, <2>1 DEF Contents
  <2>3. Tail(Contents(q))[k] = Contents(q)[k + 1]
    BY <1>2, <1>4
  <2>4. Contents(q)[k + 1] = q.cells[CellAfter(h, (k + 1) - 1)]
    BY <1>2 DEF Contents
  <2>5. (k + 1) - 1 = k
    BY <1>2
  <2> QED
    BY <2>2, <2>3, <2>4, <2>5
<1>7. e \in Queue(T) /\ WellFormed(e)
  BY DequeueWellFormed DEF e
<1>8. /\ Contents(e) \in Seq(T) /\ Len(Contents(e)) = n - 1
      /\ Tail(Contents(q)) \in Seq(T) /\ Len(Tail(Contents(q))) = n - 1
  BY <1>2, <1>3, <1>4, <1>7, ContentsType
<1>9. Contents(e) = Tail(Contents(q))
  BY <1>6, <1>8, SeqEqual
<1> QED
  BY <1>3, <1>5, <1>9 DEF e

(* A successful enqueue writes one cell, the tail.                         *)
LEMMA EnqueueCells ==
  ASSUME NEW T, NULL \notin T, NEW q \in Queue(T), WellFormed(q), NEW d \in T,
         q.num_of_cells # THREAD_POOL_QUEUE_SIZE
  PROVE  /\ q.tail \in Cells
         /\ q.cells[q.tail] = NULL
         /\ threadpool_queue_enqueue(q, d).queue.cells = [q.cells EXCEPT ![q.tail] = d]
<1>1. /\ q.head \in Cells /\ q.tail \in Cells
      /\ q.num_of_cells \in 0 .. (THREAD_POOL_QUEUE_SIZE - 1)
  BY QueueSizeAssumption DEF Queue
<1>2. q.tail = CellAfter(q.head, q.num_of_cells)
  BY DEF WellFormed
<1>3. ~Occupied(q, q.tail)
  BY QueueSizeAssumption, <1>1, <1>2 DEF Occupied, CellAfter, Cells
<1>4. q.cells[q.tail] = NULL
  BY <1>1, <1>3 DEF WellFormed
<1> QED
  BY <1>1, <1>4 DEF threadpool_queue_enqueue, EnqueueFails

(* A dequeue from a queue that is not empty clears one cell, the head, and  *)
(* returns what it held.                                                   *)
LEMMA DequeueCells ==
  ASSUME NEW T, NULL \notin T, NEW q \in Queue(T), WellFormed(q),
         q.num_of_cells # 0
  PROVE  /\ q.head \in Cells
         /\ threadpool_queue_dequeue(q).data = q.cells[q.head]
         /\ threadpool_queue_dequeue(q).queue.cells = [q.cells EXCEPT ![q.head] = NULL]
BY DEF threadpool_queue_dequeue, Queue

(* A queue of distinct task indices that lacks one of them is not full: by *)
(* the pigeonhole principle THREAD_POOL_QUEUE_SIZE distinct indices would  *)
(* be all of them.                                                         *)
LEMMA NotFull ==
  ASSUME NULL \notin Cells, NEW q \in Queue(Cells), WellFormed(q),
         NEW s \in Cells, \A i \in Cells : q.cells[i] # s,
         \A i, j \in Cells : q.cells[i] # NULL /\ q.cells[i] = q.cells[j] => i = j
  PROVE  q.num_of_cells # THREAD_POOL_QUEUE_SIZE
<1> SUFFICES ASSUME q.num_of_cells = THREAD_POOL_QUEUE_SIZE PROVE FALSE
  OBVIOUS
<1>1. q.head \in Cells /\ q.cells \in [Cells -> Cells \cup {NULL}]
  BY DEF Queue
<1>2. \A i \in Cells : Occupied(q, i)
  BY <1>1, QueueSizeAssumption DEF Occupied, Cells
<1>3. \A i \in Cells : q.cells[i] # NULL
  BY <1>2 DEF WellFormed
<1> DEFINE T == Cells \ {s}
<1>4. q.cells \in [Cells -> T]
  BY <1>1, <1>3
<1>5. IsFiniteSet(Cells)
  <2>1. 0 \in Int /\ THREAD_POOL_QUEUE_SIZE - 1 \in Int
    BY QueueSizeAssumption
  <2> QED
    BY <2>1, FS_Interval DEF Cells
<1>6. IsFiniteSet(T) /\ Cardinality(T) = Cardinality(Cells) - 1 /\ Cardinality(Cells) \in Nat
  BY <1>5, FS_RemoveElement, FS_CardinalityType
<1>7. Cardinality(T) < Cardinality(Cells)
  BY <1>6
<1> HIDE DEF T
<1>8. \E x, y \in Cells : x # y /\ q.cells[x] = q.cells[y]
  BY <1>4, <1>5, <1>6, <1>7, FS_PigeonHole
<1> QED
  BY <1>3, <1>8

-----------------------------------------------------------------------------
(* One queue: well-formed for ever, and a bounded FIFO buffer.              *)

(* The inductive invariant: types and the representation invariant.  The   *)
(* types alone are not inductive, since a dequeue must find an item in the *)
(* head cell and an enqueue must not run past THREAD_POOL_QUEUE_SIZE.      *)
QueueInv == QueueTypeOK /\ QueueWellFormed

LEMMA QueueInvInit == QueueInit => QueueInv
BY QueueInitLemma DEF QueueInit, QueueInv, QueueTypeOK, QueueWellFormed

LEMMA QueueInvStep == QueueInv /\ [QueueNext]_queueVars => QueueInv'
<1> SUFFICES ASSUME QueueInv, [QueueNext]_queueVars PROVE QueueInv'
  OBVIOUS
<1> USE ItemsAssumption DEF QueueInv, QueueTypeOK, QueueWellFormed
<1>1. ASSUME NEW d \in Items, Enqueue(d) PROVE QueueInv'
  <2>1. /\ threadpool_queue_enqueue(queue, d).queue \in Queue(Items)
        /\ WellFormed(threadpool_queue_enqueue(queue, d).queue)
        /\ threadpool_queue_enqueue(queue, d).ret \in {0, -1}
    BY EnqueueWellFormed
  <2> QED
    BY <1>1, <2>1 DEF Enqueue
<1>2. CASE Dequeue
  <2>1. /\ threadpool_queue_dequeue(queue).queue \in Queue(Items)
        /\ WellFormed(threadpool_queue_dequeue(queue).queue)
        /\ threadpool_queue_dequeue(queue).data \in Items \cup {NULL}
    BY DequeueWellFormed
  <2> QED
    BY <1>2, <2>1 DEF Dequeue
<1>3. CASE UNCHANGED queueVars
  BY <1>3 DEF queueVars
<1> QED
  BY <1>1, <1>2, <1>3 DEF QueueNext

(* The types hold and the representation invariant of threadpool_queue     *)
(* holds in every reachable state, whatever sequence of enqueues and       *)
(* dequeues the pool makes.                                                *)
THEOREM QueueCorrect == QueueSpec => [](QueueTypeOK /\ QueueWellFormed)
BY QueueInvInit, QueueInvStep, PTL DEF QueueSpec, QueueInv

(* The circular array is a bounded FIFO buffer: enqueue fails only when    *)
(* THREAD_POOL_QUEUE_SIZE items are queued, dequeue only when none is, and *)
(* items leave in the order in which they came.                            *)
THEOREM QueueIsFifo == QueueSpec => ImplementsFifo
<1>1. QueueInit => Fifo!Init
  <2> SUFFICES ASSUME QueueInit PROVE Fifo!Init
    OBVIOUS
  <2>1. queue \in Queue(Items) /\ WellFormed(queue) /\ queue.num_of_cells = 0
    BY QueueInitLemma DEF QueueInit
  <2>2. Contents(queue) \in Seq(Items) /\ Len(Contents(queue)) = 0
    BY <2>1, ContentsType, ItemsAssumption
  <2>3. Contents(queue) = << >>
    BY <2>2
  <2> QED
    BY <2>3 DEF QueueInit, Fifo!Init
<1>2. QueueInv /\ [QueueNext]_queueVars => [Fifo!Next]_(Fifo!vars)
  <2> SUFFICES ASSUME QueueInv, [QueueNext]_queueVars PROVE [Fifo!Next]_(Fifo!vars)
    OBVIOUS
  <2> DEFINE items == Contents(queue)
  <2>1. queue \in Queue(Items) /\ WellFormed(queue) /\ NULL \notin Items
    BY ItemsAssumption DEF QueueInv, QueueTypeOK, QueueWellFormed
  <2>2. items \in Seq(Items) /\ Len(items) = queue.num_of_cells
    BY <2>1, ContentsType
  <2>3. ASSUME NEW d \in Items, Enqueue(d) PROVE Fifo!Put(d)
    <3>1. CASE queue.num_of_cells = THREAD_POOL_QUEUE_SIZE
      <4>1. queue' = queue /\ ret' = -1 /\ got' = got
        BY <2>1, <2>3, <3>1, EnqueueWellFormed DEF Enqueue
      <4> QED
        BY <2>2, <3>1, <4>1 DEF Fifo!Put
    <3>2. CASE queue.num_of_cells # THREAD_POOL_QUEUE_SIZE
      <4>1. ret' = 0 /\ got' = got
        BY <2>1, <2>3, <3>2, EnqueueWellFormed DEF Enqueue
      <4>2. Contents(queue') = Append(items, d)
        BY <2>1, <2>3, <3>2, EnqueueAppends DEF Enqueue
      <4>3. Contents(queue)' = Append(items, d)
        BY <4>2 DEF Contents
      <4>4. Len(items) < THREAD_POOL_QUEUE_SIZE
        BY <2>1, <2>2, <3>2, QueueSizeAssumption DEF Queue
      <4> QED
        BY <4>1, <4>3, <4>4 DEF Fifo!Put
    <3> QED
      BY <3>1, <3>2
  <2>4. ASSUME Dequeue PROVE Fifo!Get
    <3>1. CASE queue.num_of_cells = 0
      <4>1. queue' = queue /\ got' = NULL /\ ret' = ret
        BY <2>1, <2>4, <3>1, DequeueWellFormed DEF Dequeue
      <4> QED
        BY <2>2, <3>1, <4>1 DEF Fifo!Get
    <3>2. CASE queue.num_of_cells # 0
      <4>1. got' = Head(items) /\ Contents(queue') = Tail(items) /\ ret' = ret
        BY <2>1, <2>4, <3>2, DequeueTakesHead DEF Dequeue
      <4>2. Contents(queue)' = Tail(items)
        BY <4>1 DEF Contents
      <4>3. items # << >>
        BY <2>2, <3>2
      <4> QED
        BY <4>1, <4>2, <4>3 DEF Fifo!Get
    <3> QED
      BY <3>1, <3>2
  <2>5. CASE UNCHANGED queueVars
    BY <2>5 DEF queueVars, Fifo!vars, Contents
  <2> QED
    BY <2>3, <2>4, <2>5 DEF QueueNext, Fifo!Next
<1> QED
  BY <1>1, <1>2, QueueInvInit, QueueInvStep, PTL
     DEF QueueSpec, ImplementsFifo, Fifo!Spec
=============================================================================
