-------------------------- MODULE ThreadPoolProofs --------------------------
(***************************************************************************)
(* Safety of the thread pool for every number of workers, clients, tasks   *)
(* and calls, and its refinement of TaskPool.  The inductive invariant is  *)
(* built in layers, each inductive relative to the ones below it:          *)
(*   PoolTypes     types, well-formed queues, who holds a task when;       *)
(*   Phases        which threads can be active in which phase of main;     *)
(*   Locked        a mutex is held by exactly the thread in its section;   *)
(*   SlotsInv      no task in two places, and how the free queue is filled;*)
(*   WakeupInv     what a thread between test and action may rely on;      *)
(*   JobsInv       whose job a task carries, and that jobs are all new;    *)
(*   Circulation   where each task of the array is to be found.            *)
(***************************************************************************)
EXTENDS ThreadPool, ThreadPoolQueueProofs

(* A worker holds a task from the dequeue until it has been returned, a    *)
(* client from the dequeue of a free one until it has been queued.         *)
Holding ==
  /\ \A w \in Workers :
       wtask[w] # NULL <=> wpc[w] \in {"run", "free_lock", "free_enqueue"}
  /\ \A p \in Producers :
       ptask[p] # NULL <=> ppc[p] \in {"fill", "lock", "enqueue"}

PoolTypes ==
  /\ TypeOK
  /\ WellFormed(tasks_queue) /\ WellFormed(free_tasks_queue)
  /\ Holding

(* What the proofs about one step use of a queue and its two operations.   *)
LEMMA QueueSteps ==
  ASSUME NEW q \in Queue(Cells), WellFormed(q)
  PROVE  /\ LET r == threadpool_queue_dequeue(q)
            IN  /\ r.queue \in Queue(Cells) /\ WellFormed(r.queue)
                /\ r.data \in Cells \cup {NULL}
                /\ q.num_of_cells # 0 => r.data \in Cells
         /\ \A d \in Cells :
              LET r == threadpool_queue_enqueue(q, d)
              IN  /\ r.queue \in Queue(Cells) /\ WellFormed(r.queue)
                  /\ r.ret \in {0, -1}
<1>1. NULL \notin Cells
  BY ConstantsAssumption
<1>2. \A d \in Cells :
        LET r == threadpool_queue_enqueue(q, d)
        IN  /\ r.queue \in Queue(Cells) /\ WellFormed(r.queue)
            /\ r.ret \in {0, -1}
  BY <1>1, EnqueueWellFormed
<1> QED
  BY <1>1, <1>2, DequeueWellFormed

LEMMA PoolTypesInit == Init => PoolTypes
<1> SUFFICES ASSUME Init PROVE PoolTypes
  OBVIOUS
<1>1. threadpool_queue_init \in Queue(Cells) /\ WellFormed(threadpool_queue_init)
  BY QueueInitLemma
<1>2. TypeOK
  BY <1>1, ConstantsAssumption, QueueSizeAssumption
     DEF Init, TypeOK, Task, threadpool_task_init, Threads, WorkerPC, ProducerPC,
         MainPC, StopPC
<1> QED
  BY <1>1, <1>2 DEF Init, PoolTypes, Holding

LEMMA PoolTypesStep == PoolTypes /\ [Next]_vars => PoolTypes'
<1> SUFFICES ASSUME PoolTypes, [Next]_vars PROVE PoolTypes'
  OBVIOUS
<1> USE ConstantsAssumption, QueueSizeAssumption
    DEF PoolTypes, TypeOK, Holding, Threads, WorkerPC, ProducerPC, MainPC, StopPC,
        Task, threadpool_task_init,
        poolVars, mutexVars, workerVars, producerVars, mainVars, modelVars
<1>1. ASSUME MainStep PROVE PoolTypes'
  <2>1. CASE InitPool
    BY <2>1, QueueInitLemma DEF InitPool
  <2>2. CASE InitPoolFails
    BY <2>2 DEF InitPoolFails
  <2>3. CASE InitFreeTask
    <3>1. fill \in Cells
      BY <2>3 DEF InitFreeTask, Cells
    <3> QED
      BY <2>3, <3>1, QueueSteps DEF InitFreeTask
  <2>4. CASE InitThrArr
    BY <2>4 DEF InitThrArr
  <2>5. ASSUME NEW w \in Workers, CreateWorker(w) PROVE PoolTypes'
    BY <2>5 DEF CreateWorker
  <2>6. CASE CreateFails
    BY <2>6 DEF CreateFails, FreeNonBlocking
  <2>7. CASE InitReturns
    BY <2>7 DEF InitReturns
  <2> QED
    BY <1>1, <2>1, <2>2, <2>3, <2>4, <2>5, <2>6, <2>7 DEF MainStep
<1>2. ASSUME Client PROVE PoolTypes'
  <2>1. ASSUME NEW p \in Producers, NEW r \in Routines, NEW b \in BOOLEAN,
               AddTask(p, r, b)
        PROVE  PoolTypes'
    BY <2>1 DEF AddTask
  <2>2. ASSUME NEW p \in Producers, AddTaskNullPool(p) PROVE PoolTypes'
    BY <2>2 DEF AddTaskNullPool
  <2>3. ASSUME NEW b \in BOOLEAN, threadpool_free(b) PROVE PoolTypes'
    BY <2>3 DEF threadpool_free, FreeNonBlocking
  <2> QED
    BY <1>2, <2>1, <2>2, <2>3 DEF Client
<1>3. ASSUME StopStep PROVE PoolTypes'
  <2>1. CASE StopSetFlag
    BY <2>1 DEF StopSetFlag
  <2>2. CASE StopLock
    BY <2>2 DEF StopLock
  <2>3. CASE StopBroadcast
    BY <2>3 DEF StopBroadcast, Broadcast
  <2>4. CASE StopJoin
    BY <2>4 DEF StopJoin, WorkersJoined
  <2> QED
    BY <1>3, <2>1, <2>2, <2>3, <2>4 DEF StopStep
<1>4. ASSUME NEW w \in Workers, WorkerStep(w) \/ WorkerSpuriousWakeup(w)
      PROVE  PoolTypes'
  <2>1. CASE WorkerStart(w)
    BY <2>1 DEF WorkerStart
  <2>2. CASE WorkerLock(w)
    BY <2>2 DEF WorkerLock
  <2>3. CASE WorkerCheck(w)
    BY <2>3 DEF WorkerCheck
  <2>4. CASE WorkerWait(w)
    BY <2>4 DEF WorkerWait
  <2>5. CASE WorkerRecheck(w)
    BY <2>5 DEF WorkerRecheck
  <2>6. CASE WorkerTake(w)
    BY <2>6, QueueSteps DEF WorkerTake
  <2>7. CASE WorkerRun(w)
    <3>1. wtask[w] \in Cells
      BY <2>7 DEF WorkerRun
    <3>2. tasks[wtask[w]].data \in 1 .. MaxCalls \cup {NULL}
      BY <3>1
    <3>3. tasks' \in [Cells -> Task] /\ finished' \subseteq (1 .. MaxCalls) \cup {NULL}
      BY <2>7, <3>1, <3>2 DEF WorkerRun
    <3> QED
      BY <2>7, <3>3 DEF WorkerRun
  <2>8. CASE WorkerRunNothing(w)
    BY <2>8 DEF WorkerRunNothing
  <2>9. CASE WorkerFreeLock(w)
    BY <2>9 DEF WorkerFreeLock
  <2>10. CASE WorkerFreeEnqueue(w)
    BY <2>10, QueueSteps DEF WorkerFreeEnqueue, FreeTasksBroadcast
  <2>11. CASE WorkerSpuriousWakeup(w)
    BY <2>11 DEF WorkerSpuriousWakeup
  <2> QED
    BY <1>4, <2>1, <2>2, <2>3, <2>4, <2>5, <2>6, <2>7, <2>8, <2>9, <2>10, <2>11
       DEF WorkerStep
<1>5. ASSUME NEW p \in Producers, ProducerStep(p) \/ ProducerSpuriousWakeup(p)
      PROVE  PoolTypes'
  <2>1. CASE ProducerFreeLock(p)
    BY <2>1 DEF ProducerFreeLock
  <2>2. CASE ProducerOverloaded(p)
    BY <2>2 DEF ProducerOverloaded
  <2>3. CASE ProducerWait(p)
    BY <2>3 DEF ProducerWait
  <2>4. CASE ProducerObtain(p)
    BY <2>4, QueueSteps DEF ProducerObtain
  <2>5. CASE ProducerFill(p)
    BY <2>5 DEF ProducerFill
  <2>6. CASE ProducerLock(p)
    BY <2>6 DEF ProducerLock
  <2>7. CASE ProducerEnqueue(p)
    BY <2>7, QueueSteps DEF ProducerEnqueue, Broadcast
  <2>8. CASE ProducerSpuriousWakeup(p)
    BY <2>8 DEF ProducerSpuriousWakeup
  <2> QED
    BY <1>5, <2>1, <2>2, <2>3, <2>4, <2>5, <2>6, <2>7, <2>8 DEF ProducerStep
<1>6. CASE UNCHANGED vars
  BY <1>6 DEF vars
<1>7. CASE Terminated
  BY <1>7 DEF Terminated, vars
<1> QED
  BY <1>1, <1>2, <1>3, <1>4, <1>5, <1>6, <1>7 DEF Next

(* Which threads can be active in which phase of the client's main thread, *)
(* and who is left when the pool has been freed.                           *)
Phases ==
  /\ mpc \in {"init", "fill"} => \A w \in Workers : wpc[w] = "none"
  /\ mpc # "client" => \A p \in Producers : ppc[p] = "idle"
  /\ mpc \in {"init", "fill", "create", "client"} =>
       stop_flag = 0 /\ spc = "off" /\ pool # "freed"
  /\ mpc = "stopping" => spc # "off"
  /\ spc \in {"lock", "broadcast", "join", "done"} => stop_flag = 1
  /\ pool = "freed" =>
       /\ spc \in {"off", "done"}
       /\ \A w \in Workers : wpc[w] \in {"none", "exited"}

LEMMA PhasesInit == Init => Phases
BY DEF Init, Phases

LEMMA PhasesStep ==
  Phases /\ PoolTypes /\ [Next]_vars => Phases'
<1> SUFFICES ASSUME Phases, PoolTypes, [Next]_vars PROVE Phases'
  OBVIOUS
<1>a. /\ wpc \in [Workers -> WorkerPC] /\ ppc \in [Producers -> ProducerPC]
      /\ mpc \in MainPC /\ spc \in StopPC /\ stop_flag \in {0, 1}
      /\ pool \in {"none", "live", "freed"}
  BY DEF PoolTypes, TypeOK
<1> USE <1>a
    DEF Phases, MainPC, StopPC,
        poolVars, mutexVars, workerVars, producerVars, mainVars, modelVars
<1>1. ASSUME MainStep PROVE Phases'
  <2>1. CASE InitPool
    BY <2>1 DEF InitPool
  <2>2. CASE InitPoolFails
    BY <2>2 DEF InitPoolFails
  <2>3. CASE InitFreeTask
    BY <2>3 DEF InitFreeTask
  <2>4. CASE InitThrArr
    BY <2>4 DEF InitThrArr
  <2>5. ASSUME NEW w \in Workers, CreateWorker(w) PROVE Phases'
    BY <2>5 DEF CreateWorker
  <2>6. CASE CreateFails
    BY <2>6 DEF CreateFails, FreeNonBlocking
  <2>7. CASE InitReturns
    BY <2>7 DEF InitReturns
  <2> QED
    BY <1>1, <2>1, <2>2, <2>3, <2>4, <2>5, <2>6, <2>7 DEF MainStep
<1>2. ASSUME Client PROVE Phases'
  <2>1. ASSUME NEW p \in Producers, NEW r \in Routines, NEW b \in BOOLEAN,
               AddTask(p, r, b)
        PROVE  Phases'
    BY <2>1 DEF AddTask
  <2>2. ASSUME NEW p \in Producers, AddTaskNullPool(p) PROVE Phases'
    BY <2>2 DEF AddTaskNullPool
  <2>3. ASSUME NEW b \in BOOLEAN, threadpool_free(b) PROVE Phases'
    BY <2>3 DEF threadpool_free, FreeNonBlocking
  <2> QED
    BY <1>2, <2>1, <2>2, <2>3 DEF Client
<1>3. ASSUME StopStep PROVE Phases'
  <2>1. CASE StopSetFlag
    BY <2>1 DEF StopSetFlag
  <2>2. CASE StopLock
    BY <2>2 DEF StopLock
  <2>3. CASE StopBroadcast
    BY <2>3 DEF StopBroadcast, Broadcast
  <2>4. CASE StopJoin
    BY <2>4 DEF StopJoin, WorkersJoined
  <2> QED
    BY <1>3, <2>1, <2>2, <2>3, <2>4 DEF StopStep
<1>4. ASSUME NEW w \in Workers, WorkerStep(w) \/ WorkerSpuriousWakeup(w)
      PROVE  Phases'
  <2>1. CASE WorkerStart(w)
    BY <2>1 DEF WorkerStart
  <2>2. CASE WorkerLock(w)
    BY <2>2 DEF WorkerLock
  <2>3. CASE WorkerCheck(w)
    BY <2>3 DEF WorkerCheck
  <2>4. CASE WorkerWait(w)
    BY <2>4 DEF WorkerWait
  <2>5. CASE WorkerRecheck(w)
    BY <2>5 DEF WorkerRecheck
  <2>6. CASE WorkerTake(w)
    BY <2>6 DEF WorkerTake
  <2>7. CASE WorkerRun(w)
    BY <2>7 DEF WorkerRun
  <2>8. CASE WorkerRunNothing(w)
    BY <2>8 DEF WorkerRunNothing
  <2>9. CASE WorkerFreeLock(w)
    BY <2>9 DEF WorkerFreeLock
  <2>10. CASE WorkerFreeEnqueue(w)
    BY <2>10 DEF WorkerFreeEnqueue, FreeTasksBroadcast
  <2>11. CASE WorkerSpuriousWakeup(w)
    BY <2>11 DEF WorkerSpuriousWakeup
  <2> QED
    BY <1>4, <2>1, <2>2, <2>3, <2>4, <2>5, <2>6, <2>7, <2>8, <2>9, <2>10, <2>11
       DEF WorkerStep
<1>5. ASSUME NEW p \in Producers, ProducerStep(p) \/ ProducerSpuriousWakeup(p)
      PROVE  Phases'
  <2>1. CASE ProducerFreeLock(p)
    BY <2>1 DEF ProducerFreeLock
  <2>2. CASE ProducerOverloaded(p)
    BY <2>2 DEF ProducerOverloaded
  <2>3. CASE ProducerWait(p)
    BY <2>3 DEF ProducerWait
  <2>4. CASE ProducerObtain(p)
    BY <2>4 DEF ProducerObtain
  <2>5. CASE ProducerFill(p)
    BY <2>5 DEF ProducerFill
  <2>6. CASE ProducerLock(p)
    BY <2>6 DEF ProducerLock
  <2>7. CASE ProducerEnqueue(p)
    BY <2>7 DEF ProducerEnqueue, Broadcast
  <2>8. CASE ProducerSpuriousWakeup(p)
    BY <2>8 DEF ProducerSpuriousWakeup
  <2> QED
    BY <1>5, <2>1, <2>2, <2>3, <2>4, <2>5, <2>6, <2>7, <2>8 DEF ProducerStep
<1>6. CASE UNCHANGED vars
  BY <1>6 DEF vars
<1>7. CASE Terminated
  BY <1>7 DEF Terminated, vars
<1> QED
  BY <1>1, <1>2, <1>3, <1>4, <1>5, <1>6, <1>7 DEF Next

(* A mutex is held by exactly the thread that is in its critical section.  *)
Locked ==
  /\ \A w \in Workers :
       /\ wpc[w] \in {"check", "block", "recheck", "take"} <=> mutex = w
       /\ wpc[w] = "free_enqueue" <=> free_tasks_mutex = w
  /\ \A p \in Producers :
       /\ ppc[p] = "enqueue" <=> mutex = p
       /\ ppc[p] = "free_check" <=> free_tasks_mutex = p
  /\ spc = "broadcast" <=> mutex = Stopper
  /\ free_tasks_mutex # Stopper

LEMMA LockedInit == Init => Locked
BY ConstantsAssumption DEF Init, Locked

LEMMA LockedStep ==
  Locked /\ PoolTypes /\ Phases /\ [Next]_vars => Locked'
<1> SUFFICES ASSUME Locked, PoolTypes, Phases, [Next]_vars PROVE Locked'
  OBVIOUS
<1>a. /\ wpc \in [Workers -> WorkerPC] /\ ppc \in [Producers -> ProducerPC]
      /\ mutex \in Threads \cup {NULL} /\ free_tasks_mutex \in Threads \cup {NULL}
  BY DEF PoolTypes, TypeOK
<1> USE <1>a, ConstantsAssumption
    DEF Locked, Threads,
        poolVars, mutexVars, workerVars, producerVars, mainVars, modelVars
<1>1. ASSUME MainStep PROVE Locked'
  <2>1. CASE InitPool
    BY <2>1 DEF InitPool
  <2>2. CASE InitPoolFails
    BY <2>2 DEF InitPoolFails
  <2>3. CASE InitFreeTask
    BY <2>3 DEF InitFreeTask
  <2>4. CASE InitThrArr
    BY <2>4 DEF InitThrArr
  <2>5. ASSUME NEW w \in Workers, CreateWorker(w) PROVE Locked'
    BY <2>5 DEF CreateWorker
  <2>6. CASE CreateFails
    BY <2>6 DEF CreateFails, FreeNonBlocking, Phases
  <2>7. CASE InitReturns
    BY <2>7 DEF InitReturns
  <2> QED
    BY <1>1, <2>1, <2>2, <2>3, <2>4, <2>5, <2>6, <2>7 DEF MainStep
<1>2. ASSUME Client PROVE Locked'
  <2>1. ASSUME NEW p \in Producers, NEW r \in Routines, NEW b \in BOOLEAN,
               AddTask(p, r, b)
        PROVE  Locked'
    BY <2>1 DEF AddTask
  <2>2. ASSUME NEW p \in Producers, AddTaskNullPool(p) PROVE Locked'
    BY <2>2 DEF AddTaskNullPool
  <2>3. ASSUME NEW b \in BOOLEAN, threadpool_free(b) PROVE Locked'
    BY <2>3 DEF threadpool_free, FreeNonBlocking, Phases
  <2> QED
    BY <1>2, <2>1, <2>2, <2>3 DEF Client
<1>3. ASSUME StopStep PROVE Locked'
  <2>1. CASE StopSetFlag
    BY <2>1 DEF StopSetFlag
  <2>2. CASE StopLock
    BY <2>2 DEF StopLock
  <2>3. CASE StopBroadcast
    BY <2>3 DEF StopBroadcast, Broadcast
  <2>4. CASE StopJoin
    BY <2>4 DEF StopJoin, WorkersJoined
  <2> QED
    BY <1>3, <2>1, <2>2, <2>3, <2>4 DEF StopStep
<1>4. ASSUME NEW w \in Workers, WorkerStep(w) \/ WorkerSpuriousWakeup(w)
      PROVE  Locked'
  <2>1. CASE WorkerStart(w)
    BY <2>1 DEF WorkerStart
  <2>2. CASE WorkerLock(w)
    BY <2>2 DEF WorkerLock
  <2>3. CASE WorkerCheck(w)
    BY <2>3 DEF WorkerCheck
  <2>4. CASE WorkerWait(w)
    BY <2>4 DEF WorkerWait
  <2>5. CASE WorkerRecheck(w)
    BY <2>5 DEF WorkerRecheck
  <2>6. CASE WorkerTake(w)
    BY <2>6 DEF WorkerTake
  <2>7. CASE WorkerRun(w)
    BY <2>7 DEF WorkerRun
  <2>8. CASE WorkerRunNothing(w)
    BY <2>8 DEF WorkerRunNothing
  <2>9. CASE WorkerFreeLock(w)
    BY <2>9 DEF WorkerFreeLock
  <2>10. CASE WorkerFreeEnqueue(w)
    BY <2>10 DEF WorkerFreeEnqueue, FreeTasksBroadcast
  <2>11. CASE WorkerSpuriousWakeup(w)
    BY <2>11 DEF WorkerSpuriousWakeup
  <2> QED
    BY <1>4, <2>1, <2>2, <2>3, <2>4, <2>5, <2>6, <2>7, <2>8, <2>9, <2>10, <2>11
       DEF WorkerStep
<1>5. ASSUME NEW p \in Producers, ProducerStep(p) \/ ProducerSpuriousWakeup(p)
      PROVE  Locked'
  <2>1. CASE ProducerFreeLock(p)
    BY <2>1 DEF ProducerFreeLock
  <2>2. CASE ProducerOverloaded(p)
    BY <2>2 DEF ProducerOverloaded
  <2>3. CASE ProducerWait(p)
    BY <2>3 DEF ProducerWait
  <2>4. CASE ProducerObtain(p)
    BY <2>4 DEF ProducerObtain
  <2>5. CASE ProducerFill(p)
    BY <2>5 DEF ProducerFill
  <2>6. CASE ProducerLock(p)
    BY <2>6 DEF ProducerLock
  <2>7. CASE ProducerEnqueue(p)
    BY <2>7 DEF ProducerEnqueue, Broadcast
  <2>8. CASE ProducerSpuriousWakeup(p)
    BY <2>8 DEF ProducerSpuriousWakeup
  <2> QED
    BY <1>5, <2>1, <2>2, <2>3, <2>4, <2>5, <2>6, <2>7, <2>8 DEF ProducerStep
<1>6. CASE UNCHANGED vars
  BY <1>6 DEF vars
<1>7. CASE Terminated
  BY <1>7 DEF Terminated, vars
<1> QED
  BY <1>1, <1>2, <1>3, <1>4, <1>5, <1>6, <1>7 DEF Next

(* The invariant about tasks.  While threadpool_init fills the free tasks  *)
(* queue, the tasks in it are the first ones of the array.                 *)
SlotsInv ==
  /\ SlotExclusive
  /\ mpc = "init" => fill = 0
  /\ mpc \in {"init", "fill"} => \A i \in Cells : tasks_queue.cells[i] = NULL
  /\ mpc = "fill" =>
       /\ free_tasks_queue.num_of_cells = fill
       /\ \A i \in Cells :
            free_tasks_queue.cells[i] # NULL => free_tasks_queue.cells[i] < fill

LEMMA SlotsInvInit == Init => SlotsInv
BY DEF Init, SlotsInv, SlotExclusive, threadpool_queue_init

LEMMA SlotsInvStep ==
  SlotsInv /\ PoolTypes /\ Phases /\ [Next]_vars => SlotsInv'
<1> SUFFICES ASSUME SlotsInv, PoolTypes, Phases, [Next]_vars PROVE SlotsInv'
  OBVIOUS
<1>a. /\ wtask \in [Workers -> Cells \cup {NULL}] /\ ptask \in [Producers -> Cells \cup {NULL}]
      /\ tasks_queue \in Queue(Cells) /\ WellFormed(tasks_queue)
      /\ free_tasks_queue \in Queue(Cells) /\ WellFormed(free_tasks_queue)
      /\ fill \in 0 .. THREAD_POOL_QUEUE_SIZE
      /\ Holding /\ NULL \notin Cells
  BY ConstantsAssumption DEF PoolTypes, TypeOK
<1>b. /\ tasks_queue.cells \in [Cells -> Cells \cup {NULL}]
      /\ free_tasks_queue.cells \in [Cells -> Cells \cup {NULL}]
  BY <1>a DEF Queue
<1> USE DEF SlotsInv, SlotExclusive,
        poolVars, mutexVars, workerVars, producerVars, mainVars, modelVars
<1>1. ASSUME MainStep PROVE SlotsInv'
  <2>1. CASE InitPool
    <3>1. \A i \in Cells : threadpool_queue_init.cells[i] = NULL
      BY DEF threadpool_queue_init
    <3>2. threadpool_queue_init.num_of_cells = 0
      BY DEF threadpool_queue_init
    <3> QED
      BY <2>1, <1>a, <3>1, <3>2 DEF InitPool
  <2>2. CASE InitPoolFails
    BY <2>2 DEF InitPoolFails
  <2>3. CASE InitFreeTask
    <3>0. /\ fill < THREAD_POOL_QUEUE_SIZE /\ free_tasks_queue.num_of_cells = fill
          /\ \A i \in Cells :
               free_tasks_queue.cells[i] # NULL => free_tasks_queue.cells[i] < fill
      BY <2>3 DEF InitFreeTask
    <3>1. fill \in Cells /\ free_tasks_queue.num_of_cells # THREAD_POOL_QUEUE_SIZE
      BY <1>a, <3>0, QueueSizeAssumption DEF Cells
    <3>2. /\ free_tasks_queue.tail \in Cells
          /\ free_tasks_queue'.cells =
               [free_tasks_queue.cells EXCEPT ![free_tasks_queue.tail] = fill]
      BY <2>3, <1>a, <3>1, EnqueueCells DEF InitFreeTask
    <3>3. free_tasks_queue'.num_of_cells = free_tasks_queue.num_of_cells + 1
      BY <2>3, <1>a, <3>1, EnqueueWellFormed DEF InitFreeTask
    <3>4. \A i \in Cells : free_tasks_queue.cells[i] # fill
      BY <1>a, <1>b, <3>0, <3>1, QueueSizeAssumption DEF Cells
    <3>5. /\ \A w \in Workers : wtask[w] = NULL
          /\ \A p \in Producers : ptask[p] = NULL
      BY <2>3, <1>a DEF InitFreeTask, Phases, Holding
    <3>6. \A i \in Cells : tasks_queue.cells[i] = NULL
      BY <2>3 DEF InitFreeTask
    <3>7. \A i \in Cells :
            free_tasks_queue'.cells[i] # NULL => free_tasks_queue'.cells[i] < fill + 1
      <4> SUFFICES ASSUME NEW i \in Cells, free_tasks_queue'.cells[i] # NULL
                   PROVE  free_tasks_queue'.cells[i] < fill + 1
        OBVIOUS
      <4>1. free_tasks_queue'.cells[i] = fill
            \/ free_tasks_queue'.cells[i] = free_tasks_queue.cells[i]
        BY <1>b, <3>2
      <4>2. CASE free_tasks_queue'.cells[i] = fill
        BY <1>a, <4>2
      <4>3. CASE free_tasks_queue'.cells[i] = free_tasks_queue.cells[i]
        <5>1. free_tasks_queue.cells[i] \in Cells /\ free_tasks_queue.cells[i] < fill
          BY <1>b, <3>0, <4>3
        <5> QED
          BY <1>a, <4>3, <5>1, QueueSizeAssumption DEF Cells
      <4> QED
        BY <4>1, <4>2, <4>3
    <3>8. SlotExclusive'
      BY <2>3, <1>a, <1>b, <3>1, <3>2, <3>4, <3>5, <3>6 DEF InitFreeTask
    <3> QED
      BY <2>3, <3>3, <3>6, <3>7, <3>8 DEF InitFreeTask
  <2>4. CASE InitThrArr
    BY <2>4 DEF InitThrArr
  <2>5. ASSUME NEW w \in Workers, CreateWorker(w) PROVE SlotsInv'
    BY <2>5 DEF CreateWorker
  <2>6. CASE CreateFails
    BY <2>6 DEF CreateFails, FreeNonBlocking
  <2>7. CASE InitReturns
    BY <2>7 DEF InitReturns
  <2> QED
    BY <1>1, <2>1, <2>2, <2>3, <2>4, <2>5, <2>6, <2>7 DEF MainStep
<1>2. ASSUME Client PROVE SlotsInv'
  <2>1. ASSUME NEW p \in Producers, NEW r \in Routines, NEW b \in BOOLEAN,
               AddTask(p, r, b)
        PROVE  SlotsInv'
    BY <2>1 DEF AddTask
  <2>2. ASSUME NEW p \in Producers, AddTaskNullPool(p) PROVE SlotsInv'
    BY <2>2 DEF AddTaskNullPool
  <2>3. ASSUME NEW b \in BOOLEAN, threadpool_free(b) PROVE SlotsInv'
    BY <2>3 DEF threadpool_free, FreeNonBlocking
  <2> QED
    BY <1>2, <2>1, <2>2, <2>3 DEF Client
<1>3. ASSUME StopStep PROVE SlotsInv'
  <2>1. CASE StopSetFlag
    BY <2>1 DEF StopSetFlag
  <2>2. CASE StopLock
    BY <2>2 DEF StopLock
  <2>3. CASE StopBroadcast
    BY <2>3 DEF StopBroadcast, Broadcast
  <2>4. CASE StopJoin
    BY <2>4 DEF StopJoin, WorkersJoined
  <2> QED
    BY <1>3, <2>1, <2>2, <2>3, <2>4 DEF StopStep
<1>4. ASSUME NEW w \in Workers, WorkerStep(w) \/ WorkerSpuriousWakeup(w)
      PROVE  SlotsInv'
  <2>1. CASE WorkerStart(w)
    BY <2>1 DEF WorkerStart
  <2>2. CASE WorkerLock(w)
    BY <2>2 DEF WorkerLock
  <2>3. CASE WorkerCheck(w)
    BY <2>3 DEF WorkerCheck
  <2>4. CASE WorkerWait(w)
    BY <2>4 DEF WorkerWait
  <2>5. CASE WorkerRecheck(w)
    BY <2>5 DEF WorkerRecheck
  <2>6. CASE WorkerTake(w)
    <3>1. CASE tasks_queue.num_of_cells = 0
      <4>1. tasks_queue' = tasks_queue /\ wtask'[w] = NULL
        BY <2>6, <1>a, <3>1, DequeueWellFormed DEF WorkerTake
      <4> QED
        BY <2>6, <1>a, <4>1 DEF WorkerTake
    <3>2. CASE tasks_queue.num_of_cells # 0
      <4>1. /\ tasks_queue.head \in Cells
            /\ wtask' = [wtask EXCEPT ![w] = tasks_queue.cells[tasks_queue.head]]
            /\ tasks_queue'.cells = [tasks_queue.cells EXCEPT ![tasks_queue.head] = NULL]
        BY <2>6, <1>a, <3>2, DequeueCells DEF WorkerTake
      <4>2. tasks_queue.cells[tasks_queue.head] # NULL
        BY <1>a, <3>2, DequeueWellFormed
      <4> QED
        BY <2>6, <1>a, <1>b, <4>1, <4>2 DEF WorkerTake, Phases
    <3> QED
      BY <3>1, <3>2
  <2>7. CASE WorkerRun(w)
    BY <2>7 DEF WorkerRun
  <2>8. CASE WorkerRunNothing(w)
    BY <2>8 DEF WorkerRunNothing
  <2>9. CASE WorkerFreeLock(w)
    BY <2>9 DEF WorkerFreeLock
  <2>10. CASE WorkerFreeEnqueue(w)
    <3>1. wtask[w] \in Cells
      BY <2>10, <1>a DEF WorkerFreeEnqueue, Holding
    <3>2. free_tasks_queue.num_of_cells # THREAD_POOL_QUEUE_SIZE
      BY <1>a, <3>1, NotFull
    <3>3. /\ free_tasks_queue.tail \in Cells
          /\ free_tasks_queue'.cells =
               [free_tasks_queue.cells EXCEPT ![free_tasks_queue.tail] = wtask[w]]
      BY <2>10, <1>a, <3>1, <3>2, EnqueueCells DEF WorkerFreeEnqueue
    <3>4. mpc \notin {"init", "fill"}
      BY <2>10 DEF WorkerFreeEnqueue, Phases
    <3> QED
      BY <2>10, <1>a, <1>b, <3>1, <3>3, <3>4 DEF WorkerFreeEnqueue
  <2>11. CASE WorkerSpuriousWakeup(w)
    BY <2>11 DEF WorkerSpuriousWakeup
  <2> QED
    BY <1>4, <2>1, <2>2, <2>3, <2>4, <2>5, <2>6, <2>7, <2>8, <2>9, <2>10, <2>11
       DEF WorkerStep
<1>5. ASSUME NEW p \in Producers, ProducerStep(p) \/ ProducerSpuriousWakeup(p)
      PROVE  SlotsInv'
  <2>1. CASE ProducerFreeLock(p)
    BY <2>1 DEF ProducerFreeLock
  <2>2. CASE ProducerOverloaded(p)
    BY <2>2 DEF ProducerOverloaded
  <2>3. CASE ProducerWait(p)
    BY <2>3 DEF ProducerWait
  <2>4. CASE ProducerObtain(p)
    <3>1. free_tasks_queue.num_of_cells # 0
      BY <2>4 DEF ProducerObtain, threadpool_queue_is_empty
    <3>2. /\ free_tasks_queue.head \in Cells
          /\ ptask' = [ptask EXCEPT ![p] = free_tasks_queue.cells[free_tasks_queue.head]]
          /\ free_tasks_queue'.cells =
               [free_tasks_queue.cells EXCEPT ![free_tasks_queue.head] = NULL]
      BY <2>4, <1>a, <3>1, DequeueCells DEF ProducerObtain
    <3>3. free_tasks_queue.cells[free_tasks_queue.head] # NULL
      BY <1>a, <3>1, DequeueWellFormed
    <3>4. mpc \notin {"init", "fill"}
      BY <2>4 DEF ProducerObtain, Phases
    <3> QED
      BY <2>4, <1>a, <1>b, <3>2, <3>3, <3>4 DEF ProducerObtain
  <2>5. CASE ProducerFill(p)
    BY <2>5 DEF ProducerFill
  <2>6. CASE ProducerLock(p)
    BY <2>6 DEF ProducerLock
  <2>7. CASE ProducerEnqueue(p)
    <3>1. ptask[p] \in Cells
      BY <2>7, <1>a DEF ProducerEnqueue, Holding
    <3>2. tasks_queue.num_of_cells # THREAD_POOL_QUEUE_SIZE
      BY <1>a, <3>1, NotFull
    <3>3. /\ tasks_queue.tail \in Cells
          /\ tasks_queue'.cells = [tasks_queue.cells EXCEPT ![tasks_queue.tail] = ptask[p]]
      BY <2>7, <1>a, <3>1, <3>2, EnqueueCells DEF ProducerEnqueue
    <3>4. mpc \notin {"init", "fill"}
      BY <2>7 DEF ProducerEnqueue, Phases
    <3> QED
      BY <2>7, <1>a, <1>b, <3>1, <3>3, <3>4 DEF ProducerEnqueue
  <2>8. CASE ProducerSpuriousWakeup(p)
    BY <2>8 DEF ProducerSpuriousWakeup
  <2> QED
    BY <1>5, <2>1, <2>2, <2>3, <2>4, <2>5, <2>6, <2>7, <2>8 DEF ProducerStep
<1>6. CASE UNCHANGED vars
  BY <1>6 DEF vars
<1>7. CASE Terminated
  BY <1>7 DEF Terminated, vars
<1> QED
  BY <1>1, <1>2, <1>3, <1>4, <1>5, <1>6, <1>7 DEF Next

(* What a thread may rely on between a test and what it does next, and the *)
(* two properties that follow.                                             *)
WakeupInv ==
  /\ NoLostWakeup
  /\ NoInternalError
  /\ \A w \in Workers :
       /\ wpc[w] = "block" => tasks_queue.num_of_cells = 0
       /\ wpc[w] = "recheck" /\ stop_flag = 0 => tasks_queue.num_of_cells # 0
       /\ wpc[w] = "take" => tasks_queue.num_of_cells # 0

LEMMA WakeupInvInit == Init => WakeupInv
BY DEF Init, WakeupInv, NoLostWakeup, NoInternalError, threadpool_queue_init,
       threadpool_queue_is_empty

LEMMA WakeupInvStep ==
  WakeupInv /\ PoolTypes /\ Phases /\ Locked /\ SlotsInv /\ [Next]_vars => WakeupInv'
<1> SUFFICES ASSUME WakeupInv, PoolTypes, Phases, Locked, SlotsInv, [Next]_vars PROVE WakeupInv'
  OBVIOUS
<1>a. /\ wpc \in [Workers -> WorkerPC] /\ ppc \in [Producers -> ProducerPC]
      /\ wtask \in [Workers -> Cells \cup {NULL}] /\ ptask \in [Producers -> Cells \cup {NULL}]
      /\ pret \in [Producers -> {0, -1, -2}] /\ stop_flag \in {0, 1}
      /\ mpc \in MainPC /\ spc \in StopPC /\ fill \in 0 .. THREAD_POOL_QUEUE_SIZE
  BY DEF PoolTypes, TypeOK
<1>b. /\ tasks_queue \in Queue(Cells) /\ WellFormed(tasks_queue)
      /\ free_tasks_queue \in Queue(Cells) /\ WellFormed(free_tasks_queue)
      /\ NULL \notin Cells
  BY ConstantsAssumption DEF PoolTypes, TypeOK
<1>c. tasks_queue.num_of_cells \in Nat /\ free_tasks_queue.num_of_cells \in Nat
  BY <1>b, QueueSizeAssumption DEF Queue
<1> USE <1>a, <1>c
    DEF WakeupInv, NoLostWakeup, NoInternalError, threadpool_queue_is_empty,
        poolVars, mutexVars, workerVars, producerVars, mainVars, modelVars
<1>1. ASSUME MainStep PROVE WakeupInv'
  <2>1. CASE InitPool
    BY <2>1 DEF InitPool, Phases, threadpool_queue_init
  <2>2. CASE InitPoolFails
    BY <2>2 DEF InitPoolFails
  <2>3. CASE InitFreeTask
    <3>1. /\ fill < THREAD_POOL_QUEUE_SIZE
          /\ free_tasks_queue.num_of_cells # THREAD_POOL_QUEUE_SIZE
      BY <2>3 DEF InitFreeTask, SlotsInv
    <3>2. fill \in Cells
      BY <3>1, QueueSizeAssumption DEF Cells
    <3>3. threadpool_queue_enqueue(free_tasks_queue, fill).ret = 0
      BY <1>b, <3>1, <3>2, EnqueueWellFormed
    <3>4. /\ \A p \in Producers : ppc[p] = "idle"
          /\ \A w \in Workers : wpc[w] = "none"
      BY <2>3 DEF InitFreeTask, Phases
    <3> QED
      BY <2>3, <3>3, <3>4 DEF InitFreeTask
  <2>4. CASE InitThrArr
    BY <2>4 DEF InitThrArr
  <2>5. ASSUME NEW w \in Workers, CreateWorker(w) PROVE WakeupInv'
    BY <2>5 DEF CreateWorker
  <2>6. CASE CreateFails
    BY <2>6 DEF CreateFails, FreeNonBlocking
  <2>7. CASE InitReturns
    BY <2>7 DEF InitReturns
  <2> QED
    BY <1>1, <2>1, <2>2, <2>3, <2>4, <2>5, <2>6, <2>7 DEF MainStep
<1>2. ASSUME Client PROVE WakeupInv'
  <2>1. ASSUME NEW p \in Producers, NEW r \in Routines, NEW b \in BOOLEAN,
               AddTask(p, r, b)
        PROVE  WakeupInv'
    BY <2>1 DEF AddTask
  <2>2. ASSUME NEW p \in Producers, AddTaskNullPool(p) PROVE WakeupInv'
    BY <2>2 DEF AddTaskNullPool
  <2>3. ASSUME NEW b \in BOOLEAN, threadpool_free(b) PROVE WakeupInv'
    BY <2>3 DEF threadpool_free, FreeNonBlocking
  <2> QED
    BY <1>2, <2>1, <2>2, <2>3 DEF Client
<1>3. ASSUME StopStep PROVE WakeupInv'
  <2>1. CASE StopSetFlag
    BY <2>1 DEF StopSetFlag
  <2>2. CASE StopLock
    BY <2>2 DEF StopLock
  <2>3. CASE StopBroadcast
    BY <2>3, ConstantsAssumption DEF StopBroadcast, Broadcast, Locked
  <2>4. CASE StopJoin
    BY <2>4 DEF StopJoin, WorkersJoined
  <2> QED
    BY <1>3, <2>1, <2>2, <2>3, <2>4 DEF StopStep
<1>4. ASSUME NEW w \in Workers, WorkerStep(w) \/ WorkerSpuriousWakeup(w)
      PROVE  WakeupInv'
  <2>1. CASE WorkerStart(w)
    BY <2>1 DEF WorkerStart
  <2>2. CASE WorkerLock(w)
    BY <2>2 DEF WorkerLock
  <2>3. CASE WorkerCheck(w)
    BY <2>3 DEF WorkerCheck, Phases
  <2>4. CASE WorkerWait(w)
    BY <2>4 DEF WorkerWait
  <2>5. CASE WorkerRecheck(w)
    BY <2>5 DEF WorkerRecheck
  <2>6. CASE WorkerTake(w)
    <3>1. /\ tasks_queue.num_of_cells # 0
          /\ \A v \in Workers \ {w} : wpc[v] \notin {"block", "recheck", "take"}
      BY <2>6 DEF WorkerTake, Locked
    <3>2. /\ threadpool_queue_dequeue(tasks_queue).data # NULL
          /\ tasks_queue'.num_of_cells = tasks_queue.num_of_cells - 1
      BY <2>6, <1>b, <3>1, DequeueWellFormed DEF WorkerTake
    <3> QED
      BY <2>6, <3>1, <3>2 DEF WorkerTake
  <2>7. CASE WorkerRun(w)
    BY <2>7 DEF WorkerRun
  <2>8. CASE WorkerRunNothing(w)
    BY <2>8 DEF WorkerRunNothing
  <2>9. CASE WorkerFreeLock(w)
    BY <2>9 DEF WorkerFreeLock
  <2>10. CASE WorkerFreeEnqueue(w)
    <3>1. wtask[w] \in Cells
      BY <2>10 DEF WorkerFreeEnqueue, PoolTypes, Holding
    <3>2. free_tasks_queue.num_of_cells # THREAD_POOL_QUEUE_SIZE
      BY <1>b, <3>1, NotFull DEF SlotsInv, SlotExclusive
    <3>3. /\ threadpool_queue_enqueue(free_tasks_queue, wtask[w]).ret = 0
          /\ free_tasks_queue'.num_of_cells = free_tasks_queue.num_of_cells + 1
      BY <2>10, <1>b, <3>1, <3>2, EnqueueWellFormed DEF WorkerFreeEnqueue
    <3>4. free_tasks_queue'.num_of_cells = 1 => \A p \in Producers : ppc'[p] # "free_wait"
      BY <2>10, <3>3 DEF WorkerFreeEnqueue, FreeTasksBroadcast, threadpool_queue_getsize
    <3>5. free_tasks_queue'.num_of_cells # 1 => ppc' = ppc
      BY <2>10, <3>3 DEF WorkerFreeEnqueue, threadpool_queue_getsize
    <3> QED
      BY <2>10, <3>3, <3>4, <3>5 DEF WorkerFreeEnqueue
  <2>11. CASE WorkerSpuriousWakeup(w)
    BY <2>11 DEF WorkerSpuriousWakeup
  <2> QED
    BY <1>4, <2>1, <2>2, <2>3, <2>4, <2>5, <2>6, <2>7, <2>8, <2>9, <2>10, <2>11
       DEF WorkerStep
<1>5. ASSUME NEW p \in Producers, ProducerStep(p) \/ ProducerSpuriousWakeup(p)
      PROVE  WakeupInv'
  <2>1. CASE ProducerFreeLock(p)
    BY <2>1 DEF ProducerFreeLock
  <2>2. CASE ProducerOverloaded(p)
    BY <2>2 DEF ProducerOverloaded
  <2>3. CASE ProducerWait(p)
    BY <2>3 DEF ProducerWait
  <2>4. CASE ProducerObtain(p)
    <3>1. free_tasks_queue.num_of_cells # 0
      BY <2>4 DEF ProducerObtain
    <3>2. /\ threadpool_queue_dequeue(free_tasks_queue).data # NULL
          /\ free_tasks_queue'.num_of_cells = free_tasks_queue.num_of_cells - 1
      BY <2>4, <1>b, <3>1, DequeueWellFormed DEF ProducerObtain
    <3> QED
      BY <2>4, <3>1, <3>2 DEF ProducerObtain
  <2>5. CASE ProducerFill(p)
    BY <2>5 DEF ProducerFill
  <2>6. CASE ProducerLock(p)
    BY <2>6 DEF ProducerLock
  <2>7. CASE ProducerEnqueue(p)
    <3>1. ptask[p] \in Cells
      BY <2>7 DEF ProducerEnqueue, PoolTypes, Holding
    <3>2. tasks_queue.num_of_cells # THREAD_POOL_QUEUE_SIZE
      BY <1>b, <3>1, NotFull DEF SlotsInv, SlotExclusive
    <3>3. /\ threadpool_queue_enqueue(tasks_queue, ptask[p]).ret = 0
          /\ tasks_queue'.num_of_cells = tasks_queue.num_of_cells + 1
      BY <2>7, <1>b, <3>1, <3>2, EnqueueWellFormed DEF ProducerEnqueue
    <3>4. \A w \in Workers : wpc[w] # "block"
      BY <2>7, ConstantsAssumption DEF ProducerEnqueue, Locked
    <3>5. tasks_queue'.num_of_cells = 1 =>
            wpc' = [w \in Workers |-> IF wpc[w] = "wait" THEN "lock" ELSE wpc[w]]
      BY <2>7, <3>3 DEF ProducerEnqueue, Broadcast, threadpool_queue_getsize
    <3>6. tasks_queue'.num_of_cells # 1 => wpc' = wpc
      BY <2>7, <3>3 DEF ProducerEnqueue, threadpool_queue_getsize
    <3> QED
      BY <2>7, <3>3, <3>4, <3>5, <3>6 DEF ProducerEnqueue
  <2>8. CASE ProducerSpuriousWakeup(p)
    BY <2>8 DEF ProducerSpuriousWakeup
  <2> QED
    BY <1>5, <2>1, <2>2, <2>3, <2>4, <2>5, <2>6, <2>7, <2>8 DEF ProducerStep
<1>6. CASE UNCHANGED vars
  BY <1>6 DEF vars
<1>7. CASE Terminated
  BY <1>7 DEF Terminated, vars
<1> QED
  BY <1>1, <1>2, <1>3, <1>4, <1>5, <1>6, <1>7 DEF Next

(* Every variable of the pool keeps its type, whatever the number of       *)
(* threads, tasks and calls.                                               *)
THEOREM TypeCorrect == Spec => []TypeOK
<1>1. PoolTypes => TypeOK
  BY DEF PoolTypes
<1> QED
  BY <1>1, PoolTypesInit, PoolTypesStep, PTL DEF Spec

(* The whole invariant.                                                    *)
PoolInv == PoolTypes /\ Phases /\ Locked /\ SlotsInv /\ WakeupInv

LEMMA PoolInvariant == Spec => []PoolInv
<1>1. Init => PoolInv
  BY PoolTypesInit, PhasesInit, LockedInit, SlotsInvInit, WakeupInvInit DEF PoolInv
<1>2. PoolInv /\ [Next]_vars => PoolInv'
  BY PoolTypesStep, PhasesStep, LockedStep, SlotsInvStep, WakeupInvStep DEF PoolInv
<1> QED
  BY <1>1, <1>2, PTL DEF Spec

(* A task never has two owners, however the two mutexes are interleaved.   *)
THEOREM TasksExclusive == Spec => []SlotExclusive
<1>1. PoolInv => SlotExclusive
  BY DEF PoolInv, SlotsInv
<1> QED
  BY <1>1, PoolInvariant, PTL

(* Broadcasting only when a queue gets its first element loses no wake-up, *)
(* and no worker is asleep once the stop callback joins them.              *)
THEOREM WakeupsArrive == Spec => []NoLostWakeup
<1>1. PoolInv => NoLostWakeup
  BY DEF PoolInv, WakeupInv
<1> QED
  BY <1>1, PoolInvariant, PTL

(* The error branches of the queue calls are dead: neither queue can       *)
(* overflow (there are as many cells as tasks) and nobody dequeues from an *)
(* empty one.                                                              *)
THEOREM ErrorsImpossible == Spec => []NoInternalError
<1>1. PoolInv => NoInternalError
  BY DEF PoolInv, WakeupInv
<1> QED
  BY <1>1, PoolInvariant, PTL

(* The pool is not touched after the stop callback has freed it.           *)
THEOREM FreedPoolUnused == Spec => []NoUseAfterFree
<1>1. PoolInv => NoUseAfterFree
  <2> SUFFICES ASSUME PoolInv, pool = "freed"
               PROVE  /\ \A w \in Workers : wpc[w] \in {"none", "exited"}
                      /\ \A p \in Producers : ppc[p] = "idle"
                      /\ mutex = NULL /\ free_tasks_mutex = NULL
                      /\ spc \in {"off", "done"}
    BY DEF NoUseAfterFree
  <2>1. /\ mutex \in Threads \cup {NULL} /\ free_tasks_mutex \in Threads \cup {NULL}
        /\ mpc \in MainPC
    BY DEF PoolInv, PoolTypes, TypeOK
  <2>2. /\ spc \in {"off", "done"}
        /\ \A w \in Workers : wpc[w] \in {"none", "exited"}
        /\ \A p \in Producers : ppc[p] = "idle"
    BY <2>1 DEF PoolInv, Phases, MainPC
  <2> QED
    BY <2>1, <2>2 DEF PoolInv, Locked, Threads
<1> QED
  BY <1>1, PoolInvariant, PTL

-----------------------------------------------------------------------------
(* What becomes of tasks and jobs *)

(* A task is in one of the queues, or a worker or a client has it.         *)
Placed(s) ==
  \/ \E i \in Cells : tasks_queue.cells[i] = s
  \/ \E i \in Cells : free_tasks_queue.cells[i] = s
  \/ \E w \in Workers : wtask[w] = s
  \/ \E p \in Producers : ptask[p] = s

(* While threadpool_init runs, the tasks it has come to are in the free    *)
(* tasks queue.  From then on a task that is nowhere still shows the job   *)
(* without a routine that took it out of circulation.                      *)
Circulation ==
  /\ mpc = "fill" =>
       \A s \in Cells : s < fill => \E i \in Cells : free_tasks_queue.cells[i] = s
  /\ mpc \in {"create", "client", "stopping", "returned"} =>
       \A s \in Cells : Placed(s) \/ (tasks[s].routine_cb = NULL /\ tasks[s].data # NULL)

(* What a client inside threadpool_add_task brings is new, and it is what  *)
(* its task carries once filled in.                                        *)
OwnJob(p) ==
  /\ parg[p].routine \in Routines /\ parg[p].data \in 1 .. calls
  /\ parg[p].data \notin finished
  /\ \A i \in Cells :
       tasks_queue.cells[i] # NULL => tasks[tasks_queue.cells[i]].data # parg[p].data
  /\ \A w \in Workers : wpc[w] = "run" => tasks[wtask[w]].data # parg[p].data
  /\ \A q \in Producers : ppc[q] # "idle" /\ parg[q].data = parg[p].data => q = p
  /\ ppc[p] \in {"lock", "enqueue"} =>
       tasks[ptask[p]] = [routine_cb |-> parg[p].routine, data |-> parg[p].data]

JobsInv ==
  /\ finished \subseteq 1 .. calls
  /\ \A i \in Cells :
       tasks_queue.cells[i] # NULL => tasks[tasks_queue.cells[i]].data \in 1 .. calls
  /\ \A w \in Workers : wpc[w] = "run" => tasks[wtask[w]].data \in 1 .. calls
  /\ \A p \in Producers : ppc[p] # "idle" => OwnJob(p)

LEMMA JobsInvInit == Init => JobsInv
BY ConstantsAssumption DEF Init, JobsInv, threadpool_queue_init

LEMMA JobsInvStep ==
  JobsInv /\ PoolTypes /\ Phases /\ SlotsInv /\ [Next]_vars => JobsInv'
<1> SUFFICES ASSUME JobsInv, PoolTypes, Phases, SlotsInv, [Next]_vars PROVE JobsInv'
  OBVIOUS
<1>a. /\ wtask \in [Workers -> Cells \cup {NULL}] /\ ptask \in [Producers -> Cells \cup {NULL}]
      /\ wpc \in [Workers -> WorkerPC] /\ ppc \in [Producers -> ProducerPC]
      /\ tasks_queue \in Queue(Cells) /\ WellFormed(tasks_queue)
      /\ free_tasks_queue \in Queue(Cells) /\ WellFormed(free_tasks_queue)
      /\ fill \in 0 .. THREAD_POOL_QUEUE_SIZE
      /\ Holding /\ NULL \notin Cells
  BY ConstantsAssumption DEF PoolTypes, TypeOK
<1>b. tasks_queue.cells \in [Cells -> Cells \cup {NULL}]
  BY <1>a DEF Queue
<1>c. /\ tasks \in [Cells -> Task] /\ calls \in 0 .. MaxCalls /\ MaxCalls \in Nat
      /\ parg \in [Producers -> [ routine : Routines \cup {NULL},
                                  data : 1 .. MaxCalls \cup {NULL}, blocking : BOOLEAN ]]
  BY ConstantsAssumption DEF PoolTypes, TypeOK
<1> USE DEF JobsInv, OwnJob,
        poolVars, mutexVars, workerVars, producerVars, mainVars, modelVars
<1>1. ASSUME MainStep PROVE JobsInv'
  <2>1. CASE InitPool
    BY <2>1 DEF InitPool, threadpool_queue_init, Phases
  <2>2. CASE InitPoolFails
    BY <2>2 DEF InitPoolFails
  <2>3. CASE InitFreeTask
    BY <2>3 DEF InitFreeTask, Phases, SlotsInv
  <2>4. CASE InitThrArr
    BY <2>4 DEF InitThrArr
  <2>5. ASSUME NEW w \in Workers, CreateWorker(w) PROVE JobsInv'
    BY <2>5 DEF CreateWorker
  <2>6. CASE CreateFails
    BY <2>6 DEF CreateFails, FreeNonBlocking
  <2>7. CASE InitReturns
    BY <2>7 DEF InitReturns
  <2> QED
    BY <1>1, <2>1, <2>2, <2>3, <2>4, <2>5, <2>6, <2>7 DEF MainStep
<1>2. ASSUME Client PROVE JobsInv'
  <2>1. ASSUME NEW p \in Producers, NEW r \in Routines, NEW b \in BOOLEAN,
               AddTask(p, r, b)
        PROVE  JobsInv'
    <3>1. calls' = calls + 1 /\ calls \in Nat
      BY <2>1, <1>c DEF AddTask
    <3>2. /\ parg' = [parg EXCEPT ![p] = [routine |-> r, data |-> calls + 1, blocking |-> b]]
          /\ ppc' = [ppc EXCEPT ![p] = "free_lock"]
          /\ UNCHANGED <<tasks, tasks_queue, finished, wpc, wtask, ptask>>
      BY <2>1 DEF AddTask
    <3>3. \A d \in 1 .. calls : d \in 1 .. (calls + 1) /\ d # calls + 1
      BY <3>1
    <3>4. calls + 1 \in 1 .. (calls + 1)
      BY <3>1
    <3>5. \A q \in Producers : q # p => parg'[q] = parg[q] /\ ppc'[q] = ppc[q]
      BY <1>a, <1>c, <3>2
    <3>6. parg'[p].routine = r /\ parg'[p].data = calls + 1 /\ ppc'[p] = "free_lock"
      BY <1>a, <1>c, <3>2
    <3>7. ASSUME NEW q \in Producers, ppc'[q] # "idle" PROVE OwnJob(q)'
      <4>1. CASE q = p
        <5>1. \A o \in Producers : ppc'[o] # "idle" /\ parg'[o].data = calls + 1 => o = p
          BY <3>3, <3>5
        <5>2. calls + 1 \notin finished
          BY <3>3
        <5>3. \A i \in Cells :
                tasks_queue.cells[i] # NULL => tasks[tasks_queue.cells[i]].data # calls + 1
          BY <3>3
        <5>4. \A w \in Workers : wpc[w] = "run" => tasks[wtask[w]].data # calls + 1
          BY <3>3
        <5> QED
          BY <3>1, <3>2, <3>4, <3>6, <4>1, <5>1, <5>2, <5>3, <5>4
      <4>2. CASE q # p
        BY <3>1, <3>2, <3>3, <3>5, <3>6, <3>7, <4>2
      <4> QED
        BY <4>1, <4>2
    <3> QED
      BY <3>1, <3>2, <3>3, <3>7
  <2>2. ASSUME NEW p \in Producers, AddTaskNullPool(p) PROVE JobsInv'
    BY <2>2, <1>c DEF AddTaskNullPool, Phases
  <2>3. ASSUME NEW b \in BOOLEAN, threadpool_free(b) PROVE JobsInv'
    BY <2>3 DEF threadpool_free, FreeNonBlocking
  <2> QED
    BY <1>2, <2>1, <2>2, <2>3 DEF Client
<1>3. ASSUME StopStep PROVE JobsInv'
  <2>1. CASE StopSetFlag
    BY <2>1 DEF StopSetFlag
  <2>2. CASE StopLock
    BY <2>2 DEF StopLock
  <2>3. CASE StopBroadcast
    BY <2>3 DEF StopBroadcast, Broadcast
  <2>4. CASE StopJoin
    BY <2>4 DEF StopJoin, WorkersJoined
  <2> QED
    BY <1>3, <2>1, <2>2, <2>3, <2>4 DEF StopStep
<1>4. ASSUME NEW w \in Workers, WorkerStep(w) \/ WorkerSpuriousWakeup(w)
      PROVE  JobsInv'
  <2>1. CASE WorkerStart(w)
    BY <2>1 DEF WorkerStart
  <2>2. CASE WorkerLock(w)
    BY <2>2 DEF WorkerLock
  <2>3. CASE WorkerCheck(w)
    BY <2>3 DEF WorkerCheck
  <2>4. CASE WorkerWait(w)
    BY <2>4 DEF WorkerWait
  <2>5. CASE WorkerRecheck(w)
    BY <2>5, <1>a DEF WorkerRecheck
  <2>6. CASE WorkerTake(w)
    <3>1. CASE tasks_queue.num_of_cells = 0
      <4>0. /\ threadpool_queue_dequeue(tasks_queue).queue = tasks_queue
            /\ threadpool_queue_dequeue(tasks_queue).data = NULL
        BY <1>a, <3>1, DequeueWellFormed
      <4>1. tasks_queue' = tasks_queue /\ wpc' = [wpc EXCEPT ![w] = "exited"]
            /\ wtask' = [wtask EXCEPT ![w] = NULL]
        BY <2>6, <4>0 DEF WorkerTake
      <4> QED
        BY <2>6, <1>a, <4>1 DEF WorkerTake
    <3>2. CASE tasks_queue.num_of_cells # 0
      <4>1. /\ tasks_queue.head \in Cells
            /\ wtask' = [wtask EXCEPT ![w] = tasks_queue.cells[tasks_queue.head]]
            /\ tasks_queue'.cells = [tasks_queue.cells EXCEPT ![tasks_queue.head] = NULL]
        BY <2>6, <1>a, <3>2, DequeueCells DEF WorkerTake
      <4>0. tasks_queue.cells[tasks_queue.head] # NULL
        BY <1>a, <3>2, DequeueWellFormed
      <4>2. /\ \A v \in Workers : v # w => wpc'[v] = wpc[v] /\ wtask'[v] = wtask[v]
            /\ wtask'[w] = tasks_queue.cells[tasks_queue.head]
        BY <2>6, <1>a, <4>1 DEF WorkerTake
      <4>3. \A i \in Cells : tasks_queue'.cells[i] # NULL =>
               tasks_queue'.cells[i] = tasks_queue.cells[i]
        BY <1>b, <4>1
      <4>4. UNCHANGED <<tasks, finished, calls, parg, ppc, ptask>>
        BY <2>6 DEF WorkerTake
      <4> QED
        BY <4>0, <4>1, <4>2, <4>3, <4>4
    <3> QED
      BY <3>1, <3>2
  <2>7. CASE WorkerRun(w)
    <3>1. wtask[w] \in Cells /\ tasks[wtask[w]].data \in 1 .. calls
      BY <2>7, <1>a DEF WorkerRun, Holding
    <3>2. \A s \in Cells : s # wtask[w] => tasks'[s] = tasks[s]
      BY <2>7, <1>c DEF WorkerRun
    <3>3. \A i \in Cells : tasks_queue.cells[i] # wtask[w]
      BY <1>a, <3>1 DEF SlotsInv, SlotExclusive
    <3>4. \A v \in Workers : wpc'[v] = "run" =>
            v # w /\ wpc[v] = "run" /\ wtask[v] \in Cells /\ wtask[v] # wtask[w]
      BY <2>7, <1>a, <3>1 DEF WorkerRun, Holding, SlotsInv, SlotExclusive
    <3>5. \A p \in Producers : ppc[p] \in {"lock", "enqueue"} =>
            ptask[p] \in Cells /\ ptask[p] # wtask[w]
      BY <1>a, <3>1 DEF Holding, SlotsInv, SlotExclusive
    <3>6. /\ finished' = finished \cup {tasks[wtask[w]].data}
          /\ UNCHANGED <<tasks_queue, calls, parg, ppc, ptask, wtask>>
      BY <2>7 DEF WorkerRun
    <3>7. \A i \in Cells : tasks_queue.cells[i] # NULL => tasks_queue.cells[i] \in Cells
      BY <1>b
    <3>8. \A p \in Producers : ppc[p] # "idle" => parg[p].data # tasks[wtask[w]].data
      BY <2>7 DEF WorkerRun
    <3>9. \A p \in Producers : ppc[p] # "idle" => OwnJob(p)'
      BY <3>2, <3>3, <3>4, <3>5, <3>6, <3>7, <3>8
    <3>10. finished' \subseteq 1 .. calls'
      BY <3>1, <3>6
    <3>11. \A i \in Cells : tasks_queue'.cells[i] # NULL =>
             tasks'[tasks_queue'.cells[i]].data \in 1 .. calls'
      BY <3>2, <3>3, <3>6, <3>7
    <3>12. \A v \in Workers : wpc'[v] = "run" => tasks'[wtask'[v]].data \in 1 .. calls'
      BY <3>2, <3>4, <3>6
    <3> QED
      BY <3>6, <3>9, <3>10, <3>11, <3>12
  <2>8. CASE WorkerRunNothing(w)
    BY <2>8, <1>a DEF WorkerRunNothing
  <2>9. CASE WorkerFreeLock(w)
    BY <2>9 DEF WorkerFreeLock
  <2>10. CASE WorkerFreeEnqueue(w)
    BY <2>10 DEF WorkerFreeEnqueue, FreeTasksBroadcast
  <2>11. CASE WorkerSpuriousWakeup(w)
    BY <2>11 DEF WorkerSpuriousWakeup
  <2> QED
    BY <1>4, <2>1, <2>2, <2>3, <2>4, <2>5, <2>6, <2>7, <2>8, <2>9, <2>10, <2>11
       DEF WorkerStep
<1>5. ASSUME NEW p \in Producers, ProducerStep(p) \/ ProducerSpuriousWakeup(p)
      PROVE  JobsInv'
  <2>1. CASE ProducerFreeLock(p)
    BY <2>1 DEF ProducerFreeLock
  <2>2. CASE ProducerOverloaded(p)
    BY <2>2 DEF ProducerOverloaded
  <2>3. CASE ProducerWait(p)
    BY <2>3 DEF ProducerWait
  <2>4. CASE ProducerObtain(p)
    BY <2>4 DEF ProducerObtain
  <2>5. CASE ProducerFill(p)
    <3>1. ptask[p] \in Cells
      BY <2>5, <1>a DEF ProducerFill, Holding
    <3>2. /\ \A s \in Cells : s # ptask[p] => tasks'[s] = tasks[s]
          /\ tasks'[ptask[p]] = [routine_cb |-> parg[p].routine, data |-> parg[p].data]
      BY <2>5, <1>c, <3>1 DEF ProducerFill
    <3>3. \A i \in Cells : tasks_queue.cells[i] # ptask[p]
      BY <1>a, <3>1 DEF SlotsInv, SlotExclusive
    <3>4. \A v \in Workers : wpc[v] = "run" => wtask[v] \in Cells /\ wtask[v] # ptask[p]
      BY <1>a, <3>1 DEF Holding, SlotsInv, SlotExclusive
    <3>5. \A q \in Producers : ppc[q] \in {"lock", "enqueue"} =>
            ptask[q] \in Cells /\ ptask[q] # ptask[p]
      BY <2>5, <1>a, <3>1 DEF ProducerFill, Holding, SlotsInv, SlotExclusive
    <3>6. /\ \A q \in Producers : q # p => ppc'[q] = ppc[q]
          /\ ppc[p] = "fill" /\ ppc'[p] = "lock"
          /\ UNCHANGED <<tasks_queue, finished, calls, parg, ptask, wpc, wtask>>
      BY <2>5, <1>a DEF ProducerFill
    <3>7. \A i \in Cells : tasks_queue.cells[i] # NULL => tasks_queue.cells[i] \in Cells
      BY <1>b
    <3> QED
      BY <3>1, <3>2, <3>3, <3>4, <3>5, <3>6, <3>7
  <2>6. CASE ProducerLock(p)
    BY <2>6 DEF ProducerLock
  <2>7. CASE ProducerEnqueue(p)
    <3>1. ptask[p] \in Cells /\ OwnJob(p)
      BY <2>7, <1>a DEF ProducerEnqueue, Holding
    <3>2. tasks_queue.num_of_cells # THREAD_POOL_QUEUE_SIZE
      BY <1>a, <3>1, NotFull DEF SlotsInv, SlotExclusive
    <3>3. /\ tasks_queue.tail \in Cells
          /\ tasks_queue'.cells = [tasks_queue.cells EXCEPT ![tasks_queue.tail] = ptask[p]]
      BY <2>7, <1>a, <3>1, <3>2, EnqueueCells DEF ProducerEnqueue
    <3>4. \A i \in Cells : tasks_queue'.cells[i] \in {tasks_queue.cells[i], ptask[p]}
      BY <1>b, <3>3
    <3>5. tasks[ptask[p]].data = parg[p].data
      BY <2>7, <3>1 DEF ProducerEnqueue
    <3>6. /\ \A q \in Producers : ppc'[q] # "idle" =>
               q # p /\ ppc'[q] = ppc[q] /\ ptask'[q] = ptask[q]
          /\ \A v \in Workers : wpc'[v] = "run" => wpc[v] = "run"
          /\ UNCHANGED <<tasks, finished, calls, parg, wtask>>
      BY <2>7, <1>a DEF ProducerEnqueue, Broadcast
    <3>7. ppc[p] = "enqueue"
      BY <2>7 DEF ProducerEnqueue
    <3> QED
      BY <3>1, <3>4, <3>5, <3>6, <3>7
  <2>8. CASE ProducerSpuriousWakeup(p)
    BY <2>8 DEF ProducerSpuriousWakeup
  <2> QED
    BY <1>5, <2>1, <2>2, <2>3, <2>4, <2>5, <2>6, <2>7, <2>8 DEF ProducerStep
<1>6. CASE UNCHANGED vars
  BY <1>6 DEF vars
<1>7. CASE Terminated
  BY <1>7 DEF Terminated, vars
<1> QED
  BY <1>1, <1>2, <1>3, <1>4, <1>5, <1>6, <1>7 DEF Next

LEMMA CirculationInit == Init => Circulation
BY DEF Init, Circulation

LEMMA CirculationStep ==
  Circulation /\ JobsInv /\ PoolTypes /\ Phases /\ SlotsInv /\ [Next]_vars => Circulation'
<1> SUFFICES ASSUME Circulation, JobsInv, PoolTypes, Phases, SlotsInv, [Next]_vars
             PROVE  Circulation'
  OBVIOUS
<1>a. /\ wtask \in [Workers -> Cells \cup {NULL}] /\ ptask \in [Producers -> Cells \cup {NULL}]
      /\ wpc \in [Workers -> WorkerPC] /\ ppc \in [Producers -> ProducerPC]
      /\ tasks_queue \in Queue(Cells) /\ WellFormed(tasks_queue)
      /\ free_tasks_queue \in Queue(Cells) /\ WellFormed(free_tasks_queue)
      /\ fill \in 0 .. THREAD_POOL_QUEUE_SIZE
      /\ Holding /\ NULL \notin Cells
  BY ConstantsAssumption DEF PoolTypes, TypeOK
<1>b. /\ tasks_queue.cells \in [Cells -> Cells \cup {NULL}]
      /\ free_tasks_queue.cells \in [Cells -> Cells \cup {NULL}]
  BY <1>a DEF Queue
<1>c. tasks \in [Cells -> Task]
  BY DEF PoolTypes, TypeOK
<1> USE DEF Circulation, Placed,
        poolVars, mutexVars, workerVars, producerVars, mainVars, modelVars
<1>1. ASSUME MainStep PROVE Circulation'
  <2>1. CASE InitPool
    BY <2>1, <1>a, QueueSizeAssumption DEF InitPool, SlotsInv, Cells
  <2>2. CASE InitPoolFails
    BY <2>2 DEF InitPoolFails
  <2>3. CASE InitFreeTask
    <3>1. fill \in Cells /\ free_tasks_queue.num_of_cells # THREAD_POOL_QUEUE_SIZE
      BY <2>3, <1>a, QueueSizeAssumption DEF InitFreeTask, SlotsInv, Cells
    <3>2. /\ free_tasks_queue.tail \in Cells
          /\ free_tasks_queue.cells[free_tasks_queue.tail] = NULL
          /\ free_tasks_queue'.cells =
               [free_tasks_queue.cells EXCEPT ![free_tasks_queue.tail] = fill]
      BY <2>3, <1>a, <3>1, EnqueueCells DEF InitFreeTask
    <3>3. mpc' \in {"fill", "failed"} /\ fill' = fill + 1 /\ mpc = "fill"
      BY <2>3 DEF InitFreeTask
    <3>4. ASSUME NEW s \in Cells, s < fill + 1
          PROVE  \E i \in Cells : free_tasks_queue'.cells[i] = s
      <4>1. CASE s = fill
        BY <1>b, <3>2, <4>1
      <4>2. CASE s # fill
        <5>1. s < fill
          BY <1>a, <3>4, <4>2, QueueSizeAssumption DEF Cells
        <5>2. PICK i \in Cells : free_tasks_queue.cells[i] = s
          BY <3>3, <5>1
        <5> QED
          BY <1>a, <1>b, <3>2, <5>2
      <4> QED
        BY <4>1, <4>2
    <3> QED
      BY <3>3, <3>4
  <2>4. CASE InitThrArr
    BY <2>4, <1>a, QueueSizeAssumption DEF InitThrArr, Cells
  <2>5. ASSUME NEW w \in Workers, CreateWorker(w) PROVE Circulation'
    BY <2>5 DEF CreateWorker
  <2>6. CASE CreateFails
    BY <2>6 DEF CreateFails, FreeNonBlocking
  <2>7. CASE InitReturns
    BY <2>7 DEF InitReturns
  <2> QED
    BY <1>1, <2>1, <2>2, <2>3, <2>4, <2>5, <2>6, <2>7 DEF MainStep
<1>2. ASSUME Client PROVE Circulation'
  <2>1. ASSUME NEW p \in Producers, NEW r \in Routines, NEW b \in BOOLEAN,
               AddTask(p, r, b)
        PROVE  Circulation'
    BY <2>1 DEF AddTask
  <2>2. ASSUME NEW p \in Producers, AddTaskNullPool(p) PROVE Circulation'
    BY <2>2 DEF AddTaskNullPool
  <2>3. ASSUME NEW b \in BOOLEAN, threadpool_free(b) PROVE Circulation'
    BY <2>3 DEF threadpool_free, FreeNonBlocking
  <2> QED
    BY <1>2, <2>1, <2>2, <2>3 DEF Client
<1>3. ASSUME StopStep PROVE Circulation'
  <2>1. CASE StopSetFlag
    BY <2>1 DEF StopSetFlag
  <2>2. CASE StopLock
    BY <2>2 DEF StopLock
  <2>3. CASE StopBroadcast
    BY <2>3 DEF StopBroadcast, Broadcast
  <2>4. CASE StopJoin
    BY <2>4 DEF StopJoin, WorkersJoined
  <2> QED
    BY <1>3, <2>1, <2>2, <2>3, <2>4 DEF StopStep
<1>4. ASSUME NEW w \in Workers, WorkerStep(w) \/ WorkerSpuriousWakeup(w)
      PROVE  Circulation'
  <2>1. CASE WorkerStart(w)
    BY <2>1 DEF WorkerStart
  <2>2. CASE WorkerLock(w)
    BY <2>2 DEF WorkerLock
  <2>3. CASE WorkerCheck(w)
    BY <2>3 DEF WorkerCheck
  <2>4. CASE WorkerWait(w)
    BY <2>4 DEF WorkerWait
  <2>5. CASE WorkerRecheck(w)
    BY <2>5 DEF WorkerRecheck
  <2>6. CASE WorkerTake(w)
    <3>1. CASE tasks_queue.num_of_cells = 0
      <4>1. tasks_queue' = tasks_queue /\ wtask[w] = NULL /\ wtask' = [wtask EXCEPT ![w] = NULL]
        BY <2>6, <1>a, <3>1, DequeueWellFormed DEF WorkerTake, Holding
      <4> QED
        BY <2>6, <1>a, <4>1 DEF WorkerTake
    <3>2. CASE tasks_queue.num_of_cells # 0
      <4>1. /\ tasks_queue.head \in Cells
            /\ wtask' = [wtask EXCEPT ![w] = tasks_queue.cells[tasks_queue.head]]
            /\ tasks_queue'.cells = [tasks_queue.cells EXCEPT ![tasks_queue.head] = NULL]
        BY <2>6, <1>a, <3>2, DequeueCells DEF WorkerTake
      <4>2. wtask[w] = NULL
        BY <2>6, <1>a DEF WorkerTake, Holding
      <4>3. ASSUME NEW s \in Cells, Placed(s) PROVE Placed(s)'
        BY <2>6, <1>a, <1>b, <4>1, <4>2, <4>3 DEF WorkerTake
      <4> QED
        BY <2>6, <4>3 DEF WorkerTake
    <3> QED
      BY <3>1, <3>2
  <2>7. CASE WorkerRun(w)
    <3>1. wtask[w] \in Cells /\ mpc \notin {"init", "fill"}
      BY <2>7, <1>a DEF WorkerRun, Holding, Phases
    <3>2. ASSUME NEW s \in Cells, s # wtask[w] PROVE tasks'[s] = tasks[s]
      BY <2>7, <1>c, <3>2 DEF WorkerRun
    <3> QED
      BY <2>7, <3>1, <3>2 DEF WorkerRun
  <2>8. CASE WorkerRunNothing(w)
    <3>1. wtask[w] \in Cells /\ mpc \notin {"init", "fill"}
      BY <2>8, <1>a DEF WorkerRunNothing, Holding, Phases
    <3>2. tasks[wtask[w]].routine_cb = NULL /\ tasks[wtask[w]].data \in 1 .. calls
      BY <2>8 DEF WorkerRunNothing, JobsInv
    <3>3. tasks[wtask[w]].data # NULL
      BY <3>2, ConstantsAssumption DEF PoolTypes, TypeOK
    <3>4. ASSUME NEW s \in Cells, Placed(s), s # wtask[w] PROVE Placed(s)'
      BY <2>8, <1>a, <3>4 DEF WorkerRunNothing
    <3> QED
      BY <2>8, <3>1, <3>2, <3>3, <3>4 DEF WorkerRunNothing
  <2>9. CASE WorkerFreeLock(w)
    BY <2>9 DEF WorkerFreeLock
  <2>10. CASE WorkerFreeEnqueue(w)
    <3>1. wtask[w] \in Cells /\ mpc \notin {"init", "fill"}
      BY <2>10, <1>a DEF WorkerFreeEnqueue, Holding, Phases
    <3>2. free_tasks_queue.num_of_cells # THREAD_POOL_QUEUE_SIZE
      BY <1>a, <3>1, NotFull DEF SlotsInv, SlotExclusive
    <3>3. /\ free_tasks_queue.tail \in Cells
          /\ free_tasks_queue.cells[free_tasks_queue.tail] = NULL
          /\ free_tasks_queue'.cells =
               [free_tasks_queue.cells EXCEPT ![free_tasks_queue.tail] = wtask[w]]
      BY <2>10, <1>a, <3>1, <3>2, EnqueueCells DEF WorkerFreeEnqueue
    <3>4. ASSUME NEW s \in Cells, Placed(s) PROVE Placed(s)'
      BY <2>10, <1>a, <1>b, <3>3, <3>4 DEF WorkerFreeEnqueue
    <3> QED
      BY <2>10, <3>1, <3>4 DEF WorkerFreeEnqueue
  <2>11. CASE WorkerSpuriousWakeup(w)
    BY <2>11 DEF WorkerSpuriousWakeup
  <2> QED
    BY <1>4, <2>1, <2>2, <2>3, <2>4, <2>5, <2>6, <2>7, <2>8, <2>9, <2>10, <2>11
       DEF WorkerStep
<1>5. ASSUME NEW p \in Producers, ProducerStep(p) \/ ProducerSpuriousWakeup(p)
      PROVE  Circulation'
  <2>1. CASE ProducerFreeLock(p)
    BY <2>1 DEF ProducerFreeLock
  <2>2. CASE ProducerOverloaded(p)
    BY <2>2 DEF ProducerOverloaded
  <2>3. CASE ProducerWait(p)
    BY <2>3 DEF ProducerWait
  <2>4. CASE ProducerObtain(p)
    <3>1. free_tasks_queue.num_of_cells # 0 /\ mpc \notin {"init", "fill"}
      BY <2>4 DEF ProducerObtain, threadpool_queue_is_empty, Phases
    <3>2. /\ free_tasks_queue.head \in Cells
          /\ ptask' = [ptask EXCEPT ![p] = free_tasks_queue.cells[free_tasks_queue.head]]
          /\ free_tasks_queue'.cells =
               [free_tasks_queue.cells EXCEPT ![free_tasks_queue.head] = NULL]
      BY <2>4, <1>a, <3>1, DequeueCells DEF ProducerObtain
    <3>3. ptask[p] = NULL
      BY <2>4, <1>a DEF ProducerObtain, Holding
    <3>4. ASSUME NEW s \in Cells, Placed(s) PROVE Placed(s)'
      BY <2>4, <1>a, <1>b, <3>2, <3>3, <3>4 DEF ProducerObtain
    <3> QED
      BY <2>4, <3>1, <3>4 DEF ProducerObtain
  <2>5. CASE ProducerFill(p)
    <3>1. ptask[p] \in Cells /\ mpc \notin {"init", "fill"}
      BY <2>5, <1>a DEF ProducerFill, Holding, Phases
    <3>2. ASSUME NEW s \in Cells, s # ptask[p] PROVE tasks'[s] = tasks[s]
      BY <2>5, <1>c, <3>2 DEF ProducerFill
    <3> QED
      BY <2>5, <3>1, <3>2 DEF ProducerFill
  <2>6. CASE ProducerLock(p)
    BY <2>6 DEF ProducerLock
  <2>7. CASE ProducerEnqueue(p)
    <3>1. ptask[p] \in Cells /\ mpc \notin {"init", "fill"}
      BY <2>7, <1>a DEF ProducerEnqueue, Holding, Phases
    <3>2. tasks_queue.num_of_cells # THREAD_POOL_QUEUE_SIZE
      BY <1>a, <3>1, NotFull DEF SlotsInv, SlotExclusive
    <3>3. /\ tasks_queue.tail \in Cells /\ tasks_queue.cells[tasks_queue.tail] = NULL
          /\ tasks_queue'.cells = [tasks_queue.cells EXCEPT ![tasks_queue.tail] = ptask[p]]
      BY <2>7, <1>a, <3>1, <3>2, EnqueueCells DEF ProducerEnqueue
    <3>4. ASSUME NEW s \in Cells, Placed(s) PROVE Placed(s)'
      BY <2>7, <1>a, <1>b, <3>3, <3>4 DEF ProducerEnqueue
    <3> QED
      BY <2>7, <3>1, <3>4 DEF ProducerEnqueue
  <2>8. CASE ProducerSpuriousWakeup(p)
    BY <2>8 DEF ProducerSpuriousWakeup
  <2> QED
    BY <1>5, <2>1, <2>2, <2>3, <2>4, <2>5, <2>6, <2>7, <2>8 DEF ProducerStep
<1>6. CASE UNCHANGED vars
  BY <1>6 DEF vars
<1>7. CASE Terminated
  BY <1>7 DEF Terminated, vars
<1> QED
  BY <1>1, <1>2, <1>3, <1>4, <1>5, <1>6, <1>7 DEF Next

(* The whole invariant.                                                    *)
TaskInv == PoolInv /\ JobsInv /\ Circulation

LEMMA TaskInvariant == Spec => []TaskInv
<1>1. Init => TaskInv
  BY PoolTypesInit, PhasesInit, LockedInit, SlotsInvInit, WakeupInvInit, JobsInvInit,
     CirculationInit
     DEF TaskInv, PoolInv
<1>2. TaskInv /\ [Next]_vars => TaskInv'
  BY PoolTypesStep, PhasesStep, LockedStep, SlotsInvStep, WakeupInvStep, JobsInvStep,
     CirculationStep
     DEF TaskInv, PoolInv
<1> QED
  BY <1>1, <1>2, PTL DEF Spec

(* worker_thr_routine and threadpool_add_task pass every task on: one that *)
(* neither queue, no worker and no client has was lost with a job that had *)
(* no routine, the only one the code does not return to the free tasks.    *)
THEOREM TasksCirculate == Spec => []NoSlotLost
<1>1. TaskInv => NoSlotLost
  <2>1. TaskInv => NULL \notin Cells
    BY ConstantsAssumption
  <2> QED
    BY <2>1 DEF TaskInv, Circulation, Placed, NoSlotLost, Elements
<1> QED
  BY <1>1, TaskInvariant, PTL

-----------------------------------------------------------------------------
(* The tasks in the tasks queue and those being run are different tasks of *)
(* the array, so a client that still has one finds room for its job.       *)
Runners == {w \in Workers : wpc[w] = "run"}

(* Each element of a queue's contents is in one of its cells.              *)
LEMMA ContentsCell ==
  ASSUME NEW q \in Queue(Cells), WellFormed(q), NEW k \in 1 .. q.num_of_cells
  PROVE  \E i \in Cells : Contents(q)[k] = q.cells[i] /\ q.cells[i] # NULL
<1> DEFINE i == CellAfter(q.head, k - 1)
<1>1. q.head \in Cells /\ q.num_of_cells \in 0 .. THREAD_POOL_QUEUE_SIZE
  BY DEF Queue
<1>2. i \in Cells /\ Occupied(q, i)
  BY <1>1, QueueSizeAssumption DEF Cells, CellAfter, Occupied
<1>3. q.cells[i] # NULL
  BY <1>2 DEF WellFormed
<1> QED
  BY <1>2, <1>3 DEF Contents

LEMMA RoomForOne ==
  ASSUME PoolInv, NEW p \in Producers, ptask[p] # NULL
  PROVE  /\ IsFiniteSet(Runners)
         /\ tasks_queue.num_of_cells + Cardinality(Runners) < THREAD_POOL_QUEUE_SIZE
<1> DEFINE N == THREAD_POOL_QUEUE_SIZE
           n == tasks_queue.num_of_cells
           c == tasks_queue.cells
           U == Cells \ {ptask[p]}
           I == {i \in Cells : c[i] # NULL}
           h == [k \in 1 .. n |-> CellAfter(tasks_queue.head, k - 1)]
           f == [k \in 1 .. n |-> Contents(tasks_queue)[k]]
           g == [w \in Runners |-> wtask[w]]
           E == {f[k] : k \in 1 .. n}
           R == {g[w] : w \in Runners}
<1>a. /\ wtask \in [Workers -> Cells \cup {NULL}] /\ ptask \in [Producers -> Cells \cup {NULL}]
      /\ tasks_queue \in Queue(Cells) /\ WellFormed(tasks_queue)
      /\ Holding /\ NULL \notin Cells
  BY ConstantsAssumption DEF PoolInv, PoolTypes, TypeOK
<1>b. /\ tasks_queue.cells \in [Cells -> Cells \cup {NULL}]
      /\ tasks_queue.head \in Cells /\ n \in 0 .. N
  BY <1>a DEF Queue
<1>c. SlotExclusive
  BY DEF PoolInv, SlotsInv
<1>1. /\ IsFiniteSet(U) /\ Cardinality(U) = N - 1
  <2>1. IsFiniteSet(Cells) /\ Cardinality(Cells) = N
    BY QueueSizeAssumption, FS_Interval DEF Cells
  <2>2. ptask[p] \in Cells
    BY <1>a
  <2> QED
    BY <2>1, <2>2, FS_RemoveElement
<1>2. ASSUME NEW k \in 1 .. n
      PROVE  h[k] \in Cells /\ Occupied(tasks_queue, h[k]) /\ c[h[k]] # NULL
  <2>1. h[k] \in Cells /\ Occupied(tasks_queue, h[k])
    BY <1>b, QueueSizeAssumption DEF Cells, CellAfter, Occupied
  <2> QED
    BY <1>a, <2>1 DEF WellFormed
<1>3. ASSUME NEW k \in 1 .. n, NEW m \in 1 .. n, h[k] = h[m] PROVE k = m
  BY <1>b, <1>3, QueueSizeAssumption DEF Cells, CellAfter
<1>4. \A k \in 1 .. n : f[k] = c[h[k]]
  BY DEF Contents
<1>5. f \in Bijection(1 .. n, E)
  <2>1. \A k, m \in 1 .. n : f[k] = f[m] => k = m
    <3> SUFFICES ASSUME NEW k \in 1 .. n, NEW m \in 1 .. n, f[k] = f[m] PROVE k = m
      OBVIOUS
    <3>1. c[h[k]] = c[h[m]] /\ c[h[k]] # NULL /\ h[k] \in Cells /\ h[m] \in Cells
      BY <1>2, <1>4
    <3>2. h[k] = h[m]
      BY <1>c, <3>1 DEF SlotExclusive
    <3> QED
      BY <1>3, <3>2
  <2> QED
    BY <2>1 DEF Bijection, Injection, Surjection, IsInjective
<1>6. IsFiniteSet(E) /\ Cardinality(E) = n
  <2>0. n \in Nat /\ 1 \in Int /\ n \in Int
    BY <1>b, QueueSizeAssumption
  <2>1. n \in Nat /\ IsFiniteSet(1 .. n) /\ Cardinality(1 .. n) = n
    <3>1. /\ IsFiniteSet(1 .. n)
          /\ Cardinality(1 .. n) = IF 1 > n THEN 0 ELSE n - 1 + 1
      BY <2>0, FS_Interval
    <3> QED
      BY <2>0, <3>1
  <2>2. ExistsBijection(1 .. n, E)
    BY <1>5 DEF ExistsBijection
  <2> HIDE DEF E
  <2> QED
    BY <2>1, <2>2, FS_Bijection
<1>7. E \subseteq U
  <2> SUFFICES ASSUME NEW k \in 1 .. n PROVE f[k] \in U
    OBVIOUS
  <2>1. f[k] = c[h[k]] /\ h[k] \in Cells /\ c[h[k]] \in Cells
    BY <1>b, <1>2, <1>4
  <2> QED
    BY <1>c, <2>1 DEF SlotExclusive
<1>8. \A w \in Runners : wtask[w] \in U /\ g[w] = wtask[w]
  BY <1>a, <1>c DEF Runners, Holding, SlotExclusive
<1>9. g \in Bijection(Runners, R) /\ R \subseteq U
  <2>1. \A v, w \in Runners : g[v] = g[w] => v = w
    BY <1>a, <1>c, <1>8 DEF Runners, SlotExclusive
  <2> QED
    BY <1>8, <2>1 DEF Bijection, Injection, Surjection, IsInjective
<1>10. /\ IsFiniteSet(Runners) /\ Cardinality(Runners) \in Nat
       /\ Cardinality(R) = Cardinality(Runners)
  <2>1. IsFiniteSet(R)
    BY <1>1, <1>9, FS_Subset
  <2>2. g \in Injection(Runners, R) /\ g \in Surjection(Runners, R)
    BY <1>9 DEF Bijection
  <2> HIDE DEF R, g
  <2> QED
    BY <2>1, <2>2, FS_Injection, FS_CardinalityType
<1>11. E \cap R = {}
  <2> SUFFICES ASSUME NEW k \in 1 .. n, NEW w \in Runners PROVE f[k] # g[w]
    OBVIOUS
  <2>1. f[k] = c[h[k]] /\ h[k] \in Cells
    BY <1>2, <1>4
  <2>2. wtask[w] # NULL /\ w \in Workers
    BY <1>a, <1>8 DEF Runners
  <2> QED
    BY <1>c, <1>8, <2>1, <2>2 DEF SlotExclusive
<1> HIDE DEF E, R, U
<1>12. ~(Cardinality(E) + Cardinality(R) > Cardinality(U))
  BY <1>1, <1>7, <1>9, <1>11, FS_MajoritiesIntersect
<1> QED
  BY <1>1, <1>6, <1>10, <1>12, <1>b, QueueSizeAssumption

-----------------------------------------------------------------------------
(* The refinement.  A step that leaves alone the tasks queue, the tasks in *)
(* it and those being run stutters.                                        *)
LEMMA Stutters ==
  ASSUME PoolTypes, PoolTypes',
         tasks_queue' = tasks_queue, finished' = finished,
         \A i \in Cells : tasks_queue.cells[i] # NULL =>
           tasks'[tasks_queue.cells[i]] = tasks[tasks_queue.cells[i]],
         \A w \in Workers : wpc'[w] = "run" <=> wpc[w] = "run",
         \A w \in Workers : wpc[w] = "run" => tasks'[wtask'[w]] = tasks[wtask[w]]
  PROVE  UNCHANGED Abstract!vars
<1>1. QueuedJobs' = QueuedJobs
  <2>1. ASSUME NEW k \in 1 .. tasks_queue.num_of_cells
        PROVE  tasks'[Contents(tasks_queue)[k]] = tasks[Contents(tasks_queue)[k]]
    <3>1. PICK i \in Cells : Contents(tasks_queue)[k] = tasks_queue.cells[i]
                              /\ tasks_queue.cells[i] # NULL
      BY ContentsCell DEF PoolTypes, TypeOK
    <3> QED
      BY <3>1
  <2> QED
    BY <2>1 DEF QueuedJobs
<1>2. RunningJob' = RunningJob
  BY DEF RunningJob
<1> QED
  BY <1>1, <1>2 DEF Abstract!vars

LEMMA InitRefines == Init => Abstract!Init
<1> SUFFICES ASSUME Init PROVE Abstract!Init
  OBVIOUS
<1>1. tasks_queue.num_of_cells = 0 /\ \A w \in Workers : wpc[w] # "run"
  BY DEF Init, threadpool_queue_init
<1>2. QueuedJobs = << >>
  BY <1>1 DEF QueuedJobs
<1>3. RunningJob = [w \in Workers |-> NULL]
  BY <1>1 DEF RunningJob
<1> QED
  BY <1>2, <1>3 DEF Init, Abstract!Init

(* A step of the pool is a step of TaskPool or leaves its variables alone. *)
Simulated == Abstract!Next \/ UNCHANGED Abstract!vars

(* The jobs in the tasks queue form a sequence as long as the queue.       *)
LEMMA QueuedJobsType ==
  ASSUME tasks_queue \in Queue(Cells), WellFormed(tasks_queue),
         tasks \in [Cells -> Task], NULL \notin Cells
  PROVE  QueuedJobs \in Seq(Task) /\ Len(QueuedJobs) = tasks_queue.num_of_cells
<1> DEFINE n == tasks_queue.num_of_cells
           I == [k \in 1 .. n |-> tasks[Contents(tasks_queue)[k]]]
<1>1. n \in Nat
  BY QueueSizeAssumption DEF Queue
<1>2. Contents(tasks_queue) \in Seq(Cells) /\ Len(Contents(tasks_queue)) = n
  BY ContentsType
<1>3. \A k \in 1 .. n : Contents(tasks_queue)[k] \in Cells
  BY <1>1, <1>2
<1>4. \A k \in 1 .. n : tasks[Contents(tasks_queue)[k]] \in Task
  BY <1>3
<1>5. I \in [1 .. n -> Task]
  BY <1>4, Zenon
<1> HIDE DEF I
<1>6. I \in Seq(Task) /\ Len(I) = n
  BY <1>1, <1>5
<1> QED
  BY <1>6 DEF I, QueuedJobs

LEMMA StepRefines == TaskInv /\ [Next]_vars => Simulated
<1> SUFFICES ASSUME TaskInv, [Next]_vars PROVE Simulated
  OBVIOUS
<1>p. PoolTypes /\ PoolTypes' /\ Holding
  BY PoolTypesStep DEF TaskInv, PoolInv, PoolTypes
<1>a. /\ wtask \in [Workers -> Cells \cup {NULL}] /\ ptask \in [Producers -> Cells \cup {NULL}]
      /\ wpc \in [Workers -> WorkerPC] /\ ppc \in [Producers -> ProducerPC]
      /\ tasks_queue \in Queue(Cells) /\ WellFormed(tasks_queue)
      /\ tasks \in [Cells -> Task] /\ NULL \notin Cells
  BY <1>p, ConstantsAssumption DEF PoolTypes, TypeOK
<1>b. tasks_queue.cells \in [Cells -> Cells \cup {NULL}]
  BY <1>a DEF Queue
<1>c. Phases /\ Locked /\ SlotsInv /\ SlotExclusive /\ WakeupInv /\ JobsInv
  BY DEF TaskInv, PoolInv, SlotsInv
<1>s. ASSUME UNCHANGED <<tasks_queue, finished, tasks, wtask>>,
             \A w \in Workers : wpc'[w] = "run" <=> wpc[w] = "run"
      PROVE  Simulated
  BY <1>p, <1>s, Stutters DEF Simulated
<1> USE DEF poolVars, mutexVars, workerVars, producerVars, mainVars, modelVars
<1>1. ASSUME MainStep PROVE Simulated
  <2>1. CASE InitPool
    <3>1. \A i \in Cells : tasks_queue.cells[i] = NULL
      BY <2>1, <1>c DEF InitPool, SlotsInv
    <3>2. tasks_queue.num_of_cells = 0 /\ tasks_queue'.num_of_cells = 0
      <4>1. tasks_queue.head \in Cells /\ tasks_queue.num_of_cells \in 0 .. THREAD_POOL_QUEUE_SIZE
        BY <1>a DEF Queue
      <4>2. ~Occupied(tasks_queue, tasks_queue.head)
        BY <1>a, <3>1, <4>1 DEF WellFormed
      <4> QED
        BY <2>1, <4>1, <4>2, QueueSizeAssumption
           DEF InitPool, Occupied, Cells, threadpool_queue_init
    <3>3. QueuedJobs' = QueuedJobs
      BY <3>2 DEF QueuedJobs
    <3>4. RunningJob' = RunningJob /\ finished' = finished
      BY <2>1 DEF InitPool, RunningJob
    <3> QED
      BY <3>3, <3>4 DEF Simulated, Abstract!vars
  <2>2. CASE InitPoolFails
    BY <2>2, <1>a, <1>s DEF InitPoolFails
  <2>3. CASE InitFreeTask
    <3>1. /\ \A i \in Cells : tasks_queue.cells[i] = NULL
          /\ \A w \in Workers : wpc[w] = "none"
      BY <2>3, <1>c DEF InitFreeTask, SlotsInv, Phases
    <3> QED
      BY <2>3, <1>p, <3>1, Stutters DEF InitFreeTask, Simulated
  <2>4. CASE InitThrArr
    BY <2>4, <1>a, <1>s DEF InitThrArr
  <2>5. ASSUME NEW w \in Workers, CreateWorker(w) PROVE Simulated
    BY <2>5, <1>a, <1>s DEF CreateWorker
  <2>6. CASE CreateFails
    BY <2>6, <1>a, <1>s DEF CreateFails, FreeNonBlocking
  <2>7. CASE InitReturns
    BY <2>7, <1>a, <1>s DEF InitReturns
  <2> QED
    BY <1>1, <2>1, <2>2, <2>3, <2>4, <2>5, <2>6, <2>7 DEF MainStep
<1>2. ASSUME Client PROVE Simulated
  <2>1. ASSUME NEW p \in Producers, NEW r \in Routines, NEW b \in BOOLEAN,
               AddTask(p, r, b)
        PROVE  Simulated
    BY <2>1, <1>a, <1>s DEF AddTask
  <2>2. ASSUME NEW p \in Producers, AddTaskNullPool(p) PROVE Simulated
    BY <2>2, <1>a, <1>s DEF AddTaskNullPool
  <2>3. ASSUME NEW b \in BOOLEAN, threadpool_free(b) PROVE Simulated
    BY <2>3, <1>a, <1>s DEF threadpool_free, FreeNonBlocking
  <2> QED
    BY <1>2, <2>1, <2>2, <2>3 DEF Client
<1>3. ASSUME StopStep PROVE Simulated
  <2>1. CASE StopSetFlag
    BY <2>1, <1>a, <1>s DEF StopSetFlag
  <2>2. CASE StopLock
    BY <2>2, <1>a, <1>s DEF StopLock
  <2>3. CASE StopBroadcast
    BY <2>3, <1>a, <1>s DEF StopBroadcast, Broadcast
  <2>4. CASE StopJoin
    BY <2>4, <1>a, <1>s DEF StopJoin
  <2> QED
    BY <1>3, <2>1, <2>2, <2>3, <2>4 DEF StopStep
<1>4. ASSUME NEW w \in Workers, WorkerStep(w) \/ WorkerSpuriousWakeup(w)
      PROVE  Simulated
  <2>1. CASE WorkerStart(w)
    BY <2>1, <1>a, <1>s DEF WorkerStart
  <2>2. CASE WorkerLock(w)
    BY <2>2, <1>a, <1>s DEF WorkerLock
  <2>3. CASE WorkerCheck(w)
    BY <2>3, <1>a, <1>s DEF WorkerCheck
  <2>4. CASE WorkerWait(w)
    BY <2>4, <1>a, <1>s DEF WorkerWait
  <2>5. CASE WorkerRecheck(w)
    BY <2>5, <1>a, <1>s DEF WorkerRecheck
  <2>6. CASE WorkerTake(w)
    <3>1. tasks_queue.num_of_cells # 0
      BY <2>6, <1>c DEF WorkerTake, WakeupInv
    <3>2. /\ threadpool_queue_dequeue(tasks_queue).data = Head(Contents(tasks_queue))
          /\ Contents(tasks_queue') = Tail(Contents(tasks_queue))
      BY <2>6, <1>a, <3>1, DequeueTakesHead DEF WorkerTake
    <3>3. /\ threadpool_queue_dequeue(tasks_queue).data # NULL
          /\ tasks_queue'.num_of_cells = tasks_queue.num_of_cells - 1
      BY <2>6, <1>a, <3>1, DequeueWellFormed DEF WorkerTake
    <3>4. /\ Contents(tasks_queue) \in Seq(Cells)
          /\ Len(Contents(tasks_queue)) = tasks_queue.num_of_cells
      BY <1>a, ContentsType
    <3>5. /\ tasks' = tasks /\ finished' = finished /\ wpc[w] = "take"
          /\ wpc' = [wpc EXCEPT ![w] = "run"]
          /\ wtask' = [wtask EXCEPT ![w] = Head(Contents(tasks_queue))]
      BY <2>6, <3>2, <3>3 DEF WorkerTake
    <3>6. QueuedJobs # << >> /\ Head(QueuedJobs) = tasks[Head(Contents(tasks_queue))]
      BY <1>a, <3>1, <3>4, QueueSizeAssumption DEF QueuedJobs, Queue
    <3>7. QueuedJobs' = Tail(QueuedJobs)
      <4> DEFINE n == tasks_queue.num_of_cells
      <4>1. n \in Nat /\ n # 0
        BY <1>a, <3>1, QueueSizeAssumption DEF Queue
      <4>2. QueuedJobs' = [k \in 1 .. (n - 1) |-> tasks[Tail(Contents(tasks_queue))[k]]]
        BY <3>2, <3>3, <3>5 DEF QueuedJobs
      <4>3. \A k \in 1 .. (n - 1) :
              Tail(Contents(tasks_queue))[k] = Contents(tasks_queue)[k + 1]
        BY <3>4, <4>1
      <4>4. QueuedJobs \in Seq(Task) /\ Len(QueuedJobs) = n
        BY <1>a, QueuedJobsType
      <4>5. \A k \in 1 .. (n - 1) : Tail(QueuedJobs)[k] = QueuedJobs[k + 1]
        BY <4>1, <4>4
      <4>6. \A k \in 1 .. (n - 1) : QueuedJobs[k + 1] = tasks[Contents(tasks_queue)[k + 1]]
        BY <4>1 DEF QueuedJobs
      <4>7. Tail(QueuedJobs) \in Seq(Task) /\ Len(Tail(QueuedJobs)) = n - 1
        BY <4>1, <4>4
      <4>8. \A k \in 1 .. (n - 1) : QueuedJobs'[k] = Tail(QueuedJobs)[k]
        BY <4>2, <4>3, <4>5, <4>6
      <4>9. QueuedJobs' \in Seq(Task) /\ Len(QueuedJobs') = n - 1
        <5>1. \A k \in 1 .. (n - 1) : tasks[Tail(Contents(tasks_queue))[k]] \in Task
          BY <1>a, <3>4, <4>1
        <5> DEFINE J == [k \in 1 .. (n - 1) |-> tasks[Tail(Contents(tasks_queue))[k]]]
        <5>2. J \in [1 .. (n - 1) -> Task]
          BY <5>1, Zenon
        <5> HIDE DEF J
        <5>3. J \in Seq(Task) /\ Len(J) = n - 1
          BY <4>1, <5>2
        <5> QED
          BY <4>2, <5>3 DEF J
      <4> QED
        BY <4>7, <4>8, <4>9, SeqEqual
    <3>8. /\ RunningJob[w] = NULL
          /\ RunningJob' = [RunningJob EXCEPT ![w] = Head(QueuedJobs)]
      BY <1>a, <3>5, <3>6 DEF RunningJob
    <3>9. Abstract!Start(w)
      BY <3>5, <3>6, <3>7, <3>8 DEF Abstract!Start
    <3> QED
      BY <3>9 DEF Simulated, Abstract!Next
  <2>7. CASE WorkerRun(w)
    <3>1. wtask[w] \in Cells /\ tasks[wtask[w]] \in Task /\ tasks[wtask[w]] # NULL
      BY <2>7, <1>p, <1>a, TaskAssumption DEF WorkerRun, Holding
    <3>2. \A s \in Cells : s # wtask[w] => tasks'[s] = tasks[s]
      BY <2>7, <1>a DEF WorkerRun
    <3>3. QueuedJobs' = QueuedJobs
      <4>1. ASSUME NEW k \in 1 .. tasks_queue.num_of_cells
            PROVE  tasks'[Contents(tasks_queue)[k]] = tasks[Contents(tasks_queue)[k]]
        <5>1. PICK i \in Cells : Contents(tasks_queue)[k] = tasks_queue.cells[i]
                                  /\ tasks_queue.cells[i] # NULL
          BY <1>a, ContentsCell
        <5>2. tasks_queue.cells[i] # wtask[w] /\ tasks_queue.cells[i] \in Cells
          BY <1>a, <1>b, <1>c, <3>1, <5>1 DEF SlotExclusive
        <5> QED
          BY <3>2, <5>1, <5>2
      <4> QED
        BY <2>7, <4>1 DEF WorkerRun, QueuedJobs
    <3>4. \A v \in Workers : v # w /\ wpc[v] = "run" => tasks'[wtask[v]] = tasks[wtask[v]]
      BY <1>p, <1>a, <1>c, <3>1, <3>2 DEF Holding, SlotExclusive
    <3>5. RunningJob[w] = tasks[wtask[w]] /\ RunningJob' = [RunningJob EXCEPT ![w] = NULL]
      <4>1. /\ RunningJob[w] = tasks[wtask[w]] /\ wpc'[w] # "run"
            /\ \A v \in Workers : v # w => wpc'[v] = wpc[v] /\ wtask'[v] = wtask[v]
        BY <2>7, <1>a DEF WorkerRun, RunningJob
      <4> QED
        BY <3>4, <4>1 DEF RunningJob
    <3>6. Abstract!Finish(w)
      BY <2>7, <3>1, <3>3, <3>5 DEF WorkerRun, Abstract!Finish
    <3> QED
      BY <3>6 DEF Simulated, Abstract!Next
  <2>8. CASE WorkerRunNothing(w)
    <3>1. wtask[w] \in Cells /\ tasks[wtask[w]] \in Task /\ tasks[wtask[w]] # NULL
      BY <2>8, <1>p, <1>a, TaskAssumption DEF WorkerRunNothing, Holding
    <3>2. QueuedJobs' = QueuedJobs
      BY <2>8 DEF WorkerRunNothing, QueuedJobs
    <3>3. RunningJob[w] = tasks[wtask[w]] /\ RunningJob' = [RunningJob EXCEPT ![w] = NULL]
      BY <2>8, <1>a DEF WorkerRunNothing, RunningJob
    <3>4. Abstract!Drop(w)
      BY <2>8, <3>1, <3>2, <3>3 DEF WorkerRunNothing, Abstract!Drop
    <3> QED
      BY <3>4 DEF Simulated, Abstract!Next
  <2>9. CASE WorkerFreeLock(w)
    BY <2>9, <1>a, <1>s DEF WorkerFreeLock
  <2>10. CASE WorkerFreeEnqueue(w)
    <3>1. /\ \A v \in Workers : wpc[v] = "run" => v # w
          /\ \A v \in Workers : v # w => wpc'[v] = wpc[v] /\ wtask'[v] = wtask[v]
          /\ wpc'[w] # "run"
      BY <2>10, <1>a DEF WorkerFreeEnqueue
    <3> QED
      BY <2>10, <1>p, <3>1, Stutters DEF WorkerFreeEnqueue, Simulated
  <2>11. CASE WorkerSpuriousWakeup(w)
    BY <2>11, <1>a, <1>s DEF WorkerSpuriousWakeup
  <2> QED
    BY <1>4, <2>1, <2>2, <2>3, <2>4, <2>5, <2>6, <2>7, <2>8, <2>9, <2>10, <2>11
       DEF WorkerStep
<1>5. ASSUME NEW p \in Producers, ProducerStep(p) \/ ProducerSpuriousWakeup(p)
      PROVE  Simulated
  <2>1. CASE ProducerFreeLock(p)
    BY <2>1, <1>a, <1>s DEF ProducerFreeLock
  <2>2. CASE ProducerOverloaded(p)
    BY <2>2, <1>a, <1>s DEF ProducerOverloaded
  <2>3. CASE ProducerWait(p)
    BY <2>3, <1>a, <1>s DEF ProducerWait
  <2>4. CASE ProducerObtain(p)
    BY <2>4, <1>a, <1>s DEF ProducerObtain
  <2>5. CASE ProducerFill(p)
    <3>1. ptask[p] # NULL /\ \A s \in Cells : s # ptask[p] => tasks'[s] = tasks[s]
      BY <2>5, <1>p, <1>a DEF ProducerFill, Holding
    <3>2. \A i \in Cells : tasks_queue.cells[i] # NULL =>
            tasks_queue.cells[i] \in Cells /\ tasks_queue.cells[i] # ptask[p]
      BY <1>b, <1>c, <3>1 DEF SlotExclusive
    <3>3. \A w \in Workers : wpc[w] = "run" => wtask[w] \in Cells /\ wtask[w] # ptask[p]
      BY <1>p, <1>a, <1>c DEF Holding, SlotExclusive
    <3> QED
      BY <2>5, <1>p, <3>1, <3>2, <3>3, Stutters DEF ProducerFill, Simulated
  <2>6. CASE ProducerLock(p)
    BY <2>6, <1>a, <1>s DEF ProducerLock
  <2>7. CASE ProducerEnqueue(p)
    <3> DEFINE job == [routine_cb |-> parg[p].routine, data |-> parg[p].data]
               n == tasks_queue.num_of_cells
    <3>1. /\ ptask[p] \in Cells /\ OwnJob(p) /\ tasks[ptask[p]] = job
      BY <2>7, <1>p, <1>a, <1>c DEF ProducerEnqueue, Holding, JobsInv, OwnJob
    <3>2. n \in Nat /\ n + Cardinality(Runners) < THREAD_POOL_QUEUE_SIZE
      BY <1>a, <3>1, RoomForOne, QueueSizeAssumption DEF TaskInv, Queue
    <3>3. n # THREAD_POOL_QUEUE_SIZE
      BY <1>a, <1>c, <3>1, NotFull DEF SlotExclusive
    <3>4. /\ Contents(tasks_queue') = Append(Contents(tasks_queue), ptask[p])
          /\ tasks_queue'.num_of_cells = n + 1
      BY <2>7, <1>a, <3>1, <3>3, EnqueueAppends, EnqueueWellFormed DEF ProducerEnqueue
    <3>5. Contents(tasks_queue) \in Seq(Cells) /\ Len(Contents(tasks_queue)) = n
      BY <1>a, ContentsType
    <3>6. QueuedJobs' = Append(QueuedJobs, job)
      <4>1. QueuedJobs \in Seq(Task) /\ Len(QueuedJobs) = n
        BY <1>a, QueuedJobsType
      <4>2. Append(QueuedJobs, job) =
              [k \in 1 .. (n + 1) |-> IF k = n + 1 THEN job ELSE QueuedJobs[k]]
        BY <3>2, <4>1
      <4>3. QueuedJobs' =
              [k \in 1 .. (n + 1) |-> tasks[Append(Contents(tasks_queue), ptask[p])[k]]]
        BY <2>7, <3>4 DEF ProducerEnqueue, QueuedJobs
      <4>4. \A k \in 1 .. (n + 1) : Append(Contents(tasks_queue), ptask[p])[k] =
              IF k = n + 1 THEN ptask[p] ELSE Contents(tasks_queue)[k]
        BY <3>2, <3>5
      <4>5. \A k \in 1 .. (n + 1) :
              k # n + 1 => QueuedJobs[k] = tasks[Contents(tasks_queue)[k]]
        BY <3>2 DEF QueuedJobs
      <4> QED
        BY <3>1, <4>2, <4>3, <4>4, <4>5
    <3>7. RunningJob' = RunningJob /\ finished' = finished
      BY <2>7, <1>a DEF ProducerEnqueue, Broadcast, RunningJob
    <3>8. Abstract!Busy = Runners
      <4>1. \A w \in Workers : wpc[w] = "run" => tasks[wtask[w]] # NULL
        BY <1>p, <1>a, TaskAssumption DEF Holding
      <4> QED
        BY <4>1 DEF Abstract!Busy, Runners, RunningJob
    <3>9. Len(QueuedJobs) = n
      BY <1>a, QueuedJobsType
    <3>10. Abstract!IsNew(job)
      <4>1. ASSUME NEW k \in 1 .. n PROVE QueuedJobs[k].data # job.data
        <5>1. PICK i \in Cells : Contents(tasks_queue)[k] = tasks_queue.cells[i]
                                  /\ tasks_queue.cells[i] # NULL
          BY <1>a, ContentsCell
        <5> QED
          BY <3>1, <5>1 DEF QueuedJobs, OwnJob
      <4>2. \A w \in Runners : RunningJob[w].data # job.data
        BY <3>1 DEF Runners, RunningJob, OwnJob
      <4> QED
        BY <3>1, <3>8, <3>9, <4>1, <4>2 DEF Abstract!IsNew, OwnJob
    <3>11. job \in [routine_cb : Routines, data : 1 .. MaxCalls]
      BY <1>p, <3>1, ConstantsAssumption DEF OwnJob, PoolTypes, TypeOK
    <3>12. Abstract!Accept(job)
      <4>1. Len(QueuedJobs) + Cardinality(Abstract!Busy) < THREAD_POOL_QUEUE_SIZE
        BY <3>2, <3>8, <3>9
      <4>2. Abstract!Cardinality(Abstract!Busy) = Cardinality(Abstract!Busy)
        BY DEF Abstract!Cardinality, Cardinality
      <4> HIDE DEF job
      <4> QED
        BY <3>6, <3>7, <3>10, <4>1, <4>2 DEF Abstract!Accept
    <3> QED
      BY <3>11, <3>12 DEF Simulated, Abstract!Next
  <2>8. CASE ProducerSpuriousWakeup(p)
    BY <2>8, <1>a, <1>s DEF ProducerSpuriousWakeup
  <2> QED
    BY <1>5, <2>1, <2>2, <2>3, <2>4, <2>5, <2>6, <2>7, <2>8 DEF ProducerStep
<1>6. CASE UNCHANGED vars
  BY <1>6, <1>s DEF vars
<1>7. CASE Terminated
  BY <1>7, <1>s DEF Terminated, vars
<1> QED
  BY <1>1, <1>2, <1>3, <1>4, <1>5, <1>6, <1>7 DEF Next

(* threadpool.c does what TaskPool says: the jobs that threadpool_add_task *)
(* accepts are started in order, once and by one worker, with their own    *)
(* routine and data, and there are never more than THREAD_POOL_QUEUE_SIZE. *)
THEOREM PoolRefines == Spec => ImplementsTaskPool
<1>1. TaskInv /\ [Next]_vars => [Abstract!Next]_(Abstract!vars)
  BY StepRefines DEF Simulated
<1> QED
  BY <1>1, InitRefines, TaskInvariant, PTL DEF Spec, ImplementsTaskPool, Abstract!Spec
=============================================================================
