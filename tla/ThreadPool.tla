----------------------------- MODULE ThreadPool -----------------------------
(***************************************************************************)
(* The thread pool of c-study/cthreadpool/threadpool.c: the worker         *)
(* threads, the client threads that call threadpool_add_task, the thread   *)
(* that calls threadpool_init and threadpool_free, and the stop callback.  *)
(*                                                                         *)
(* The granularity is that of the shared memory.  Taking a mutex is a step *)
(* of its own.  What a thread does with a mutex held is one step, down to  *)
(* the unlock, where only that mutex guards what it touches; it is split   *)
(* at every read of stop_flag, which no mutex guards.  pthread_cond_wait   *)
(* is a step that gives the mutex up and blocks; the thread comes back     *)
(* through its lock step.                                                  *)
(***************************************************************************)
EXTENDS ThreadPoolQueue, FiniteSets

CONSTANTS
  Workers,          \* the threads threadpool_init creates
  Producers,        \* client threads that call threadpool_add_task
  Stopper,          \* whoever runs stop_worker_thr_routines_cb
  Routines,         \* the routine_cb arguments of clients (may hold NULL)
  ResourcesMayFail, \* can malloc, pthread_*_init and pthread_create fail?
  MaxCalls,         \* bound on the calls of threadpool_add_task
  MaxSpurious       \* bound on the spurious wake-ups of pthread_cond_wait

ASSUME ConstantsAssumption ==
  /\ NULL \notin Cells \cup Workers \cup Producers \cup {Stopper}
  /\ Workers \cap Producers = {} /\ Stopper \notin Workers \cup Producers
  /\ ResourcesMayFail \in BOOLEAN
  /\ MaxCalls \in Nat /\ MaxSpurious \in Nat
  /\ NULL \notin 1 .. MaxCalls

VARIABLES
  \* struct threadpool
  pool,               \* "none", "live" or "freed": the allocation itself
  tasks_queue, free_tasks_queue,
  tasks,              \* the array of threadpool_task; Cells are its indices
  stop_flag,
  mutex, free_tasks_mutex,      \* the owner, or NULL
  \* worker_thr_routine
  wpc, wtask,
  \* threadpool_add_task
  ppc, ptask, parg, pret,
  \* threadpool_init and threadpool_free
  mpc, fill,
  \* stop_worker_thr_routines_cb
  spc,
  \* bookkeeping of the model
  calls, spurious,
  finished            \* the data whose routine has been called and returned

poolVars     == <<pool, tasks_queue, free_tasks_queue, tasks, stop_flag>>
mutexVars    == <<mutex, free_tasks_mutex>>
workerVars   == <<wpc, wtask>>
producerVars == <<ppc, ptask, parg, pret>>
mainVars     == <<mpc, fill>>
modelVars    == <<calls, spurious, finished>>
vars == <<poolVars, mutexVars, workerVars, producerVars, mainVars, spc, modelVars>>

Threads == Workers \cup Producers \cup {Stopper}

(* Where each thread stands.  A worker is "none" before pthread_create.     *)
WorkerPC   == {"none", "start", "lock", "check", "block", "wait", "recheck",
               "take", "run", "free_lock", "free_enqueue", "exited"}
ProducerPC == {"idle", "free_lock", "free_check", "free_wait", "fill",
               "lock", "enqueue"}
MainPC     == {"init", "fill", "create", "client", "stopping", "returned", "failed"}
StopPC     == {"off", "set_flag", "lock", "broadcast", "join", "done"}

(* struct threadpool_task; threadpool_task_init clears both fields.        *)
Task == [ routine_cb : Routines \cup {NULL}, data : 1 .. MaxCalls \cup {NULL} ]
threadpool_task_init == [ routine_cb |-> NULL, data |-> NULL ]

(* The null pointer points to no task. *)
ASSUME TaskAssumption == NULL \notin Task

Init ==
  /\ pool = "none"
  /\ tasks_queue = threadpool_queue_init
  /\ free_tasks_queue = threadpool_queue_init
  /\ tasks = [s \in Cells |-> threadpool_task_init]
  /\ stop_flag = 0
  /\ mutex = NULL /\ free_tasks_mutex = NULL
  /\ wpc = [w \in Workers |-> "none"] /\ wtask = [w \in Workers |-> NULL]
  /\ ppc = [p \in Producers |-> "idle"] /\ ptask = [p \in Producers |-> NULL]
  /\ parg = [p \in Producers |-> [routine |-> NULL, data |-> NULL, blocking |-> FALSE]]
  /\ pret = [p \in Producers |-> 0]
  /\ mpc = "init" /\ fill = 0
  /\ spc = "off"
  /\ calls = 0 /\ spurious = 0 /\ finished = {}

-----------------------------------------------------------------------------
(* threadpool_init                                                         *)

(* The pool and its mutexes and condition variables are set up.            *)
InitPool ==
  /\ mpc = "init"
  /\ pool' = "live" /\ stop_flag' = 0
  /\ tasks_queue' = threadpool_queue_init
  /\ free_tasks_queue' = threadpool_queue_init
  /\ mpc' = "fill"
  /\ UNCHANGED <<tasks, fill, mutexVars, workerVars, producerVars, spc, modelVars>>

(* malloc of the pool, or one of the four pthread_*_init, fails.            *)
InitPoolFails ==
  /\ mpc = "init" /\ ResourcesMayFail
  /\ \/ pool' = "none"
     \/ pool' = "freed"
  /\ mpc' = "failed"
  /\ UNCHANGED <<tasks_queue, free_tasks_queue, tasks, stop_flag, fill, mutexVars,
                 workerVars, producerVars, spc, modelVars>>

(* One turn of the loop that puts every task on the free tasks queue.      *)
InitFreeTask ==
  LET r == threadpool_queue_enqueue(free_tasks_queue, fill)
  IN  /\ mpc = "fill" /\ fill < THREAD_POOL_QUEUE_SIZE
      /\ tasks' = [tasks EXCEPT ![fill] = threadpool_task_init]
      /\ free_tasks_queue' = r.queue
      /\ fill' = fill + 1
      /\ \/ r.ret = 0 /\ UNCHANGED <<pool, mpc>>
         \/ r.ret = -1 /\ pool' = "freed" /\ mpc' = "failed"
      /\ UNCHANGED <<tasks_queue, stop_flag, mutexVars, workerVars, producerVars,
                     spc, modelVars>>

(* The thr_arr is allocated, or the pool is released and NULL returned.    *)
InitThrArr ==
  /\ mpc = "fill" /\ fill = THREAD_POOL_QUEUE_SIZE
  /\ \/ mpc' = "create" /\ UNCHANGED pool
     \/ ResourcesMayFail /\ mpc' = "failed" /\ pool' = "freed"
  /\ UNCHANGED <<tasks_queue, free_tasks_queue, tasks, stop_flag, fill, mutexVars,
                 workerVars, producerVars, spc, modelVars>>

(* One pthread_create of the loop that starts the workers.                 *)
CreateWorker(w) ==
  /\ mpc = "create" /\ wpc[w] = "none"
  /\ wpc' = [wpc EXCEPT ![w] = "start"]
  /\ UNCHANGED <<poolVars, mutexVars, wtask, producerVars, mainVars, spc, modelVars>>

(* The loop ends with every worker created: the pool goes to the client.   *)
InitReturns ==
  /\ mpc = "create" /\ \A w \in Workers : wpc[w] # "none"
  /\ mpc' = "client"
  /\ UNCHANGED <<poolVars, mutexVars, workerVars, producerVars, fill, spc, modelVars>>

(* threadpool_free(pool, 0): the callback runs in a thread of its own.  If  *)
(* that thread cannot be created, stop_flag is all that is set.            *)
FreeNonBlocking ==
  \/ spc' = "set_flag" /\ UNCHANGED stop_flag
  \/ ResourcesMayFail /\ stop_flag' = 1 /\ UNCHANGED spc

(* pthread_create of a worker fails: the workers that were created are     *)
(* stopped in the background and threadpool_init returns NULL.             *)
CreateFails ==
  /\ mpc = "create" /\ ResourcesMayFail
  /\ \E w \in Workers : wpc[w] = "none"
  /\ mpc' = "failed"
  /\ FreeNonBlocking
  /\ UNCHANGED <<pool, tasks_queue, free_tasks_queue, tasks, fill, mutexVars,
                 workerVars, producerVars, modelVars>>

-----------------------------------------------------------------------------
(* worker_thr_routine and threadpool_task_get_task                         *)

(* The first look at stop_flag, before the mutex is taken.                 *)
WorkerStart(w) ==
  /\ wpc[w] = "start"
  /\ wpc' = [wpc EXCEPT ![w] = IF stop_flag = 1 THEN "exited" ELSE "lock"]
  /\ UNCHANGED <<poolVars, mutexVars, wtask, producerVars, mainVars, spc, modelVars>>

(* pthread_mutex_lock, and the return of pthread_cond_wait.                *)
WorkerLock(w) ==
  /\ wpc[w] = "lock" /\ mutex = NULL
  /\ mutex' = w
  /\ wpc' = [wpc EXCEPT ![w] = "check"]
  /\ UNCHANGED <<poolVars, free_tasks_mutex, wtask, producerVars, mainVars, spc,
                 modelVars>>

(* The condition of the while loop: queue empty && !stop_flag.             *)
WorkerCheck(w) ==
  /\ wpc[w] = "check"
  /\ wpc' = [wpc EXCEPT ![w] =
       IF threadpool_queue_is_empty(tasks_queue) /\ stop_flag = 0
       THEN "block" ELSE "recheck"]
  /\ UNCHANGED <<poolVars, mutexVars, wtask, producerVars, mainVars, spc, modelVars>>

(* pthread_cond_wait releases the mutex and blocks.                        *)
WorkerWait(w) ==
  /\ wpc[w] = "block"
  /\ mutex' = NULL
  /\ wpc' = [wpc EXCEPT ![w] = "wait"]
  /\ UNCHANGED <<poolVars, free_tasks_mutex, wtask, producerVars, mainVars, spc,
                 modelVars>>

(* pthread_cond_wait may return although nobody has broadcast.             *)
WorkerSpuriousWakeup(w) ==
  /\ wpc[w] = "wait" /\ spurious < MaxSpurious
  /\ spurious' = spurious + 1
  /\ wpc' = [wpc EXCEPT ![w] = "lock"]
  /\ UNCHANGED <<poolVars, mutexVars, wtask, producerVars, mainVars, spc, calls,
                 finished>>

(* The second look at stop_flag, after the loop.                           *)
WorkerRecheck(w) ==
  /\ wpc[w] = "recheck"
  /\ \/ /\ stop_flag = 1
        /\ mutex' = NULL
        /\ wpc' = [wpc EXCEPT ![w] = "exited"]
     \/ /\ stop_flag = 0
        /\ wpc' = [wpc EXCEPT ![w] = "take"]
        /\ UNCHANGED mutex
  /\ UNCHANGED <<poolVars, free_tasks_mutex, wtask, producerVars, mainVars, spc,
                 modelVars>>

(* Dequeue and unlock; a worker that obtains NULL exits.                   *)
WorkerTake(w) ==
  LET r == threadpool_queue_dequeue(tasks_queue)
  IN  /\ wpc[w] = "take"
      /\ tasks_queue' = r.queue
      /\ wtask' = [wtask EXCEPT ![w] = r.data]
      /\ wpc' = [wpc EXCEPT ![w] = IF r.data = NULL THEN "exited" ELSE "run"]
      /\ mutex' = NULL
      /\ UNCHANGED <<pool, free_tasks_queue, tasks, stop_flag, free_tasks_mutex,
                     producerVars, mainVars, spc, modelVars>>

(* A faulty WorkerRun: the task is cleared before the routine is called.   *)
WorkerRunClearsFirst(w) ==
  LET s == wtask[w]
  IN  /\ wpc[w] = "run" /\ tasks[s].routine_cb # NULL
      /\ tasks' = [tasks EXCEPT ![s] = threadpool_task_init]
      /\ finished' = finished \cup {tasks'[s].data}
      /\ wpc' = [wpc EXCEPT ![w] = "free_lock"]
      /\ UNCHANGED <<pool, tasks_queue, free_tasks_queue, stop_flag, mutexVars, wtask,
                     producerVars, mainVars, spc, calls, spurious>>

(* A faulty WorkerRun: the task is not given back after the routine.       *)
WorkerRunForgets(w) ==
  /\ wpc[w] = "run" /\ tasks[wtask[w]].routine_cb # NULL
  /\ finished' = finished \cup {tasks[wtask[w]].data}
  /\ wtask' = [wtask EXCEPT ![w] = NULL]
  /\ wpc' = [wpc EXCEPT ![w] = "start"]
  /\ UNCHANGED <<poolVars, mutexVars, producerVars, mainVars, spc, calls, spurious>>

(* The routine is called and returns; the task is cleared.                 *)
WorkerRun(w) ==
  LET s == wtask[w]
  IN  /\ wpc[w] = "run" /\ tasks[s].routine_cb # NULL
      /\ finished' = finished \cup {tasks[s].data}
      /\ tasks' = [tasks EXCEPT ![s] = threadpool_task_init]
      /\ wpc' = [wpc EXCEPT ![w] = "free_lock"]
      /\ UNCHANGED <<pool, tasks_queue, free_tasks_queue, stop_flag, mutexVars, wtask,
                     producerVars, mainVars, spc, calls, spurious>>

(* A task without a routine: the whole block, which also returns the task  *)
(* to the free tasks queue, is skipped.                                    *)
WorkerRunNothing(w) ==
  /\ wpc[w] = "run" /\ tasks[wtask[w]].routine_cb = NULL
  /\ wtask' = [wtask EXCEPT ![w] = NULL]
  /\ wpc' = [wpc EXCEPT ![w] = "start"]
  /\ UNCHANGED <<poolVars, mutexVars, producerVars, mainVars, spc, modelVars>>

WorkerFreeLock(w) ==
  /\ wpc[w] = "free_lock" /\ free_tasks_mutex = NULL
  /\ free_tasks_mutex' = w
  /\ wpc' = [wpc EXCEPT ![w] = "free_enqueue"]
  /\ UNCHANGED <<poolVars, mutex, wtask, producerVars, mainVars, spc, modelVars>>

(* A faulty FreeTasksBroadcast: pthread_cond_signal, which wakes one.      *)
FreeTasksSignal ==
  \/ \E p \in Producers : ppc[p] = "free_wait" /\ ppc' = [ppc EXCEPT ![p] = "free_lock"]
  \/ (\A p \in Producers : ppc[p] # "free_wait") /\ UNCHANGED ppc

(* The clients blocked in pthread_cond_wait(free_tasks_cond) wake up.      *)
FreeTasksBroadcast ==
  ppc' = [p \in Producers |-> IF ppc[p] = "free_wait" THEN "free_lock" ELSE ppc[p]]

(* The task goes back to the free tasks queue; clients are woken when it   *)
(* is the only one there; unlock.  A worker that cannot enqueue exits.     *)
WorkerFreeEnqueue(w) ==
  LET r == threadpool_queue_enqueue(free_tasks_queue, wtask[w])
  IN  /\ wpc[w] = "free_enqueue"
      /\ free_tasks_queue' = r.queue
      /\ wtask' = [wtask EXCEPT ![w] = NULL]
      /\ wpc' = [wpc EXCEPT ![w] = IF r.ret = -1 THEN "exited" ELSE "start"]
      /\ IF r.ret = 0 /\ threadpool_queue_getsize(r.queue) = 1
         THEN FreeTasksBroadcast
         ELSE UNCHANGED ppc
      /\ free_tasks_mutex' = NULL
      /\ UNCHANGED <<pool, tasks_queue, tasks, stop_flag, mutex, ptask, parg, pret,
                     mainVars, spc, modelVars>>

-----------------------------------------------------------------------------
(* threadpool_add_task                                                     *)

(* A client calls threadpool_add_task with data that is new in every call. *)
AddTask(p, routine, blocking) ==
  /\ ppc[p] = "idle" /\ mpc = "client" /\ calls < MaxCalls
  /\ calls' = calls + 1
  /\ parg' = [parg EXCEPT ![p] =
                [routine |-> routine, data |-> calls + 1, blocking |-> blocking]]
  /\ ppc' = [ppc EXCEPT ![p] = "free_lock"]
  /\ UNCHANGED <<poolVars, mutexVars, workerVars, ptask, pret, mainVars, spc,
                 spurious, finished>>

(* A client that passes on the NULL it got from threadpool_init.           *)
AddTaskNullPool(p) ==
  /\ ppc[p] = "idle" /\ mpc = "failed" /\ calls < MaxCalls
  /\ calls' = calls + 1
  /\ pret' = [pret EXCEPT ![p] = -1]
  /\ UNCHANGED <<poolVars, mutexVars, workerVars, ppc, ptask, parg, mainVars, spc,
                 spurious, finished>>

ProducerFreeLock(p) ==
  /\ ppc[p] = "free_lock" /\ free_tasks_mutex = NULL
  /\ free_tasks_mutex' = p
  /\ ppc' = [ppc EXCEPT ![p] = "free_check"]
  /\ UNCHANGED <<poolVars, mutex, workerVars, ptask, parg, pret, mainVars, spc,
                 modelVars>>

(* No free task: -2 for a call that must not block.                        *)
ProducerOverloaded(p) ==
  /\ ppc[p] = "free_check" /\ threadpool_queue_is_empty(free_tasks_queue)
  /\ ~parg[p].blocking
  /\ free_tasks_mutex' = NULL
  /\ pret' = [pret EXCEPT ![p] = -2]
  /\ ppc' = [ppc EXCEPT ![p] = "idle"]
  /\ UNCHANGED <<poolVars, mutex, workerVars, ptask, parg, mainVars, spc, modelVars>>

(* No free task: a blocking call waits on free_tasks_cond.                 *)
ProducerWait(p) ==
  /\ ppc[p] = "free_check" /\ threadpool_queue_is_empty(free_tasks_queue)
  /\ parg[p].blocking
  /\ free_tasks_mutex' = NULL
  /\ ppc' = [ppc EXCEPT ![p] = "free_wait"]
  /\ UNCHANGED <<poolVars, mutex, workerVars, ptask, parg, pret, mainVars, spc,
                 modelVars>>

ProducerSpuriousWakeup(p) ==
  /\ ppc[p] = "free_wait" /\ spurious < MaxSpurious
  /\ spurious' = spurious + 1
  /\ ppc' = [ppc EXCEPT ![p] = "free_lock"]
  /\ UNCHANGED <<poolVars, mutexVars, workerVars, ptask, parg, pret, mainVars, spc,
                 calls, finished>>

(* A free task is obtained; -1 if the dequeue fails.                       *)
ProducerObtain(p) ==
  LET r == threadpool_queue_dequeue(free_tasks_queue)
  IN  /\ ppc[p] = "free_check" /\ ~threadpool_queue_is_empty(free_tasks_queue)
      /\ free_tasks_queue' = r.queue
      /\ ptask' = [ptask EXCEPT ![p] = r.data]
      /\ free_tasks_mutex' = NULL
      /\ ppc' = [ppc EXCEPT ![p] = IF r.data = NULL THEN "idle" ELSE "fill"]
      /\ pret' = [pret EXCEPT ![p] = IF r.data = NULL THEN -1 ELSE @]
      /\ UNCHANGED <<pool, tasks_queue, tasks, stop_flag, mutex, workerVars, parg,
                     mainVars, spc, modelVars>>

(* The task is filled in, with no mutex held.                              *)
ProducerFill(p) ==
  /\ ppc[p] = "fill"
  /\ tasks' = [tasks EXCEPT ![ptask[p]] =
                 [routine_cb |-> parg[p].routine, data |-> parg[p].data]]
  /\ ppc' = [ppc EXCEPT ![p] = "lock"]
  /\ UNCHANGED <<pool, tasks_queue, free_tasks_queue, stop_flag, mutexVars, workerVars,
                 ptask, parg, pret, mainVars, spc, modelVars>>

ProducerLock(p) ==
  /\ ppc[p] = "lock" /\ mutex = NULL
  /\ mutex' = p
  /\ ppc' = [ppc EXCEPT ![p] = "enqueue"]
  /\ UNCHANGED <<poolVars, free_tasks_mutex, workerVars, ptask, parg, pret, mainVars,
                 spc, modelVars>>

(* A faulty Broadcast: the one task that makes the queue not empty, and the *)
(* stop callback, wake nobody.                                             *)
BroadcastNobody == UNCHANGED wpc

(* The workers blocked in pthread_cond_wait(cond) wake up.                 *)
Broadcast ==
  wpc' = [w \in Workers |-> IF wpc[w] = "wait" THEN "lock" ELSE wpc[w]]

(* The task is queued; the workers are woken when it is the only one;      *)
(* unlock and return 0, or -1 if the enqueue fails.                        *)
ProducerEnqueue(p) ==
  LET r == threadpool_queue_enqueue(tasks_queue, ptask[p])
  IN  /\ ppc[p] = "enqueue"
      /\ tasks_queue' = r.queue
      /\ ptask' = [ptask EXCEPT ![p] = NULL]
      /\ pret' = [pret EXCEPT ![p] = r.ret]
      /\ ppc' = [ppc EXCEPT ![p] = "idle"]
      /\ IF r.ret = 0 /\ threadpool_queue_getsize(r.queue) = 1
         THEN Broadcast
         ELSE UNCHANGED wpc
      /\ mutex' = NULL
      /\ UNCHANGED <<pool, free_tasks_queue, tasks, stop_flag, free_tasks_mutex, wtask,
                     parg, mainVars, spc, modelVars>>

-----------------------------------------------------------------------------
(* threadpool_free and stop_worker_thr_routines_cb                         *)

(* The client calls threadpool_free once, when no call of                  *)
(* threadpool_add_task is under way (example.c frees after its last call). *)
threadpool_free(blocking) ==
  /\ mpc = "client" /\ \A p \in Producers : ppc[p] = "idle"
  /\ \/ /\ blocking
        /\ mpc' = "stopping" /\ spc' = "set_flag"
        /\ UNCHANGED stop_flag
     \/ /\ ~blocking
        /\ mpc' = "returned"
        /\ FreeNonBlocking
  /\ UNCHANGED <<pool, tasks_queue, free_tasks_queue, tasks, fill, mutexVars,
                 workerVars, producerVars, modelVars>>

StopSetFlag ==
  /\ spc = "set_flag"
  /\ stop_flag' = 1
  /\ spc' = "lock"
  /\ UNCHANGED <<pool, tasks_queue, free_tasks_queue, tasks, mutexVars, workerVars,
                 producerVars, mainVars, modelVars>>

(* A faulty StopLock: the callback broadcasts without the mutex.           *)
StopLockNot ==
  /\ spc = "lock"
  /\ spc' = "broadcast"
  /\ UNCHANGED <<poolVars, mutexVars, workerVars, producerVars, mainVars, modelVars>>

StopLock ==
  /\ spc = "lock" /\ mutex = NULL
  /\ mutex' = Stopper
  /\ spc' = "broadcast"
  /\ UNCHANGED <<poolVars, free_tasks_mutex, workerVars, producerVars, mainVars,
                 modelVars>>

StopBroadcast ==
  /\ spc = "broadcast"
  /\ Broadcast
  /\ mutex' = NULL
  /\ spc' = "join"
  /\ UNCHANGED <<poolVars, free_tasks_mutex, wtask, producerVars, mainVars, modelVars>>

(* A faulty WorkersJoined: the loop joins all workers but one.             *)
WorkersJoinedButOne ==
  \E v \in Workers : \A w \in Workers \ {v} : wpc[w] \in {"none", "exited"}

(* The loop of pthread_join over the workers that were created.            *)
WorkersJoined == \A w \in Workers : wpc[w] \in {"none", "exited"}

(* All created workers are joined, the pool is freed, and a blocking       *)
(* threadpool_free returns.                                                *)
StopJoin ==
  /\ spc = "join" /\ WorkersJoined
  /\ pool' = "freed"
  /\ spc' = "done"
  /\ mpc' = IF mpc = "stopping" THEN "returned" ELSE mpc
  /\ UNCHANGED <<tasks_queue, free_tasks_queue, tasks, stop_flag, fill, mutexVars,
                 workerVars, producerVars, modelVars>>

(* Everything has been torn down: the only state where nothing happens.    *)
Terminated ==
  /\ mpc \in {"returned", "failed"} /\ spc \in {"off", "done"}
  /\ \A w \in Workers : wpc[w] \in {"none", "exited"}
  /\ UNCHANGED vars

-----------------------------------------------------------------------------
MainStep ==
  \/ InitPool \/ InitPoolFails \/ InitFreeTask \/ InitThrArr
  \/ \E w \in Workers : CreateWorker(w)
  \/ CreateFails \/ InitReturns

WorkerStep(w) ==
  \/ WorkerStart(w) \/ WorkerLock(w) \/ WorkerCheck(w) \/ WorkerWait(w)
  \/ WorkerRecheck(w) \/ WorkerTake(w) \/ WorkerRun(w) \/ WorkerRunNothing(w)
  \/ WorkerFreeLock(w) \/ WorkerFreeEnqueue(w)

ProducerStep(p) ==
  \/ ProducerFreeLock(p) \/ ProducerOverloaded(p) \/ ProducerWait(p)
  \/ ProducerObtain(p) \/ ProducerFill(p) \/ ProducerLock(p) \/ ProducerEnqueue(p)

StopStep == StopSetFlag \/ StopLock \/ StopBroadcast \/ StopJoin

Client ==
  \/ \E p \in Producers, r \in Routines, b \in BOOLEAN : AddTask(p, r, b)
  \/ \E p \in Producers : AddTaskNullPool(p)
  \/ \E b \in BOOLEAN : threadpool_free(b)

Next ==
  \/ MainStep \/ Client \/ StopStep
  \/ \E w \in Workers : WorkerStep(w) \/ WorkerSpuriousWakeup(w)
  \/ \E p \in Producers : ProducerStep(p) \/ ProducerSpuriousWakeup(p)
  \/ Terminated

Spec == Init /\ [][Next]_vars

(* Threads are scheduled and mutexes are handed on: no thread that can     *)
(* take its next step is passed over for ever.  Clients may call or not.   *)
Fairness ==
  /\ WF_vars(MainStep) /\ WF_vars(StopStep)
  /\ \A w \in Workers : WF_vars(WorkerStep(w))
  /\ \A p \in Producers : WF_vars(ProducerStep(p))

FairSpec == Spec /\ Fairness

-----------------------------------------------------------------------------
(* Types of all variables.                                                 *)
TypeOK ==
  /\ pool \in {"none", "live", "freed"}
  /\ tasks_queue \in Queue(Cells) /\ free_tasks_queue \in Queue(Cells)
  /\ tasks \in [Cells -> Task]
  /\ stop_flag \in {0, 1}
  /\ mutex \in Threads \cup {NULL} /\ free_tasks_mutex \in Threads \cup {NULL}
  /\ wpc \in [Workers -> WorkerPC] /\ wtask \in [Workers -> Cells \cup {NULL}]
  /\ ppc \in [Producers -> ProducerPC] /\ ptask \in [Producers -> Cells \cup {NULL}]
  /\ parg \in [Producers -> [ routine : Routines \cup {NULL},
                              data : 1 .. MaxCalls \cup {NULL}, blocking : BOOLEAN ]]
  /\ pret \in [Producers -> {0, -1, -2}]
  /\ mpc \in MainPC /\ spc \in StopPC
  /\ fill \in 0 .. THREAD_POOL_QUEUE_SIZE
  /\ calls \in 0 .. MaxCalls /\ spurious \in 0 .. MaxSpurious
  /\ finished \subseteq (1 .. MaxCalls) \cup {NULL}

(* A task of the array is in at most one place at any time: one cell of    *)
(* one of the two queues, one client filling it in, or one worker running  *)
(* it.  The code passes tasks between four kinds of owner under two        *)
(* different mutexes and touches them in between with none.                *)
SlotExclusive ==
  /\ \A i, j \in Cells :
       /\ tasks_queue.cells[i] # NULL =>
            /\ tasks_queue.cells[i] = tasks_queue.cells[j] => i = j
            /\ tasks_queue.cells[i] # free_tasks_queue.cells[j]
       /\ free_tasks_queue.cells[i] # NULL =>
            (free_tasks_queue.cells[i] = free_tasks_queue.cells[j] => i = j)
  /\ \A w \in Workers : wtask[w] # NULL =>
       /\ \A i \in Cells : /\ wtask[w] # tasks_queue.cells[i]
                           /\ wtask[w] # free_tasks_queue.cells[i]
       /\ \A v \in Workers : wtask[w] = wtask[v] => w = v
       /\ \A p \in Producers : wtask[w] # ptask[p]
  /\ \A p \in Producers : ptask[p] # NULL =>
       /\ \A i \in Cells : /\ ptask[p] # tasks_queue.cells[i]
                           /\ ptask[p] # free_tasks_queue.cells[i]
       /\ \A q \in Producers : ptask[p] = ptask[q] => p = q

(* Once threadpool_init has filled the free tasks queue, a task of the     *)
(* array is in no place, never to carry a job again, only if its job had   *)
(* no routine: the enqueue of lines 273-276 is under the test of line 262. *)
NoSlotLost ==
  mpc \in {"client", "stopping", "returned"} =>
    \A s \in Cells :
      \/ s \in Elements(tasks_queue) \cup Elements(free_tasks_queue)
      \/ \E w \in Workers : wtask[w] = s
      \/ \E p \in Producers : ptask[p] = s
      \/ tasks[s].routine_cb = NULL /\ tasks[s].data # NULL

(* Both condition variables are only broadcast when a queue goes from      *)
(* empty to one element, and by the stop callback.  That is enough: nobody *)
(* sleeps on a condition that already holds, whatever the interleaving of  *)
(* enqueues, wake-ups and the unguarded write of stop_flag.                *)
NoLostWakeup ==
  /\ ~threadpool_queue_is_empty(tasks_queue) =>
       \A w \in Workers : wpc[w] # "wait"
  /\ ~threadpool_queue_is_empty(free_tasks_queue) =>
       \A p \in Producers : ppc[p] # "free_wait"
  /\ spc \in {"join", "done"} =>
       \A w \in Workers : wpc[w] \notin {"block", "wait"}

(* The "can't happen" branches do not happen: no queue operation reports   *)
(* an error, so no worker exits except because of stop_flag, and           *)
(* threadpool_add_task returns -1 only to a client without a pool.         *)
NoInternalError ==
  /\ \A w \in Workers : wpc[w] = "exited" => stop_flag = 1
  /\ \A p \in Producers : pret[p] = -1 => mpc = "failed"
  /\ mpc = "failed" => ResourcesMayFail

(* When the stop callback frees the pool no thread can touch it any more:  *)
(* the workers are gone, no client is inside a call, no mutex is held.     *)
NoUseAfterFree ==
  pool = "freed" =>
    /\ \A w \in Workers : wpc[w] \in {"none", "exited"}
    /\ \A p \in Producers : ppc[p] = "idle"
    /\ mutex = NULL /\ free_tasks_mutex = NULL
    /\ spc \in {"off", "done"}

-----------------------------------------------------------------------------
(* The jobs a queue of tasks and a worker stand for.                       *)
QueuedJobs ==
  [ k \in 1 .. tasks_queue.num_of_cells |-> tasks[Contents(tasks_queue)[k]] ]

RunningJob ==
  [ w \in Workers |-> IF wpc[w] = "run" THEN tasks[wtask[w]] ELSE NULL ]

Abstract == INSTANCE TaskPool
              WITH Jobs <- [routine_cb : Routines, data : 1 .. MaxCalls],
                   Capacity <- THREAD_POOL_QUEUE_SIZE,
                   queue <- QueuedJobs, running <- RunningJob

(* The pool implements TaskPool: accepted jobs are started in the order of *)
(* acceptance, by one worker and once, with the routine and data that were *)
(* passed to threadpool_add_task although the array of tasks is reused,    *)
(* and at most THREAD_POOL_QUEUE_SIZE jobs are unfinished.                 *)
ImplementsTaskPool == Abstract!Spec

-----------------------------------------------------------------------------
(* Every job that threadpool_add_task accepted is run, unless the pool is  *)
(* stopped first (threadpool_free drops what is still queued).             *)
AcceptedTaskFinishes ==
  \A d \in 1 .. MaxCalls :
    (\E k \in DOMAIN QueuedJobs : QueuedJobs[k].data = d)
      ~> (d \in finished \/ stop_flag = 1)

(* "The operation will block until it is possible to add the routine": a   *)
(* call of threadpool_add_task always returns.                             *)
AddTaskReturns ==
  \A p \in Producers : ppc[p] # "idle" ~> ppc[p] = "idle"

(* threadpool_free "stops all the worker threads (stop & exit). And frees   *)
(* all the allocated memory": no worker sleeps through the stop, and the    *)
(* stop callback is never left waiting in a pthread_join.                  *)
FreeTearsDown ==
  mpc \in {"stopping", "returned"} ~> (pool = "freed" /\ \A w \in Workers : wpc[w] = "exited")
=============================================================================
