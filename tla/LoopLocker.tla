----------------------------- MODULE LoopLocker -----------------------------
(***************************************************************************)
(* The recursive lock of c-study/dllist/chunxiao_list (locker.c over       *)
(* locker_pthread.c): a pthread mutex, an owner field that threads compare *)
(* with themselves before they hold anything, and a reference count.       *)
(*                                                                         *)
(* Every read and write of owner, refcount and the mutex is a step of its  *)
(* own.  A thread may lock again while it holds the lock, and may unlock   *)
(* without holding it (the code answers RET_FAIL).                         *)
(***************************************************************************)
EXTENDS Integers

CONSTANTS
  Threads,
  pthread_self,   \* what pthread_self() returns in each thread, an unsigned long
  INT_MODULUS,    \* 2^32: task_self_func returns an int
  MaxDepth,       \* bound on nested lock calls
  NULL

(* The truncated pthread_self is what the lock knows a thread by.          *)
locket_pthread_self(t) == pthread_self[t] % INT_MODULUS

ASSUME LockerAssumption ==
  /\ INT_MODULUS \in Nat \ {0}
  /\ pthread_self \in [Threads -> Nat]
  /\ MaxDepth \in Nat \ {0}
  /\ NULL \notin Threads

(* No two threads agree in the low 32 bits of pthread_self, and none has   *)
(* them all zero, which is how the lock says that nobody owns it.          *)
DistinctSelves ==
  /\ \A t \in Threads : locket_pthread_self(t) # 0
  /\ \A t, u \in Threads : locket_pthread_self(t) = locket_pthread_self(u) => t = u

VARIABLES
  locker,            \* "live" or "freed"
  owner, refcount,   \* the fields of locker_t
  mutex,             \* the pthread mutex in priv: its holder, or NULL
  pc, ret,           \* where each thread is, and its last result
  depth              \* successful locks of a thread not yet unlocked

vars == <<locker, owner, refcount, mutex, pc, ret, depth>>

PC == {"idle", "count", "real_lock", "set_count", "set_owner",
       "uncount", "clear_owner", "real_unlock"}

(* locker_loop_create and locker_pthread_init. *)
Init ==
  /\ locker = "live" /\ owner = 0 /\ refcount = 0 /\ mutex = NULL
  /\ pc = [t \in Threads |-> "idle"]
  /\ ret = [t \in Threads |-> "RET_OK"]
  /\ depth = [t \in Threads |-> 0]

Go(t, to) == pc' = [pc EXCEPT ![t] = to]
Return(t, r) == Go(t, "idle") /\ ret' = [ret EXCEPT ![t] = r]

-----------------------------------------------------------------------------
(* locker_loop_lock: the owner is compared before the mutex is held.       *)
Lock(t) ==
  /\ pc[t] = "idle" /\ locker = "live" /\ depth[t] < MaxDepth
  /\ Go(t, IF owner = locket_pthread_self(t) THEN "count" ELSE "real_lock")
  /\ UNCHANGED <<locker, owner, refcount, mutex, ret, depth>>

(* The caller owns the lock already: refcount++. *)
LockCount(t) ==
  /\ pc[t] = "count"
  /\ refcount' = refcount + 1
  /\ depth' = [depth EXCEPT ![t] = @ + 1]
  /\ Return(t, "RET_OK")
  /\ UNCHANGED <<locker, owner, mutex>>

(* real_lock: pthread_mutex_lock. *)
LockReal(t) ==
  /\ pc[t] = "real_lock" /\ mutex = NULL
  /\ mutex' = t
  /\ Go(t, "set_count")
  /\ UNCHANGED <<locker, owner, refcount, ret, depth>>

(* A faulty LockSetCount: refcount is left as it was. *)
LockSetCountNot(t) ==
  /\ pc[t] = "set_count"
  /\ Go(t, "set_owner")
  /\ UNCHANGED <<locker, owner, refcount, mutex, ret, depth>>

LockSetCount(t) ==
  /\ pc[t] = "set_count"
  /\ refcount' = 1
  /\ Go(t, "set_owner")
  /\ UNCHANGED <<locker, owner, mutex, ret, depth>>

LockSetOwner(t) ==
  /\ pc[t] = "set_owner"
  /\ owner' = locket_pthread_self(t)
  /\ depth' = [depth EXCEPT ![t] = @ + 1]
  /\ Return(t, "RET_OK")
  /\ UNCHANGED <<locker, refcount, mutex>>

-----------------------------------------------------------------------------
(* locker_loop_unlock: RET_FAIL unless the caller is the owner. *)
Unlock(t) ==
  /\ pc[t] = "idle" /\ locker = "live"
  /\ IF owner = locket_pthread_self(t)
     THEN Go(t, "uncount") /\ UNCHANGED ret
     ELSE Return(t, "RET_FAIL")
  /\ UNCHANGED <<locker, owner, refcount, mutex, depth>>

UnlockCount(t) ==
  /\ pc[t] = "uncount"
  /\ refcount' = refcount - 1
  /\ depth' = [depth EXCEPT ![t] = @ - 1]
  /\ IF refcount' = 0 THEN Go(t, "clear_owner") /\ UNCHANGED ret
                      ELSE Return(t, "RET_OK")
  /\ UNCHANGED <<locker, owner, mutex>>

(* A faulty UnlockClearOwner: the owner field keeps its value. *)
UnlockKeepOwner(t) ==
  /\ pc[t] = "clear_owner"
  /\ Go(t, "real_unlock")
  /\ UNCHANGED <<locker, owner, refcount, mutex, ret, depth>>

UnlockClearOwner(t) ==
  /\ pc[t] = "clear_owner"
  /\ owner' = 0
  /\ Go(t, "real_unlock")
  /\ UNCHANGED <<locker, refcount, mutex, ret, depth>>

(* real_unlock: pthread_mutex_unlock. *)
UnlockReal(t) ==
  /\ pc[t] = "real_unlock"
  /\ mutex' = NULL
  /\ Return(t, "RET_OK")
  /\ UNCHANGED <<locker, owner, refcount, depth>>

(* locker_loop_destroy, called when no thread uses the lock any more. *)
Destroy ==
  /\ locker = "live"
  /\ \A t \in Threads : pc[t] = "idle" /\ depth[t] = 0
  /\ locker' = "freed" /\ owner' = 0 /\ refcount' = 0
  /\ UNCHANGED <<mutex, pc, ret, depth>>

Destroyed == locker = "freed" /\ UNCHANGED vars

Step(t) ==
  \/ Lock(t) \/ LockCount(t) \/ LockReal(t) \/ LockSetCount(t) \/ LockSetOwner(t)
  \/ Unlock(t) \/ UnlockCount(t) \/ UnlockClearOwner(t) \/ UnlockReal(t)

Next == Destroy \/ Destroyed \/ \E t \in Threads : Step(t)

Spec == Init /\ [][Next]_vars

-----------------------------------------------------------------------------
(* Types of the variables.  With colliding selves refcount may go wrong in *)
(* either direction.                                                       *)
TypeOK ==
  /\ locker \in {"live", "freed"}
  /\ owner \in 0 .. (INT_MODULUS - 1)
  /\ refcount \in 0 .. MaxDepth
  /\ mutex \in Threads \cup {NULL}
  /\ pc \in [Threads -> PC]
  /\ ret \in [Threads -> {"RET_OK", "RET_FAIL"}]
  /\ depth \in [Threads -> 0 .. MaxDepth]

(* The readme's promise ("safe in multithread programming"): two threads   *)
(* never hold the lock at once, although owner is compared with no lock    *)
(* held while another thread may be writing it.                            *)
MutualExclusion ==
  \A t, u \in Threads : depth[t] > 0 /\ depth[u] > 0 => t = u

(* A thread between two calls is believed to be the owner exactly when it  *)
(* holds the lock, with the right number of nested locks: so no nested     *)
(* lock call blocks on its own mutex, no unlock of a holder is refused,    *)
(* and none of a thread that does not hold the lock is granted.            *)
OwnerKnown ==
  \A t \in Threads : pc[t] = "idle" =>
    /\ depth[t] > 0 <=> owner = locket_pthread_self(t)
    /\ depth[t] > 0 => refcount = depth[t] /\ mutex = t
=============================================================================
