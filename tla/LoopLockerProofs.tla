-------------------------- MODULE LoopLockerProofs --------------------------
(***************************************************************************)
(* The recursive lock excludes threads from each other and always knows    *)
(* its owner, for every set of threads, provided that the int the code     *)
(* truncates pthread_self to still tells the threads apart.                *)
(***************************************************************************)
EXTENDS LoopLocker, TLAPS

(* The inductive invariant.  The mutex is held from LockReal to UnlockReal *)
(* and owner names its holder from LockSetOwner to UnlockClearOwner, so    *)
(* that a thread that reads its own name there reads what it wrote itself. *)
LockerInv ==
  /\ TypeOK
  /\ \A t \in Threads :
       /\ mutex = t <=>
            \/ depth[t] > 0
            \/ pc[t] \in {"set_count", "set_owner", "clear_owner", "real_unlock"}
       /\ owner = locket_pthread_self(t) <=> depth[t] > 0 \/ pc[t] = "clear_owner"
       /\ pc[t] \in {"count", "uncount"} => depth[t] > 0
       /\ pc[t] = "count" => depth[t] < MaxDepth
       /\ pc[t] \in {"real_lock", "set_count", "set_owner", "clear_owner",
                     "real_unlock"} => depth[t] = 0
       /\ depth[t] > 0 => refcount = depth[t]
       /\ pc[t] = "set_owner" => refcount = 1

(* What a thread is known by is an int. *)
LEMMA SelfType == \A t \in Threads : locket_pthread_self(t) \in 0 .. (INT_MODULUS - 1)
BY LockerAssumption DEF locket_pthread_self

LEMMA LockerInvInit == DistinctSelves /\ Init => LockerInv
BY LockerAssumption DEF DistinctSelves, Init, LockerInv, TypeOK, PC

LEMMA LockerInvStep == DistinctSelves /\ LockerInv /\ [Next]_vars => LockerInv'
<1> SUFFICES ASSUME DistinctSelves, LockerInv, [Next]_vars PROVE LockerInv'
  OBVIOUS
<1> USE LockerAssumption, SelfType DEF DistinctSelves, LockerInv, TypeOK, PC, Go, Return
<1>1. ASSUME NEW t \in Threads, Step(t) PROVE LockerInv'
  <2>1. CASE Lock(t)
    BY <2>1 DEF Lock
  <2>2. CASE LockCount(t)
    BY <2>2 DEF LockCount
  <2>3. CASE LockReal(t)
    BY <2>3 DEF LockReal
  <2>4. CASE LockSetCount(t)
    BY <2>4 DEF LockSetCount
  <2>5. CASE LockSetOwner(t)
    BY <2>5 DEF LockSetOwner
  <2>6. CASE Unlock(t)
    BY <2>6 DEF Unlock
  <2>7. CASE UnlockCount(t)
    BY <2>7 DEF UnlockCount
  <2>8. CASE UnlockClearOwner(t)
    BY <2>8 DEF UnlockClearOwner
  <2>9. CASE UnlockReal(t)
    BY <2>9 DEF UnlockReal
  <2> QED
    BY <1>1, <2>1, <2>2, <2>3, <2>4, <2>5, <2>6, <2>7, <2>8, <2>9 DEF Step
<1>2. CASE Destroy
  BY <1>2 DEF Destroy
<1>3. CASE Destroyed
  BY <1>3 DEF Destroyed, vars
<1>4. CASE UNCHANGED vars
  BY <1>4 DEF vars
<1> QED
  BY <1>1, <1>2, <1>3, <1>4 DEF Next

LEMMA LockerInvariant == DistinctSelves /\ Spec => [](DistinctSelves /\ LockerInv)
<1>1. DistinctSelves => []DistinctSelves
  BY DEF DistinctSelves, locket_pthread_self
<1> QED
  BY <1>1, LockerInvInit, LockerInvStep, PTL DEF Spec

(* When no two threads agree in the low bits of pthread_self, at most one  *)
(* has locked with locker_loop_lock and not yet unlocked.                  *)
THEOREM LockerCorrect == DistinctSelves /\ Spec => [](TypeOK /\ MutualExclusion)
<1>1. DistinctSelves /\ LockerInv => TypeOK /\ MutualExclusion
  BY DEF LockerInv, MutualExclusion
<1> QED
  BY <1>1, LockerInvariant, PTL

(* Under the same condition the comparison of owner that locker_loop_lock  *)
(* and locker_loop_unlock make before they hold anything is right, and     *)
(* refcount is the number of unlocks the owner owes.                       *)
THEOREM LockerOwnerKnown == DistinctSelves /\ Spec => []OwnerKnown
<1>1. DistinctSelves /\ LockerInv => OwnerKnown
  BY DEF LockerInv, OwnerKnown
<1> QED
  BY <1>1, LockerInvariant, PTL
=============================================================================
