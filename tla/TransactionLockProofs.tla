------------------------ MODULE TransactionLockProofs ------------------------
(***************************************************************************)
(* The lock excludes managers, for any number of processes, as long as     *)
(* each process has one manager.  The inductive invariant is that the flag *)
(* owns_lock_ implies that the kernel's lock is with the manager's process *)
(* and that the process runs; exclusion follows because kernel_lock is one *)
(* value and ProcessOf is injective.                                       *)
(***************************************************************************)
EXTENDS TransactionLock, TLAPS

LockInv == LockTypeOK /\ OwnersHoldKernelLock

\* The constructor leaves a manager without the lock.
LEMMA LockInitially == LockInit => LockInv
  BY LockAssumption DEF LockInit, LockInv, LockTypeOK, OwnersHoldKernelLock

\* acquire_lock: the flag is set only by a successful F_SETLK, which needs
\* the lock to be free or with the same process.
LEMMA AcquireKeepsInv ==
  ASSUME LockInv, NEW m \in Manager, acquire_lock(m)
  PROVE  LockInv'
  <1> USE LockAssumption DEF LockInv, LockTypeOK
  <1>1. LockTypeOK'
    BY DEF acquire_lock
  <1>2. OwnersHoldKernelLock'
    <2> SUFFICES ASSUME NEW n \in Manager, owns_lock_'[n]
                 PROVE  kernel_lock' = ProcessOf[n]
      BY DEF OwnersHoldKernelLock
    <2>1. CASE UNCHANGED <<kernel_lock, owns_lock_>>
      BY <2>1 DEF OwnersHoldKernelLock
    <2>2. CASE /\ kernel_lock \in {NoProcess, ProcessOf[m]}
               /\ kernel_lock' = ProcessOf[m]
               /\ owns_lock_' = [owns_lock_ EXCEPT ![m] = TRUE]
      <3>1. CASE n = m
        BY <2>2, <3>1
      <3>2. CASE n # m
        <4>1. kernel_lock = ProcessOf[n]
          BY <2>2, <3>2 DEF OwnersHoldKernelLock
        <4>2. ProcessOf[n] # NoProcess
          OBVIOUS
        <4> QED BY <4>1, <4>2, <2>2
      <3> QED BY <3>1, <3>2
    <2> QED BY <2>1, <2>2 DEF acquire_lock
  <1> QED BY <1>1, <1>2

\* Dropping the lock of one process takes it from no owner of another.
LEMMA UnlockKeepsOwners ==
  ASSUME LockInv, OneManagerPerProcess, NEW m \in Manager,
         unlock(m) \/ UNCHANGED kernel_lock,
         owns_lock_' = [owns_lock_ EXCEPT ![m] = FALSE]
  PROVE  OwnersHoldKernelLock'
  <1> SUFFICES ASSUME NEW n \in Manager, owns_lock_'[n]
               PROVE  kernel_lock' = ProcessOf[n]
    BY DEF OwnersHoldKernelLock
  <1>1. n # m /\ owns_lock_[n]
    BY DEF LockInv, LockTypeOK
  <1>2. kernel_lock = ProcessOf[n] /\ ProcessOf[n] # ProcessOf[m]
    BY <1>1 DEF LockInv, OwnersHoldKernelLock, OneManagerPerProcess
  <1> QED BY <1>2 DEF unlock

LEMMA UnlockType ==
  ASSUME LockInv, NEW m \in Manager, unlock(m) \/ UNCHANGED kernel_lock
  PROVE  kernel_lock' \in Process \cup {NoProcess}
  BY DEF LockInv, LockTypeOK, unlock

\* release_lock.
LEMMA ReleaseKeepsInv ==
  ASSUME LockInv, OneManagerPerProcess, NEW m \in Manager, release_lock(m)
  PROVE  LockInv'
  <1>1. LockTypeOK'
    BY UnlockType DEF LockInv, LockTypeOK, release_lock
  <1>2. OwnersHoldKernelLock'
    BY UnlockKeepsOwners DEF release_lock
  <1> QED BY <1>1, <1>2 DEF LockInv

\* The destructor releases what release_lock would.
LEMMA DestroyKeepsInv ==
  ASSUME LockInv, OneManagerPerProcess, NEW m \in Manager, destroy_manager(m)
  PROVE  LockInv'
  <1>1. unlock(m) \/ UNCHANGED kernel_lock
    BY DEF destroy_manager
  <1>2. LockTypeOK'
    BY <1>1, UnlockType DEF LockInv, LockTypeOK, destroy_manager
  <1>3. OwnersHoldKernelLock'
    BY <1>1, UnlockKeepsOwners DEF destroy_manager
  <1> QED BY <1>2, <1>3 DEF LockInv

LEMMA StartKeepsInv ==
  ASSUME LockInv, NEW p \in Process, start_process(p)
  PROVE  LockInv'
  BY DEF LockInv, LockTypeOK, OwnersHoldKernelLock, start_process

\* However many processes die at once, the survivors keep what they had.
LEMMA ExitKeepsInv ==
  ASSUME LockInv, NEW dead \in SUBSET Process, locks_after_exit(dead)
  PROVE  LockInv'
  <1>1. LockTypeOK'
    BY DEF LockInv, LockTypeOK, locks_after_exit
  <1>2. OwnersHoldKernelLock'
    BY DEF LockInv, LockTypeOK, OwnersHoldKernelLock, locks_after_exit
  <1> QED BY <1>1, <1>2 DEF LockInv

LEMMA LockStep == OneManagerPerProcess /\ LockInv /\ [LockNext]_lock_vars => LockInv'
  <1> SUFFICES ASSUME OneManagerPerProcess, LockInv, [LockNext]_lock_vars
               PROVE  LockInv'
    OBVIOUS
  <1>1. ASSUME NEW m \in Manager, acquire_lock(m) PROVE LockInv'
    BY <1>1, AcquireKeepsInv
  <1>2. ASSUME NEW m \in Manager, release_lock(m) PROVE LockInv'
    BY <1>2, ReleaseKeepsInv
  <1>3. ASSUME NEW m \in Manager, destroy_manager(m) PROVE LockInv'
    BY <1>3, DestroyKeepsInv
  <1>4. ASSUME NEW p \in Process, start_process(p) PROVE LockInv'
    BY <1>4, StartKeepsInv
  <1>5. ASSUME NEW p \in Process, end_process(p) PROVE LockInv'
    BY <1>5, ExitKeepsInv DEF end_process
  <1>6. CASE UNCHANGED lock_vars
    BY <1>6 DEF LockInv, LockTypeOK, OwnersHoldKernelLock, lock_vars
  <1> QED BY <1>1, <1>2, <1>3, <1>4, <1>5, <1>6 DEF LockNext

\* A manager that believes it owns the lock holds it, whatever is opened,
\* refused, released or killed (acquire_lock, release_lock, the destructor).
THEOREM OwnersHoldTheLock ==
  ASSUME OneManagerPerProcess
  PROVE  LockSpec => []OwnersHoldKernelLock
  <1>1. LockInit => LockInv
    BY LockInitially
  <1>2. LockInv /\ [LockNext]_lock_vars => LockInv'
    BY LockStep
  <1>3. LockInv => OwnersHoldKernelLock
    BY DEF LockInv
  <1> QED BY <1>1, <1>2, <1>3, PTL DEF LockSpec

\* Two managers never believe at the same time that they own the lock.
THEOREM MutualExclusion ==
  ASSUME OneManagerPerProcess
  PROVE  LockSpec => []LockMutualExclusion
  <1>1. OwnersHoldKernelLock => LockMutualExclusion
    BY DEF OwnersHoldKernelLock, LockMutualExclusion, OneManagerPerProcess
  <1> QED BY <1>1, OwnersHoldTheLock, PTL
=============================================================================
