-------------------------- MODULE TransactionLock --------------------------
(***************************************************************************)
(* The lock of TransactionManager: acquire_lock, release_lock, constructor *)
(* and destructor (src/transaction/transaction_manager.cpp), over a POSIX  *)
(* fcntl write lock.  The kernel attaches such a lock to the PROCESS: any  *)
(* manager of the holding process may take it again, and the first unlock, *)
(* or the end of the process, drops it for all of them.                    *)
(***************************************************************************)
CONSTANTS
    Process,      \* operating-system processes that use the OTA library
    Manager,      \* TransactionManager objects
    ProcessOf,    \* the process each manager lives in
    NoProcess     \* nobody holds the lock

ASSUME LockAssumption ==
    /\ ProcessOf \in [Manager -> Process]
    /\ NoProcess \notin Process

\* The arrangement under which the lock excludes managers, not only processes.
OneManagerPerProcess ==
    \A m, n \in Manager : ProcessOf[m] = ProcessOf[n] => m = n

VARIABLES
    alive,        \* processes that are running
    kernel_lock,  \* the process that holds the fcntl lock on ota.lock
    lock_fd_,     \* lock_fd_[m]: the manager has the lock file open
    owns_lock_    \* owns_lock_[m]: the manager believes it holds the lock

lock_vars == <<alive, kernel_lock, lock_fd_, owns_lock_>>

LockTypeOK ==
    /\ alive \subseteq Process
    /\ kernel_lock \in Process \cup {NoProcess}
    /\ lock_fd_ \in [Manager -> BOOLEAN]
    /\ owns_lock_ \in [Manager -> BOOLEAN]

LockInit ==
    /\ alive = {}
    /\ kernel_lock = NoProcess
    /\ lock_fd_ = [m \in Manager |-> FALSE]
    /\ owns_lock_ = [m \in Manager |-> FALSE]

running(m) == ProcessOf[m] \in alive

\* Mutant: the flag is set before the result of F_SETLK is known.
flag_before_setlk(m) ==
    /\ running(m)
    /\ lock_fd_' = [lock_fd_ EXCEPT ![m] = kernel_lock \in {NoProcess, ProcessOf[m]}]
    /\ owns_lock_' = [owns_lock_ EXCEPT ![m] = TRUE]
    /\ kernel_lock' = IF kernel_lock = NoProcess THEN ProcessOf[m] ELSE kernel_lock
    /\ UNCHANGED alive

\* acquire_lock: open() may fail; F_SETLK never waits, it is refused at once
\* when another process holds the lock.  Either failure forgets the
\* descriptor and leaves the flag alone.
acquire_lock(m) ==
    /\ running(m)
    /\ \/ /\ lock_fd_' = [lock_fd_ EXCEPT ![m] = FALSE]
          /\ UNCHANGED <<kernel_lock, owns_lock_>>
       \/ /\ kernel_lock \in {NoProcess, ProcessOf[m]}
          /\ kernel_lock' = ProcessOf[m]
          /\ lock_fd_' = [lock_fd_ EXCEPT ![m] = TRUE]
          /\ owns_lock_' = [owns_lock_ EXCEPT ![m] = TRUE]
    /\ UNCHANGED alive

unlock(m) ==
    kernel_lock' = IF kernel_lock = ProcessOf[m] THEN NoProcess ELSE kernel_lock

\* Mutant: the flag survives the unlock.
unlock_keeps_flag(m) ==
    /\ running(m)
    /\ owns_lock_[m] /\ lock_fd_[m]
    /\ unlock(m)
    /\ lock_fd_' = [lock_fd_ EXCEPT ![m] = FALSE]
    /\ UNCHANGED <<alive, owns_lock_>>

\* release_lock: does nothing unless the manager has both flag and descriptor.
release_lock(m) ==
    /\ running(m)
    /\ owns_lock_[m] /\ lock_fd_[m]
    /\ unlock(m)
    /\ lock_fd_' = [lock_fd_ EXCEPT ![m] = FALSE]
    /\ owns_lock_' = [owns_lock_ EXCEPT ![m] = FALSE]
    /\ UNCHANGED alive

\* ~TransactionManager, and a new object in its place.
destroy_manager(m) ==
    /\ running(m)
    /\ IF owns_lock_[m] /\ lock_fd_[m] THEN unlock(m) ELSE UNCHANGED kernel_lock
    /\ lock_fd_' = [lock_fd_ EXCEPT ![m] = FALSE]
    /\ owns_lock_' = [owns_lock_ EXCEPT ![m] = FALSE]
    /\ UNCHANGED alive

\* A process starts with freshly constructed managers.
start_process(p) ==
    /\ p \notin alive
    /\ alive' = alive \cup {p}
    /\ UNCHANGED <<kernel_lock, lock_fd_, owns_lock_>>

\* The kernel's part: a process that exits, or is killed, loses its lock.
locks_after_exit(dead) ==
    /\ alive' = alive \ dead
    /\ kernel_lock' = IF kernel_lock \in dead THEN NoProcess ELSE kernel_lock
    /\ lock_fd_' = [m \in Manager |-> lock_fd_[m] /\ ProcessOf[m] \notin dead]
    /\ owns_lock_' = [m \in Manager |-> owns_lock_[m] /\ ProcessOf[m] \notin dead]

end_process(p) == p \in alive /\ locks_after_exit({p})

LockNext ==
    \/ \E m \in Manager : acquire_lock(m) \/ release_lock(m) \/ destroy_manager(m)
    \/ \E p \in Process : start_process(p) \/ end_process(p)

LockSpec == LockInit /\ [][LockNext]_lock_vars

-----------------------------------------------------------------------------
(* Safety: needs OneManagerPerProcess; docs/difficulties.md tells why. *)

\* A manager that believes it owns the lock lives in the process that holds
\* it: no crash, failed open or release of another manager takes the kernel's
\* lock away while owns_lock_ stays set (acquire_lock, release_lock).
OwnersHoldKernelLock ==
    \A m \in Manager : owns_lock_[m] => kernel_lock = ProcessOf[m]

\* Two managers never believe at the same time that they own the lock: the
\* exclusion that "prevents concurrent OTA transactions" relies on.
LockMutualExclusion ==
    \A m, n \in Manager : owns_lock_[m] /\ owns_lock_[n] => m = n
=============================================================================
