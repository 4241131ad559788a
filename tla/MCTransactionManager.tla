------------------------ MODULE MCTransactionManager ------------------------
(* Small instances of TransactionManager: one manager in each process. *)
EXTENDS TransactionManager, TLC

Identity == [m \in Manager |-> m]

Symmetry == Permutations(Process) \cup Permutations(Inode) \cup Permutations(TxId)

Paths == {"download_path", "target_slot"}
Outcomes == {"finish"}

NoFaults == {}
ProcessFaults == {"io", "crash"}
AllFaults == {"io", "crash", "power"}
=============================================================================
