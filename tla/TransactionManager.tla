------------------------- MODULE TransactionManager -------------------------
(***************************************************************************)
(* TransactionManager (src/transaction/transaction_manager.cpp): the       *)
(* record of the current transaction, its persistence in transaction.json  *)
(* by way of transaction.json.tmp, and the history directory, used by      *)
(* several processes that share the state directory.                       *)
(*                                                                         *)
(* A call is one action up to its first file operation; every later file   *)
(* operation is an action of its own, so that another process, a failing   *)
(* operation, a crash or a power loss can come between any two of them.    *)
(* Files are inodes: rename moves a name, and a writer keeps the inode it  *)
(* opened.  A file is either empty or holds one whole record (the code     *)
(* writes a record in one buffered block).                                 *)
(***************************************************************************)
EXTENDS TransactionStateMachine, TransactionLock, Naturals, Sequences, FiniteSets

CONSTANTS
    TxId,                  \* transaction identifiers; their number bounds create_transaction
    Inode,                 \* inodes of the state directory
    NoId, NoInode, Empty,  \* the empty string, no such file, a file without content
    max_history_entries,   \* config_.max_history_entries
    MaxClock,              \* bound: how often the wall clock ticks
    MaxEarlier,            \* bound: how much the kernel holds back before it writes
    Calls,                 \* bound: which of the optional calls, CallKinds, callers make
    Faults,                \* what may go wrong: subset of FaultKinds
    CallersLock,           \* callers hold the lock around a transaction, as documented
    CallersReload          \* callers do not go on with a record whose persistence failed

FaultKinds == {"io", "crash", "power"}
CallKinds == {"download_path", "target_slot", "finish"}

ASSUME ManagerAssumption ==
    /\ OneManagerPerProcess
    /\ NoId \notin TxId
    /\ NoInode \notin Inode
    /\ max_history_entries \in Nat
    /\ MaxClock \in Nat /\ MaxEarlier \in Nat
    /\ Calls \subseteq CallKinds
    /\ Faults \subseteq FaultKinds
    /\ CallersLock \in BOOLEAN
    /\ CallersReload \in BOOLEAN

\* download_path holds the transaction it was set for.  Of the other fields of
\* the record, no property tells one value from another.
TransactionRecord ==
    [ transaction_id : TxId \cup {NoId}, state : TransactionState,
      download_path  : TxId \cup {NoId} ]

\* An empty file is no record, nor the part of one that TransactionLifecycle sees.
ASSUME EmptyAssumption ==
    /\ Empty \notin TransactionRecord
    /\ Empty \notin [transaction_id : TxId, state : TransactionState]

TransactionHistoryEntry ==
    [ transaction_id : TxId \cup {NoId}, result : Outcome, completed_at : 0..MaxClock ]

VARIABLES
    clock,                 \* wall clock, in the seconds a timestamp shows
    used_ids,              \* identifiers generate_transaction_id has returned
    \* memory of each manager
    current_transaction_,  \* the record
    history_,              \* the entries record_history has still to write
    in_sync,               \* the caller loaded or created the record under its present lock
    pc,                    \* next file operation of the running call
    on_success,            \* what the running call does once the record is persisted
    file,                  \* inode the running call writes
    \* the state directory
    content,               \* of each inode
    transaction_file,      \* inode named transaction.json
    tmp_file,              \* inode named transaction.json.tmp
    history_dir,           \* entries in the history directory, one file each
    \* the disk: what a loss of power may leave of transaction.json and the history
    latest,                \* with the names as they are now
    earlier,               \* with the newest changes of names undone
    (* Observers *)
    reached,               \* <<id, outcome>> pairs that complete_transaction and
                           \* record_failure have persisted in transaction.json
    overlooked             \* a listing of the history has missed an entry

memory_vars == <<current_transaction_, history_, in_sync, pc, on_success, file>>
disk_vars == <<content, transaction_file, tmp_file, history_dir, latest, earlier>>
vars == <<lock_vars, clock, used_ids, memory_vars, disk_vars, reached, overlooked>>

Steps == {"ready", "open", "write", "rename", "list", "clear", "save"}

initial_record == [transaction_id |-> NoId, state |-> "IDLE",
                   download_path |-> NoId]

\* The record a reader of transaction.json gets; no file reads as an empty one.
DiskRecord == IF transaction_file = NoInode THEN Empty ELSE content[transaction_file]

Outcomes_of_loss ==
    [record : TransactionRecord \cup {Empty}, history : SUBSET TransactionHistoryEntry]

TypeOK ==
    /\ LockTypeOK
    /\ clock \in 0..MaxClock
    /\ used_ids \subseteq TxId
    /\ current_transaction_ \in [Manager -> TransactionRecord]
    /\ history_ \in [Manager -> Seq(TransactionHistoryEntry)]
    /\ in_sync \in [Manager -> BOOLEAN]
    /\ pc \in [Manager -> Steps]
    /\ on_success \in [Manager -> {"return", "record_history"}]
    /\ file \in [Manager -> Inode \cup {NoInode}]
    /\ content \in [Inode -> TransactionRecord \cup {Empty}]
    /\ transaction_file \in Inode \cup {NoInode}
    /\ tmp_file \in Inode \cup {NoInode}
    /\ history_dir \subseteq TransactionHistoryEntry
    /\ latest \cup earlier \subseteq Outcomes_of_loss
    /\ reached \subseteq (TxId \cup {NoId}) \X TransactionState
    /\ overlooked \in BOOLEAN

Init ==
    /\ LockInit
    /\ clock = 0
    /\ used_ids = {}
    /\ current_transaction_ = [m \in Manager |-> initial_record]
    /\ history_ = [m \in Manager |-> <<>>]
    /\ in_sync = [m \in Manager |-> FALSE]
    /\ pc = [m \in Manager |-> "ready"]
    /\ on_success = [m \in Manager |-> "return"]
    /\ file = [m \in Manager |-> NoInode]
    /\ content = [i \in Inode |-> Empty]
    /\ transaction_file = NoInode
    /\ tmp_file = NoInode
    /\ history_dir = {}
    /\ latest = {[record |-> Empty, history |-> {}]}
    /\ earlier = {}
    /\ reached = {}
    /\ overlooked = FALSE

-----------------------------------------------------------------------------
(* Calls, up to their first file operation. *)

between_calls(m) == running(m) /\ pc[m] = "ready"
may_write(m) == between_calls(m) /\ (CallersLock => owns_lock_[m])

\* Everything persist_transaction is about to write, and what follows it.
persist(m, record, next) ==
    /\ current_transaction_' = [current_transaction_ EXCEPT ![m] = record]
    /\ pc' = [pc EXCEPT ![m] = "open"]
    /\ on_success' = [on_success EXCEPT ![m] = next]
    /\ UNCHANGED <<lock_vars, clock, history_, file, disk_vars, reached, overlooked>>

\* Mutant: the paths of the previous transaction are not cleared.
create_keeps_paths(m, id) ==
    /\ may_write(m)
    /\ id \notin used_ids
    /\ used_ids' = used_ids \cup {id}
    /\ in_sync' = [in_sync EXCEPT ![m] = TRUE]
    /\ persist(m, [current_transaction_[m] EXCEPT !.transaction_id = id, !.state = "IDLE"], "return")

\* create_transaction: asks neither whether a transaction is active nor
\* whether the lock is held.
create_transaction(m, id) ==
    /\ may_write(m)
    /\ id \notin used_ids
    /\ used_ids' = used_ids \cup {id}
    /\ in_sync' = [in_sync EXCEPT ![m] = TRUE]
    /\ persist(m, [current_transaction_[m] EXCEPT !.transaction_id = id, !.state = "IDLE",
                                                  !.download_path = NoId], "return")

\* update_state: a transition outside the table is refused; memory changes
\* before the record is persisted.
update_state(m, state, next) ==
    /\ may_write(m) /\ in_sync[m]
    /\ can_transition(current_transaction_[m].state, state)
    /\ persist(m, [current_transaction_[m] EXCEPT !.state = state], next)
    /\ UNCHANGED <<used_ids, in_sync>>

\* complete_transaction, record_failure and abort_transaction.
complete_transaction(m) ==
    "finish" \in Calls /\ update_state(m, "INSTALLED", "record_history")
record_failure(m) ==
    "finish" \in Calls /\ update_state(m, "FAILED", "record_history")

\* update_download_path and update_installation_target.
update_download_path(m) ==
    /\ "download_path" \in Calls
    /\ may_write(m) /\ in_sync[m]
    /\ LET r == current_transaction_[m]
       IN  persist(m, [r EXCEPT !.download_path = r.transaction_id], "return")
    /\ UNCHANGED <<used_ids, in_sync>>

\* update_active_slot and update_target_slot, of fields that are left out.
update_target_slot(m) ==
    /\ "target_slot" \in Calls
    /\ may_write(m) /\ in_sync[m]
    /\ persist(m, current_transaction_[m], "return")
    /\ UNCHANGED <<used_ids, in_sync>>

\* Mutant: a missing or empty file is taken for a record.
load_without_check(m) ==
    /\ may_write(m)
    /\ current_transaction_' = [current_transaction_ EXCEPT ![m] = DiskRecord]
    /\ in_sync' = [in_sync EXCEPT ![m] = TRUE]
    /\ UNCHANGED <<lock_vars, clock, used_ids, history_, pc, on_success, file,
                   disk_vars, reached, overlooked>>

\* load_transaction at the start of a session (a load that only displays, as
\* in ota-cli status, is left out); a missing or empty file changes nothing.
load_transaction(m) ==
    /\ may_write(m)
    /\ DiskRecord # Empty
    /\ current_transaction_' = [current_transaction_ EXCEPT ![m] = DiskRecord]
    /\ in_sync' = [in_sync EXCEPT ![m] = TRUE]
    /\ UNCHANGED <<lock_vars, clock, used_ids, history_, pc, on_success, file,
                   disk_vars, reached, overlooked>>

-----------------------------------------------------------------------------
(* persist_transaction, one file operation at a time. *)

io_failure == "io" \in Faults

\* The inodes that no name and no open file refers to.
free(i) ==
    /\ i \notin {transaction_file, tmp_file}
    /\ \A m \in Manager : file[m] # i

\* Nothing calls fsync.  The file system keeps the order in which names change,
\* and brings a directory back as it was at some moment since it was last on the
\* disk; a file written since then may come back empty.
names_change(outcomes) ==
    IF "power" \in Faults
    THEN /\ Cardinality(earlier) <= MaxEarlier
         /\ latest' = outcomes /\ earlier' = earlier \cup latest
    ELSE UNCHANGED <<latest, earlier>>

\* Mutant: a failure of the file operations is not reported.
call_fails_silently(m) ==
    /\ pc' = [pc EXCEPT ![m] = "ready"]
    /\ file' = [file EXCEPT ![m] = NoInode]
    /\ on_success' = [on_success EXCEPT ![m] = "return"]
    /\ in_sync' = in_sync

\* The call returns false; a careful caller then reloads the record.
call_fails(m) ==
    /\ pc' = [pc EXCEPT ![m] = "ready"]
    /\ file' = [file EXCEPT ![m] = NoInode]
    /\ on_success' = [on_success EXCEPT ![m] = "return"]
    /\ in_sync' = [in_sync EXCEPT ![m] = @ /\ ~CallersReload]

\* Mutant: the record is written in place, without transaction.json.tmp.
open_in_place(m) ==
    /\ pc[m] = "open"
    /\ \E i \in Inode :
          /\ IF transaction_file = NoInode THEN free(i) ELSE i = transaction_file
          /\ transaction_file' = i
          /\ content' = [content EXCEPT ![i] = Empty]
          /\ file' = [file EXCEPT ![m] = i]
    /\ pc' = [pc EXCEPT ![m] = "write"]
    /\ UNCHANGED <<lock_vars, clock, used_ids, current_transaction_, history_, in_sync,
                   on_success, tmp_file, history_dir, latest, earlier, reached, overlooked>>

\* Opening transaction.json.tmp creates it, or empties what another call left.
open_tmp(m) ==
    /\ pc[m] = "open"
    /\ \E i \in Inode :
          /\ IF tmp_file = NoInode THEN free(i) ELSE i = tmp_file
          /\ tmp_file' = i
          /\ content' = [content EXCEPT ![i] = Empty]
          /\ file' = [file EXCEPT ![m] = i]
    /\ pc' = [pc EXCEPT ![m] = "write"]
    /\ UNCHANGED <<lock_vars, clock, used_ids, current_transaction_, history_, in_sync,
                   on_success, transaction_file, history_dir, latest, earlier, reached, overlooked>>

write_tmp(m) ==
    /\ pc[m] = "write"
    /\ content' = [content EXCEPT ![file[m]] = current_transaction_[m]]
    /\ pc' = [pc EXCEPT ![m] = "rename"]
    /\ UNCHANGED <<lock_vars, clock, used_ids, current_transaction_, history_, in_sync,
                   on_success, file, transaction_file, tmp_file, history_dir, latest, earlier,
                   reached, overlooked>>

\* The file that was transaction.json is gone unless another call writes it.
free_after_rename(i, m) == i # NoInode /\ \A n \in Manager \ {m} : file[n] # i

rename_tmp(m) ==
    /\ pc[m] = "rename"
    /\ tmp_file # NoInode
    /\ transaction_file' = tmp_file
    /\ tmp_file' = NoInode
    /\ reached' = IF on_success[m] = "record_history" /\ content[tmp_file] # Empty
                  THEN reached \cup {<<content[tmp_file].transaction_id, content[tmp_file].state>>}
                  ELSE reached
    /\ file' = [file EXCEPT ![m] = NoInode]
    /\ pc' = [pc EXCEPT ![m] = IF on_success[m] = "record_history" THEN "list" ELSE "ready"]
    /\ on_success' = [on_success EXCEPT ![m] = "return"]
    /\ IF free_after_rename(transaction_file, m)
       THEN content' = [content EXCEPT ![transaction_file] = Empty]
       ELSE UNCHANGED content
    /\ names_change([record : {Empty, content[tmp_file]}, history : {d.history : d \in latest}])
    /\ UNCHANGED <<lock_vars, clock, used_ids, current_transaction_, history_, in_sync,
                   history_dir, overlooked>>

\* Mutant: the history is recorded whether or not the record was persisted.
history_despite_failure(m) ==
    /\ pc[m] \in {"open", "write", "rename"} /\ io_failure
    /\ pc' = [pc EXCEPT ![m] = IF on_success[m] = "record_history" THEN "list" ELSE "ready"]
    /\ file' = [file EXCEPT ![m] = NoInode]
    /\ on_success' = [on_success EXCEPT ![m] = "return"]
    /\ in_sync' = [in_sync EXCEPT ![m] = FALSE]
    /\ UNCHANGED <<lock_vars, clock, used_ids, current_transaction_, history_, disk_vars,
                   reached, overlooked>>

\* Opening, writing or renaming fails; rename also when the name is gone.
persist_fails(m) ==
    /\ \/ pc[m] \in {"open", "write", "rename"} /\ io_failure
       \/ pc[m] = "rename" /\ tmp_file = NoInode
    /\ call_fails(m)
    /\ UNCHANGED <<lock_vars, clock, used_ids, current_transaction_, history_,
                   disk_vars, reached, overlooked>>

-----------------------------------------------------------------------------
(* record_history: add_history_entry = load_history; push_back;            *)
(* prune_history; save_history.                                            *)

\* load_history: the files in descending order of completion; entries of the
\* same second in any order.
listings(dir) ==
    { s \in [1..Cardinality(dir) -> dir] :
        /\ \A e \in dir : \E k \in DOMAIN s : s[k] = e
        /\ \A j, k \in DOMAIN s : j < k => s[j].completed_at >= s[k].completed_at }

\* Mutant: one entry too many is kept.
prune_off_by_one(entries) ==
    IF Len(entries) > max_history_entries
    THEN SubSeq(entries, 1, max_history_entries + 1) ELSE entries

\* prune_history: pops from the back, where push_back has put the new entry.
prune_history(entries) ==
    IF Len(entries) > max_history_entries
    THEN SubSeq(entries, 1, max_history_entries) ELSE entries

history_entry(m) ==
    [ transaction_id |-> current_transaction_[m].transaction_id,
      result |-> current_transaction_[m].state,
      completed_at |-> clock ]

unchanged_by_history ==
    UNCHANGED <<lock_vars, clock, used_ids, current_transaction_, in_sync, on_success, file,
                content, transaction_file, tmp_file, reached>>

\* The end of record_history, whose result the callers ignore.
history_done(m) ==
    /\ pc' = [pc EXCEPT ![m] = "ready"]
    /\ history_' = [history_ EXCEPT ![m] = <<>>]

\* A directory that cannot be read or not to its end, and an entry that cannot
\* be opened, are passed over.  save_history gives up only when the directory is
\* missing and cannot be created.
list_history(m) ==
    /\ pc[m] = "list"
    /\ \E seen \in IF io_failure THEN SUBSET history_dir ELSE {history_dir} :
          /\ \/ /\ \E s \in listings(seen) :
                      history_' = [history_ EXCEPT ![m] = prune_history(Append(s, history_entry(m)))]
                /\ pc' = [pc EXCEPT ![m] = "clear"]
             \/ io_failure /\ history_done(m)
          /\ overlooked' = (overlooked \/ seen # history_dir)
    /\ UNCHANGED <<history_dir, latest, earlier>>
    /\ unchanged_by_history

\* save_history first removes every entry, in directory order; a directory that
\* cannot be read and a removal that fails are passed over.
clear_history(m) ==
    /\ pc[m] = "clear"
    /\ \/ \E e \in history_dir :
              /\ history_dir' = history_dir \ {e}
              /\ names_change({[d EXCEPT !.history = @ \ {e}] : d \in latest})
              /\ UNCHANGED pc
       \/ /\ history_dir = {} \/ io_failure
          /\ pc' = [pc EXCEPT ![m] = "save"]
          /\ UNCHANGED <<history_dir, latest, earlier>>
    /\ UNCHANGED <<history_, overlooked>>
    /\ unchanged_by_history

others(dir, id) == {e \in dir : e.transaction_id # id}

\* The file of entry e is truncated; its text may be lost with the power.
emptied(e) == {[d EXCEPT !.history = others(@, e.transaction_id)] : d \in latest}
entered(e) == {[d EXCEPT !.history = others(@, e.transaction_id) \cup {e}] : d \in latest}

\* It then writes the listing one file at a time, and stops at the first
\* failure: an open that fails changes nothing, a write that fails leaves an
\* empty file that no listing shows.
save_history(m) ==
    /\ pc[m] = "save"
    /\ IF history_[m] = <<>>
       THEN history_done(m) /\ UNCHANGED <<history_dir, latest, earlier>>
       ELSE LET e == Head(history_[m])
            IN  \/ /\ history_dir' = others(history_dir, e.transaction_id) \cup {e}
                   /\ names_change(emptied(e) \cup entered(e))
                   /\ history_' = [history_ EXCEPT ![m] = Tail(@)]
                   /\ UNCHANGED pc
                \/ /\ io_failure
                   /\ history_dir' = others(history_dir, e.transaction_id)
                   /\ names_change(emptied(e))
                   /\ history_done(m)
                \/ io_failure /\ history_done(m) /\ UNCHANGED <<history_dir, latest, earlier>>
    /\ UNCHANGED overlooked
    /\ unchanged_by_history

-----------------------------------------------------------------------------
(* The lock around a transaction, and the life of the processes. *)

unchanged_but_session ==
    UNCHANGED <<clock, used_ids, current_transaction_, history_, pc, on_success, file,
                disk_vars, reached, overlooked>>

take_lock(m) ==
    /\ between_calls(m)
    /\ acquire_lock(m)
    /\ UNCHANGED in_sync
    /\ unchanged_but_session

\* The record must be loaded again in the next session.
drop_lock(m) ==
    /\ between_calls(m)
    /\ release_lock(m)
    /\ in_sync' = [in_sync EXCEPT ![m] = FALSE]
    /\ unchanged_but_session

\* The object goes out of scope; another one is constructed when needed.
destroy(m) ==
    /\ between_calls(m)
    /\ destroy_manager(m)
    /\ current_transaction_' = [current_transaction_ EXCEPT ![m] = initial_record]
    /\ in_sync' = [in_sync EXCEPT ![m] = FALSE]
    /\ UNCHANGED <<clock, used_ids, history_, pc, on_success, file, disk_vars, reached, overlooked>>

tick ==
    /\ clock < MaxClock
    /\ clock' = clock + 1
    /\ UNCHANGED <<lock_vars, used_ids, memory_vars, disk_vars, reached, overlooked>>

start(p) ==
    /\ start_process(p)
    /\ UNCHANGED <<clock, used_ids, memory_vars, disk_vars, reached, overlooked>>

\* The memory of the managers of dead processes; new ones are constructed.
forget_memory(dead) ==
    LET kept(old, new) == [m \in Manager |-> IF ProcessOf[m] \in dead THEN new ELSE old[m]]
    IN  /\ current_transaction_' = kept(current_transaction_, initial_record)
        /\ history_' = kept(history_, <<>>)
        /\ in_sync' = kept(in_sync, FALSE)
        /\ pc' = kept(pc, "ready")
        /\ on_success' = kept(on_success, "return")
        /\ file' = kept(file, NoInode)

\* A process exits between calls, or is killed at any point.
exit_process(p) ==
    /\ \/ \A m \in Manager : ProcessOf[m] = p => pc[m] = "ready"
       \/ "crash" \in Faults
    /\ end_process(p)
    /\ forget_memory({p})
    /\ UNCHANGED <<clock, used_ids, disk_vars, reached, overlooked>>

\* Nothing can be said of transaction.json.tmp but that nobody reads it.
power_loss ==
    /\ "power" \in Faults
    /\ alive # {}
    /\ locks_after_exit(alive)
    /\ forget_memory(alive)
    /\ \E left \in latest \cup earlier, i \in Inode :
          /\ transaction_file' = i
          /\ tmp_file' \in {NoInode} \cup (Inode \ {i})
          /\ content' = [j \in Inode |-> IF j = i THEN left.record ELSE Empty]
          /\ history_dir' = left.history
          /\ latest' = {left}
    /\ earlier' = {}
    /\ UNCHANGED <<clock, used_ids, reached, overlooked>>

\* What is still to be written reaches the disk.  That only a part of it does
\* leaves fewer outcomes of a power loss, and no other ones.
write_back ==
    /\ "power" \in Faults
    /\ latest' = {[record |-> DiskRecord, history |-> history_dir]}
    /\ earlier' = {}
    /\ UNCHANGED <<lock_vars, clock, used_ids, memory_vars, content, transaction_file, tmp_file,
                   history_dir, reached, overlooked>>

call(m) ==
    \/ \E id \in TxId : create_transaction(m, id)
    \/ \E state \in TransactionState : update_state(m, state, "return")
    \/ complete_transaction(m)
    \/ record_failure(m)
    \/ update_download_path(m)
    \/ update_target_slot(m)
    \/ load_transaction(m)
    \/ take_lock(m)
    \/ drop_lock(m)
    \/ destroy(m)

\* The operations of a running call, in the order the code makes them.
continue(m) ==
    \/ open_tmp(m)
    \/ write_tmp(m)
    \/ rename_tmp(m)
    \/ persist_fails(m)
    \/ list_history(m)
    \/ clear_history(m)
    \/ save_history(m)

Next ==
    \/ \E m \in Manager : call(m) \/ continue(m)
    \/ \E p \in Process : start(p) \/ exit_process(p)
    \/ tick \/ power_loss \/ write_back

Spec == Init /\ [][Next]_vars

-----------------------------------------------------------------------------
(* Properties. *)

\* transaction.json is never empty or half written, whatever process is
\* killed and whatever file operation fails: writers go through
\* transaction.json.tmp, and the lock keeps two of them from sharing it
\* ("Atomic rename prevents corruption").
RecordNeverTorn == transaction_file # NoInode => content[transaction_file] # Empty

\* Between two calls of a session under the lock, memory and transaction.json
\* agree: no other process has written since, and every failure to persist
\* was reported (persist_transaction, acquire_lock).
SessionMatchesDisk ==
    \A m \in Manager :
        owns_lock_[m] /\ in_sync[m] /\ pc[m] = "ready" => DiskRecord = current_transaction_[m]

\* A recorded download path belongs to the recorded transaction, not to one
\* before it (create_transaction clears it, load_transaction replaces it).
PathBelongsToTransaction ==
    DiskRecord # Empty => DiskRecord.download_path \in {NoId, DiskRecord.transaction_id}

\* The history never reports an outcome that transaction.json did not reach:
\* record_history runs only when the outcome has been persisted.
HistoryTellsTruth ==
    \A e \in history_dir : <<e.transaction_id, e.result>> \in reached

\* The directory never holds more entries than configured, at any moment of
\* save_history and after any crash or power loss in it (prune_history), unless
\* a listing has missed an entry: what the listing does not show is not pruned,
\* and stays if it is not removed either.
HistoryWithinLimit ==
    Cardinality(history_dir) <= max_history_entries \/ overlooked

\* While no call is running, a recorded transaction that was completed or
\* failed is in the history: the newest entry is never the one that is pruned.
LatestOutcomeRecorded ==
    (\A m \in Manager : pc[m] = "ready") /\ DiskRecord # Empty
        => \/ <<DiskRecord.transaction_id, DiskRecord.state>> \notin reached
           \/ \E e \in history_dir : e.transaction_id = DiskRecord.transaction_id

\* What a record says of the transaction.
part(r) ==
    IF r = Empty THEN Empty ELSE [transaction_id |-> r.transaction_id, state |-> r.state]

recorded == part(DiskRecord)

\* What the records that a power loss may leave say of it.
recoverable == {part(d.record) : d \in latest \cup earlier}

\* transaction.json, seen as one value, behaves as TransactionLifecycle says.
Lifecycle == INSTANCE TransactionLifecycle WITH
    NoRecord <- Empty, PowerMayFail <- "power" \in Faults,
    record <- recorded, possible <- recoverable

ImplementsLifecycle == Lifecycle!Spec

-----------------------------------------------------------------------------
(* The inductive invariant behind the properties of the record.  It holds  *)
(* for careful callers.                                                    *)

Disciplined == CallersLock /\ CallersReload

\* Whoever owns the lock is alive.
OwnersRun == \A m \in Manager : owns_lock_[m] => running(m)

\* A power loss is what empties transaction.json.
WholeUnderPower == "power" \notin Faults => RecordNeverTorn

\* A manager in the middle of a call owns the lock, so there is at most one.
CallsUnderLock == \A m \in Manager : pc[m] # "ready" => owns_lock_[m]

persisting(m) == pc[m] \in {"open", "write", "rename"}

\* Only the running call has a file open, and it is transaction.json.tmp.
WriterHasTmp ==
    \A m \in Manager :
        /\ pc[m] \in {"write", "rename"} <=> file[m] # NoInode
        /\ file[m] # NoInode => file[m] = tmp_file
        /\ pc[m] = "rename" => content[tmp_file] = current_transaction_[m]

NamesApart == transaction_file = NoInode \/ transaction_file # tmp_file

\* What a session has in memory is on the disk, unless it is being persisted.
MemoryOnDisk ==
    \A m \in Manager :
        in_sync[m] => owns_lock_[m] /\ (persisting(m) \/ DiskRecord = current_transaction_[m])

\* A record may replace another if it starts a transaction or makes a step.
may_replace(new, old) ==
    \/ old = Empty
    \/ new.transaction_id # old.transaction_id
    \/ new.state = old.state
    \/ can_transition(old.state, new.state)

PendingIsStep ==
    \A m \in Manager :
        persisting(m) => in_sync[m] /\ may_replace(current_transaction_[m], DiskRecord)

\* Every record written anywhere, or left by a power loss, is of a transaction
\* that was created, and its download path is its own.
well_formed(r) ==
    /\ r.transaction_id \in used_ids \cup {NoId}
    /\ r.download_path \in {NoId, r.transaction_id}

RecordsWellFormed ==
    /\ \A m \in Manager : well_formed(current_transaction_[m])
    /\ \A i \in Inode : content[i] # Empty => well_formed(content[i])
    /\ \A d \in latest \cup earlier : d.record # Empty => well_formed(d.record)

\* Between calls nothing is pending.
ReturnWhenReady == \A m \in Manager : on_success[m] = "record_history" => persisting(m)

\* What record_history is going to write.
OutcomePending ==
    /\ IsFiniteSet(history_dir)
    /\ \A m \in Manager :
          pc[m] = "list" \/ on_success[m] = "record_history"
              => current_transaction_[m].state \in Outcome

\* With the names as they are, a power loss leaves no entry that is not there.
LossesKnown ==
    /\ latest # {}
    /\ \A d \in latest : /\ d.history \subseteq history_dir
                         /\ "power" \in Faults \/ d.history = {}
    /\ \A d \in earlier : IsFiniteSet(d.history)

\* Together: no reachable state of disciplined callers escapes the proofs of
\* TransactionManagerProofs.
RecordInv ==
    /\ TypeOK
    /\ OwnersHoldKernelLock
    /\ OwnersRun
    /\ CallsUnderLock
    /\ WriterHasTmp
    /\ NamesApart
    /\ WholeUnderPower
    /\ MemoryOnDisk
    /\ PendingIsStep
    /\ RecordsWellFormed
    /\ ReturnWhenReady
    /\ OutcomePending
    /\ LossesKnown

\* What a session has in memory, and what any file holds, is of a transaction
\* that was created: nothing persists the blank record of a new manager.
RecordsIdentified ==
    /\ \A m \in Manager : in_sync[m] => current_transaction_[m].transaction_id # NoId
    /\ \A i \in Inode : content[i] # Empty => content[i].transaction_id # NoId
    /\ \A d \in latest \cup earlier : d.record # Empty => d.record.transaction_id # NoId

\* A record that does not go on with the recorded transaction starts one.
PendingBegins ==
    \A m \in Manager :
        persisting(m)
            => \/ current_transaction_[m].state = "IDLE"
               \/ /\ DiskRecord # Empty
                  /\ DiskRecord.transaction_id = current_transaction_[m].transaction_id

LifecycleInv == RecordsIdentified /\ PendingBegins

-----------------------------------------------------------------------------
(* The inductive invariant behind the properties of the history.           *)

\* An outcome about to be entered is one that transaction.json reached.
OutcomeReached ==
    \A m \in Manager :
        pc[m] = "list"
            => <<current_transaction_[m].transaction_id, current_transaction_[m].state>> \in reached

\* The entries that save_history has still to write.
unwritten(m) == {history_[m][k] : k \in DOMAIN history_[m]}

UnwrittenTrue ==
    \A m \in Manager : \A e \in unwritten(m) : <<e.transaction_id, e.result>> \in reached

\* What is written and what is still to be written fit together, unless a
\* listing has missed an entry.
RoomForUnwritten ==
    \A m \in Manager :
        pc[m] \in {"clear", "save"}
            => Cardinality(history_dir \cup unwritten(m)) <= max_history_entries \/ overlooked

\* The history as it is, and as a power loss may leave it.
Histories == {history_dir} \cup {d.history : d \in latest \cup earlier}

HistoriesTrue ==
    \A h \in Histories : \A e \in h : <<e.transaction_id, e.result>> \in reached

HistoriesWithinLimit ==
    \A h \in Histories : Cardinality(h) <= max_history_entries \/ overlooked

HistoryInv ==
    /\ OutcomeReached
    /\ UnwrittenTrue
    /\ HistoriesTrue
    /\ RoomForUnwritten
    /\ HistoriesWithinLimit
=============================================================================
