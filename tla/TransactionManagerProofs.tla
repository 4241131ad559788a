---------------------- MODULE TransactionManagerProofs ----------------------
(***************************************************************************)
(* TransactionManager, for every number of processes, transactions and     *)
(* inodes: callers that take the lock and reload after a failed write see  *)
(* one record that follows the table, and a history that is true and, as   *)
(* long as every listing is complete, bounded, whatever file operation     *)
(* fails, whatever process is killed and whenever the power is lost.       *)
(*                                                                         *)
(* The argument is the inductive invariant RecordInv: a manager inside a   *)
(* call owns the lock, hence is the only one inside a call, hence is the   *)
(* only writer of transaction.json.tmp; what it is about to persist is one *)
(* step of the table away from what transaction.json holds; and what a     *)
(* loss of power may leave was there before.  On it rest HistoryInv (the   *)
(* history) and LifecycleInv (the refinement).                             *)
(***************************************************************************)
EXTENDS TransactionManager, TransactionLockProofs, FiniteSetTheorems

LEMMA LockInvOfRecordInv == RecordInv => LockInv
  BY DEF RecordInv, TypeOK, LockInv

\* Owning the lock, a manager is alone inside a call.
LEMMA Alone ==
  ASSUME RecordInv, NEW m \in Manager, owns_lock_[m], NEW n \in Manager, n # m
  PROVE  ~owns_lock_[n] /\ pc[n] = "ready"
  <1>1. kernel_lock = ProcessOf[m]
    BY DEF RecordInv, OwnersHoldKernelLock
  <1>2. ProcessOf[n] # ProcessOf[m]
    BY ManagerAssumption DEF OneManagerPerProcess
  <1>3. ~owns_lock_[n]
    BY <1>1, <1>2 DEF RecordInv, OwnersHoldKernelLock
  <1> QED BY <1>3 DEF RecordInv, CallsUnderLock

LEMMA Initially == Init => RecordInv
  <1> SUFFICES ASSUME Init PROVE RecordInv
    OBVIOUS
  <1> USE DEF Init
  <1>1. LockInv
    BY LockInitially
  <1>2. initial_record \in TransactionRecord
    BY DEF initial_record, TransactionRecord, TransactionState
  <1>3. TypeOK
    <2>1. history_ \in [Manager -> Seq(TransactionHistoryEntry)]
      OBVIOUS
    <2>2. clock \in 0..MaxClock
      BY ManagerAssumption
    <2>3. latest \cup earlier \subseteq Outcomes_of_loss
      BY DEF Outcomes_of_loss
    <2> QED BY <1>1, <1>2, <2>1, <2>2, <2>3 DEF TypeOK, LockInv, Steps
  <1>4. WholeUnderPower /\ NamesApart /\ WriterHasTmp /\ OwnersRun /\ CallsUnderLock
    BY <1>1 DEF LockInit, OwnersRun, WholeUnderPower, RecordNeverTorn, NamesApart, WriterHasTmp, CallsUnderLock
  <1>5. MemoryOnDisk /\ PendingIsStep
    BY DEF MemoryOnDisk, PendingIsStep, persisting
  <1>6. RecordsWellFormed
    BY DEF RecordsWellFormed, well_formed, initial_record
  <1>7. ReturnWhenReady /\ OutcomePending /\ LossesKnown
    BY FS_EmptySet DEF ReturnWhenReady, OutcomePending, LossesKnown
  <1> QED BY <1>1, <1>3, <1>4, <1>5, <1>6, <1>7 DEF RecordInv, LockInv

-----------------------------------------------------------------------------
(* What a power loss may leave. *)

\* The part of the invariant that is about it.
LossesSound ==
    /\ LossesKnown
    /\ latest \cup earlier \subseteq Outcomes_of_loss
    /\ \A d \in latest \cup earlier : d.record # Empty => well_formed(d.record)

LEMMA SoundOfRecordInv == RecordInv => LossesSound /\ IsFiniteSet(history_dir)
  BY DEF RecordInv, LossesSound, TypeOK, RecordsWellFormed, OutcomePending

\* Whoever changes names says what the newest outcomes are; those that there
\* were are kept among the earlier ones.
LEMMA NamesChangeSound ==
  ASSUME RecordInv, NEW outcomes, names_change(outcomes), UNCHANGED used_ids,
         outcomes # {}, outcomes \subseteq Outcomes_of_loss,
         \A d \in outcomes : d.history \subseteq history_dir'
                              /\ (d.record # Empty => well_formed(d.record))
  PROVE  LossesSound'
  <1>1. LossesSound /\ IsFiniteSet(history_dir)
    BY SoundOfRecordInv
  <1>2. CASE "power" \in Faults
    <2>1. latest' = outcomes /\ earlier' = earlier \cup latest
      BY <1>2 DEF names_change
    <2>2. \A d \in earlier \cup latest : IsFiniteSet(d.history)
      BY <1>1, FS_Subset DEF LossesSound, LossesKnown
    <2>3. LossesKnown'
      BY <1>2, <2>1, <2>2 DEF LossesKnown
    <2>4. (latest \cup earlier)' \subseteq Outcomes_of_loss
      BY <1>1, <2>1 DEF LossesSound
    <2>5. \A d \in (latest \cup earlier)' : d.record # Empty => well_formed(d.record)
      BY <1>1, <2>1 DEF LossesSound
    <2> QED BY <2>3, <2>4, <2>5 DEF LossesSound, well_formed
  <1>3. CASE "power" \notin Faults
    <2>1. UNCHANGED <<latest, earlier>>
      BY <1>3 DEF names_change
    <2>2. LossesKnown'
      BY <1>1, <1>3, <2>1 DEF LossesSound, LossesKnown
    <2> QED BY <1>1, <2>1, <2>2 DEF LossesSound, well_formed
  <1> QED BY <1>2, <1>3

\* Outcomes with the records of the newest ones, and histories within dir.
carried(outcomes, dir) ==
    /\ outcomes # {} /\ outcomes \subseteq Outcomes_of_loss
    /\ \A d \in outcomes : d.history \subseteq dir /\ \E x \in latest : d.record = x.record

LEMMA ClearedCarried ==
  ASSUME RecordInv, NEW e
  PROVE  carried({[d EXCEPT !.history = @ \ {e}] : d \in latest}, history_dir \ {e})
  <1> DEFINE cleared(d) == [d EXCEPT !.history = @ \ {e}]
  <1>1. latest # {} /\ latest \subseteq Outcomes_of_loss /\ \A d \in latest : d.history \subseteq history_dir
    BY SoundOfRecordInv DEF LossesSound, LossesKnown
  <1>2. ASSUME NEW d \in latest
        PROVE  /\ cleared(d) \in Outcomes_of_loss /\ cleared(d).record = d.record
               /\ cleared(d).history \subseteq history_dir \ {e}
    BY <1>1 DEF Outcomes_of_loss
  <1> HIDE DEF cleared
  <1>3. carried({cleared(d) : d \in latest}, history_dir \ {e})
    BY <1>1, <1>2 DEF carried
  <1> QED BY <1>3 DEF cleared

LEMMA EmptiedCarried ==
  ASSUME RecordInv, NEW e
  PROVE  carried(emptied(e), others(history_dir, e.transaction_id))
  <1> DEFINE id == e.transaction_id
             left(d) == [d EXCEPT !.history = others(@, id)]
  <1>1. latest # {} /\ latest \subseteq Outcomes_of_loss /\ \A d \in latest : d.history \subseteq history_dir
    BY SoundOfRecordInv DEF LossesSound, LossesKnown
  <1>2. ASSUME NEW d \in latest
        PROVE  /\ left(d) \in Outcomes_of_loss /\ left(d).record = d.record
               /\ left(d).history \subseteq others(history_dir, id)
    BY <1>1 DEF Outcomes_of_loss, others
  <1> HIDE DEF left
  <1>3. carried({left(d) : d \in latest}, others(history_dir, id))
    BY <1>1, <1>2 DEF carried
  <1> QED BY <1>3 DEF left, emptied

LEMMA EnteredCarried ==
  ASSUME RecordInv, NEW e \in TransactionHistoryEntry
  PROVE  carried(emptied(e) \cup entered(e), others(history_dir, e.transaction_id) \cup {e})
  <1> DEFINE id == e.transaction_id
             left(d) == [d EXCEPT !.history = others(@, id) \cup {e}]
  <1>1. latest # {} /\ latest \subseteq Outcomes_of_loss /\ \A d \in latest : d.history \subseteq history_dir
    BY SoundOfRecordInv DEF LossesSound, LossesKnown
  <1>2. ASSUME NEW d \in latest
        PROVE  /\ left(d) \in Outcomes_of_loss /\ left(d).record = d.record
               /\ left(d).history \subseteq others(history_dir, id) \cup {e}
    BY <1>1 DEF Outcomes_of_loss, others
  <1> HIDE DEF left
  <1>3. carried({left(d) : d \in latest}, others(history_dir, id) \cup {e})
    BY <1>1, <1>2 DEF carried
  <1>4. carried(entered(e), others(history_dir, id) \cup {e})
    BY <1>3 DEF left, entered
  <1> QED BY <1>4, EmptiedCarried DEF carried

LEMMA CarriedSound ==
  ASSUME RecordInv, NEW outcomes, names_change(outcomes), UNCHANGED used_ids,
         carried(outcomes, history_dir')
  PROVE  LossesSound'
  <1>1. \A d \in latest : d.record # Empty => well_formed(d.record)
    BY SoundOfRecordInv DEF LossesSound
  <1>2. \A d \in outcomes : d.record # Empty => well_formed(d.record)
    BY <1>1 DEF carried
  <1> QED BY <1>2, NamesChangeSound DEF carried

-----------------------------------------------------------------------------
(* Calls that end in persist_transaction. *)

\* Any call that changes the record in memory to one that may replace the
\* record on the disk, and then goes on to persist it.
LEMMA PersistKeepsInv ==
  ASSUME RecordInv, NEW m \in Manager, pc[m] = "ready", owns_lock_[m],
         NEW r \in TransactionRecord, NEW next \in {"return", "record_history"},
         persist(m, r, next),
         used_ids \subseteq used_ids', used_ids' \subseteq TxId,
         in_sync' = [in_sync EXCEPT ![m] = TRUE],
         r.transaction_id \in used_ids' \cup {NoId},
         r.download_path \in {NoId, r.transaction_id},
         may_replace(r, DiskRecord),
         next = "record_history" => r.state \in Outcome
  PROVE  RecordInv'
  <1> USE DEF persist, lock_vars, disk_vars
  <1>1. TypeOK'
    BY DEF RecordInv, TypeOK, LockTypeOK, Steps
  <1>2. OwnersHoldKernelLock' /\ OwnersRun' /\ CallsUnderLock'
    BY DEF RecordInv, OwnersHoldKernelLock, OwnersRun, running, CallsUnderLock, TypeOK
  <1>3. WriterHasTmp'
    BY DEF RecordInv, WriterHasTmp, TypeOK
  <1>4. NamesApart' /\ WholeUnderPower' /\ UNCHANGED DiskRecord
    BY DEF RecordInv, NamesApart, WholeUnderPower, RecordNeverTorn, DiskRecord
  <1>5. MemoryOnDisk'
    BY <1>4 DEF RecordInv, MemoryOnDisk, persisting, TypeOK
  <1>6. PendingIsStep'
    <2> SUFFICES ASSUME NEW n \in Manager, persisting(n)'
                 PROVE  in_sync'[n] /\ may_replace(current_transaction_'[n], DiskRecord')
      BY DEF PendingIsStep, may_replace
    <2>1. CASE n = m
      BY <2>1, <1>4 DEF RecordInv, TypeOK, may_replace
    <2>2. CASE n # m
      BY <2>2, Alone DEF persisting, RecordInv, TypeOK
    <2> QED BY <2>1, <2>2
  <1>7. RecordsWellFormed'
    BY DEF RecordInv, RecordsWellFormed, well_formed, TypeOK
  <1>8. ReturnWhenReady' /\ OutcomePending' /\ LossesKnown'
    BY DEF RecordInv, ReturnWhenReady, persisting, OutcomePending, LossesKnown, TypeOK
  <1> QED BY <1>1, <1>2, <1>3, <1>4, <1>5, <1>6, <1>7, <1>8 DEF RecordInv

\* A careful caller that may write owns the lock.
LEMMA WritersOwn ==
  ASSUME Disciplined, RecordInv, NEW m \in Manager, may_write(m)
  PROVE  pc[m] = "ready" /\ owns_lock_[m] /\ running(m)
  BY DEF Disciplined, may_write, between_calls

\* In a session, memory is what transaction.json holds.
LEMMA InSession ==
  ASSUME Disciplined, RecordInv, NEW m \in Manager, may_write(m), in_sync[m]
  PROVE  /\ DiskRecord = current_transaction_[m]
         /\ current_transaction_[m] \in TransactionRecord
         /\ well_formed(current_transaction_[m])
         /\ [in_sync EXCEPT ![m] = TRUE] = in_sync
  BY WritersOwn DEF RecordInv, MemoryOnDisk, persisting, TypeOK, RecordsWellFormed

LEMMA CreateKeepsInv ==
  ASSUME Disciplined, RecordInv, NEW m \in Manager, NEW id \in TxId, create_transaction(m, id)
  PROVE  RecordInv'
  <1> DEFINE r == [current_transaction_[m] EXCEPT !.transaction_id = id, !.state = "IDLE",
                                                  !.download_path = NoId]
  <1>1. pc[m] = "ready" /\ owns_lock_[m]
    BY WritersOwn DEF create_transaction
  <1>2. r \in TransactionRecord
    <2>1. current_transaction_[m] \in TransactionRecord
      BY DEF RecordInv, TypeOK
    <2> QED BY <2>1 DEF TransactionRecord, TransactionState
  <1>3. r.transaction_id = id /\ r.download_path = NoId
    BY DEF RecordInv, TypeOK, TransactionRecord
  <1>4. used_ids \subseteq used_ids' /\ used_ids' \subseteq TxId /\ id \in used_ids'
    BY DEF create_transaction, RecordInv, TypeOK
  <1>5. DiskRecord = Empty \/ DiskRecord.transaction_id # id
    BY ManagerAssumption DEF create_transaction, RecordInv, RecordsWellFormed, well_formed, DiskRecord, TypeOK
  <1>6. may_replace(r, DiskRecord)
    BY <1>3, <1>5 DEF may_replace
  <1>7. persist(m, r, "return") /\ in_sync' = [in_sync EXCEPT ![m] = TRUE]
    BY DEF create_transaction
  <1> HIDE DEF r
  <1> QED BY <1>1, <1>2, <1>3, <1>4, <1>6, <1>7, PersistKeepsInv

LEMMA UpdateStateKeepsInv ==
  ASSUME Disciplined, RecordInv, NEW m \in Manager, NEW state \in TransactionState,
         NEW next \in {"return", "record_history"}, update_state(m, state, next),
         next = "record_history" => state \in Outcome
  PROVE  RecordInv'
  <1> DEFINE old == current_transaction_[m]
             r == [old EXCEPT !.state = state]
  <1>1. pc[m] = "ready" /\ owns_lock_[m] /\ may_write(m) /\ in_sync[m]
    BY WritersOwn DEF update_state
  <1>2. DiskRecord = old /\ old \in TransactionRecord /\ well_formed(old)
    BY <1>1, InSession
  <1>3. /\ r \in TransactionRecord
        /\ r.transaction_id = old.transaction_id
        /\ r.download_path = old.download_path
        /\ r.state = state
    BY <1>2 DEF TransactionRecord
  <1>4. may_replace(r, DiskRecord)
    BY <1>2, <1>3 DEF update_state, may_replace
  <1>5. persist(m, r, next) /\ UNCHANGED <<used_ids, in_sync>>
    BY DEF update_state
  <1>6. in_sync' = [in_sync EXCEPT ![m] = TRUE]
    BY <1>1, <1>5, InSession
  <1>7. used_ids \subseteq used_ids' /\ used_ids' \subseteq TxId
    BY <1>5 DEF RecordInv, TypeOK
  <1>8. r.transaction_id \in used_ids' \cup {NoId} /\ r.download_path \in {NoId, r.transaction_id}
    BY <1>2, <1>3, <1>5 DEF well_formed
  <1> HIDE DEF r, old
  <1> QED BY <1>1, <1>3, <1>4, <1>5, <1>6, <1>7, <1>8, PersistKeepsInv

LEMMA FinishKeepsInv ==
  ASSUME Disciplined, RecordInv, NEW m \in Manager, complete_transaction(m) \/ record_failure(m)
  PROVE  RecordInv'
  <1>1. "INSTALLED" \in Outcome /\ "FAILED" \in Outcome
        /\ "INSTALLED" \in TransactionState /\ "FAILED" \in TransactionState
    BY DEF Outcome, TransactionState
  <1> QED BY <1>1, UpdateStateKeepsInv DEF complete_transaction, record_failure

\* The setters persist the record with one field changed.
LEMMA SettersKeepInv ==
  ASSUME Disciplined, RecordInv, NEW m \in Manager,
         update_download_path(m) \/ update_target_slot(m)
  PROVE  RecordInv'
  <1> DEFINE old == current_transaction_[m]
  <1>1. pc[m] = "ready" /\ owns_lock_[m] /\ may_write(m) /\ in_sync[m]
    BY WritersOwn DEF update_download_path, update_target_slot
  <1>2. DiskRecord = old /\ old \in TransactionRecord /\ well_formed(old)
    BY <1>1, InSession
  <1>3. PICK r \in {[old EXCEPT !.download_path = old.transaction_id],
                    old} : persist(m, r, "return")
    BY DEF update_download_path, update_target_slot
  <1>4. /\ r \in TransactionRecord
        /\ r.transaction_id = old.transaction_id
        /\ r.state = old.state
        /\ r.download_path \in {old.download_path, old.transaction_id}
    BY <1>2, <1>3 DEF TransactionRecord
  <1>5. UNCHANGED <<used_ids, in_sync>>
    BY DEF update_download_path, update_target_slot
  <1>6. in_sync' = [in_sync EXCEPT ![m] = TRUE]
    BY <1>1, <1>5, InSession
  <1>7. used_ids \subseteq used_ids' /\ used_ids' \subseteq TxId
    BY <1>5 DEF RecordInv, TypeOK
  <1>8. r.transaction_id \in used_ids' \cup {NoId} /\ r.download_path \in {NoId, r.transaction_id}
    BY <1>2, <1>4, <1>5 DEF well_formed
  <1>9. may_replace(r, DiskRecord)
    BY <1>2, <1>4 DEF may_replace
  <1> HIDE DEF old
  <1> QED BY <1>1, <1>3, <1>4, <1>6, <1>7, <1>8, <1>9, PersistKeepsInv

\* Loading brings memory in line with the disk.
LEMMA LoadKeepsInv ==
  ASSUME Disciplined, RecordInv, NEW m \in Manager, load_transaction(m)
  PROVE  RecordInv'
  <1> USE DEF load_transaction, lock_vars, disk_vars
  <1>1. pc[m] = "ready" /\ owns_lock_[m]
    BY WritersOwn
  <1>2. DiskRecord \in TransactionRecord /\ well_formed(DiskRecord) /\ UNCHANGED DiskRecord
    BY DEF RecordInv, TypeOK, DiskRecord, RecordsWellFormed
  <1>3. TypeOK'
    BY <1>2 DEF RecordInv, TypeOK, LockTypeOK, Steps
  <1>4. OwnersHoldKernelLock' /\ OwnersRun' /\ CallsUnderLock'
    BY DEF RecordInv, OwnersHoldKernelLock, OwnersRun, running, CallsUnderLock
  <1>5. WriterHasTmp'
    BY <1>1 DEF RecordInv, WriterHasTmp, TypeOK
  <1>6. NamesApart' /\ WholeUnderPower'
    BY DEF RecordInv, NamesApart, WholeUnderPower, RecordNeverTorn
  <1>7. MemoryOnDisk'
    BY <1>1, <1>2 DEF RecordInv, MemoryOnDisk, persisting, TypeOK
  <1>8. PendingIsStep'
    BY <1>1, <1>2 DEF RecordInv, PendingIsStep, persisting, may_replace, TypeOK
  <1>9. RecordsWellFormed'
    BY <1>2 DEF RecordInv, RecordsWellFormed, well_formed, TypeOK
  <1>10. ReturnWhenReady' /\ OutcomePending' /\ LossesKnown'
    <2>2. ReturnWhenReady'
      BY DEF RecordInv, ReturnWhenReady, persisting
    <2>3. LossesKnown'
      BY DEF RecordInv, LossesKnown
    <2> SUFFICES ASSUME NEW n \in Manager, pc'[n] = "list" \/ on_success'[n] = "record_history"
                 PROVE  current_transaction_'[n].state \in Outcome
      BY <2>2, <2>3 DEF RecordInv, OutcomePending
    <2>1. n # m
      BY <1>1 DEF RecordInv, ReturnWhenReady, persisting
    <2> QED BY <2>1 DEF RecordInv, OutcomePending, LossesKnown, TypeOK
  <1> QED BY <1>3, <1>4, <1>5, <1>6, <1>7, <1>8, <1>9, <1>10 DEF RecordInv

-----------------------------------------------------------------------------
(* persist_transaction, with the running call alone. *)

LEMMA OpenKeepsInv ==
  ASSUME Disciplined, RecordInv, NEW m \in Manager, open_tmp(m)
  PROVE  RecordInv'
  <1> USE DEF open_tmp, lock_vars
  <1>1. pc[m] = "open" /\ owns_lock_[m] /\ file[m] = NoInode
    BY DEF RecordInv, CallsUnderLock, WriterHasTmp
  <1>2. PICK i \in Inode : /\ IF tmp_file = NoInode THEN free(i) ELSE i = tmp_file
                           /\ tmp_file' = i
                           /\ content' = [content EXCEPT ![i] = Empty]
                           /\ file' = [file EXCEPT ![m] = i]
    OBVIOUS
  <1>3. i # transaction_file /\ i # NoInode
    BY <1>2, ManagerAssumption DEF free, RecordInv, NamesApart
  <1>4. TypeOK'
    BY <1>2 DEF RecordInv, TypeOK, LockTypeOK, Steps
  <1>5. OwnersHoldKernelLock' /\ OwnersRun' /\ CallsUnderLock'
    BY <1>1 DEF RecordInv, OwnersHoldKernelLock, OwnersRun, running, CallsUnderLock, TypeOK
  <1>6. WriterHasTmp'
    <2> SUFFICES ASSUME NEW n \in Manager
                 PROVE  /\ pc'[n] \in {"write", "rename"} <=> file'[n] # NoInode
                        /\ file'[n] # NoInode => file'[n] = tmp_file'
                        /\ pc'[n] = "rename" => content'[tmp_file'] = current_transaction_'[n]
      BY DEF WriterHasTmp
    <2>1. CASE n = m
      BY <2>1, <1>2, <1>3 DEF RecordInv, TypeOK
    <2>2. CASE n # m
      <3>1. pc'[n] = "ready" /\ file'[n] = file[n] /\ pc[n] = "ready"
        BY <2>2, <1>1, <1>2, Alone DEF RecordInv, TypeOK
      <3>2. file[n] = NoInode
        BY <3>1 DEF RecordInv, WriterHasTmp
      <3> QED BY <3>1, <3>2
    <2> QED BY <2>1, <2>2
  <1>7. NamesApart' /\ WholeUnderPower' /\ UNCHANGED DiskRecord
    BY <1>2, <1>3 DEF RecordInv, NamesApart, WholeUnderPower, RecordNeverTorn, DiskRecord, TypeOK
  <1>8. MemoryOnDisk'
    BY <1>7 DEF RecordInv, MemoryOnDisk, persisting, TypeOK
  <1>9. PendingIsStep'
    BY <1>1, <1>7 DEF RecordInv, PendingIsStep, persisting, may_replace, TypeOK
  <1>10. RecordsWellFormed'
    BY <1>2 DEF RecordInv, RecordsWellFormed, well_formed, TypeOK
  <1>11. ReturnWhenReady' /\ OutcomePending' /\ LossesKnown'
    BY DEF RecordInv, ReturnWhenReady, persisting, OutcomePending, LossesKnown, TypeOK
  <1> QED BY <1>4, <1>5, <1>6, <1>7, <1>8, <1>9, <1>10, <1>11 DEF RecordInv

LEMMA WriteKeepsInv ==
  ASSUME Disciplined, RecordInv, NEW m \in Manager, write_tmp(m)
  PROVE  RecordInv'
  <1> USE DEF write_tmp, lock_vars
  <1>1. pc[m] = "write" /\ owns_lock_[m] /\ file[m] = tmp_file /\ tmp_file # NoInode /\ tmp_file \in Inode
    BY DEF RecordInv, CallsUnderLock, WriterHasTmp, TypeOK
  <1>2. content' = [content EXCEPT ![tmp_file] = current_transaction_[m]]
    BY <1>1
  <1>3. TypeOK'
    BY <1>1 DEF RecordInv, TypeOK, LockTypeOK, Steps
  <1>4. OwnersHoldKernelLock' /\ OwnersRun' /\ CallsUnderLock'
    BY <1>1 DEF RecordInv, OwnersHoldKernelLock, OwnersRun, running, CallsUnderLock, TypeOK
  <1>5. WriterHasTmp'
    <2> SUFFICES ASSUME NEW n \in Manager
                 PROVE  /\ pc'[n] \in {"write", "rename"} <=> file'[n] # NoInode
                        /\ file'[n] # NoInode => file'[n] = tmp_file'
                        /\ pc'[n] = "rename" => content'[tmp_file'] = current_transaction_'[n]
      BY DEF WriterHasTmp
    <2>1. CASE n = m
      BY <2>1, <1>1, <1>2 DEF RecordInv, TypeOK
    <2>2. CASE n # m
      <3>1. pc'[n] = "ready" /\ pc[n] = "ready"
        BY <2>2, <1>1, Alone DEF RecordInv, TypeOK
      <3>2. file[n] = NoInode
        BY <3>1 DEF RecordInv, WriterHasTmp
      <3> QED BY <3>1, <3>2
    <2> QED BY <2>1, <2>2
  <1>6. NamesApart' /\ WholeUnderPower' /\ UNCHANGED DiskRecord
    BY <1>1, <1>2 DEF RecordInv, NamesApart, WholeUnderPower, RecordNeverTorn, DiskRecord, TypeOK
  <1>7. MemoryOnDisk'
    BY <1>6 DEF RecordInv, MemoryOnDisk, persisting, TypeOK
  <1>8. PendingIsStep'
    BY <1>1, <1>6 DEF RecordInv, PendingIsStep, persisting, may_replace, TypeOK
  <1>9. RecordsWellFormed'
    BY <1>2 DEF RecordInv, RecordsWellFormed, well_formed, TypeOK
  <1>10. ReturnWhenReady' /\ OutcomePending' /\ LossesKnown'
    BY DEF RecordInv, ReturnWhenReady, persisting, OutcomePending, LossesKnown, TypeOK
  <1> QED BY <1>3, <1>4, <1>5, <1>6, <1>7, <1>8, <1>9, <1>10 DEF RecordInv

\* The rename publishes what the call wrote: one step of the table.
LEMMA RenameKeepsInv ==
  ASSUME Disciplined, RecordInv, NEW m \in Manager, rename_tmp(m)
  PROVE  RecordInv'
  <1> USE DEF rename_tmp, lock_vars
  <1>1. /\ pc[m] = "rename" /\ owns_lock_[m] /\ file[m] = tmp_file
        /\ tmp_file # NoInode /\ tmp_file \in Inode
        /\ content[tmp_file] = current_transaction_[m]
        /\ in_sync[m] /\ may_replace(current_transaction_[m], DiskRecord)
    BY DEF RecordInv, CallsUnderLock, WriterHasTmp, TypeOK, PendingIsStep, persisting
  <1>2. current_transaction_[m] \in TransactionRecord /\ current_transaction_[m] # Empty
    BY EmptyAssumption DEF RecordInv, TypeOK
  <1>3. content'[tmp_file] = current_transaction_[m]
    BY <1>1 DEF free_after_rename, RecordInv, NamesApart, TypeOK
  <1>4. DiskRecord' = current_transaction_[m] /\ transaction_file' = tmp_file
    BY <1>1, <1>3 DEF DiskRecord
  <1>14. LossesSound'
    <2> DEFINE outcomes == [record : {Empty, content[tmp_file]}, history : {d.history : d \in latest}]
    <2>1. names_change(outcomes) /\ UNCHANGED <<used_ids, history_dir>>
      OBVIOUS
    <2>2. latest # {} /\ latest \subseteq Outcomes_of_loss /\ \A d \in latest : d.history \subseteq history_dir
      BY SoundOfRecordInv DEF LossesSound, LossesKnown
    <2>3. well_formed(content[tmp_file])
      BY <1>1 DEF RecordInv, RecordsWellFormed
    <2>4. \A h \in {d.history : d \in latest} : h \subseteq history_dir /\ h \in SUBSET TransactionHistoryEntry
      BY <2>2 DEF Outcomes_of_loss
    <2>5. \A d \in outcomes : d.record \in {Empty, content[tmp_file]} /\ d.history \in {x.history : x \in latest}
      OBVIOUS
    <2>6. outcomes \subseteq Outcomes_of_loss
      BY <1>1, <1>2, <2>4 DEF Outcomes_of_loss
    <2>7. outcomes # {}
      <3>1. PICK d \in latest : TRUE
        BY <2>2
      <3>2. [record |-> Empty, history |-> d.history] \in outcomes
        BY <3>1
      <3> QED BY <3>2
    <2> HIDE DEF outcomes
    <2> QED BY <2>1, <2>3, <2>4, <2>5, <2>6, <2>7, NamesChangeSound
  <1>5. TypeOK'
    <2>1. content' \in [Inode -> TransactionRecord \cup {Empty}]
      BY DEF RecordInv, TypeOK
    <2>2. reached' \subseteq (TxId \cup {NoId}) \X TransactionState
      BY <1>1, <1>2 DEF RecordInv, TypeOK, TransactionRecord
    <2> QED BY <2>1, <2>2, <1>1, <1>14 DEF RecordInv, TypeOK, LockTypeOK, Steps, LossesSound
  <1>6. OwnersHoldKernelLock' /\ OwnersRun' /\ CallsUnderLock'
    BY <1>1 DEF RecordInv, OwnersHoldKernelLock, OwnersRun, running, CallsUnderLock, TypeOK
  <1>7. \A n \in Manager : file'[n] = NoInode /\ pc'[n] \notin {"open", "write", "rename"}
    <2> SUFFICES ASSUME NEW n \in Manager
                 PROVE  file'[n] = NoInode /\ pc'[n] \notin {"open", "write", "rename"}
      OBVIOUS
    <2>1. CASE n = m
      BY <2>1 DEF RecordInv, TypeOK
    <2>2. CASE n # m
      <3>1. pc'[n] = "ready" /\ pc[n] = "ready" /\ file'[n] = file[n]
        BY <2>2, <1>1, Alone DEF RecordInv, TypeOK
      <3>2. file[n] = NoInode
        BY <3>1 DEF RecordInv, WriterHasTmp
      <3> QED BY <3>1, <3>2
    <2> QED BY <2>1, <2>2
  <1>8. WriterHasTmp'
    BY <1>7 DEF WriterHasTmp
  <1>9. NamesApart' /\ WholeUnderPower'
    BY <1>1, <1>2, <1>3 DEF NamesApart, WholeUnderPower, RecordNeverTorn
  <1>10. MemoryOnDisk'
    <2> SUFFICES ASSUME NEW n \in Manager, in_sync[n]
                 PROVE  owns_lock_[n] /\ DiskRecord' = current_transaction_[n]
      BY DEF MemoryOnDisk
    <2>1. owns_lock_[n]
      BY DEF RecordInv, MemoryOnDisk
    <2>2. n = m
      BY <2>1, <1>1, Alone
    <2> QED BY <2>1, <2>2, <1>4
  <1>11. PendingIsStep'
    BY <1>7 DEF PendingIsStep, persisting
  <1>12. RecordsWellFormed'
    BY <1>14 DEF RecordInv, RecordsWellFormed, well_formed, TypeOK, LossesSound
  <1>13. ReturnWhenReady' /\ OutcomePending' /\ LossesKnown'
    <2>1. ReturnWhenReady'
      <3> SUFFICES ASSUME NEW n \in Manager PROVE on_success'[n] # "record_history"
        BY DEF ReturnWhenReady
      <3>1. CASE n = m
        BY <3>1 DEF RecordInv, TypeOK
      <3>2. CASE n # m
        BY <3>2, <1>1, Alone DEF RecordInv, TypeOK, ReturnWhenReady, persisting
      <3> QED BY <3>1, <3>2
    <2>2. OutcomePending' /\ LossesKnown'
      BY <1>14 DEF RecordInv, OutcomePending, TypeOK, LossesSound
    <2> QED BY <2>1, <2>2
  <1> QED BY <1>5, <1>6, <1>8, <1>9, <1>10, <1>11, <1>12, <1>13 DEF RecordInv

\* A failure ends the session: the caller has to load the record again.
LEMMA FailKeepsInv ==
  ASSUME Disciplined, RecordInv, NEW m \in Manager, persist_fails(m)
  PROVE  RecordInv'
  <1> USE DEF persist_fails, call_fails, lock_vars, disk_vars
  <1>1. owns_lock_[m]
    BY DEF RecordInv, CallsUnderLock
  <1>2. in_sync' = [in_sync EXCEPT ![m] = FALSE]
    BY DEF Disciplined
  <1>3. TypeOK'
    BY <1>2 DEF RecordInv, TypeOK, LockTypeOK, Steps
  <1>4. OwnersHoldKernelLock' /\ OwnersRun' /\ CallsUnderLock'
    BY <1>1 DEF RecordInv, OwnersHoldKernelLock, OwnersRun, running, CallsUnderLock, TypeOK
  <1>5. WriterHasTmp'
    BY DEF RecordInv, WriterHasTmp, TypeOK
  <1>6. NamesApart' /\ WholeUnderPower' /\ UNCHANGED DiskRecord
    BY DEF RecordInv, NamesApart, WholeUnderPower, RecordNeverTorn, DiskRecord
  <1>7. MemoryOnDisk'
    BY <1>2, <1>6 DEF RecordInv, MemoryOnDisk, persisting, TypeOK
  <1>8. PendingIsStep'
    BY <1>2, <1>6 DEF RecordInv, PendingIsStep, persisting, may_replace, TypeOK
  <1>9. RecordsWellFormed'
    BY DEF RecordInv, RecordsWellFormed, well_formed, TypeOK
  <1>10. ReturnWhenReady' /\ OutcomePending' /\ LossesKnown'
    BY DEF RecordInv, ReturnWhenReady, persisting, OutcomePending, LossesKnown, TypeOK
  <1> QED BY <1>3, <1>4, <1>5, <1>6, <1>7, <1>8, <1>9, <1>10 DEF RecordInv

-----------------------------------------------------------------------------
(* record_history touches neither the record nor the lock. *)

\* What pruning the listing with the new entry appended leaves.
LEMMA PrunedListing ==
  ASSUME NEW dir, dir \subseteq TransactionHistoryEntry, IsFiniteSet(dir),
         NEW s \in listings(dir), NEW e \in TransactionHistoryEntry
  PROVE  prune_history(Append(s, e)) \in Seq(TransactionHistoryEntry)
  <1>1. Cardinality(dir) \in Nat
    BY FS_CardinalityType
  <1>2. s \in Seq(TransactionHistoryEntry)
    BY <1>1 DEF listings
  <1>3. Append(s, e) \in Seq(TransactionHistoryEntry)
    BY <1>2
  <1> HIDE DEF listings
  <1> DEFINE t == Append(s, e)
  <1>4. t \in Seq(TransactionHistoryEntry)
    BY <1>3
  <1> HIDE DEF t
  <1>5. CASE Len(t) > max_history_entries
    <2>1. SubSeq(t, 1, max_history_entries) \in Seq(TransactionHistoryEntry)
      BY <1>4, <1>5, ManagerAssumption
    <2> QED BY <2>1, <1>5 DEF prune_history, t
  <1>6. CASE ~(Len(t) > max_history_entries)
    BY <1>6, <1>4 DEF prune_history, t
  <1> QED BY <1>5, <1>6

\* Steps of record_history leave everything but the history as it is.
LEMMA HistoryStepKeepsInv ==
  ASSUME RecordInv, NEW m \in Manager, pc[m] \in {"list", "clear", "save"},
         NEW next \in {"ready", "clear", "save"}, pc' = [pc EXCEPT ![m] = next],
         unchanged_by_history,
         history_' \in [Manager -> Seq(TransactionHistoryEntry)],
         history_dir' \subseteq TransactionHistoryEntry, IsFiniteSet(history_dir'),
         overlooked' \in BOOLEAN, LossesSound'
  PROVE  RecordInv'
  <1> USE DEF unchanged_by_history, lock_vars
  <1>1. owns_lock_[m] /\ ~persisting(m)
    BY DEF RecordInv, CallsUnderLock, persisting
  <1>2. TypeOK'
    BY DEF RecordInv, TypeOK, LockTypeOK, Steps, LossesSound
  <1>3. OwnersHoldKernelLock' /\ OwnersRun' /\ CallsUnderLock'
    BY <1>1 DEF RecordInv, OwnersHoldKernelLock, OwnersRun, running, CallsUnderLock, TypeOK
  <1>4. WriterHasTmp'
    BY DEF RecordInv, WriterHasTmp, TypeOK
  <1>5. NamesApart' /\ WholeUnderPower' /\ UNCHANGED DiskRecord
    BY DEF RecordInv, NamesApart, WholeUnderPower, RecordNeverTorn, DiskRecord
  <1>6. MemoryOnDisk'
    BY <1>1, <1>5 DEF RecordInv, MemoryOnDisk, persisting, TypeOK
  <1>7. PendingIsStep'
    BY <1>5 DEF RecordInv, PendingIsStep, persisting, may_replace, TypeOK
  <1>8. RecordsWellFormed'
    BY DEF RecordInv, RecordsWellFormed, well_formed, TypeOK, LossesSound
  <1>9. ReturnWhenReady' /\ OutcomePending' /\ LossesKnown'
    BY <1>1 DEF RecordInv, ReturnWhenReady, persisting, OutcomePending, LossesSound, TypeOK
  <1> QED BY <1>2, <1>3, <1>4, <1>5, <1>6, <1>7, <1>8, <1>9 DEF RecordInv

\* Steps of record_history that touch the directory.
LEMMA HistoryLosses ==
  ASSUME RecordInv, NEW m \in Manager, list_history(m) \/ clear_history(m) \/ save_history(m)
  PROVE  \/ UNCHANGED <<history_dir, latest, earlier>>
         \/ \E outcomes : names_change(outcomes) /\ carried(outcomes, history_dir')
  <1>1. CASE list_history(m)
    BY <1>1 DEF list_history
  <1>2. CASE clear_history(m)
    <2>1. \/ UNCHANGED <<history_dir, latest, earlier>>
          \/ \E e \in history_dir :
                /\ history_dir' = history_dir \ {e}
                /\ names_change({[d EXCEPT !.history = @ \ {e}] : d \in latest})
      BY <1>2 DEF clear_history
    <2> QED BY <2>1, ClearedCarried
  <1>3. CASE save_history(m)
    <2> DEFINE e == Head(history_[m])
               rest == others(history_dir, e.transaction_id)
    <2>1. \/ UNCHANGED <<history_dir, latest, earlier>>
          \/ /\ history_[m] # <<>>
             /\ \/ history_dir' = rest \cup {e} /\ names_change(emptied(e) \cup entered(e))
                \/ history_dir' = rest /\ names_change(emptied(e))
      BY <1>3 DEF save_history
    <2>2. CASE history_[m] # <<>>
      <3>1. history_[m] \in Seq(TransactionHistoryEntry)
        BY DEF RecordInv, TypeOK
      <3>2. e \in TransactionHistoryEntry
        BY <2>2, <3>1
      <3>3. carried(emptied(e), rest) /\ carried(emptied(e) \cup entered(e), rest \cup {e})
        BY <3>2, EmptiedCarried, EnteredCarried
      <3> HIDE DEF e, rest
      <3> QED BY <2>1, <3>3
    <2> HIDE DEF e, rest
    <2> QED BY <2>1, <2>2
  <1> QED BY <1>1, <1>2, <1>3

LEMMA HistoryLossesSound ==
  ASSUME RecordInv, NEW m \in Manager, list_history(m) \/ clear_history(m) \/ save_history(m)
  PROVE  LossesSound'
  <1>1. UNCHANGED used_ids
    BY DEF list_history, clear_history, save_history, unchanged_by_history
  <1>2. CASE UNCHANGED <<history_dir, latest, earlier>>
    BY <1>1, <1>2, SoundOfRecordInv DEF LossesSound, LossesKnown, well_formed
  <1>3. CASE \E outcomes : names_change(outcomes) /\ carried(outcomes, history_dir')
    BY <1>1, <1>3, CarriedSound
  <1> QED BY <1>2, <1>3, HistoryLosses

LEMMA ListKeepsInv ==
  ASSUME Disciplined, RecordInv, NEW m \in Manager, list_history(m)
  PROVE  RecordInv'
  <1>1. pc[m] = "list" /\ unchanged_by_history /\ UNCHANGED <<history_dir, latest, earlier>>
        /\ overlooked' \in BOOLEAN
    BY DEF list_history, RecordInv, TypeOK
  <1>2. history_dir \subseteq TransactionHistoryEntry /\ IsFiniteSet(history_dir)
    BY DEF RecordInv, TypeOK, OutcomePending, LossesKnown
  <1>3. history_entry(m) \in TransactionHistoryEntry
    <2>1. current_transaction_[m] \in TransactionRecord /\ current_transaction_[m].state \in Outcome
      BY <1>1 DEF RecordInv, TypeOK, OutcomePending, LossesKnown
    <2>2. clock \in 0..MaxClock
      BY DEF RecordInv, TypeOK
    <2> QED BY <2>1, <2>2 DEF history_entry, TransactionHistoryEntry, TransactionRecord
  <1>4. /\ history_' \in [Manager -> Seq(TransactionHistoryEntry)]
        /\ \E next \in {"ready", "clear"} : pc' = [pc EXCEPT ![m] = next]
    <2>1. CASE io_failure /\ history_done(m)
      BY <2>1 DEF history_done, RecordInv, TypeOK
    <2>2. ASSUME NEW seen \in SUBSET history_dir, NEW s \in listings(seen),
                 history_' = [history_ EXCEPT ![m] = prune_history(Append(s, history_entry(m)))],
                 pc' = [pc EXCEPT ![m] = "clear"]
          PROVE  /\ history_' \in [Manager -> Seq(TransactionHistoryEntry)]
                 /\ \E next \in {"ready", "clear"} : pc' = [pc EXCEPT ![m] = next]
      <3>1. seen \subseteq TransactionHistoryEntry /\ IsFiniteSet(seen)
        BY <1>2, FS_Subset
      <3>2. prune_history(Append(s, history_entry(m))) \in Seq(TransactionHistoryEntry)
        BY <1>3, <3>1, PrunedListing
      <3> QED BY <2>2, <3>2 DEF RecordInv, TypeOK
    <2>3. \/ io_failure /\ history_done(m)
          \/ \E seen \in SUBSET history_dir : \E s \in listings(seen) :
                /\ history_' = [history_ EXCEPT ![m] = prune_history(Append(s, history_entry(m)))]
                /\ pc' = [pc EXCEPT ![m] = "clear"]
      BY DEF list_history
    <2> QED BY <2>1, <2>2, <2>3
  <1> QED BY <1>1, <1>2, <1>4, HistoryLossesSound, HistoryStepKeepsInv

LEMMA ClearKeepsInv ==
  ASSUME Disciplined, RecordInv, NEW m \in Manager, clear_history(m)
  PROVE  RecordInv'
  <1>1. pc[m] = "clear" /\ unchanged_by_history /\ UNCHANGED <<history_, overlooked>>
    BY DEF clear_history
  <1>2. history_dir' \subseteq history_dir
    BY DEF clear_history
  <1>3. history_dir' \subseteq TransactionHistoryEntry /\ IsFiniteSet(history_dir')
    BY <1>2, FS_Subset DEF RecordInv, TypeOK, OutcomePending
  <1>4. \E next \in {"clear", "save"} : pc' = [pc EXCEPT ![m] = next]
    BY <1>1 DEF clear_history, RecordInv, TypeOK
  <1>5. history_' \in [Manager -> Seq(TransactionHistoryEntry)] /\ overlooked' \in BOOLEAN
    BY <1>1 DEF RecordInv, TypeOK
  <1> QED BY <1>1, <1>3, <1>4, <1>5, HistoryLossesSound, HistoryStepKeepsInv

LEMMA SaveKeepsInv ==
  ASSUME Disciplined, RecordInv, NEW m \in Manager, save_history(m)
  PROVE  RecordInv'
  <1>1. pc[m] = "save" /\ unchanged_by_history /\ overlooked' \in BOOLEAN
    BY DEF save_history, RecordInv, TypeOK
  <1>2. history_[m] \in Seq(TransactionHistoryEntry) /\ IsFiniteSet(history_dir)
        /\ history_dir \subseteq TransactionHistoryEntry
    BY DEF RecordInv, TypeOK, OutcomePending
  <1>3. /\ history_' \in [Manager -> Seq(TransactionHistoryEntry)]
        /\ \E next \in {"ready", "save"} : pc' = [pc EXCEPT ![m] = next]
        /\ history_dir' \subseteq TransactionHistoryEntry
        /\ IsFiniteSet(history_dir')
    <2>1. CASE history_[m] = <<>>
      BY <1>2, <2>1 DEF save_history, history_done, RecordInv, TypeOK
    <2>2. CASE history_[m] # <<>>
      <3> DEFINE e == Head(history_[m])
                 rest == others(history_dir, e.transaction_id)
      <3>1. e \in TransactionHistoryEntry /\ Tail(history_[m]) \in Seq(TransactionHistoryEntry)
        BY <1>2, <2>2
      <3>2. rest \subseteq history_dir
        BY DEF others
      <3>3. IsFiniteSet(rest)
        BY <1>2, <3>2, FS_Subset
      <3>4. IsFiniteSet(rest \cup {e})
        BY <3>3, FS_AddElement
      <3>5. history_dir' \in {rest, rest \cup {e}, history_dir}
        BY <2>2 DEF save_history
      <3>6. (history_' = [history_ EXCEPT ![m] = Tail(@)] /\ UNCHANGED pc) \/ history_done(m)
        BY <2>2 DEF save_history
      <3>7. history_' \in [Manager -> Seq(TransactionHistoryEntry)]
        <4>1. history_ \in [Manager -> Seq(TransactionHistoryEntry)]
          BY DEF RecordInv, TypeOK
        <4>2. PICK h \in {Tail(history_[m]), <<>>} : history_' = [history_ EXCEPT ![m] = h]
          BY <3>6 DEF history_done
        <4>3. h \in Seq(TransactionHistoryEntry)
          <5>1. CASE h = <<>>
            BY <5>1
          <5>2. CASE h = Tail(history_[m])
            BY <3>1, <5>2
          <5> QED BY <4>2, <5>1, <5>2
        <4> QED BY <4>1, <4>2, <4>3
      <3>8. \E next \in {"ready", "save"} : pc' = [pc EXCEPT ![m] = next]
        BY <1>1, <3>6 DEF history_done, RecordInv, TypeOK
      <3> HIDE DEF e, rest
      <3> QED BY <1>2, <3>1, <3>2, <3>3, <3>4, <3>5, <3>7, <3>8
    <2> QED BY <2>1, <2>2
  <1> QED BY <1>1, <1>3, HistoryLossesSound, HistoryStepKeepsInv

-----------------------------------------------------------------------------
(* The lock, the clock and the processes. *)

\* Taking or dropping the lock between two calls.
LEMMA SessionKeepsInv ==
  ASSUME Disciplined, RecordInv, NEW m \in Manager, take_lock(m) \/ drop_lock(m)
  PROVE  RecordInv'
  <1> USE DEF unchanged_but_session, disk_vars
  <1>1. pc[m] = "ready" /\ unchanged_but_session
    BY DEF take_lock, drop_lock, between_calls
  <1>2. LockInv' 
    BY LockInvOfRecordInv, AcquireKeepsInv, ReleaseKeepsInv, ManagerAssumption DEF take_lock, drop_lock
  <1>3. /\ in_sync' \in [Manager -> BOOLEAN]
        /\ \/ in_sync' = in_sync /\ acquire_lock(m)
           \/ in_sync' = [in_sync EXCEPT ![m] = FALSE] /\ release_lock(m)
    <2>1. in_sync \in [Manager -> BOOLEAN]
      BY DEF RecordInv, TypeOK
    <2>2. CASE take_lock(m)
      BY <2>1, <2>2 DEF take_lock
    <2>3. CASE drop_lock(m)
      BY <2>1, <2>3 DEF drop_lock
    <2> QED BY <2>2, <2>3
  <1>4. \A n \in Manager : n # m => owns_lock_'[n] = owns_lock_[n]
    BY <1>3 DEF acquire_lock, release_lock, RecordInv, TypeOK, LockTypeOK
  <1>5. TypeOK'
    BY <1>1, <1>2, <1>3 DEF LockInv, RecordInv, TypeOK
  <1>6. OwnersHoldKernelLock' /\ OwnersRun' /\ CallsUnderLock'
    <2>1. running(m) /\ alive' = alive
      BY <1>3 DEF acquire_lock, release_lock
    <2> QED BY <1>1, <1>2, <1>4, <2>1 DEF LockInv, RecordInv, OwnersRun, running, CallsUnderLock
  <1>7. WriterHasTmp' /\ NamesApart' /\ WholeUnderPower' /\ UNCHANGED DiskRecord
    BY <1>1 DEF RecordInv, WriterHasTmp, NamesApart, WholeUnderPower, RecordNeverTorn, DiskRecord
  <1>8. MemoryOnDisk'
    <2> SUFFICES ASSUME NEW n \in Manager, in_sync'[n]
                 PROVE  owns_lock_'[n] /\ (persisting(n) \/ DiskRecord = current_transaction_[n])
      BY <1>1, <1>7 DEF MemoryOnDisk, persisting
    <2>1. in_sync[n] /\ owns_lock_[n]
      BY <1>3 DEF RecordInv, TypeOK, MemoryOnDisk
    <2>2. owns_lock_'[n]
      BY <1>3, <1>4, <2>1 DEF acquire_lock, RecordInv, TypeOK, LockTypeOK
    <2> QED BY <2>1, <2>2 DEF RecordInv, MemoryOnDisk
  <1>9. PendingIsStep'
    BY <1>1, <1>3, <1>7 DEF RecordInv, PendingIsStep, persisting, may_replace, TypeOK
  <1>10. RecordsWellFormed'
    BY <1>1 DEF RecordInv, RecordsWellFormed, well_formed
  <1>11. ReturnWhenReady' /\ OutcomePending' /\ LossesKnown'
    BY <1>1 DEF RecordInv, ReturnWhenReady, persisting, OutcomePending, LossesKnown
  <1> QED BY <1>5, <1>6, <1>7, <1>8, <1>9, <1>10, <1>11 DEF RecordInv

\* A destroyed manager lets go of its lock, and the one constructed in its
\* place has no session.
LEMMA DestroyManagerKeepsInv ==
  ASSUME Disciplined, RecordInv, NEW m \in Manager, destroy(m)
  PROVE  RecordInv'
  <1> USE DEF disk_vars
  <1>1. pc[m] = "ready" /\ destroy_manager(m)
        /\ UNCHANGED <<clock, used_ids, history_, pc, on_success, file, disk_vars, reached, overlooked>>
    BY DEF destroy, between_calls
  <1>2. LockInv'
    BY <1>1, LockInvOfRecordInv, DestroyKeepsInv, ManagerAssumption
  <1>3. initial_record \in TransactionRecord /\ well_formed(initial_record)
    BY DEF initial_record, TransactionRecord, TransactionState, well_formed
  <1>4. /\ current_transaction_' \in [Manager -> TransactionRecord]
        /\ in_sync' \in [Manager -> BOOLEAN]
        /\ ~in_sync'[m] /\ current_transaction_'[m] = initial_record
    BY <1>3 DEF destroy, RecordInv, TypeOK
  <1>5. ASSUME NEW n \in Manager, n # m
        PROVE  /\ owns_lock_'[n] = owns_lock_[n] /\ in_sync'[n] = in_sync[n]
               /\ current_transaction_'[n] = current_transaction_[n]
    BY <1>1, <1>5 DEF destroy, destroy_manager, RecordInv, TypeOK, LockTypeOK
  <1>6. TypeOK'
    BY <1>1, <1>2, <1>4 DEF LockInv, RecordInv, TypeOK
  <1>7. OwnersHoldKernelLock' /\ OwnersRun' /\ CallsUnderLock'
    <2>1. running(m) /\ alive' = alive
      BY <1>1 DEF destroy_manager
    <2> QED BY <1>1, <1>2, <1>5, <2>1 DEF LockInv, RecordInv, OwnersRun, running, CallsUnderLock
  <1>8. UNCHANGED DiskRecord
    BY <1>1 DEF DiskRecord
  <1>9. WriterHasTmp' /\ NamesApart' /\ WholeUnderPower'
    BY <1>1, <1>5 DEF RecordInv, WriterHasTmp, NamesApart, WholeUnderPower, RecordNeverTorn
  <1>10. MemoryOnDisk'
    BY <1>1, <1>4, <1>5, <1>8 DEF RecordInv, MemoryOnDisk, persisting
  <1>11. PendingIsStep'
    BY <1>1, <1>5, <1>8 DEF RecordInv, PendingIsStep, persisting, may_replace
  <1>12. RecordsWellFormed'
    BY <1>1, <1>3, <1>4, <1>5 DEF RecordInv, RecordsWellFormed, well_formed
  <1>13. ReturnWhenReady' /\ OutcomePending' /\ LossesKnown'
    BY <1>1, <1>5 DEF RecordInv, ReturnWhenReady, persisting, OutcomePending, LossesKnown
  <1> QED BY <1>6, <1>7, <1>9, <1>10, <1>11, <1>12, <1>13 DEF RecordInv

\* The memory of dead managers is gone, with the lock they had; the others,
\* and the files, are as they were.
LEMMA ForgetKeepsInv ==
  ASSUME RecordInv, NEW dead \in SUBSET Process, locks_after_exit(dead), forget_memory(dead),
         UNCHANGED <<clock, used_ids, disk_vars, reached, overlooked>>
  PROVE  RecordInv'
  <1> USE DEF disk_vars
  <1>1. LockInv'
    BY LockInvOfRecordInv, ExitKeepsInv
  <1>2. initial_record \in TransactionRecord /\ well_formed(initial_record)
    BY DEF initial_record, TransactionRecord, TransactionState, well_formed
  <1>3. /\ current_transaction_' \in [Manager -> TransactionRecord]
        /\ in_sync' \in [Manager -> BOOLEAN]
        /\ pc' \in [Manager -> Steps]
        /\ on_success' \in [Manager -> {"return", "record_history"}]
        /\ file' \in [Manager -> Inode \cup {NoInode}]
    BY <1>2 DEF forget_memory, RecordInv, TypeOK, Steps
  <1>4. history_' \in [Manager -> Seq(TransactionHistoryEntry)]
    <2> SUFFICES ASSUME NEW n \in Manager
                 PROVE  (IF ProcessOf[n] \in dead THEN <<>> ELSE history_[n])
                           \in Seq(TransactionHistoryEntry)
      BY DEF forget_memory
    <2>1. history_[n] \in Seq(TransactionHistoryEntry)
      BY DEF RecordInv, TypeOK
    <2>2. <<>> \in Seq(TransactionHistoryEntry)
      OBVIOUS
    <2> QED BY <2>1, <2>2
  <1>5. TypeOK'
    BY <1>1, <1>3, <1>4 DEF LockInv, RecordInv, TypeOK
  <1>6. ASSUME NEW n \in Manager
        PROVE  IF ProcessOf[n] \in dead
               THEN /\ current_transaction_'[n] = initial_record /\ ~in_sync'[n] /\ pc'[n] = "ready"
                    /\ on_success'[n] = "return" /\ file'[n] = NoInode
               ELSE /\ current_transaction_'[n] = current_transaction_[n]
                    /\ in_sync'[n] = in_sync[n] /\ pc'[n] = pc[n]
                    /\ on_success'[n] = on_success[n] /\ file'[n] = file[n]
                    /\ owns_lock_'[n] = owns_lock_[n]
    BY DEF forget_memory, locks_after_exit, RecordInv, TypeOK, LockTypeOK
  <1>7. OwnersHoldKernelLock' /\ OwnersRun' /\ CallsUnderLock'
    <2>1. alive' = alive \ dead /\ \A n \in Manager : owns_lock_'[n] => owns_lock_[n] /\ ProcessOf[n] \notin dead
      BY DEF locks_after_exit
    <2> QED BY <1>1, <1>6, <2>1 DEF LockInv, RecordInv, OwnersRun, running, CallsUnderLock
  <1>8. WriterHasTmp'
    BY <1>6 DEF RecordInv, WriterHasTmp
  <1>9. NamesApart' /\ WholeUnderPower' /\ UNCHANGED DiskRecord
    BY DEF RecordInv, NamesApart, WholeUnderPower, RecordNeverTorn, DiskRecord
  <1>10. MemoryOnDisk'
    BY <1>6, <1>9 DEF RecordInv, MemoryOnDisk, persisting
  <1>11. PendingIsStep'
    BY <1>6, <1>9 DEF RecordInv, PendingIsStep, persisting, may_replace
  <1>12. RecordsWellFormed'
    BY <1>2, <1>6 DEF RecordInv, RecordsWellFormed, well_formed
  <1>13. ReturnWhenReady' /\ OutcomePending' /\ LossesKnown'
    BY <1>6 DEF RecordInv, ReturnWhenReady, persisting, OutcomePending, LossesKnown
  <1> QED BY <1>5, <1>7, <1>8, <1>9, <1>10, <1>11, <1>12, <1>13 DEF RecordInv

\* Only managers of running processes have anything in memory.
LEMMA TheDeadHaveNothing ==
  ASSUME RecordInv, NEW n \in Manager, ~running(n)
  PROVE  pc[n] = "ready" /\ file[n] = NoInode /\ ~in_sync[n] /\ on_success[n] = "return"
  <1>1. ~owns_lock_[n]
    BY DEF RecordInv, OwnersRun
  <1>2. pc[n] = "ready" /\ ~in_sync[n]
    BY <1>1 DEF RecordInv, CallsUnderLock, MemoryOnDisk
  <1> QED BY <1>2 DEF RecordInv, WriterHasTmp, ReturnWhenReady, persisting, TypeOK

\* A power loss takes every memory with it, and leaves what may be left.
LEMMA PowerLossKeepsInv ==
  ASSUME RecordInv, power_loss
  PROVE  RecordInv'
  <1>1. LockInv'
    <2>1. alive \in SUBSET Process
      BY DEF RecordInv, TypeOK, LockTypeOK
    <2> QED BY <2>1, LockInvOfRecordInv, ExitKeepsInv DEF power_loss
  <1>2. initial_record \in TransactionRecord /\ well_formed(initial_record)
    BY DEF initial_record, TransactionRecord, TransactionState, well_formed
  <1>3. ASSUME NEW n \in Manager
        PROVE  /\ pc'[n] = "ready" /\ file'[n] = NoInode /\ ~in_sync'[n]
               /\ on_success'[n] = "return" /\ ~owns_lock_'[n]
               /\ current_transaction_'[n] \in {initial_record, current_transaction_[n]}
    <2>1. CASE running(n)
      BY <2>1 DEF power_loss, forget_memory, locks_after_exit, running
    <2>2. CASE ~running(n)
      BY <2>2, TheDeadHaveNothing DEF power_loss, forget_memory, locks_after_exit, running, RecordInv, OwnersRun
    <2> QED BY <2>1, <2>2
  <1>4. PICK left \in latest \cup earlier, i \in Inode :
          /\ transaction_file' = i
          /\ tmp_file' \in {NoInode} \cup (Inode \ {i})
          /\ content' = [j \in Inode |-> IF j = i THEN left.record ELSE Empty]
          /\ history_dir' = left.history
          /\ latest' = {left}
    BY DEF power_loss
  <1>5. UNCHANGED <<clock, used_ids, reached, overlooked>> /\ earlier' = {} /\ "power" \in Faults
    BY DEF power_loss
  <1>11. /\ left \in Outcomes_of_loss /\ IsFiniteSet(left.history)
         /\ left.record # Empty => well_formed(left.record)
    BY SoundOfRecordInv, FS_Subset DEF LossesSound, LossesKnown
  <1>12. left.record \in TransactionRecord \cup {Empty} /\ left.history \subseteq TransactionHistoryEntry
    BY <1>11 DEF Outcomes_of_loss
  <1>6. TypeOK'
    <2>1. /\ current_transaction_' \in [Manager -> TransactionRecord]
          /\ in_sync' \in [Manager -> BOOLEAN]
          /\ pc' \in [Manager -> Steps]
          /\ on_success' \in [Manager -> {"return", "record_history"}]
          /\ file' \in [Manager -> Inode \cup {NoInode}]
      BY <1>2 DEF power_loss, forget_memory, RecordInv, TypeOK, Steps
    <2>2. history_' \in [Manager -> Seq(TransactionHistoryEntry)]
      <3> SUFFICES ASSUME NEW n \in Manager
                   PROVE  (IF ProcessOf[n] \in alive THEN <<>> ELSE history_[n])
                             \in Seq(TransactionHistoryEntry)
        BY DEF power_loss, forget_memory
      <3>1. history_[n] \in Seq(TransactionHistoryEntry)
        BY DEF RecordInv, TypeOK
      <3>2. <<>> \in Seq(TransactionHistoryEntry)
        OBVIOUS
      <3> QED BY <3>1, <3>2
    <2>3. /\ content' \in [Inode -> TransactionRecord \cup {Empty}]
          /\ latest' \cup earlier' \subseteq Outcomes_of_loss
      BY <1>4, <1>5, <1>11, <1>12
    <2> QED BY <1>1, <1>4, <1>5, <1>12, <2>1, <2>2, <2>3 DEF LockInv, RecordInv, TypeOK
  <1>7. OwnersHoldKernelLock' /\ OwnersRun' /\ CallsUnderLock'
    BY <1>1, <1>3 DEF LockInv, OwnersRun, CallsUnderLock
  <1>8. WriterHasTmp' /\ MemoryOnDisk' /\ PendingIsStep' /\ ReturnWhenReady'
    BY <1>3 DEF WriterHasTmp, MemoryOnDisk, PendingIsStep, persisting, ReturnWhenReady
  <1>9. NamesApart' /\ WholeUnderPower' /\ OutcomePending' /\ LossesKnown'
    BY <1>3, <1>4, <1>5, <1>11, ManagerAssumption
       DEF RecordInv, NamesApart, WholeUnderPower, OutcomePending, LossesKnown
  <1>10. RecordsWellFormed'
    <2>1. \A n \in Manager : well_formed(current_transaction_'[n])
      BY <1>2, <1>3 DEF RecordInv, RecordsWellFormed
    <2>2. \A j \in Inode : content'[j] # Empty => well_formed(content'[j])
      BY <1>4, <1>11
    <2>3. \A d \in latest' \cup earlier' : d.record # Empty => well_formed(d.record)
      BY <1>4, <1>5, <1>11
    <2> QED BY <1>5, <2>1, <2>2, <2>3 DEF RecordsWellFormed, well_formed
  <1> QED BY <1>6, <1>7, <1>8, <1>9, <1>10 DEF RecordInv

\* The clock and the start of a process concern no record.
LEMMA EnvironmentKeepsInv ==
  ASSUME RecordInv, tick \/ (\E p \in Process : start(p))
  PROVE  RecordInv'
  <1> USE DEF lock_vars, memory_vars, disk_vars
  <1>1. /\ UNCHANGED <<kernel_lock, lock_fd_, owns_lock_, used_ids, memory_vars, disk_vars,
                       reached, overlooked>>
        /\ alive \subseteq alive' /\ alive' \subseteq Process /\ clock' \in 0..MaxClock
    <2>1. clock \in Nat /\ clock \in 0..MaxClock
      BY ManagerAssumption DEF RecordInv, TypeOK
    <2>2. CASE tick
      BY <2>1, <2>2, ManagerAssumption DEF tick, RecordInv, TypeOK, LockTypeOK
    <2>3. CASE \E p \in Process : start(p)
      BY <2>1, <2>3 DEF start, start_process, RecordInv, TypeOK, LockTypeOK
    <2> QED BY <2>2, <2>3
  <1>2. TypeOK'
    BY <1>1 DEF RecordInv, TypeOK, LockTypeOK
  <1>3. OwnersHoldKernelLock' /\ OwnersRun' /\ CallsUnderLock' /\ WriterHasTmp' /\ NamesApart' /\ WholeUnderPower'
        /\ UNCHANGED DiskRecord
    BY <1>1 DEF RecordInv, OwnersHoldKernelLock, OwnersRun, running, CallsUnderLock, WriterHasTmp,
                NamesApart, WholeUnderPower, RecordNeverTorn, DiskRecord
  <1>4. MemoryOnDisk' /\ PendingIsStep'
    BY <1>1, <1>3 DEF RecordInv, MemoryOnDisk, PendingIsStep, persisting, may_replace
  <1>5. RecordsWellFormed' /\ ReturnWhenReady' /\ OutcomePending' /\ LossesKnown'
    BY <1>1 DEF RecordInv, RecordsWellFormed, well_formed, ReturnWhenReady, persisting, OutcomePending, LossesKnown
  <1> QED BY <1>2, <1>3, <1>4, <1>5 DEF RecordInv

\* What is on the disk then is the only thing a power loss can leave.
LEMMA WriteBackKeepsInv ==
  ASSUME RecordInv, write_back
  PROVE  RecordInv'
  <1> USE DEF lock_vars, memory_vars
  <1> DEFINE left == [record |-> DiskRecord, history |-> history_dir]
  <1>1. /\ UNCHANGED <<lock_vars, clock, used_ids, memory_vars, content, transaction_file, tmp_file,
                       history_dir, reached, overlooked>>
        /\ latest' = {left} /\ earlier' = {} /\ "power" \in Faults
    BY DEF write_back
  <1>2. /\ DiskRecord \in TransactionRecord \cup {Empty}
        /\ DiskRecord # Empty => well_formed(DiskRecord)
        /\ UNCHANGED DiskRecord
    BY <1>1 DEF RecordInv, TypeOK, RecordsWellFormed, DiskRecord
  <1>3. left \in Outcomes_of_loss
    BY <1>2 DEF RecordInv, TypeOK, Outcomes_of_loss
  <1>4. /\ left.record = DiskRecord /\ left.history = history_dir
    OBVIOUS
  <1> HIDE DEF left
  <1>5. TypeOK'
    BY <1>1, <1>3 DEF RecordInv, TypeOK, LockTypeOK
  <1>6. OwnersHoldKernelLock' /\ OwnersRun' /\ CallsUnderLock' /\ WriterHasTmp' /\ NamesApart' /\ WholeUnderPower'
    BY <1>1 DEF RecordInv, OwnersHoldKernelLock, OwnersRun, running, CallsUnderLock, WriterHasTmp,
                NamesApart, WholeUnderPower, RecordNeverTorn
  <1>7. MemoryOnDisk' /\ PendingIsStep'
    BY <1>1, <1>2 DEF RecordInv, MemoryOnDisk, PendingIsStep, persisting, may_replace
  <1>8. RecordsWellFormed'
    BY <1>1, <1>2, <1>4 DEF RecordInv, RecordsWellFormed, well_formed
  <1>9. ReturnWhenReady' /\ OutcomePending' /\ LossesKnown'
    BY <1>1, <1>4 DEF RecordInv, ReturnWhenReady, persisting, OutcomePending, LossesKnown
  <1> QED BY <1>5, <1>6, <1>7, <1>8, <1>9 DEF RecordInv

LEMMA StutterKeepsInv ==
  ASSUME RecordInv, UNCHANGED vars
  PROVE  RecordInv'
  <1> USE DEF vars, lock_vars, memory_vars, disk_vars
  <1>1. UNCHANGED DiskRecord
    BY DEF DiskRecord
  <1>2. TypeOK' /\ OwnersHoldKernelLock' /\ OwnersRun' /\ CallsUnderLock' /\ WriterHasTmp' /\ NamesApart'
        /\ WholeUnderPower'
    BY DEF RecordInv, TypeOK, LockTypeOK, OwnersHoldKernelLock, OwnersRun, running, CallsUnderLock,
           WriterHasTmp, NamesApart, WholeUnderPower, RecordNeverTorn
  <1>3. MemoryOnDisk' /\ PendingIsStep'
    BY <1>1 DEF RecordInv, MemoryOnDisk, PendingIsStep, persisting, may_replace
  <1>4. RecordsWellFormed' /\ ReturnWhenReady' /\ OutcomePending' /\ LossesKnown'
    BY DEF RecordInv, RecordsWellFormed, well_formed, ReturnWhenReady, persisting, OutcomePending, LossesKnown
  <1> QED BY <1>2, <1>3, <1>4 DEF RecordInv

-----------------------------------------------------------------------------

\* Every step of a disciplined system keeps the invariant.
LEMMA Step ==
  ASSUME Disciplined, RecordInv, [Next]_vars
  PROVE  RecordInv'
  <1>1. ASSUME NEW m \in Manager, call(m) PROVE RecordInv'
    <2>1. ASSUME NEW id \in TxId, create_transaction(m, id) PROVE RecordInv'
      BY <2>1, CreateKeepsInv
    <2>2. ASSUME NEW state \in TransactionState, update_state(m, state, "return")
          PROVE  RecordInv'
      BY <2>2, UpdateStateKeepsInv
    <2>3. CASE complete_transaction(m) \/ record_failure(m)
      BY <2>3, FinishKeepsInv
    <2>4. CASE update_download_path(m) \/ update_target_slot(m)
      BY <2>4, SettersKeepInv
    <2>5. CASE load_transaction(m)
      BY <2>5, LoadKeepsInv
    <2>6. CASE take_lock(m) \/ drop_lock(m)
      BY <2>6, SessionKeepsInv
    <2>7. CASE destroy(m)
      BY <2>7, DestroyManagerKeepsInv
    <2> QED BY <1>1, <2>1, <2>2, <2>3, <2>4, <2>5, <2>6, <2>7 DEF call
  <1>2. ASSUME NEW m \in Manager, continue(m) PROVE RecordInv'
    <2>1. CASE open_tmp(m)
      BY <2>1, OpenKeepsInv
    <2>2. CASE write_tmp(m)
      BY <2>2, WriteKeepsInv
    <2>3. CASE rename_tmp(m)
      BY <2>3, RenameKeepsInv
    <2>4. CASE persist_fails(m)
      BY <2>4, FailKeepsInv
    <2>5. CASE list_history(m)
      BY <2>5, ListKeepsInv
    <2>6. CASE clear_history(m)
      BY <2>6, ClearKeepsInv
    <2>7. CASE save_history(m)
      BY <2>7, SaveKeepsInv
    <2> QED BY <1>2, <2>1, <2>2, <2>3, <2>4, <2>5, <2>6, <2>7 DEF continue
  <1>3. ASSUME NEW p \in Process, exit_process(p) PROVE RecordInv'
    BY <1>3, ForgetKeepsInv DEF exit_process, end_process
  <1>4. CASE tick \/ \E p \in Process : start(p)
    BY <1>4, EnvironmentKeepsInv
  <1>5. CASE power_loss
    BY <1>5, PowerLossKeepsInv
  <1>6. CASE write_back
    BY <1>6, WriteBackKeepsInv
  <1>7. CASE UNCHANGED vars
    BY <1>7, StutterKeepsInv
  <1> QED BY <1>1, <1>2, <1>3, <1>4, <1>5, <1>6, <1>7 DEF Next

\* The inductive invariant, type correctness among its parts: no call, failed
\* file operation or crash leads out of it.
THEOREM RecordInvariant ==
  ASSUME Disciplined
  PROVE  Spec => []RecordInv
  <1>1. Init => RecordInv
    BY Initially
  <1>2. RecordInv /\ [Next]_vars => RecordInv'
    BY Step
  <1> QED BY <1>1, <1>2, PTL DEF Spec

\* Type correctness of the record, the files, the history and the lock.
THEOREM TypeCorrect ==
  ASSUME Disciplined
  PROVE  Spec => []TypeOK
  <1>1. RecordInv => TypeOK
    BY DEF RecordInv
  <1> QED BY <1>1, RecordInvariant, PTL

\* transaction.json is never empty or half written (persist_transaction).
THEOREM RecordStaysWhole ==
  ASSUME Disciplined, "power" \notin Faults
  PROVE  Spec => []RecordNeverTorn
  <1>1. RecordInv => RecordNeverTorn
    BY DEF RecordInv, WholeUnderPower
  <1> QED BY <1>1, RecordInvariant, PTL

\* At most one manager believes that it owns the lock (acquire_lock,
\* release_lock, ~TransactionManager and the end of a process).
THEOREM LockExcludes ==
  ASSUME Disciplined
  PROVE  Spec => []LockMutualExclusion
  <1>1. RecordInv => LockMutualExclusion
    BY ManagerAssumption DEF RecordInv, OwnersHoldKernelLock, LockMutualExclusion, OneManagerPerProcess
  <1> QED BY <1>1, RecordInvariant, PTL

\* Between two calls of a session, memory and transaction.json agree.
THEOREM SessionsSeeTheDisk ==
  ASSUME Disciplined
  PROVE  Spec => []SessionMatchesDisk
  <1>1. RecordInv => SessionMatchesDisk
    BY DEF RecordInv, MemoryOnDisk, SessionMatchesDisk, persisting
  <1> QED BY <1>1, RecordInvariant, PTL

\* A recorded download path is never one of an earlier transaction.
THEOREM PathsBelong ==
  ASSUME Disciplined
  PROVE  Spec => []PathBelongsToTransaction
  <1>1. RecordInv => PathBelongsToTransaction
    BY DEF RecordInv, TypeOK, RecordsWellFormed, well_formed, DiskRecord, PathBelongsToTransaction
  <1> QED BY <1>1, RecordInvariant, PTL

-----------------------------------------------------------------------------
(* The history. *)

\* The entries of a listing.
EntriesOf(h) == {h[k] : k \in DOMAIN h}

LEMMA EntriesFinite ==
  ASSUME NEW S, NEW h \in Seq(S)
  PROVE  IsFiniteSet(EntriesOf(h))
  <1>1. IsFiniteSet(DOMAIN h)
    <2>1. DOMAIN h = 1..Len(h) /\ Len(h) \in Nat
      OBVIOUS
    <2> QED BY <2>1, FS_Interval
  <1>2. h \in Surjection(DOMAIN h, EntriesOf(h))
    BY DEF EntriesOf, Surjection
  <1> QED BY <1>1, <1>2, FS_Surjection

LEMMA HeadAndTail ==
  ASSUME NEW S, NEW h \in Seq(S), h # <<>>
  PROVE  Head(h) \in EntriesOf(h) /\ EntriesOf(Tail(h)) \subseteq EntriesOf(h)
  <1>1. Head(h) = h[1] /\ 1 \in DOMAIN h
    OBVIOUS
  <1>2. \A k \in DOMAIN Tail(h) : Tail(h)[k] = h[k + 1] /\ k + 1 \in DOMAIN h
    OBVIOUS
  <1> QED BY <1>1, <1>2 DEF EntriesOf

\* What fits goes on fitting when there is less of it.
LEMMA SmallerFits ==
  ASSUME NEW D, NEW E, IsFiniteSet(D), IsFiniteSet(E),
         Cardinality(D \cup E) <= max_history_entries,
         NEW d, NEW e, d \cup e \subseteq D \cup E
  PROVE  Cardinality(d \cup e) <= max_history_entries /\ Cardinality(d) <= max_history_entries
  <1>1. IsFiniteSet(D \cup E)
    BY FS_Union
  <1>2. ASSUME NEW s, s \subseteq D \cup E
        PROVE  Cardinality(s) <= max_history_entries
    <2>1. /\ IsFiniteSet(s) /\ Cardinality(s) <= Cardinality(D \cup E)
          /\ Cardinality(s) \in Nat /\ Cardinality(D \cup E) \in Nat
      BY <1>1, <1>2, FS_Subset, FS_CardinalityType
    <2> QED BY <2>1, ManagerAssumption
  <1> QED BY <1>2

LEMMA UnwrittenIs ==
  ASSUME NEW m \in Manager
  PROVE  unwritten(m) = EntriesOf(history_[m]) /\ unwritten(m)' = EntriesOf(history_'[m])
  BY DEF unwritten, EntriesOf

LEMMA HistoryInitially == Init => HistoryInv
  <1> SUFFICES ASSUME Init PROVE HistoryInv
    OBVIOUS
  <1>1. Histories = {{}}
    BY DEF Init, Histories
  <1>2. HistoriesWithinLimit
    <2>1. Cardinality({}) = 0 /\ 0 <= max_history_entries
      BY FS_EmptySet, ManagerAssumption
    <2> QED BY <1>1, <2>1 DEF HistoriesWithinLimit
  <1>3. OutcomeReached /\ RoomForUnwritten
    BY DEF Init, OutcomeReached, RoomForUnwritten
  <1>4. HistoriesTrue
    BY <1>1 DEF HistoriesTrue
  <1>5. UnwrittenTrue
    BY DEF Init, UnwrittenTrue, unwritten
  <1> QED BY <1>2, <1>3, <1>4, <1>5 DEF HistoryInv

\* A step that records no outcome: the managers inside record_history, if
\* any, go on as they were, and a loss of power can leave nothing new.
Quiet ==
    /\ UNCHANGED <<reached, overlooked>>
    /\ Histories' \subseteq Histories
    /\ \A n \in Manager :
          /\ history_'[n] \in {history_[n], <<>>}
          /\ pc'[n] \in {"list", "clear", "save"}
                => /\ pc'[n] = pc[n]
                   /\ history_'[n] = history_[n]
                   /\ current_transaction_'[n] = current_transaction_[n]
                   /\ history_dir' = history_dir

\* A step that touches neither the directory nor the disk.
LEMMA SameHistories ==
  ASSUME UNCHANGED <<history_dir, latest, earlier>>
  PROVE  Histories' \subseteq Histories
  BY DEF Histories

LEMMA QuietKeepsHistory ==
  ASSUME HistoryInv, Quiet
  PROVE  HistoryInv'
  <1>1. OutcomeReached'
    BY DEF Quiet, HistoryInv, OutcomeReached
  <1>2. UnwrittenTrue'
    <2> SUFFICES ASSUME NEW n \in Manager, NEW e \in unwritten(n)'
                 PROVE  <<e.transaction_id, e.result>> \in reached
      BY DEF UnwrittenTrue, Quiet
    <2>1. history_'[n] = history_[n]
      <3>1. history_'[n] # <<>>
        BY DEF unwritten
      <3> QED BY <3>1 DEF Quiet
    <2>2. e \in unwritten(n)
      BY <2>1 DEF unwritten
    <2> QED BY <2>2 DEF HistoryInv, UnwrittenTrue
  <1>3. RoomForUnwritten'
    <2> SUFFICES ASSUME NEW n \in Manager, pc'[n] \in {"clear", "save"}
                 PROVE  Cardinality(history_dir' \cup unwritten(n)') <= max_history_entries \/ overlooked'
      BY DEF RoomForUnwritten
    <2>1. unwritten(n)' = unwritten(n) /\ UNCHANGED overlooked /\ pc[n] \in {"clear", "save"} /\ history_dir' = history_dir
      BY DEF Quiet, unwritten
    <2> QED BY <2>1 DEF HistoryInv, RoomForUnwritten
  <1>4. HistoriesTrue' /\ HistoriesWithinLimit'
    BY DEF Quiet, HistoryInv, HistoriesTrue, HistoriesWithinLimit
  <1> QED BY <1>1, <1>2, <1>3, <1>4 DEF HistoryInv

LEMMA PersistIsQuiet ==
  ASSUME RecordInv, NEW m \in Manager, NEW r, NEW next, persist(m, r, next)
  PROVE  Quiet
  BY SameHistories DEF RecordInv, TypeOK, persist, disk_vars, Quiet

LEMMA CallIsQuiet ==
  ASSUME RecordInv, NEW m \in Manager, call(m)
  PROVE  Quiet
  <1>1. CASE \E r, next : persist(m, r, next)
    BY <1>1, PersistIsQuiet
  <1>2. CASE load_transaction(m)
    BY <1>2, SameHistories DEF load_transaction, may_write, between_calls, RecordInv, TypeOK, disk_vars, Quiet
  <1>3. CASE take_lock(m) \/ drop_lock(m)
    BY <1>3, SameHistories DEF take_lock, drop_lock, unchanged_but_session, disk_vars, Quiet
  <1>4. CASE destroy(m)
    BY <1>4, SameHistories DEF destroy, between_calls, RecordInv, TypeOK, disk_vars, Quiet
  <1>5. ASSUME NEW state, NEW next, update_state(m, state, next)
        PROVE  \E r, n : persist(m, r, n)
    BY <1>5 DEF update_state
  <1>6. CASE \E id \in TxId : create_transaction(m, id)
    BY <1>1, <1>6 DEF create_transaction
  <1>7. CASE update_download_path(m) \/ update_target_slot(m)
    BY <1>1, <1>7 DEF update_download_path, update_target_slot
  <1>8. CASE complete_transaction(m) \/ record_failure(m)
    BY <1>1, <1>5, <1>8 DEF complete_transaction, record_failure
  <1> QED BY <1>1, <1>2, <1>3, <1>4, <1>5, <1>6, <1>7, <1>8 DEF call

LEMMA FilesAreQuiet ==
  ASSUME RecordInv, NEW m \in Manager, open_tmp(m) \/ write_tmp(m) \/ persist_fails(m)
  PROVE  Quiet
  <1>1. CASE open_tmp(m)
    BY <1>1, SameHistories DEF open_tmp, RecordInv, TypeOK, Quiet
  <1>2. CASE write_tmp(m)
    BY <1>2, SameHistories DEF write_tmp, RecordInv, TypeOK, Quiet
  <1>3. CASE persist_fails(m)
    BY <1>3, SameHistories DEF persist_fails, call_fails, RecordInv, TypeOK, disk_vars, Quiet
  <1> QED BY <1>1, <1>2, <1>3

LEMMA ForgettingIsQuiet ==
  ASSUME RecordInv, NEW dead, forget_memory(dead), UNCHANGED <<reached, overlooked>>,
         Histories' \subseteq Histories,
         history_dir' = history_dir \/ \A n \in Manager : pc'[n] = "ready"
  PROVE  Quiet
  BY DEF forget_memory, RecordInv, TypeOK, Quiet

\* What a power loss leaves is one of the histories it could leave, and what is
\* written back is the history as it is.
LEMMA EnvironmentIsQuiet ==
  ASSUME RecordInv,
         \/ \E p \in Process : start(p) \/ exit_process(p)
         \/ tick \/ power_loss \/ write_back \/ UNCHANGED vars
  PROVE  Quiet
  <1>1. CASE tick \/ UNCHANGED vars \/ \E p \in Process : start(p)
    BY <1>1, SameHistories DEF tick, vars, start, memory_vars, disk_vars, Quiet
  <1>2. CASE power_loss
    <2>1. /\ forget_memory(alive)
          /\ UNCHANGED <<reached, overlooked>>
          /\ \E left \in latest \cup earlier : history_dir' = left.history /\ latest' = {left}
          /\ earlier' = {}
      BY <1>2 DEF power_loss
    <2>2. Histories' \subseteq Histories
      BY <2>1 DEF Histories
    <2>3. \A n \in Manager : pc'[n] = "ready"
      BY <2>1, TheDeadHaveNothing DEF forget_memory, running
    <2> QED BY <2>1, <2>2, <2>3, ForgettingIsQuiet
  <1>3. CASE \E p \in Process : exit_process(p)
    BY <1>3, ForgettingIsQuiet, SameHistories DEF exit_process, disk_vars
  <1>4. CASE write_back
    <2>1. /\ UNCHANGED <<memory_vars, history_dir, reached, overlooked>>
          /\ latest' = {[record |-> DiskRecord, history |-> history_dir]} /\ earlier' = {}
      BY <1>4 DEF write_back
    <2>2. Histories' \subseteq Histories
      BY <2>1 DEF Histories
    <2> QED BY <2>1, <2>2 DEF memory_vars, Quiet
  <1> QED BY <1>1, <1>2, <1>3, <1>4

\* Nor does the rename that publishes a record.
LEMMA RenameLeavesHistories ==
  ASSUME NEW m \in Manager, rename_tmp(m)
  PROVE  Histories' \subseteq Histories
  <1> DEFINE histories == {d.history : d \in latest}
             outcomes == [record : {Empty, content[tmp_file]}, history : histories]
  <1>1. history_dir' = history_dir
        /\ \/ latest' = outcomes /\ earlier' = earlier \cup latest
           \/ UNCHANGED <<latest, earlier>>
    BY DEF rename_tmp, names_change
  <1>2. \A d \in outcomes : d.history \in histories
    OBVIOUS
  <1> HIDE DEF outcomes
  <1> QED BY <1>1, <1>2 DEF Histories

\* The rename that persists an outcome makes it one that was reached.
LEMMA RenameKeepsHistory ==
  ASSUME RecordInv, HistoryInv, NEW m \in Manager, rename_tmp(m)
  PROVE  HistoryInv'
  <1> DEFINE r == current_transaction_[m]
             told == <<r.transaction_id, r.state>>
  <1>1. /\ pc[m] = "rename" /\ owns_lock_[m]
        /\ content[tmp_file] = r /\ r # Empty
        /\ pc' = [pc EXCEPT ![m] = IF on_success[m] = "record_history" THEN "list" ELSE "ready"]
    BY EmptyAssumption DEF rename_tmp, RecordInv, CallsUnderLock, WriterHasTmp, TypeOK
  <1>2. /\ UNCHANGED <<history_, history_dir, current_transaction_, overlooked>>
        /\ reached' = IF on_success[m] = "record_history" THEN reached \cup {told} ELSE reached
    BY <1>1 DEF rename_tmp
  <1>3. \A n \in Manager : n # m => pc'[n] = "ready"
    BY <1>1, Alone DEF RecordInv, TypeOK
  <1>4. pc'[m] \in {"list", "ready"} /\ (pc'[m] = "list" => told \in reached')
    BY <1>1, <1>2 DEF RecordInv, TypeOK
  <1>5. reached \subseteq reached'
    BY <1>2
  <1>6. OutcomeReached' /\ RoomForUnwritten'
    BY <1>2, <1>3, <1>4 DEF OutcomeReached, RoomForUnwritten
  <1>7. UnwrittenTrue'
    BY <1>2, <1>5 DEF HistoryInv, UnwrittenTrue, unwritten
  <1>8. HistoriesTrue' /\ HistoriesWithinLimit'
    BY <1>2, <1>5, RenameLeavesHistories DEF HistoryInv, HistoriesTrue, HistoriesWithinLimit
  <1> QED BY <1>6, <1>7, <1>8 DEF HistoryInv

\* Pruning adds nothing.
LEMMA PrunedKept ==
  ASSUME NEW dir, IsFiniteSet(dir), NEW s \in listings(dir), NEW e
  PROVE  EntriesOf(prune_history(Append(s, e))) \subseteq dir \cup {e}
  <1> DEFINE n == Cardinality(dir)
             t == Append(s, e)
             h == prune_history(t)
  <1>1. n \in Nat
    BY FS_CardinalityType
  <1> HIDE DEF n
  <1>2. s \in Seq(dir) /\ Len(s) = n
    <2>1. s \in [1..n -> dir]
      BY DEF listings, n
    <2> QED BY <1>1, <2>1
  <1>3. t \in Seq(dir \cup {e}) /\ Len(t) = n + 1
    BY <1>1, <1>2
  <1> HIDE DEF t
  <1>4. h \in Seq(dir \cup {e})
    <2>1. CASE Len(t) > max_history_entries
      <3>1. SubSeq(t, 1, max_history_entries) \in Seq(dir \cup {e})
        BY <1>1, <1>3, <2>1, ManagerAssumption
      <3> QED BY <2>1, <3>1 DEF prune_history
    <2>2. CASE ~(Len(t) > max_history_entries)
      BY <1>3, <2>2 DEF prune_history
    <2> QED BY <2>1, <2>2
  <1> HIDE DEF h
  <1>5. EntriesOf(h) \subseteq dir \cup {e}
    BY <1>4 DEF EntriesOf
  <1> QED BY <1>5 DEF h, t

\* What pruning keeps of a full directory is the directory; a directory with
\* room has room for the new entry.
LEMMA PrunedFits ==
  ASSUME NEW dir, IsFiniteSet(dir), Cardinality(dir) <= max_history_entries,
         NEW s \in listings(dir), NEW e
  PROVE  LET kept == EntriesOf(prune_history(Append(s, e)))
         IN  kept \subseteq dir \cup {e} /\ Cardinality(dir \cup kept) <= max_history_entries
  <1> DEFINE n == Cardinality(dir)
             t == Append(s, e)
             h == prune_history(t)
             kept == EntriesOf(h)
  <1>1. n \in Nat
    BY FS_CardinalityType
  <1> HIDE DEF n
  <1>2. s \in Seq(dir) /\ Len(s) = n
    <2>1. s \in [1..n -> dir]
      BY DEF listings, n
    <2> QED BY <1>1, <2>1
  <1>3. /\ t \in Seq(dir \cup {e}) /\ Len(t) = n + 1
        /\ \A k \in 1..n : t[k] \in dir
        /\ t[n + 1] = e
    BY <1>1, <1>2
  <1>4. max_history_entries \in Nat /\ n <= max_history_entries
    BY ManagerAssumption DEF n
  <1> HIDE DEF t
  <1>5. CASE n = max_history_entries
    <2>1. h = SubSeq(t, 1, n)
      BY <1>1, <1>3, <1>5 DEF prune_history
    <2>2. DOMAIN h = 1..n /\ \A k \in 1..n : h[k] = t[k]
      BY <1>1, <1>3, <2>1
    <2>3. kept \subseteq dir
      BY <1>3, <2>2 DEF EntriesOf
    <2>4. dir \cup kept = dir
      BY <2>3
    <2> QED BY <1>4, <2>3, <2>4 DEF n, t
  <1>6. CASE n < max_history_entries
    <2>1. h = t
      BY <1>1, <1>3, <1>4, <1>6 DEF prune_history
    <2>2. DOMAIN t = 1..(n + 1)
      BY <1>1, <1>3
    <2>3. kept \subseteq dir \cup {e}
      BY <1>1, <1>3, <2>1, <2>2 DEF EntriesOf
    <2>4. dir \cup kept \subseteq dir \cup {e}
      BY <2>3
    <2>5. IsFiniteSet(dir \cup {e}) /\ Cardinality(dir \cup {e}) <= n + 1
      BY <1>1, FS_AddElement DEF n
    <2>6. Cardinality(dir \cup kept) <= Cardinality(dir \cup {e})
      BY <2>4, <2>5, FS_Subset
    <2>7. Cardinality(dir \cup kept) \in Nat /\ Cardinality(dir \cup {e}) \in Nat
      BY <2>4, <2>5, FS_Subset, FS_CardinalityType
    <2>8. Cardinality(dir \cup kept) <= max_history_entries
      BY <1>1, <1>4, <1>6, <2>5, <2>6, <2>7
    <2> QED BY <2>3, <2>8 DEF t
  <1> QED BY <1>1, <1>4, <1>5, <1>6

\* While m is inside record_history, no other manager is inside a call.
LEMMA OnlyOneRecords ==
  ASSUME RecordInv, NEW m \in Manager, pc[m] # "ready", NEW n \in Manager, n # m
  PROVE  pc[n] = "ready"
  BY Alone DEF RecordInv, CallsUnderLock

\* A step of record_history leaves what was there to be left, and parts of what
\* there is.
LEMMA HistoriesAfter ==
  ASSUME RecordInv, NEW m \in Manager, list_history(m) \/ clear_history(m) \/ save_history(m)
  PROVE  \A g \in Histories' : g \in Histories \/ g \subseteq history_dir'
  <1>1. CASE UNCHANGED <<history_dir, latest, earlier>>
    BY <1>1, SameHistories
  <1>2. CASE \E outcomes : names_change(outcomes) /\ carried(outcomes, history_dir')
    <2>1. PICK outcomes : names_change(outcomes) /\ carried(outcomes, history_dir')
      BY <1>2
    <2>2. \A d \in outcomes : d.history \subseteq history_dir'
      BY <2>1 DEF carried
    <2>3. \/ latest' = outcomes /\ earlier' = earlier \cup latest
          \/ UNCHANGED <<latest, earlier>>
      BY <2>1 DEF names_change
    <2> QED BY <2>2, <2>3 DEF Histories
  <1> QED BY <1>1, <1>2, HistoryLosses

LEMMA PartFits ==
  ASSUME NEW dir, IsFiniteSet(dir), Cardinality(dir) <= max_history_entries, NEW g \in SUBSET dir
  PROVE  Cardinality(g) <= max_history_entries
  <1>1. Cardinality(g) \in Nat /\ Cardinality(dir) \in Nat /\ Cardinality(g) <= Cardinality(dir)
    BY FS_Subset, FS_CardinalityType
  <1> QED BY <1>1, ManagerAssumption

\* Any step of record_history that writes only entries that are true and
\* keeps what is written and what is to be written within the limit.
LEMMA HistoryStepKeepsHistory ==
  ASSUME RecordInv, HistoryInv, NEW m \in Manager, pc[m] \in {"list", "clear", "save"},
         NEW next \in {"ready", "clear", "save"}, pc' = [pc EXCEPT ![m] = next],
         NEW h, history_' = [history_ EXCEPT ![m] = h],
         UNCHANGED <<current_transaction_, reached>>,
         overlooked => overlooked',
         \A e \in EntriesOf(h) \cup history_dir' : <<e.transaction_id, e.result>> \in reached,
         \A g \in Histories' : g \in Histories \/ g \subseteq history_dir',
         IsFiniteSet(history_dir'),
         Cardinality(history_dir') <= max_history_entries \/ overlooked',
         next # "ready" => Cardinality(history_dir' \cup EntriesOf(h)) <= max_history_entries \/ overlooked'
  PROVE  HistoryInv'
  <1>1. /\ pc'[m] = next /\ history_'[m] = h
        /\ \A n \in Manager : n # m => pc'[n] = "ready" /\ history_'[n] = history_[n]
    BY OnlyOneRecords DEF RecordInv, TypeOK
  <1>2. OutcomeReached'
    BY <1>1 DEF OutcomeReached
  <1>3. UnwrittenTrue'
    <2> SUFFICES ASSUME NEW n \in Manager, NEW e \in unwritten(n)'
                 PROVE  <<e.transaction_id, e.result>> \in reached
      BY DEF UnwrittenTrue
    <2>1. CASE n = m
      BY <1>1, <2>1 DEF unwritten, EntriesOf
    <2>2. CASE n # m
      BY <1>1, <2>2 DEF unwritten, HistoryInv, UnwrittenTrue
    <2> QED BY <2>1, <2>2
  <1>4. RoomForUnwritten'
    <2> SUFFICES ASSUME NEW n \in Manager, pc'[n] \in {"clear", "save"}
                 PROVE  Cardinality(history_dir' \cup unwritten(n)') <= max_history_entries \/ overlooked'
      BY DEF RoomForUnwritten
    <2>1. n = m
      BY <1>1
    <2>2. unwritten(n)' = EntriesOf(h)
      BY <1>1, <2>1 DEF unwritten, EntriesOf
    <2> QED BY <1>1, <2>1, <2>2
  <1>5. HistoriesTrue'
    BY DEF HistoryInv, HistoriesTrue
  <1>6. HistoriesWithinLimit'
    <2> SUFFICES ASSUME NEW g \in Histories', ~overlooked'
                 PROVE  Cardinality(g) <= max_history_entries
      BY DEF HistoriesWithinLimit
    <2>1. CASE g \in Histories
      BY <2>1 DEF HistoryInv, HistoriesWithinLimit
    <2>2. CASE g \subseteq history_dir'
      BY <2>2, PartFits
    <2> QED BY <2>1, <2>2
  <1> QED BY <1>2, <1>3, <1>4, <1>5, <1>6 DEF HistoryInv

\* The listing may be of a part of the directory: then an entry was overlooked.
LEMMA ListKeepsHistory ==
  ASSUME RecordInv, HistoryInv, NEW m \in Manager, list_history(m)
  PROVE  HistoryInv'
  <1>1. /\ pc[m] = "list" /\ history_dir' = history_dir
        /\ UNCHANGED <<current_transaction_, reached>>
        /\ overlooked => overlooked'
    BY DEF list_history, unchanged_by_history
  <1>2. /\ IsFiniteSet(history_dir)
        /\ Cardinality(history_dir) <= max_history_entries \/ overlooked
        /\ \A e \in history_dir : <<e.transaction_id, e.result>> \in reached
    BY DEF RecordInv, OutcomePending, HistoryInv, HistoriesWithinLimit, HistoriesTrue, Histories
  <1>3. \A g \in Histories' : g \in Histories \/ g \subseteq history_dir'
    BY HistoriesAfter
  <1>4. CASE history_done(m)
    <2>1. EntriesOf(<<>>) = {}
      BY DEF EntriesOf
    <2>2. Cardinality(history_dir') <= max_history_entries \/ overlooked'
      BY <1>1, <1>2
    <2>3. \A e \in EntriesOf(<<>>) \cup history_dir' : <<e.transaction_id, e.result>> \in reached
      BY <1>1, <1>2, <2>1
    <2> QED BY <1>1, <1>2, <1>3, <1>4, <2>2, <2>3, HistoryStepKeepsHistory DEF history_done
  <1>5. ASSUME NEW seen \in SUBSET history_dir, NEW s \in listings(seen),
               history_' = [history_ EXCEPT ![m] = prune_history(Append(s, history_entry(m)))],
               pc' = [pc EXCEPT ![m] = "clear"],
               overlooked' = (overlooked \/ seen # history_dir)
        PROVE  HistoryInv'
    <2> DEFINE new == history_entry(m)
               h == prune_history(Append(s, new))
    <2>1. IsFiniteSet(seen)
      BY <1>2, FS_Subset
    <2>2. EntriesOf(h) \subseteq seen \cup {new}
      BY <2>1, PrunedKept
    <2>3. <<new.transaction_id, new.result>> \in reached
      BY <1>1 DEF history_entry, HistoryInv, OutcomeReached
    <2>4. history_' = [history_ EXCEPT ![m] = h]
      BY <1>5
    <2>5. Cardinality(history_dir \cup EntriesOf(h)) <= max_history_entries \/ overlooked'
      BY <1>2, <1>5, PrunedFits
    <2> HIDE DEF new, h
    <2>6. \A e \in EntriesOf(h) \cup history_dir' : <<e.transaction_id, e.result>> \in reached
      BY <1>1, <1>2, <2>2, <2>3
    <2> QED BY <1>1, <1>2, <1>3, <1>5, <2>4, <2>5, <2>6, HistoryStepKeepsHistory
  <1> QED BY <1>4, <1>5 DEF list_history

LEMMA ClearKeepsHistory ==
  ASSUME RecordInv, HistoryInv, NEW m \in Manager, clear_history(m)
  PROVE  HistoryInv'
  <1> DEFINE h == history_[m]
  <1>1. /\ pc[m] = "clear" /\ history_' = history_ /\ history_dir' \subseteq history_dir
        /\ UNCHANGED <<current_transaction_, reached, overlooked>>
    BY DEF clear_history, unchanged_by_history
  <1>2. history_' = [history_ EXCEPT ![m] = h]
    BY <1>1 DEF RecordInv, TypeOK
  <1>3. PICK next \in {"clear", "save"} : pc' = [pc EXCEPT ![m] = next]
    BY <1>1 DEF clear_history, RecordInv, TypeOK
  <1>4. EntriesOf(h) = unwritten(m)
    BY UnwrittenIs
  <1>5. \A e \in EntriesOf(h) \cup history_dir' : <<e.transaction_id, e.result>> \in reached
    BY <1>1, <1>4 DEF HistoryInv, UnwrittenTrue, HistoriesTrue, Histories
  <1>6. Cardinality(history_dir \cup EntriesOf(h)) <= max_history_entries \/ overlooked
    BY <1>1, <1>4 DEF HistoryInv, RoomForUnwritten
  <1>7. IsFiniteSet(history_dir) /\ IsFiniteSet(EntriesOf(h))
    <2>1. history_[m] \in Seq(TransactionHistoryEntry)
      BY DEF RecordInv, TypeOK
    <2> QED BY <2>1, EntriesFinite DEF RecordInv, OutcomePending
  <1>8. IsFiniteSet(history_dir') /\ \A g \in Histories' : g \in Histories \/ g \subseteq history_dir'
    BY <1>1, <1>7, FS_Subset, HistoriesAfter
  <1> HIDE DEF h
  <1>9. /\ Cardinality(history_dir' \cup EntriesOf(h)) <= max_history_entries \/ overlooked'
        /\ Cardinality(history_dir') <= max_history_entries \/ overlooked'
    BY <1>1, <1>6, <1>7, SmallerFits
  <1> QED BY <1>1, <1>2, <1>3, <1>5, <1>8, <1>9, HistoryStepKeepsHistory

\* One entry goes from what is to be written to what is written, and an older
\* entry of the same transaction makes way for it.
LEMMA SaveKeepsHistory ==
  ASSUME RecordInv, HistoryInv, NEW m \in Manager, save_history(m)
  PROVE  HistoryInv'
  <1> DEFINE h == history_[m]
             rest == others(history_dir, Head(h).transaction_id)
  <1>1. pc[m] = "save" /\ UNCHANGED <<current_transaction_, reached, overlooked>>
    BY DEF save_history, unchanged_by_history
  <1>2. h \in Seq(TransactionHistoryEntry)
    BY DEF RecordInv, TypeOK
  <1>3. IsFiniteSet(history_dir) /\ IsFiniteSet(EntriesOf(h))
    BY <1>2, EntriesFinite DEF RecordInv, OutcomePending
  <1>4. EntriesOf(h) = unwritten(m)
    BY UnwrittenIs
  <1>5. \A e \in EntriesOf(h) \cup history_dir : <<e.transaction_id, e.result>> \in reached
    BY <1>4 DEF HistoryInv, UnwrittenTrue, HistoriesTrue, Histories
  <1>6. Cardinality(history_dir \cup EntriesOf(h)) <= max_history_entries \/ overlooked
    BY <1>1, <1>4 DEF HistoryInv, RoomForUnwritten
  <1>7. EntriesOf(<<>>) = {}
    BY DEF EntriesOf
  <1>8. \A g \in Histories' : g \in Histories \/ g \subseteq history_dir'
    BY HistoriesAfter
  <1>9. CASE history_done(m) /\ history_dir' \subseteq history_dir
    <2>1. Cardinality(history_dir') <= max_history_entries \/ overlooked'
      BY <1>1, <1>3, <1>6, <1>9, SmallerFits
    <2>2. \A e \in EntriesOf(<<>>) \cup history_dir' : <<e.transaction_id, e.result>> \in reached
      BY <1>5, <1>7, <1>9
    <2>3. IsFiniteSet(history_dir')
      BY <1>3, <1>9, FS_Subset
    <2> QED BY <1>1, <1>8, <1>9, <2>1, <2>2, <2>3, HistoryStepKeepsHistory DEF history_done
  <1>10. CASE /\ h # <<>>
              /\ history_dir' = rest \cup {Head(h)}
              /\ history_' = [history_ EXCEPT ![m] = Tail(h)]
              /\ UNCHANGED pc
    <2>1. Head(h) \in EntriesOf(h) /\ EntriesOf(Tail(h)) \subseteq EntriesOf(h)
      BY <1>2, <1>10, HeadAndTail
    <2>2. history_dir' \cup EntriesOf(Tail(h)) \subseteq history_dir \cup EntriesOf(h)
      BY <1>10, <2>1 DEF others
    <2>3. /\ Cardinality(history_dir' \cup EntriesOf(Tail(h))) <= max_history_entries \/ overlooked'
          /\ Cardinality(history_dir') <= max_history_entries \/ overlooked'
      BY <1>1, <1>3, <1>6, <2>2, SmallerFits
    <2>4. \A e \in EntriesOf(Tail(h)) \cup history_dir' : <<e.transaction_id, e.result>> \in reached
      BY <1>5, <2>2
    <2>5. pc' = [pc EXCEPT ![m] = "save"]
      BY <1>1, <1>10 DEF RecordInv, TypeOK
    <2>6. IsFiniteSet(history_dir')
      BY <1>3, <2>2, FS_Union, FS_Subset
    <2> HIDE DEF h, rest
    <2> QED BY <1>1, <1>8, <1>10, <2>3, <2>4, <2>5, <2>6, HistoryStepKeepsHistory
  <1>11. CASE h = <<>>
    BY <1>9, <1>11 DEF save_history
  <1>12. CASE h # <<>> /\ history_done(m) /\ (history_dir' = rest \/ UNCHANGED history_dir)
    BY <1>9, <1>12 DEF others
  <1> QED BY <1>10, <1>11, <1>12 DEF save_history

\* No step of a disciplined system leads out of the invariant of the history.
LEMMA HistoryStep ==
  ASSUME RecordInv, HistoryInv, [Next]_vars
  PROVE  HistoryInv'
  <1>1. CASE Quiet
    BY <1>1, QuietKeepsHistory
  <1>2. ASSUME NEW m \in Manager, continue(m) PROVE HistoryInv'
    <2>1. CASE open_tmp(m) \/ write_tmp(m) \/ persist_fails(m)
      BY <1>1, <2>1, FilesAreQuiet
    <2> QED BY <1>2, <2>1, RenameKeepsHistory, ListKeepsHistory, ClearKeepsHistory,
               SaveKeepsHistory DEF continue
  <1>3. ASSUME NEW m \in Manager, call(m) PROVE HistoryInv'
    BY <1>1, <1>3, CallIsQuiet
  <1>4. CASE \/ \E p \in Process : start(p) \/ exit_process(p)
             \/ tick \/ power_loss \/ write_back \/ UNCHANGED vars
    BY <1>1, <1>4, EnvironmentIsQuiet
  <1> QED BY <1>2, <1>3, <1>4 DEF Next

\* The invariant of the history, with the one of the record it rests on.
THEOREM HistoryInvariant ==
  ASSUME Disciplined
  PROVE  Spec => [](RecordInv /\ HistoryInv)
  <1>1. Init => RecordInv /\ HistoryInv
    BY Initially, HistoryInitially
  <1>2. RecordInv /\ HistoryInv /\ [Next]_vars => (RecordInv /\ HistoryInv)'
    BY Step, HistoryStep
  <1> QED BY <1>1, <1>2, PTL DEF Spec

\* The history never reports an outcome that transaction.json did not reach,
\* whatever listing or removal fails and whatever a power loss undoes
\* (record_history, load_history, save_history).
THEOREM HistoryIsTrue ==
  ASSUME Disciplined
  PROVE  Spec => []HistoryTellsTruth
  <1>1. HistoryInv => HistoryTellsTruth
    BY DEF HistoryInv, HistoriesTrue, Histories, HistoryTellsTruth
  <1> QED BY <1>1, HistoryInvariant, PTL

\* As long as every listing has shown the whole directory, the history holds no
\* more entries than configured, at any moment of a save_history and after any
\* failure, crash or power loss in it (prune_history, save_history).
THEOREM HistoryStaysBounded ==
  ASSUME Disciplined
  PROVE  Spec => []HistoryWithinLimit
  <1>1. HistoryInv => HistoryWithinLimit
    BY DEF HistoryInv, HistoriesWithinLimit, Histories, HistoryWithinLimit
  <1> QED BY <1>1, HistoryInvariant, PTL

-----------------------------------------------------------------------------
(* transaction.json as one value: the refinement of TransactionLifecycle. *)

\* The records that a power loss may leave.
LossRecords == {d.record : d \in latest \cup earlier}

LEMMA LifecycleInitially == Init => LifecycleInv
  BY DEF Init, LifecycleInv, RecordsIdentified, PendingBegins, persisting, initial_record

\* A call that persists a record of a transaction that was created keeps the
\* invariant, if the record begins that transaction or goes on with it.
LEMMA PersistKeepsLifecycle ==
  ASSUME RecordInv, LifecycleInv, NEW m \in Manager, pc[m] = "ready", owns_lock_[m],
         NEW r \in TransactionRecord, NEW next, persist(m, r, next),
         in_sync' = [in_sync EXCEPT ![m] = TRUE],
         r.transaction_id # NoId,
         \/ r.state = "IDLE"
         \/ DiskRecord # Empty /\ DiskRecord.transaction_id = r.transaction_id
  PROVE  LifecycleInv'
  <1>1. /\ current_transaction_'[m] = r /\ UNCHANGED <<content, transaction_file, latest, earlier>>
        /\ \A n \in Manager : n # m => /\ current_transaction_'[n] = current_transaction_[n]
                                       /\ in_sync'[n] = in_sync[n] /\ pc'[n] = "ready"
    BY Alone DEF persist, disk_vars, RecordInv, TypeOK
  <1>2. RecordsIdentified'
    BY <1>1 DEF LifecycleInv, RecordsIdentified
  <1>3. PendingBegins'
    BY <1>1 DEF PendingBegins, persisting, DiskRecord
  <1> QED BY <1>2, <1>3 DEF LifecycleInv

LEMMA CreateKeepsLifecycle ==
  ASSUME Disciplined, RecordInv, LifecycleInv, NEW m \in Manager, NEW id \in TxId,
         create_transaction(m, id)
  PROVE  LifecycleInv'
  <1> DEFINE r == [current_transaction_[m] EXCEPT !.transaction_id = id, !.state = "IDLE",
                                                  !.download_path = NoId]
  <1>1. pc[m] = "ready" /\ owns_lock_[m]
    BY WritersOwn DEF create_transaction
  <1>2. r \in TransactionRecord /\ r.transaction_id = id /\ r.state = "IDLE"
    <2>1. current_transaction_[m] \in TransactionRecord
      BY DEF RecordInv, TypeOK
    <2> QED BY <2>1 DEF TransactionRecord, TransactionState
  <1>3. persist(m, r, "return") /\ in_sync' = [in_sync EXCEPT ![m] = TRUE]
    BY DEF create_transaction
  <1>4. id # NoId
    BY ManagerAssumption
  <1> HIDE DEF r
  <1> QED BY <1>1, <1>2, <1>3, <1>4, PersistKeepsLifecycle

\* A call of a session goes on with the transaction on the disk.
LEMMA SessionCallKeepsLifecycle ==
  ASSUME Disciplined, RecordInv, LifecycleInv, NEW m \in Manager, may_write(m), in_sync[m],
         NEW r \in TransactionRecord, r.transaction_id = current_transaction_[m].transaction_id,
         NEW next, persist(m, r, next), UNCHANGED in_sync
  PROVE  LifecycleInv'
  <1>1. pc[m] = "ready" /\ owns_lock_[m]
    BY WritersOwn
  <1>2. DiskRecord = current_transaction_[m] /\ [in_sync EXCEPT ![m] = TRUE] = in_sync
    BY InSession
  <1>3. DiskRecord # Empty /\ DiskRecord.transaction_id = r.transaction_id
    BY <1>2, EmptyAssumption DEF RecordInv, TypeOK
  <1>4. r.transaction_id # NoId
    BY DEF LifecycleInv, RecordsIdentified
  <1> QED BY <1>1, <1>2, <1>3, <1>4, PersistKeepsLifecycle

LEMMA UpdateStateKeepsLifecycle ==
  ASSUME Disciplined, RecordInv, LifecycleInv, NEW m \in Manager,
         NEW state \in TransactionState, NEW next, update_state(m, state, next)
  PROVE  LifecycleInv'
  <1> DEFINE r == [current_transaction_[m] EXCEPT !.state = state]
  <1>1. may_write(m) /\ in_sync[m] /\ persist(m, r, next) /\ UNCHANGED in_sync
    BY DEF update_state
  <1>2. r \in TransactionRecord /\ r.transaction_id = current_transaction_[m].transaction_id
    <2>1. current_transaction_[m] \in TransactionRecord
      BY DEF RecordInv, TypeOK
    <2> QED BY <2>1 DEF TransactionRecord
  <1> HIDE DEF r
  <1> QED BY <1>1, <1>2, SessionCallKeepsLifecycle

LEMMA SettersKeepLifecycle ==
  ASSUME Disciplined, RecordInv, LifecycleInv, NEW m \in Manager,
         update_download_path(m) \/ update_target_slot(m)
  PROVE  LifecycleInv'
  <1> DEFINE old == current_transaction_[m]
  <1>1. old \in TransactionRecord
    BY DEF RecordInv, TypeOK
  <1>2. /\ may_write(m) /\ in_sync[m] /\ UNCHANGED in_sync
        /\ \E r \in {[old EXCEPT !.download_path = old.transaction_id], old} : persist(m, r, "return")
    BY DEF update_download_path, update_target_slot
  <1>3. PICK r \in {[old EXCEPT !.download_path = old.transaction_id], old} : persist(m, r, "return")
    BY <1>2
  <1>4. r \in TransactionRecord /\ r.transaction_id = old.transaction_id
    BY <1>1, <1>3 DEF TransactionRecord
  <1> QED BY <1>2, <1>3, <1>4, SessionCallKeepsLifecycle

LEMMA LoadKeepsLifecycle ==
  ASSUME Disciplined, RecordInv, LifecycleInv, NEW m \in Manager, load_transaction(m)
  PROVE  LifecycleInv'
  <1>1. pc[m] = "ready"
    BY WritersOwn DEF load_transaction
  <1>2. /\ DiskRecord # Empty /\ UNCHANGED <<pc, content, transaction_file, latest, earlier>>
        /\ current_transaction_' = [current_transaction_ EXCEPT ![m] = DiskRecord]
        /\ in_sync' = [in_sync EXCEPT ![m] = TRUE]
    BY DEF load_transaction, disk_vars
  <1>3. DiskRecord.transaction_id # NoId
    BY <1>2 DEF LifecycleInv, RecordsIdentified, DiskRecord, RecordInv, TypeOK
  <1>4. RecordsIdentified'
    BY <1>2, <1>3 DEF LifecycleInv, RecordsIdentified, RecordInv, TypeOK
  <1>5. PendingBegins'
    BY <1>1, <1>2 DEF LifecycleInv, PendingBegins, persisting, DiskRecord, RecordInv, TypeOK
  <1> QED BY <1>4, <1>5 DEF LifecycleInv

\* Any other step: nobody learns a record, nobody starts to persist one, and a
\* file, now or after a loss of power, is left with what it had, with nothing,
\* or with what a session wrote.
Carried ==
    /\ \A n \in Manager :
          /\ in_sync'[n] => in_sync[n]
          /\ in_sync'[n] \/ persisting(n)' => current_transaction_'[n] = current_transaction_[n]
          /\ persisting(n)' => persisting(n) /\ DiskRecord' = DiskRecord
    /\ \A i \in Inode :
          \/ content'[i] \in {content[i], Empty} \cup LossRecords
          \/ \E n \in Manager : in_sync[n] /\ content'[i] = current_transaction_[n]
    /\ \A r \in LossRecords' :
          \/ r \in {DiskRecord, Empty} \cup LossRecords
          \/ \E n \in Manager : in_sync[n] /\ r = current_transaction_[n]

LEMMA CarriedKeepsLifecycle ==
  ASSUME RecordInv, LifecycleInv, Carried
  PROVE  LifecycleInv'
  <1>1. RecordsIdentified'
    <2>1. \A n \in Manager : in_sync'[n] => current_transaction_'[n].transaction_id # NoId
      BY DEF Carried, LifecycleInv, RecordsIdentified
    <2>2. \A r \in LossRecords : r # Empty => r.transaction_id # NoId
      BY DEF LifecycleInv, RecordsIdentified, LossRecords
    <2>3. DiskRecord # Empty => DiskRecord.transaction_id # NoId
      BY DEF LifecycleInv, RecordsIdentified, DiskRecord, RecordInv, TypeOK
    <2>4. \A n \in Manager : in_sync[n] => current_transaction_[n].transaction_id # NoId
      BY DEF LifecycleInv, RecordsIdentified
    <2>5. \A i \in Inode : content'[i] # Empty => content'[i].transaction_id # NoId
      BY <2>2, <2>4 DEF Carried, LifecycleInv, RecordsIdentified
    <2>6. \A r \in LossRecords' : r # Empty => r.transaction_id # NoId
      BY <2>2, <2>3, <2>4 DEF Carried
    <2>7. \A d \in (latest \cup earlier)' : d.record \in LossRecords'
      BY DEF LossRecords
    <2> QED BY <2>1, <2>5, <2>6, <2>7 DEF RecordsIdentified
  <1>2. PendingBegins'
    <2> SUFFICES ASSUME NEW n \in Manager, persisting(n)'
                 PROVE  \/ current_transaction_'[n].state = "IDLE"
                        \/ /\ DiskRecord' # Empty
                           /\ DiskRecord'.transaction_id = current_transaction_'[n].transaction_id
      BY DEF PendingBegins
    <2>1. /\ persisting(n) /\ DiskRecord' = DiskRecord
          /\ current_transaction_'[n] = current_transaction_[n]
      BY DEF Carried
    <2> QED BY <2>1 DEF LifecycleInv, PendingBegins
  <1> QED BY <1>1, <1>2 DEF LifecycleInv

\* Opening and writing transaction.json.tmp leaves transaction.json alone.
LEMMA FilesCarry ==
  ASSUME Disciplined, RecordInv, NEW m \in Manager,
         open_tmp(m) \/ write_tmp(m) \/ persist_fails(m)
  PROVE  Carried /\ UNCHANGED <<DiskRecord, LossRecords>>
  <1>1. CASE open_tmp(m)
    <2>1. PICK i \in Inode : /\ IF tmp_file = NoInode THEN free(i) ELSE i = tmp_file
                             /\ content' = [content EXCEPT ![i] = Empty]
      BY <1>1 DEF open_tmp
    <2>2. /\ i # transaction_file
          /\ pc[m] = "open" /\ pc' = [pc EXCEPT ![m] = "write"]
          /\ UNCHANGED <<current_transaction_, in_sync, transaction_file, latest, earlier>>
      BY <1>1, <2>1 DEF open_tmp, free, RecordInv, NamesApart
    <2>3. UNCHANGED DiskRecord
      BY <2>1, <2>2 DEF DiskRecord, RecordInv, TypeOK
    <2> QED BY <2>1, <2>2, <2>3 DEF Carried, LossRecords, persisting, RecordInv, TypeOK
  <1>2. CASE write_tmp(m)
    <2>1. /\ pc[m] = "write" /\ in_sync[m] /\ file[m] \in Inode /\ file[m] # transaction_file
          /\ pc' = [pc EXCEPT ![m] = "rename"]
          /\ content' = [content EXCEPT ![file[m]] = current_transaction_[m]]
          /\ UNCHANGED <<current_transaction_, in_sync, transaction_file, latest, earlier>>
      BY <1>2 DEF write_tmp, RecordInv, WriterHasTmp, NamesApart, PendingIsStep, persisting, TypeOK
    <2>2. UNCHANGED DiskRecord
      BY <2>1 DEF DiskRecord, RecordInv, TypeOK
    <2> QED BY <2>1, <2>2 DEF Carried, LossRecords, persisting, RecordInv, TypeOK
  <1>3. CASE persist_fails(m)
    <2>1. UNCHANGED DiskRecord
      BY <1>3 DEF persist_fails, disk_vars, DiskRecord
    <2> QED BY <1>3, <2>1 DEF persist_fails, call_fails, disk_vars, Carried, LossRecords, persisting, RecordInv, TypeOK
  <1> QED BY <1>1, <1>2, <1>3

LEMMA HistoryCarries ==
  ASSUME RecordInv, NEW m \in Manager, list_history(m) \/ clear_history(m) \/ save_history(m)
  PROVE  Carried /\ UNCHANGED <<DiskRecord, LossRecords>>
  <1>1. UNCHANGED <<current_transaction_, in_sync, content, transaction_file>>
    BY DEF list_history, clear_history, save_history, unchanged_by_history
  <1>2. \E next \in {"ready", "clear", "save"} : pc' = [pc EXCEPT ![m] = next]
    BY DEF list_history, clear_history, save_history, history_done, RecordInv, TypeOK
  <1>3. UNCHANGED DiskRecord
    BY <1>1 DEF DiskRecord
  <1>4. UNCHANGED LossRecords
    <2>1. CASE UNCHANGED <<latest, earlier>>
      BY <2>1 DEF LossRecords
    <2>2. ASSUME NEW outcomes, latest' = outcomes, earlier' = earlier \cup latest,
                 carried(outcomes, history_dir')
          PROVE  UNCHANGED LossRecords
      BY <2>2 DEF LossRecords, carried
    <2> QED BY <2>1, <2>2, HistoryLosses DEF names_change
  <1> QED BY <1>1, <1>2, <1>3, <1>4 DEF Carried, persisting, RecordInv, TypeOK

LEMMA SessionsCarry ==
  ASSUME RecordInv, NEW m \in Manager, take_lock(m) \/ drop_lock(m) \/ destroy(m)
  PROVE  Carried /\ UNCHANGED <<DiskRecord, LossRecords>>
  <1>1. UNCHANGED <<DiskRecord, LossRecords, pc, content>>
    BY DEF take_lock, drop_lock, destroy, unchanged_but_session, disk_vars, DiskRecord, LossRecords
  <1>2. CASE take_lock(m) \/ drop_lock(m)
    BY <1>1, <1>2 DEF take_lock, drop_lock, unchanged_but_session, Carried, persisting, RecordInv, TypeOK
  <1>3. CASE destroy(m)
    BY <1>1, <1>3 DEF destroy, between_calls, Carried, persisting, RecordInv, TypeOK
  <1> QED BY <1>1, <1>2, <1>3

LEMMA EnvironmentCarries ==
  ASSUME RecordInv,
         \/ \E p \in Process : start(p) \/ exit_process(p)
         \/ tick \/ UNCHANGED vars
  PROVE  Carried /\ UNCHANGED <<DiskRecord, LossRecords>>
  <1>1. UNCHANGED <<DiskRecord, LossRecords, content>>
    BY DEF start, exit_process, tick, vars, disk_vars, DiskRecord, LossRecords
  <1>2. CASE tick \/ UNCHANGED vars \/ \E p \in Process : start(p)
    BY <1>1, <1>2 DEF tick, vars, start, memory_vars, Carried, persisting
  <1>3. CASE \E p \in Process : exit_process(p)
    BY <1>1, <1>3 DEF exit_process, forget_memory, Carried, persisting, RecordInv, TypeOK
  <1> QED BY <1>1, <1>2, <1>3

\* What is written back is what transaction.json holds.
LEMMA WriteBackCarries ==
  ASSUME RecordInv, write_back
  PROVE  Carried /\ UNCHANGED DiskRecord /\ LossRecords' = {DiskRecord}
  <1>1. UNCHANGED <<memory_vars, content, transaction_file>>
    BY DEF write_back
  <1>2. UNCHANGED DiskRecord
    BY <1>1 DEF DiskRecord
  <1>3. LossRecords' = {DiskRecord}
    BY DEF write_back, LossRecords
  <1> QED BY <1>1, <1>2, <1>3 DEF memory_vars, Carried, persisting

\* A power loss leaves one of the records that it may leave.
LEMMA PowerLossCarries ==
  ASSUME RecordInv, power_loss
  PROVE  Carried /\ DiskRecord' \in LossRecords /\ LossRecords' = {DiskRecord'}
  <1>1. ASSUME NEW n \in Manager PROVE pc'[n] = "ready" /\ ~in_sync'[n]
    <2>1. CASE running(n)
      BY <2>1 DEF power_loss, forget_memory, running
    <2>2. CASE ~running(n)
      BY <2>2, TheDeadHaveNothing DEF power_loss, forget_memory, running
    <2> QED BY <2>1, <2>2
  <1>2. PICK left \in latest \cup earlier, i \in Inode :
          /\ transaction_file' = i
          /\ content' = [j \in Inode |-> IF j = i THEN left.record ELSE Empty]
          /\ latest' = {left} /\ earlier' = {}
    BY DEF power_loss
  <1>3. LossRecords' = {left.record} /\ left.record \in LossRecords
    BY <1>2 DEF LossRecords
  <1>4. DiskRecord' = left.record
    BY <1>2, ManagerAssumption DEF DiskRecord
  <1>5. \A j \in Inode : content'[j] \in {left.record, Empty}
    BY <1>2
  <1> QED BY <1>1, <1>3, <1>4, <1>5 DEF Carried, persisting

\* The rename publishes the record of the running call.
LEMMA RenameCarries ==
  ASSUME RecordInv, NEW m \in Manager, rename_tmp(m)
  PROVE  /\ Carried /\ DiskRecord' = current_transaction_[m] /\ in_sync[m] /\ persisting(m)
         /\ LossRecords' = IF "power" \in Faults
                           THEN LossRecords \cup {Empty, current_transaction_[m]} ELSE LossRecords
  <1>1. /\ pc[m] = "rename" /\ owns_lock_[m] /\ in_sync[m] /\ persisting(m)
        /\ tmp_file # NoInode /\ tmp_file \in Inode /\ content[tmp_file] = current_transaction_[m]
    BY DEF rename_tmp, RecordInv, CallsUnderLock, WriterHasTmp, TypeOK, PendingIsStep, persisting
  <1>2. /\ UNCHANGED <<current_transaction_, in_sync>> /\ transaction_file' = tmp_file
        /\ content' = content \/ content' = [content EXCEPT ![transaction_file] = Empty]
        /\ \E next \in {"list", "ready"} : pc' = [pc EXCEPT ![m] = next]
    BY DEF rename_tmp
  <1>3. content'[tmp_file] = current_transaction_[m]
    BY <1>1, <1>2 DEF RecordInv, NamesApart, TypeOK
  <1>4. \A i \in Inode : content'[i] \in {content[i], Empty}
    BY <1>2 DEF RecordInv, TypeOK
  <1>5. \A n \in Manager : ~persisting(n)'
    BY <1>1, <1>2, Alone DEF persisting, RecordInv, TypeOK
  <1>6. DiskRecord' = current_transaction_[m]
    BY <1>1, <1>2, <1>3 DEF DiskRecord
  <1>7. LossRecords' = IF "power" \in Faults
                       THEN LossRecords \cup {Empty, current_transaction_[m]} ELSE LossRecords
    <2> DEFINE records == {Empty, current_transaction_[m]}
               histories == {d.history : d \in latest}
    <2>1. histories # {}
      BY SoundOfRecordInv DEF LossesSound, LossesKnown
    <2>2. CASE "power" \in Faults
      <3>1. latest' = [record : records, history : histories] /\ earlier' = earlier \cup latest
        BY <1>1, <2>2 DEF rename_tmp, names_change
      <3> HIDE DEF histories, records
      <3>2. \A r \in records : \E d \in [record : records, history : histories] : d.record = r
        <4> TAKE r \in records
        <4>1. PICK h \in histories : TRUE
          BY <2>1
        <4> WITNESS [record |-> r, history |-> h] \in [record : records, history : histories]
        <4> QED OBVIOUS
      <3>3. \A d \in [record : records, history : histories] : d.record \in records
        OBVIOUS
      <3>4. LossRecords' = LossRecords \cup records
        BY <3>1, <3>2, <3>3 DEF LossRecords
      <3> QED BY <2>2, <3>4 DEF records
    <2>3. CASE "power" \notin Faults
      BY <2>3 DEF rename_tmp, names_change, LossRecords
    <2> QED BY <2>2, <2>3
  <1> QED BY <1>1, <1>2, <1>4, <1>5, <1>6, <1>7 DEF Carried

LEMMA LifecycleStep ==
  ASSUME Disciplined, RecordInv, LifecycleInv, [Next]_vars
  PROVE  LifecycleInv'
  <1>1. CASE Carried
    BY <1>1, CarriedKeepsLifecycle
  <1>2. ASSUME NEW m \in Manager, call(m) PROVE LifecycleInv'
    <2>1. CASE take_lock(m) \/ drop_lock(m) \/ destroy(m)
      BY <1>1, <2>1, SessionsCarry
    <2>2. CASE \E id \in TxId : create_transaction(m, id)
      BY <2>2, CreateKeepsLifecycle
    <2>3. ASSUME NEW state \in TransactionState, NEW next, update_state(m, state, next)
          PROVE  LifecycleInv'
      BY <2>3, UpdateStateKeepsLifecycle
    <2>4. CASE complete_transaction(m) \/ record_failure(m)
      <3>1. "INSTALLED" \in TransactionState /\ "FAILED" \in TransactionState
        BY DEF TransactionState
      <3> QED BY <2>3, <2>4, <3>1 DEF complete_transaction, record_failure
    <2>5. CASE update_download_path(m) \/ update_target_slot(m)
      BY <2>5, SettersKeepLifecycle
    <2>6. CASE load_transaction(m)
      BY <2>6, LoadKeepsLifecycle
    <2> QED BY <1>2, <2>1, <2>2, <2>3, <2>4, <2>5, <2>6 DEF call
  <1>3. ASSUME NEW m \in Manager, continue(m) PROVE LifecycleInv'
    BY <1>1, <1>3, FilesCarry, RenameCarries, HistoryCarries DEF continue
  <1>4. CASE \/ \E p \in Process : start(p) \/ exit_process(p)
             \/ tick \/ UNCHANGED vars
    BY <1>1, <1>4, EnvironmentCarries
  <1>5. CASE power_loss \/ write_back
    BY <1>1, <1>5, PowerLossCarries, WriteBackCarries
  <1> QED BY <1>2, <1>3, <1>4, <1>5 DEF Next

\* Only the rename, a power loss and the write-back change what transaction.json
\* holds or what a power loss may leave of it.
LEMMA OnlyRenameReplaces ==
  ASSUME Disciplined, RecordInv, [Next]_vars, ~power_loss, ~write_back
  PROVE  UNCHANGED <<DiskRecord, LossRecords>> \/ \E m \in Manager : rename_tmp(m)
  <1>1. ASSUME NEW m \in Manager, call(m) PROVE UNCHANGED <<DiskRecord, LossRecords>>
    <2>1. CASE take_lock(m) \/ drop_lock(m) \/ destroy(m)
      BY <2>1, SessionsCarry
    <2>2. CASE \E r, next : persist(m, r, next)
      BY <2>2 DEF persist, disk_vars, DiskRecord, LossRecords
    <2>3. CASE load_transaction(m)
      BY <2>3 DEF load_transaction, disk_vars, DiskRecord, LossRecords
    <2>4. ASSUME NEW state, NEW next, update_state(m, state, next)
          PROVE  UNCHANGED <<DiskRecord, LossRecords>>
      BY <2>2, <2>4 DEF update_state
    <2>5. CASE complete_transaction(m) \/ record_failure(m)
      BY <2>4, <2>5 DEF complete_transaction, record_failure
    <2>6. CASE \E id \in TxId : create_transaction(m, id)
      BY <2>2, <2>6 DEF create_transaction
    <2>7. CASE update_download_path(m) \/ update_target_slot(m)
      BY <2>2, <2>7 DEF update_download_path, update_target_slot
    <2> QED BY <1>1, <2>1, <2>3, <2>4, <2>5, <2>6, <2>7 DEF call
  <1>2. ASSUME NEW m \in Manager, continue(m)
        PROVE  UNCHANGED <<DiskRecord, LossRecords>> \/ rename_tmp(m)
    BY <1>2, FilesCarry, HistoryCarries DEF continue
  <1>3. CASE \/ \E p \in Process : start(p) \/ exit_process(p)
             \/ tick \/ UNCHANGED vars
    BY <1>3, EnvironmentCarries
  <1> QED BY <1>1, <1>2, <1>3 DEF Next

\* What Lifecycle!Persist does, seen from here.
LEMMA RenamePersists ==
  ASSUME RecordInv, NEW m \in Manager, rename_tmp(m)
  PROVE  Lifecycle!Persist
  <1>1. /\ DiskRecord' = current_transaction_[m]
        /\ LossRecords' = IF "power" \in Faults
                          THEN LossRecords \cup {Empty, current_transaction_[m]} ELSE LossRecords
    BY RenameCarries
  <1>2. recorded' = part(current_transaction_[m]) /\ part(Empty) = Empty
    BY <1>1 DEF recorded, part
  <1>3. recoverable = {part(r) : r \in LossRecords} /\ recoverable' = {part(r) : r \in LossRecords'}
    BY DEF recoverable, LossRecords, part
  <1>4. recoverable' = IF "power" \in Faults THEN recoverable \cup {Empty, recorded'} ELSE recoverable
    BY <1>1, <1>2, <1>3
  <1> QED BY <1>4 DEF Lifecycle!Persist

\* What the rename publishes begins a transaction or advances the recorded one.
LEMMA RenameRefines ==
  ASSUME RecordInv, LifecycleInv, NEW m \in Manager, rename_tmp(m)
  PROVE  Lifecycle!Next
  <1> DEFINE new == current_transaction_[m]
             old == DiskRecord
  <1>1. DiskRecord' = new /\ in_sync[m] /\ persisting(m)
    BY RenameCarries
  <1>2. new \in TransactionRecord /\ new # Empty /\ new.transaction_id # NoId
    BY <1>1, EmptyAssumption DEF RecordInv, TypeOK, LifecycleInv, RecordsIdentified
  <1>3. new.transaction_id \in TxId /\ new.state \in TransactionState
    BY <1>2 DEF TransactionRecord
  <1>4. recorded' = [transaction_id |-> new.transaction_id, state |-> new.state]
    BY <1>1, <1>2 DEF recorded, part
  <1>5. old \in TransactionRecord \cup {Empty}
    BY DEF DiskRecord, RecordInv, TypeOK
  <1>6. may_replace(new, old)
    BY <1>1 DEF RecordInv, PendingIsStep
  <1>7. new.state = "IDLE" \/ (old # Empty /\ old.transaction_id = new.transaction_id)
    BY <1>1 DEF LifecycleInv, PendingBegins
  <1>10. Lifecycle!Persist
    BY RenamePersists
  <1>8. CASE old # Empty /\ old.transaction_id = new.transaction_id
    <2>1. recorded = [transaction_id |-> new.transaction_id, state |-> old.state]
      BY <1>8 DEF recorded, part
    <2>2. recorded # Empty
      BY <1>3, <1>5, <1>8, <2>1, EmptyAssumption DEF TransactionRecord
    <2>3. CASE new.state = old.state
      <3>1. Lifecycle!Amend
        BY <1>4, <1>10, <2>1, <2>2, <2>3 DEF Lifecycle!Amend
      <3> QED BY <3>1 DEF Lifecycle!Next
    <2>4. CASE can_transition(old.state, new.state)
      <3>1. recorded' = [recorded EXCEPT !.state = new.state]
        BY <1>4, <2>1
      <3>2. Lifecycle!Advance(new.state)
        BY <1>10, <2>1, <2>2, <2>4, <3>1 DEF Lifecycle!Advance, Lifecycle!can_transition,
           Lifecycle!valid_transitions, can_transition, valid_transitions
      <3> QED BY <1>3, <3>2 DEF Lifecycle!Next, Lifecycle!TransactionState, TransactionState
    <2> QED BY <1>6, <1>8, <2>3, <2>4 DEF may_replace
  <1>9. CASE new.state = "IDLE" /\ (old = Empty \/ old.transaction_id # new.transaction_id)
    <2>1. recorded = Empty \/ recorded.transaction_id # new.transaction_id
      BY <1>9 DEF recorded, part
    <2>2. Lifecycle!Begin(new.transaction_id)
      BY <1>4, <1>9, <1>10, <2>1 DEF Lifecycle!Begin
    <2> QED BY <1>3, <2>2 DEF Lifecycle!Next
  <1> QED BY <1>7, <1>8, <1>9

\* Every transaction that transaction.json holds was created, and it takes the
\* place of another one in its initial state.
THEOREM LifecycleInvariant ==
  ASSUME Disciplined
  PROVE  Spec => [](RecordInv /\ LifecycleInv)
  <1>1. Init => RecordInv /\ LifecycleInv
    BY Initially, LifecycleInitially
  <1>2. RecordInv /\ LifecycleInv /\ [Next]_vars => (RecordInv /\ LifecycleInv)'
    BY Step, LifecycleStep
  <1> QED BY <1>1, <1>2, PTL DEF Spec

\* A power loss goes back to one of the records it may leave.
LEMMA PowerLossRefines ==
  ASSUME RecordInv, power_loss
  PROVE  Lifecycle!Lose
  <1>1. DiskRecord' \in LossRecords /\ LossRecords' = {DiskRecord'}
    BY PowerLossCarries
  <1>2. recoverable = {part(r) : r \in LossRecords} /\ recoverable' = {part(r) : r \in LossRecords'}
        /\ recorded' = part(DiskRecord')
    BY DEF recoverable, recorded, LossRecords, part
  <1>3. "power" \in Faults
    BY DEF power_loss
  <1> QED BY <1>1, <1>2, <1>3 DEF Lifecycle!Lose

LEMMA WriteBackRefines ==
  ASSUME RecordInv, write_back
  PROVE  Lifecycle!WriteBack
  <1>1. UNCHANGED DiskRecord /\ LossRecords' = {DiskRecord}
    BY WriteBackCarries
  <1>2. recoverable' = {part(r) : r \in LossRecords'} /\ recorded = part(DiskRecord)
        /\ recorded' = part(DiskRecord')
    BY DEF recoverable, recorded, LossRecords, part
  <1>3. "power" \in Faults
    BY DEF write_back
  <1> QED BY <1>1, <1>2, <1>3 DEF Lifecycle!WriteBack

\* transaction.json as a reader finds it goes through the life of one
\* transaction after the other that TransactionLifecycle describes, whatever
\* call fails and whatever process is killed; a power loss takes it back to what
\* may not have reached the disk yet, and to nothing else.
THEOREM RecordRefinesLifecycle ==
  ASSUME Disciplined
  PROVE  Spec => ImplementsLifecycle
  <1>1. Init => Lifecycle!Init
    BY DEF Init, Lifecycle!Init, recorded, recoverable, part, DiskRecord
  <1>2. RecordInv /\ LifecycleInv /\ [Next]_vars => [Lifecycle!Next]_<<recorded, recoverable>>
    <2> SUFFICES ASSUME RecordInv, LifecycleInv, [Next]_vars
                 PROVE  [Lifecycle!Next]_<<recorded, recoverable>>
      OBVIOUS
    <2>1. CASE power_loss \/ write_back
      BY <2>1, PowerLossRefines, WriteBackRefines DEF Lifecycle!Next
    <2>2. CASE \E m \in Manager : rename_tmp(m)
      BY <2>2, RenameRefines
    <2>3. CASE UNCHANGED <<DiskRecord, LossRecords>>
      <3>1. recoverable = {part(r) : r \in LossRecords} /\ recoverable' = {part(r) : r \in LossRecords'}
            /\ recorded = part(DiskRecord) /\ recorded' = part(DiskRecord')
        BY DEF recoverable, recorded, LossRecords, part
      <3> QED BY <2>3, <3>1
    <2> QED BY <2>1, <2>2, <2>3, OnlyRenameReplaces
  <1> QED BY <1>1, <1>2, LifecycleInvariant, PTL DEF Spec, ImplementsLifecycle, Lifecycle!Spec
=============================================================================
