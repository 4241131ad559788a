------------------------ MODULE TransactionLifecycle ------------------------
(***************************************************************************)
(* What the transaction record promises to whoever reads it after a crash: *)
(* one durable record that changes only as a whole, either because a new   *)
(* transaction begins in IDLE or because the recorded one makes a          *)
(* transition of the table.  When power may fail, and only then, the       *)
(* newest changes can be undone, or the record be lost with its file.      *)
(* TransactionManager implements it with transaction.json.                 *)
(***************************************************************************)
EXTENDS TransactionStateMachine

CONSTANTS
    TxId,         \* transaction identifiers
    NoRecord,     \* nothing recorded, yet or any more
    PowerMayFail

VARIABLES
    record,       \* NoRecord, or the identifier and state of the last transaction
    possible      \* what a power loss may leave of it

TypeOK == {record} \cup possible
             \subseteq [transaction_id : TxId, state : TransactionState] \cup {NoRecord}

Init == record = NoRecord /\ possible = {NoRecord}

\* A changed record may or may not reach the disk, and its file may come first.
Persist ==
    possible' = IF PowerMayFail THEN possible \cup {NoRecord, record'} ELSE possible

\* A new transaction replaces the recorded one, finished or not.
Begin(id) ==
    /\ record = NoRecord \/ record.transaction_id # id
    /\ record' = [transaction_id |-> id, state |-> "IDLE"]
    /\ Persist

Advance(state) ==
    /\ record # NoRecord
    /\ can_transition(record.state, state)
    /\ record' = [record EXCEPT !.state = state]
    /\ Persist

\* Other fields of the record change.
Amend == record # NoRecord /\ UNCHANGED record /\ Persist

Lose == PowerMayFail /\ record' \in possible /\ possible' = {record'}

WriteBack == PowerMayFail /\ UNCHANGED record /\ possible' = {record}

Next ==
    \/ \E id \in TxId : Begin(id)
    \/ \E state \in TransactionState : Advance(state)
    \/ Amend \/ Lose \/ WriteBack

Spec == Init /\ [][Next]_<<record, possible>>
=============================================================================
