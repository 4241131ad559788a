---------------------- MODULE TransactionStateMachine ----------------------
(***************************************************************************)
(* The states of an OTA transaction and the transitions allowed between    *)
(* them: src/transaction/transaction_state_machine.cpp.  The states are    *)
(* the names the code writes to transaction.json.                          *)
(***************************************************************************)

\* Every transition the table allows.
valid_transitions ==
    [ IDLE             |-> {"CHECKING"},
      CHECKING         |-> {"UPDATE_AVAILABLE", "IDLE", "FAILED"},
      UPDATE_AVAILABLE |-> {"DOWNLOADING", "IDLE", "FAILED"},
      DOWNLOADING      |-> {"DOWNLOADED", "FAILED"},
      DOWNLOADED       |-> {"VERIFYING", "FAILED"},
      VERIFYING        |-> {"VERIFIED", "FAILED"},
      VERIFIED         |-> {"INSTALLING", "FAILED"},
      INSTALLING       |-> {"INSTALLED", "FAILED"},
      INSTALLED        |-> {"IDLE"},
      FAILED           |-> {"IDLE"} ]

TransactionState ==
    {"IDLE", "CHECKING", "UPDATE_AVAILABLE", "DOWNLOADING", "DOWNLOADED",
     "VERIFYING", "VERIFIED", "INSTALLING", "INSTALLED", "FAILED"}

can_transition(from, to) == to \in valid_transitions[from]

\* The outcomes that the history records.
Outcome == {"INSTALLED", "FAILED"}
=============================================================================
