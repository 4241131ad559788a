---------------------------- MODULE BootSelection ----------------------------
(***************************************************************************)
(* What boot control promises of its recorded state, as one value: a       *)
(* selection is never of the slot that runs, a boot takes the selected     *)
(* slot, consumes the selection and is counted once.  When power may fail, *)
(* and only then, the newest operations can be undone, or the state be     *)
(* lost as a whole; no operation is ever undone in part.                   *)
(***************************************************************************)
EXTENDS Naturals

CONSTANTS Slot, default_state, PowerMayFail

VARIABLES
    state,
    possible   \* what a power loss may leave of it

Init == state = default_state /\ possible = {default_state}

\* A changed state may or may not reach the disk, and its file may come first.
Persist ==
    possible' = IF PowerMayFail THEN possible \cup {default_state, state'} ELSE possible

Lose == PowerMayFail /\ state' \in possible /\ possible' = {state'}

WriteBack == PowerMayFail /\ UNCHANGED state /\ possible' = {state}

Select(s) ==
    /\ s # state.current
    /\ state' = [state EXCEPT !.next = s, !.next_set = TRUE]
    /\ Persist

Clear == state' = [state EXCEPT !.next_set = FALSE] /\ Persist

Boot ==
    /\ state.next_set
    /\ state' = [state EXCEPT !.current = state.next, !.next_set = FALSE,
                              !.attempts[state.next] = @ + 1]
    /\ Persist

Reset(s) == state' = [state EXCEPT !.attempts[s] = 0] /\ Persist

Next == Lose \/ WriteBack \/ Clear \/ Boot \/ \E s \in Slot : Select(s) \/ Reset(s)

Spec == Init /\ [][Next]_<<state, possible>>
=============================================================================
