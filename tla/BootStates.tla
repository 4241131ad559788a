------------------------------ MODULE BootStates ------------------------------
(***************************************************************************)
(* What boot_state.json and bootloader_state.json hold, and what the       *)
(* operations of the two objects make of it: the part that boot control,   *)
(* the bootloader and the commands on their files have in common.          *)
(***************************************************************************)
EXTENDS Naturals

CONSTANTS
    MaxBoots         \* bound: attempts counted for a slot

Slot == {"A", "B"}
BootState == [current : Slot, next : Slot, next_set : BOOLEAN, attempts : [Slot -> 0..MaxBoots]]

default_state ==
    [current |-> "A", next |-> "A", next_set |-> FALSE, attempts |-> [s \in Slot |-> 0]]

select(state, s) == [state EXCEPT !.next = s, !.next_set = TRUE]

clear(state) == [state EXCEPT !.next_set = FALSE]

\* Mutant: the selection is not consumed.
boot_again(state, target) ==
    [state EXCEPT !.current = target, !.attempts[target] = @ + 1]

\* mark_boot_started, and what simulate_boot does itself without a bootloader.
boot(state, target) ==
    [state EXCEPT !.current = target, !.next_set = FALSE, !.attempts[target] = @ + 1]
=============================================================================
