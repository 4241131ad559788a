----------------------------- MODULE BootControl -----------------------------
(***************************************************************************)
(* SimulatedBootControl (src/boot/simulated_boot_control.cpp), alone or in *)
(* front of a SimulatedBootloader (src/boot/bootloader/), which then has   *)
(* the authority: which slot runs, which one boots next, and how often     *)
(* each was booted.  One process at a time holds the two objects.          *)
(*                                                                         *)
(* Each of the two files is replaced by rename, so a write is one action;  *)
(* a call with a bootloader makes two of them, and the process may die, or *)
(* lose power, between any two.                                            *)
(***************************************************************************)
EXTENDS BootStates, FiniteSets

CONSTANTS
    NoFile, Empty,   \* no such file, a file without content
    NoSlot,
    Setups,          \* with a bootloader, without one, or both in turn: subset of BOOLEAN
    Calls,           \* bound: optional calls
    MaxEarlier,      \* bound: how much the kernel holds back before it writes
    Faults           \* what may go wrong: subset of FaultKinds

FaultKinds == {"io", "full", "crash", "power"}
CallKinds == {"reset_with_bootloader"}

SlotState == {"EMPTY", "ACTIVE", "INACTIVE", "PREPARED", "BOOTABLE", "INVALID"}

ASSUME BootAssumption ==
    /\ NoFile \notin BootState /\ Empty \notin BootState
    /\ NoSlot \notin Slot
    /\ MaxBoots \in Nat /\ MaxEarlier \in Nat
    /\ Setups \subseteq BOOLEAN
    /\ Calls \subseteq CallKinds
    /\ Faults \subseteq FaultKinds

VARIABLES
    control_file,     \* boot_state.json
    loader_file,      \* bootloader_state.json
    \* what a loss of power may leave of them
    latest,           \* with the names as they are now
    earlier,          \* with the newest changes of names undone
    with_bootloader,  \* set_bootloader was called
    control, loader,  \* memory of the two objects
    pc,               \* the file the running call writes next
    call,             \* the running call
    selected          \* observer: the slot of the last set_next_boot_slot that returned
                      \* true, until another call or a lost file supersedes it

disk_vars == <<control_file, loader_file, latest, earlier>>
memory_vars == <<control, loader, pc, call>>
vars == <<disk_vars, memory_vars, with_bootloader, selected>>

File == BootState \cup {NoFile, Empty}
Outcomes_of_loss == [control_file : File, loader_file : File]

TypeOK ==
    /\ control_file \in File
    /\ loader_file \in File
    /\ latest \cup earlier \subseteq Outcomes_of_loss
    /\ with_bootloader \in Setups
    /\ control \in BootState
    /\ loader \in BootState
    /\ pc \in {"off", "ready", "control", "loader"}
    /\ call \in {"none", "initialize", "set_next_boot_slot", "clear_next_boot_slot",
                 "simulate_boot", "reset_boot_attempt_count"}
    /\ selected \in Slot \cup {NoSlot}

Init ==
    /\ control_file = NoFile
    /\ loader_file = NoFile
    /\ latest = {[control_file |-> NoFile, loader_file |-> NoFile]}
    /\ earlier = {}
    /\ with_bootloader \in Setups
    /\ control = default_state
    /\ loader = default_state
    /\ pc = "off"
    /\ call = "none"
    /\ selected = NoSlot

-----------------------------------------------------------------------------
(* Calls, up to their first write. *)

\* get_state of the bootloader.
get_state(state) == [state EXCEPT !.next = IF state.next_set THEN state.next ELSE state.current]

\* The writes of a call: bootloader first.
persist(name) ==
    /\ call' = name
    /\ pc' = IF with_bootloader THEN "loader" ELSE "control"

\* initialize with a bootloader: load_state takes a missing or empty file for
\* a first start and persists the defaults; boot_state.json is not read.
initialize_loader ==
    /\ pc = "off" /\ with_bootloader
    /\ IF loader_file \in BootState
       THEN /\ loader' = loader_file
            /\ control' = get_state(loader_file)
            /\ pc' = "ready"
            /\ UNCHANGED call
       ELSE /\ persist("initialize")
            /\ UNCHANGED <<control, loader>>
    /\ UNCHANGED <<disk_vars, with_bootloader, selected>>

\* Mutant: an empty file is taken for a state.
initialize_unchecked ==
    /\ pc = "off" /\ ~with_bootloader
    /\ IF control_file = NoFile
       THEN persist("initialize") /\ UNCHANGED control
       ELSE control' = control_file /\ pc' = "ready" /\ UNCHANGED call
    /\ UNCHANGED <<disk_vars, loader, with_bootloader, selected>>

\* initialize without one: load_boot_state persists the defaults when the file
\* is missing, and goes on with them, without a write, when it is empty.
initialize_control ==
    /\ pc = "off" /\ ~with_bootloader
    /\ IF control_file = NoFile
       THEN persist("initialize") /\ UNCHANGED control
       ELSE /\ control' = IF control_file = Empty THEN default_state ELSE control_file
            /\ pc' = "ready"
            /\ UNCHANGED call
    /\ UNCHANGED <<disk_vars, loader, with_bootloader, selected>>

\* A slot that is EMPTY or INVALID, or that runs now, is refused.
validate_boot_target(s, state) == state \notin {"EMPTY", "INVALID"} /\ s # control.current

\* Mutant: the bootloader is not told.
set_without_bootloader(s) ==
    /\ pc = "ready"
    /\ s # control.current
    /\ control' = select(control, s)
    /\ selected' = NoSlot
    /\ call' = "set_next_boot_slot"
    /\ pc' = "control"
    /\ UNCHANGED <<disk_vars, loader, with_bootloader>>

\* Mutant: the slot that runs may be selected.
set_any_slot(s) ==
    /\ pc = "ready"
    /\ control' = select(control, s)
    /\ loader' = IF with_bootloader THEN select(loader, s) ELSE loader
    /\ selected' = NoSlot
    /\ persist("set_next_boot_slot")
    /\ UNCHANGED <<disk_vars, with_bootloader>>

\* set_next_boot_slot: memory changes before the files.
set_next_boot_slot(s) ==
    /\ pc = "ready"
    /\ s # control.current
    /\ control' = select(control, s)
    /\ loader' = IF with_bootloader THEN select(loader, s) ELSE loader
    /\ selected' = NoSlot
    /\ persist("set_next_boot_slot")
    /\ UNCHANGED <<disk_vars, with_bootloader>>

\* The slot manager of the process knows the slot in some state.
prepare_next_boot(s) ==
    /\ \E state \in SlotState : validate_boot_target(s, state)
    /\ set_next_boot_slot(s)

clear_next_boot_slot ==
    /\ pc = "ready"
    /\ control' = clear(control)
    /\ loader' = IF with_bootloader THEN clear(loader) ELSE loader
    /\ selected' = NoSlot
    /\ persist("clear_next_boot_slot")
    /\ UNCHANGED <<disk_vars, with_bootloader>>

\* simulate_boot: the memory of boot control follows the bootloader's file.
simulate_boot ==
    /\ pc = "ready"
    /\ control.next_set
    /\ IF with_bootloader
       THEN /\ loader.attempts[control.next] < MaxBoots
            /\ loader' = boot(loader, control.next)
            /\ UNCHANGED control
       ELSE /\ control.attempts[control.next] < MaxBoots
            /\ control' = boot(control, control.next)
            /\ UNCHANGED loader
    /\ selected' = NoSlot
    /\ persist("simulate_boot")
    /\ UNCHANGED <<disk_vars, with_bootloader>>

\* reset_boot_attempt_count: the bootloader is not told.
reset_boot_attempt_count(s) ==
    /\ pc = "ready"
    /\ with_bootloader => "reset_with_bootloader" \in Calls
    /\ control' = [control EXCEPT !.attempts[s] = 0]
    /\ call' = "reset_boot_attempt_count"
    /\ pc' = "control"
    /\ UNCHANGED <<disk_vars, loader, with_bootloader, selected>>

-----------------------------------------------------------------------------
(* Writes, failures and the end of the process. *)

\* What a write that the call takes for a success leaves: the new state or,
\* on a full disk, an empty file that is renamed all the same.
written(state) == IF "full" \in Faults THEN {state, Empty} ELSE {state}

\* Nothing calls fsync.  The file system keeps the order in which names change,
\* and brings a directory back as it was at some moment since it was last on the
\* disk; a file written since then may come back empty.
names_change(outcomes) ==
    IF "power" \in Faults
    THEN /\ Cardinality(earlier) <= MaxEarlier
         /\ latest' = outcomes /\ earlier' = earlier \cup latest
    ELSE UNCHANGED <<latest, earlier>>

replace_loader(content) ==
    /\ loader_file' = content
    /\ names_change({[d EXCEPT !.loader_file = f] : d \in latest, f \in {content, Empty}})
    /\ UNCHANGED control_file

replace_control(content) ==
    /\ control_file' = content
    /\ names_change({[d EXCEPT !.control_file = f] : d \in latest, f \in {content, Empty}})
    /\ UNCHANGED loader_file

\* Mutant: boot control keeps its own view of what the bootloader did.
after_loader_stale ==
    IF call = "initialize"
    THEN control' = get_state(loader) /\ pc' = "ready"
    ELSE UNCHANGED control /\ pc' = "control"

\* Once the bootloader has persisted its state: initialize and simulate_boot
\* copy it, all but the slot of a selection that is no longer pending.
after_loader ==
    IF call = "initialize"
    THEN control' = get_state(loader) /\ pc' = "ready"
    ELSE /\ control' = IF call = "simulate_boot" THEN [loader EXCEPT !.next = control.next] ELSE control
         /\ pc' = "control"

write_loader ==
    /\ pc = "loader"
    /\ \E content \in written(loader) : replace_loader(content)
    /\ after_loader
    /\ call' = IF call = "initialize" THEN "none" ELSE call
    /\ UNCHANGED <<loader, with_bootloader, selected>>

\* The call returns true.
write_control ==
    /\ pc = "control"
    /\ \E content \in written(control) : replace_control(content)
    /\ pc' = "ready"
    /\ call' = "none"
    /\ selected' = IF call = "set_next_boot_slot" THEN control.next ELSE selected
    /\ UNCHANGED <<control, loader, with_bootloader>>

forget ==
    /\ control' = default_state
    /\ loader' = default_state
    /\ pc' = "off"
    /\ call' = "none"

\* Opening or renaming fails, the call returns false, and the process gives
\* up as the command line tool does; except that it ignores initialize.
write_fails ==
    /\ "io" \in Faults
    /\ pc \in {"control", "loader"}
    /\ IF call = "initialize" /\ ~with_bootloader
       THEN pc' = "ready" /\ call' = "none" /\ UNCHANGED <<control, loader>>
       ELSE forget
    /\ UNCHANGED <<disk_vars, with_bootloader, selected>>

\* The process ends between two calls, or is killed.
exit_process ==
    /\ pc # "off"
    /\ "crash" \in Faults \/ pc = "ready"
    /\ forget
    /\ UNCHANGED <<disk_vars, with_bootloader, selected>>

\* The file that the next process goes by.
recorded_in(files) == IF with_bootloader THEN files.loader_file ELSE files.control_file

recorded == IF with_bootloader THEN loader_file ELSE control_file

\* A selection is lost if the file that holds it is not the same any more.
power_loss ==
    /\ "power" \in Faults
    /\ forget
    /\ \E left \in latest \cup earlier :
          /\ control_file' = left.control_file
          /\ loader_file' = left.loader_file
          /\ selected' = IF recorded_in(left) = recorded THEN selected ELSE NoSlot
          /\ latest' = {left}
    /\ earlier' = {}
    /\ UNCHANGED with_bootloader

\* What is still to be written reaches the disk.  That only a part of it does
\* leaves fewer outcomes of a power loss, and no other ones.
write_back ==
    /\ "power" \in Faults
    /\ latest' = {[control_file |-> control_file, loader_file |-> loader_file]}
    /\ earlier' = {}
    /\ UNCHANGED <<control_file, loader_file, memory_vars, with_bootloader, selected>>

Next ==
    \/ initialize_loader \/ initialize_control
    \/ \E s \in Slot : set_next_boot_slot(s) \/ prepare_next_boot(s) \/ reset_boot_attempt_count(s)
    \/ clear_next_boot_slot
    \/ simulate_boot
    \/ write_loader \/ write_control \/ write_fails
    \/ exit_process \/ power_loss \/ write_back

Spec == Init /\ [][Next]_vars

-----------------------------------------------------------------------------
(* Properties. *)

\* A selection that set_next_boot_slot has acknowledged is on record until a
\* later call or a power loss takes it away: neither a restart, nor a kill in
\* a later reset, nor boot_state.json falling behind the bootloader loses it.
SelectionSurvives ==
    selected # NoSlot =>
        recorded \in BootState /\ recorded.next_set /\ recorded.next = selected

\* The slot on record as running is never also on record as selected, whatever
\* call was cut short (set_next_boot_slot refuses it, simulate_boot consumes
\* the selection together with the change of the slot).
PendingIsOther ==
    \A file \in {loader_file, control_file} :
        file \in BootState /\ file.next_set => file.next # file.current

same_decision(s, t) ==
    /\ s.current = t.current /\ s.next_set = t.next_set /\ s.attempts = t.attempts
    /\ s.next_set => s.next = t.next

\* Between two calls the memory of boot control is the recorded state
\* ("BootControl reads state from the bootloader on initialization",
\* "BootControl delegates boot operations to the bootloader").
MemoryIsRecorded ==
    pc = "ready" /\ recorded \in BootState => same_decision(control, recorded)

\* The recorded state, seen as one value, behaves as BootSelection says; a
\* missing or empty file stands for the defaults.
state_of(file) == IF file \in BootState THEN file ELSE default_state

Selection == INSTANCE BootSelection WITH
    state <- state_of(recorded),
    possible <- {state_of(recorded_in(d)) : d \in latest \cup earlier},
    PowerMayFail <- "power" \in Faults

ImplementsBootSelection == Selection!Spec
=============================================================================
