----------------------------- MODULE SlotManager -----------------------------
(***************************************************************************)
(* SlotManager (src/slot/slot_manager.cpp): the A/B slots, kept in three   *)
(* files that are written one after the other: the metadata of slot A, of  *)
(* slot B, and the global state, which names the active slot.              *)
(*                                                                         *)
(* Each manager is an object of a process of its own.  Every file is       *)
(* replaced by rename, so a write is one action; between any two of them   *)
(* another process may read or write, and the process may be killed.       *)
(***************************************************************************)
EXTENDS Naturals, Sequences, FiniteSets

CONSTANTS
    Manager,         \* processes that use a SlotManager
    Writers,         \* those that change slots; the others load and look
    Version,         \* of a slot; hardware version and SHA-256 are not kept apart
    DefaultVersion, NoVersion, NoInfo, NoSlot,
    MaxVersions,     \* bound: calls that set the version of a slot
    MaxEarlier,      \* bound: how much the kernel holds back before it writes
    CallerStates,    \* bound: states that callers give the inactive slot by set_slot_state
    Faults           \* what may go wrong: subset of FaultKinds

FaultKinds == {"io", "crash", "power"}

Slot == {"A", "B"}
SlotState == {"EMPTY", "ACTIVE", "INACTIVE", "PREPARED", "BOOTABLE", "INVALID"}
SlotInfo == [version : Version \cup {NoVersion}, state : SlotState]

ASSUME SlotAssumption ==
    /\ Writers \subseteq Manager
    /\ DefaultVersion \in Version
    /\ NoVersion \notin Version
    /\ NoInfo \notin SlotInfo
    /\ NoSlot \notin Slot
    /\ MaxVersions \in Nat /\ MaxEarlier \in Nat
    /\ CallerStates \subseteq SlotState \ {"ACTIVE", "INACTIVE"}
    /\ Faults \subseteq FaultKinds

VARIABLES
    metadata,   \* slot-<s>/metadata.json; NoInfo: missing or empty
    global,     \* global.json; NoSlot: missing or empty
    \* what a loss of power may leave of them
    latest,     \* with the names as they are now
    earlier,    \* with the newest changes of names undone
    \* memory of each manager
    slot_info,  \* slot_a_ and slot_b_
    active_slot_,
    pc,
    to_write,   \* files the running call has still to write
    switching,  \* and the call that writes them is switch_active_slot
    loaded,     \* the slots were loaded from the files or initialized
    versions_set, \* number of calls that set the version of a slot
    agreed,     \* observer: the slots that the last switch may have left active
    overlaps    \* observer: calls of writers that overlapped the last load; 2 for more

disk_vars == <<metadata, global, latest, earlier>>
memory_vars == <<slot_info, active_slot_, pc, to_write, switching, loaded>>
vars == <<disk_vars, memory_vars, versions_set, agreed, overlaps>>

File == Slot \cup {"global"}

Outcomes_of_loss ==
    [metadata : [Slot -> SlotInfo \cup {NoInfo}], global : Slot \cup {NoSlot}]

TypeOK ==
    /\ metadata \in [Slot -> SlotInfo \cup {NoInfo}]
    /\ global \in Slot \cup {NoSlot}
    /\ latest \cup earlier \subseteq Outcomes_of_loss
    /\ slot_info \in [Manager -> [Slot -> SlotInfo]]
    /\ active_slot_ \in [Manager -> Slot]
    /\ pc \in [Manager -> {"off", "idle", "read_A", "read_B", "write"}]
    /\ to_write \in [Manager -> Seq(File)]
    /\ switching \in [Manager -> BOOLEAN]
    /\ loaded \in [Manager -> BOOLEAN]
    /\ versions_set \in 0..MaxVersions
    /\ agreed \subseteq Slot
    /\ overlaps \in [Manager -> 0..2]

empty_slots == [s \in Slot |-> [version |-> NoVersion, state |-> "EMPTY"]]

\* default_active_slot is slot A.
default_slots == [s \in Slot |->
    IF s = "A" THEN [version |-> DefaultVersion, state |-> "ACTIVE"]
               ELSE [version |-> NoVersion, state |-> "INACTIVE"]]

Init ==
    /\ metadata = [s \in Slot |-> NoInfo]
    /\ global = NoSlot
    /\ latest = {[metadata |-> metadata, global |-> global]}
    /\ earlier = {}
    /\ slot_info = [m \in Manager |-> empty_slots]
    /\ active_slot_ = [m \in Manager |-> "A"]
    /\ pc = [m \in Manager |-> "off"]
    /\ to_write = [m \in Manager |-> <<>>]
    /\ switching = [m \in Manager |-> FALSE]
    /\ loaded = [m \in Manager |-> FALSE]
    /\ versions_set = 0
    /\ agreed = {"A"}
    /\ overlaps = [m \in Manager |-> 0]

-----------------------------------------------------------------------------

other(s) == CHOOSE t \in Slot : t # s
inactive(m) == other(active_slot_[m])

\* The order of persist_slot_state, and of initialize_slots.
persist_order == <<"A", "B", "global">>

persist(m, is_switch) ==
    /\ pc' = [pc EXCEPT ![m] = "write"]
    /\ to_write' = [to_write EXCEPT ![m] = persist_order]
    /\ switching' = [switching EXCEPT ![m] = is_switch]

\* Mutant: an empty global state is taken for one.
read_global_unchecked(m, name) ==
    /\ active_slot_' = [active_slot_ EXCEPT ![m] = global]
    /\ loaded' = [loaded EXCEPT ![m] = TRUE]
    /\ pc' = [pc EXCEPT ![m] = "read_A"]
    /\ UNCHANGED <<to_write, slot_info, switching>>

\* Mutant: initialize_slots always starts from the default.
read_global_or_reset(m, name) ==
    IF name = "load_slot_state"
    THEN /\ pc' = [pc EXCEPT ![m] = "idle"]
         /\ UNCHANGED <<to_write, slot_info, active_slot_, switching, loaded>>
    ELSE /\ slot_info' = [slot_info EXCEPT ![m] = default_slots]
         /\ active_slot_' = [active_slot_ EXCEPT ![m] = "A"]
         /\ loaded' = [loaded EXCEPT ![m] = TRUE]
         /\ persist(m, FALSE)

\* read_global_state, and what its callers do when there is none: a load leaves
\* the manager as it was constructed, initialize_slots starts from the default.
read_global(m, name) ==
    IF global # NoSlot
    THEN /\ active_slot_' = [active_slot_ EXCEPT ![m] = global]
         /\ loaded' = [loaded EXCEPT ![m] = TRUE]
         /\ pc' = [pc EXCEPT ![m] = "read_A"]
         /\ UNCHANGED <<to_write, slot_info, switching>>
    ELSE IF name = "load_slot_state"
    THEN /\ pc' = [pc EXCEPT ![m] = "idle"]
         /\ UNCHANGED <<to_write, slot_info, active_slot_, switching, loaded>>
    ELSE /\ slot_info' = [slot_info EXCEPT ![m] = default_slots]
         /\ active_slot_' = [active_slot_ EXCEPT ![m] = "A"]
         /\ loaded' = [loaded EXCEPT ![m] = TRUE]
         /\ persist(m, FALSE)

\* The observer of overlapping calls: a call that is running, one that starts.
load_starts(m) ==
    overlaps' = [overlaps EXCEPT ![m] = IF \E n \in Manager \ {m} : pc[n] = "write" THEN 1 ELSE 0]

call_starts ==
    overlaps' = [m \in Manager |->
        IF pc[m] \in {"read_A", "read_B"} /\ overlaps[m] < 2 THEN overlaps[m] + 1 ELSE overlaps[m]]

\* A process starts and loads the slots; only initialize_slots creates them.
load_slot_state(m) ==
    /\ pc[m] = "off"
    /\ read_global(m, "load_slot_state")
    /\ load_starts(m)
    /\ UNCHANGED <<disk_vars, versions_set, agreed>>

initialize_slots(m) ==
    /\ pc[m] = "off" /\ m \in Writers
    /\ read_global(m, "initialize_slots")
    /\ load_starts(m)
    /\ UNCHANGED <<disk_vars, versions_set, agreed>>

\* A file that is missing or empty leaves the slot as it was constructed.
read_metadata(m, s) ==
    /\ pc[m] = IF s = "A" THEN "read_A" ELSE "read_B"
    /\ pc' = [pc EXCEPT ![m] = IF s = "A" THEN "read_B" ELSE "idle"]
    /\ slot_info' = IF metadata[s] = NoInfo THEN slot_info
                    ELSE [slot_info EXCEPT ![m][s] = metadata[s]]
    /\ UNCHANGED <<disk_vars, active_slot_, to_write, switching, loaded, versions_set, agreed, overlaps>>

may_change(m) == m \in Writers /\ pc[m] = "idle" /\ loaded[m]

\* set_slot_state, as callers use it: on the inactive slot.
set_slot_state(m, state) ==
    /\ may_change(m)
    /\ slot_info' = [slot_info EXCEPT ![m][inactive(m)].state = state]
    /\ persist(m, FALSE)
    /\ call_starts
    /\ UNCHANGED <<disk_vars, active_slot_, loaded, versions_set, agreed>>

\* set_slot_version, on the inactive slot too; nothing in the code calls it.
set_slot_version(m, version) ==
    /\ may_change(m)
    /\ versions_set < MaxVersions
    /\ versions_set' = versions_set + 1
    /\ slot_info' = [slot_info EXCEPT ![m][inactive(m)].version = version]
    /\ persist(m, FALSE)
    /\ call_starts
    /\ UNCHANGED <<disk_vars, active_slot_, loaded, agreed>>

\* set_slot_sha256 and set_slot_hardware_version, of either slot: the field is
\* not kept, but all three files are written again from what memory holds.
set_slot_sha256(m) ==
    /\ may_change(m)
    /\ persist(m, FALSE)
    /\ call_starts
    /\ UNCHANGED <<disk_vars, slot_info, active_slot_, loaded, versions_set, agreed>>

\* Mutant: the wrong slot is prepared.
prepare_active_slot(m, version) ==
    /\ may_change(m)
    /\ versions_set < MaxVersions
    /\ versions_set' = versions_set + 1
    /\ slot_info' = [slot_info EXCEPT
           ![m][active_slot_[m]] = [version |-> version, state |-> "PREPARED"]]
    /\ persist(m, FALSE)
    /\ call_starts
    /\ UNCHANGED <<disk_vars, active_slot_, loaded, agreed>>

\* Asks for no state of the slot; an empty version is accepted.
prepare_inactive_slot(m, version) ==
    /\ may_change(m)
    /\ versions_set < MaxVersions
    /\ versions_set' = versions_set + 1
    /\ slot_info' = [slot_info EXCEPT
           ![m][inactive(m)] = [version |-> version, state |-> "PREPARED"]]
    /\ persist(m, FALSE)
    /\ call_starts
    /\ UNCHANGED <<disk_vars, active_slot_, loaded, agreed>>

\* Mutant: the slot that was active keeps its state.
switch_keeps_active(m) ==
    /\ may_change(m)
    /\ slot_info[m][inactive(m)].state \in {"PREPARED", "BOOTABLE"}
    /\ slot_info' = [slot_info EXCEPT ![m][inactive(m)].state = "ACTIVE"]
    /\ active_slot_' = [active_slot_ EXCEPT ![m] = inactive(m)]
    /\ agreed' = agreed \cup {inactive(m)}
    /\ persist(m, TRUE)
    /\ call_starts
    /\ UNCHANGED <<disk_vars, loaded, versions_set>>

switch_active_slot(m) ==
    /\ may_change(m)
    /\ slot_info[m][inactive(m)].state \in {"PREPARED", "BOOTABLE"}
    /\ slot_info' = [slot_info EXCEPT ![m][inactive(m)].state = "ACTIVE",
                                      ![m][active_slot_[m]].state = "INACTIVE"]
    /\ active_slot_' = [active_slot_ EXCEPT ![m] = inactive(m)]
    /\ agreed' = agreed \cup {inactive(m)}
    /\ persist(m, TRUE)
    /\ call_starts
    /\ UNCHANGED <<disk_vars, loaded, versions_set>>

\* Nothing calls fsync.  The file system keeps the order in which names change,
\* and brings a directory back as it was at some moment since it was last on the
\* disk; a file written since then may come back empty.
names_change(outcomes) ==
    IF "power" \in Faults
    THEN /\ Cardinality(earlier) <= MaxEarlier
         /\ latest' = outcomes /\ earlier' = earlier \cup latest
    ELSE UNCHANGED <<latest, earlier>>

replace_metadata(s, info) ==
    /\ metadata' = [metadata EXCEPT ![s] = info]
    /\ names_change({[d EXCEPT !.metadata[s] = i] : d \in latest, i \in {info, NoInfo}})
    /\ UNCHANGED global

replace_global(slot) ==
    /\ global' = slot
    /\ names_change({[d EXCEPT !.global = s] : d \in latest, s \in {slot, NoSlot}})
    /\ UNCHANGED metadata

\* The next file is replaced; with "io", by an empty one (the failed write goes
\* unnoticed and the file is renamed), or not at all (open or rename fails).
\* persist_slot_state returns true in every case.
write_file(m) ==
    /\ pc[m] = "write"
    /\ LET f == Head(to_write[m])
       IN  \/ f # "global" /\ replace_metadata(f, slot_info[m][f])
           \/ f = "global" /\ replace_global(active_slot_[m])
           \/ "io" \in Faults /\ f # "global" /\ replace_metadata(f, NoInfo)
           \/ "io" \in Faults /\ f = "global" /\ replace_global(NoSlot)
           \/ "io" \in Faults /\ UNCHANGED disk_vars
    /\ to_write' = [to_write EXCEPT ![m] = Tail(@)]
    /\ IF Len(to_write[m]) = 1
       THEN /\ pc' = [pc EXCEPT ![m] = "idle"]
            /\ switching' = [switching EXCEPT ![m] = FALSE]
            /\ agreed' = IF switching[m] THEN {active_slot_[m]} ELSE agreed
       ELSE UNCHANGED <<pc, switching, agreed>>
    /\ UNCHANGED <<slot_info, active_slot_, loaded, versions_set, overlaps>>

-----------------------------------------------------------------------------

forget(managers) ==
    /\ slot_info' = [m \in Manager |-> IF m \in managers THEN empty_slots ELSE slot_info[m]]
    /\ active_slot_' = [m \in Manager |-> IF m \in managers THEN "A" ELSE active_slot_[m]]
    /\ pc' = [m \in Manager |-> IF m \in managers THEN "off" ELSE pc[m]]
    /\ to_write' = [m \in Manager |-> IF m \in managers THEN <<>> ELSE to_write[m]]
    /\ switching' = [m \in Manager |-> m \notin managers /\ switching[m]]
    /\ loaded' = [m \in Manager |-> IF m \in managers THEN FALSE ELSE loaded[m]]
    /\ overlaps' = [m \in Manager |-> IF m \in managers THEN 0 ELSE overlaps[m]]

\* A process exits between calls, or is killed.
exit_process(m) ==
    /\ pc[m] = "idle" \/ (pc[m] # "off" /\ "crash" \in Faults)
    /\ forget({m})
    /\ UNCHANGED <<disk_vars, versions_set, agreed>>

\* The slot that was active at the moment the disk returns to is active again;
\* if global.json comes back empty, the next initialize_slots starts over from
\* slot A.
power_loss ==
    /\ "power" \in Faults
    /\ forget(Manager)
    /\ \E left \in latest \cup earlier :
          /\ metadata' = left.metadata
          /\ global' = left.global
          /\ agreed' = {IF left.global = NoSlot THEN "A" ELSE left.global}
          /\ latest' = {left}
    /\ earlier' = {}
    /\ UNCHANGED versions_set

\* What is still to be written reaches the disk.  That only a part of it does
\* leaves fewer outcomes of a power loss, and no other ones.
write_back ==
    /\ "power" \in Faults
    /\ latest' = {[metadata |-> metadata, global |-> global]}
    /\ earlier' = {}
    /\ UNCHANGED <<metadata, global, memory_vars, versions_set, agreed, overlaps>>

change(m) ==
    \/ \E state \in CallerStates : set_slot_state(m, state)
    \/ \E v \in Version \cup {NoVersion} : prepare_inactive_slot(m, v)
    \/ \E v \in Version \cup {NoVersion} : set_slot_version(m, v)
    \/ set_slot_sha256(m)
    \/ switch_active_slot(m)

Next ==
    \/ \E m \in Manager :
          \/ load_slot_state(m)
          \/ initialize_slots(m)
          \/ \E s \in Slot : read_metadata(m, s)
          \/ change(m)
          \/ write_file(m)
          \/ exit_process(m)
    \/ power_loss \/ write_back

Spec == Init /\ [][Next]_vars

-----------------------------------------------------------------------------
(* Properties. *)

\* Exactly one slot is ACTIVE, and it is the one that active names.
consistent(info, active) == \A s \in Slot : (info[s].state = "ACTIVE") <=> (s = active)

\* Mutant: an active slot that claims to be INACTIVE is accepted.
validate_only_claims(info, active, s) ==
    /\ info[s].state # "INVALID"
    /\ info[s].state = "ACTIVE" => s = active

validate_slot(info, active, s) ==
    /\ info[s].state # "INVALID"
    /\ info[s].state = "ACTIVE" => s = active
    /\ info[s].state = "INACTIVE" => s # active

\* Whatever a process is killed in and however a load is interleaved with one
\* call of another process (with two, it is not so), slots that were loaded from their three files
\* (a slot without one is EMPTY) and contradict the global state fail
\* validate_slot ("Detect inconsistencies between metadata and global state").
DetectsInconsistency ==
    \A m \in Manager :
        (pc[m] = "idle" /\ loaded[m] /\ overlaps[m] < 2 /\ (\A s \in Slot : slot_info[m][s].state # "EMPTY")
         /\ ~consistent(slot_info[m], active_slot_[m]))
            => \E s \in Slot : ~validate_slot(slot_info[m], active_slot_[m], s)

\* The process that changes slots, once it has loaded them, works with the one
\* that the last switch made active, or, if that switch was interrupted, the
\* one before; after a power loss, with the one that was active at the moment
\* the disk returned to, unless global.json was lost.
ActiveSlotRemembered ==
    \A m \in Writers : pc[m] = "idle" /\ loaded[m] => active_slot_[m] \in agreed

\* No call ever changes the version of the slot that global.json names ("Never
\* destroy the active slot during update preparation").
ActiveSlotPreserved ==
    [][ \A m \in Manager, s \in Slot :
            pc[m] = "write" /\ pc'[m] # "off" /\ s = global /\ NoInfo \notin {metadata[s], metadata'[s]}
                => metadata'[s].version = metadata[s].version ]_vars

\* A completed switch leaves consistent files, whatever an interrupted call or
\* a power loss had left before it.
SwitchHeals ==
    [][ \A m \in Manager :
            switching[m] /\ pc[m] = "write" /\ pc'[m] = "idle"
                => consistent(metadata', global') ]_vars
=============================================================================
