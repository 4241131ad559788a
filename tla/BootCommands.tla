----------------------------- MODULE BootCommands -----------------------------
(***************************************************************************)
(* The commands "ota-cli boot" and "ota-cli bootloader" run by several      *)
(* processes (src/cli_main.cpp).  A process loads the state file, changes   *)
(* its copy, and replaces the file by way of <file>.tmp, a name that all    *)
(* processes share; nothing is locked.  The two tools work on files of     *)
(* their own and never meet, so a behaviour has one of them.  Programs may *)
(* also call what the command line does not offer: the attempts are reset, *)
(* and with the bootloader counted.                                        *)
(*                                                                         *)
(* A file is one of the two names, or has lost its name: the descriptor of *)
(* a process follows the file through the rename of another process.       *)
(***************************************************************************)
EXTENDS BootStates

CONSTANTS
    NoFile, Empty,   \* no such file, a file without content
    Commands,        \* processes
    MaxCommands      \* bound: commands that are run

ASSUME CommandsAssumption ==
    /\ MaxBoots \in Nat /\ MaxCommands \in Nat
    /\ NoFile \notin BootState /\ Empty \notin BootState /\ NoFile # Empty

Tools == {"boot", "bootloader"}
Operations == {"status", "set", "clear", "simulate", "reset", "increment"}

VARIABLES
    tool,       \* the tool this behaviour is about
    record,     \* boot_state.json or bootloader_state.json
    tmp,        \* the same with .tmp
    usable,     \* slots that are neither EMPTY nor INVALID in the slot files
    command,    \* per process: [pc, op, slot, found, memory, at, initializing, ok]
    started,    \* how many commands were run, for the bound
    (* Observers *)
    alone,      \* per process: no other command ran during this one, nothing failed
    torn,       \* a file was opened and then not written: a kill, or the disk was full
    booted,     \* per slot: boots simulated or counted
    selected,   \* slots some command selected
    once_usable \* slots that were usable at some time

observers == <<alone, torn, booted, selected, once_usable>>
vars == <<tool, record, tmp, usable, command, started, observers>>

Idle == [pc |-> "idle", op |-> "status", slot |-> "A", found |-> FALSE,
         memory |-> default_state, at |-> "nowhere", initializing |-> FALSE, ok |-> FALSE]

Init ==
    /\ tool \in Tools
    /\ record = NoFile
    /\ tmp = NoFile
    /\ usable \in IF tool = "boot" THEN SUBSET Slot ELSE {{}}
    /\ command = [c \in Commands |-> Idle]
    /\ started = 0
    /\ alone = [c \in Commands |-> FALSE]
    /\ torn = FALSE
    /\ booted = [s \in Slot |-> 0]
    /\ selected = {}
    /\ once_usable = usable

Running(c) == command[c].pc # "idle"

-----------------------------------------------------------------------------
(* Load and change *)

\* No file is a first start; an empty one is too for the bootloader, while boot
\* control goes on with the defaults and writes nothing.
FirstStart == record = NoFile \/ (tool = "bootloader" /\ record = Empty)

\* Mutant: an empty file is taken for a state.
LoadedUnchecked == IF record = NoFile THEN default_state ELSE record

Loaded == IF record \in BootState THEN record ELSE default_state

\* load_slot_state and initialize, up to the write of a first start.
Start(c, op, s) ==
    /\ ~Running(c)
    /\ started < MaxCommands
    /\ started' = started + 1
    /\ command' = [command EXCEPT ![c] =
           [Idle EXCEPT !.pc = IF FirstStart THEN "open" ELSE "call",
                        !.initializing = FirstStart,
                        !.op = op, !.slot = s, !.found = s \in usable,
                        !.memory = Loaded]]
    /\ alone' = [d \in Commands |-> d = c /\ \A e \in Commands : ~Running(e)]
    /\ UNCHANGED <<tool, record, tmp, usable, torn, booted, selected, once_usable>>

\* Memory changes and the call goes on to write it.
Change(c, state) ==
    command' = [command EXCEPT ![c].memory = state, ![c].pc = "open"]

\* Mutant: boot control trusts the operator.
SetUnvalidated(c) ==
    /\ command[c].pc = "call" /\ command[c].op = "set"
    /\ command[c].slot # command[c].memory.current
    /\ Change(c, select(command[c].memory, command[c].slot))
    /\ selected' = selected \cup {command[c].slot}
    /\ UNCHANGED booted

\* validate_boot_target and set_next_boot_slot; the bootloader refuses no slot.
Set(c) ==
    /\ command[c].pc = "call" /\ command[c].op = "set"
    /\ tool = "boot" => command[c].found /\ command[c].slot # command[c].memory.current
    /\ Change(c, select(command[c].memory, command[c].slot))
    /\ selected' = selected \cup {command[c].slot}
    /\ UNCHANGED booted

Clear(c) ==
    /\ command[c].pc = "call" /\ command[c].op = "clear"
    /\ Change(c, clear(command[c].memory))
    /\ UNCHANGED <<selected, booted>>

\* simulate_boot; has_pending_boot_slot and mark_boot_started.
Simulate(c) ==
    LET target == command[c].memory.next IN
    /\ command[c].pc = "call" /\ command[c].op = "simulate"
    /\ command[c].memory.next_set
    /\ command[c].memory.attempts[target] < MaxBoots
    /\ Change(c, boot(command[c].memory, target))
    /\ booted' = [booted EXCEPT ![target] = @ + 1]
    /\ UNCHANGED selected

\* reset_boot_attempt_count, reset_boot_attempts.
Reset(c) ==
    /\ command[c].pc = "call" /\ command[c].op = "reset"
    /\ Change(c, [command[c].memory EXCEPT !.attempts[command[c].slot] = 0])
    /\ UNCHANGED <<selected, booted>>

\* increment_boot_attempts of the bootloader.
Increment(c) ==
    /\ command[c].pc = "call" /\ command[c].op = "increment"
    /\ tool = "bootloader"
    /\ command[c].memory.attempts[command[c].slot] < MaxBoots
    /\ Change(c, [command[c].memory EXCEPT !.attempts[command[c].slot] = @ + 1])
    /\ booted' = [booted EXCEPT ![command[c].slot] = @ + 1]
    /\ UNCHANGED selected

Call(c) ==
    /\ Set(c) \/ Clear(c) \/ Simulate(c) \/ Reset(c) \/ Increment(c)
    /\ UNCHANGED <<tool, record, tmp, usable, started, alone, torn, once_usable>>

-----------------------------------------------------------------------------
(* persist_boot_state, persist_state *)

\* Where a process goes when its write has returned ok: the first write of the
\* bootloader must succeed, that of boot control is not looked at.
AfterPersist(c, ok) ==
    [command[c] EXCEPT !.at = "nowhere", !.ok = ok, !.initializing = FALSE,
        !.pc = IF command[c].initializing /\ (ok \/ tool = "boot") THEN "call" ELSE "done"]

\* Mutant: a file that is there is not opened.
OpenNew(c) ==
    /\ command[c].pc = "open"
    /\ tmp' = IF tmp = NoFile THEN Empty ELSE tmp
    /\ command' = [command EXCEPT ![c] =
           IF tmp = NoFile THEN [@ EXCEPT !.pc = "write", !.at = "tmp"]
                           ELSE AfterPersist(c, FALSE)]
    /\ UNCHANGED record

\* ofstream(tmp_file): created, or truncated as it is.
Open(c) ==
    /\ command[c].pc = "open"
    /\ tmp' = Empty
    /\ command' = [command EXCEPT ![c].pc = "write", ![c].at = "tmp"]
    /\ UNCHANGED record

\* Mutant: the text goes to the name, not to the file that was opened.
WriteByName(c) ==
    /\ command[c].pc = "write"
    /\ tmp' = IF tmp = NoFile THEN NoFile ELSE command[c].memory
    /\ command' = [command EXCEPT ![c].pc = "rename", ![c].at = "nowhere"]
    /\ UNCHANGED record

\* close: the text goes out at once, to the file that was opened, wherever it
\* is now.  Texts differ by a character or two, after the closing brace.
Write(c) ==
    /\ command[c].pc = "write"
    /\ tmp' = IF command[c].at = "tmp" THEN command[c].memory ELSE tmp
    /\ record' = IF command[c].at = "record" THEN command[c].memory ELSE record
    /\ command' = [command EXCEPT ![c].pc = "rename", ![c].at = "nowhere"]

Moved(at) == CASE at = "tmp" -> "record" [] OTHER -> "nowhere"

Rename(c) ==
    /\ command[c].pc = "rename"
    /\ IF tmp # NoFile
       THEN /\ record' = tmp
            /\ tmp' = NoFile
            /\ command' = [d \in Commands |->
                   IF d = c THEN AfterPersist(c, TRUE)
                            ELSE [command[d] EXCEPT !.at = Moved(@)]]
       ELSE /\ command' = [command EXCEPT ![c] = AfterPersist(c, FALSE)]
            /\ UNCHANGED <<record, tmp>>

Persist(c) ==
    /\ Open(c) \/ Write(c) \/ Rename(c)
    /\ UNCHANGED <<tool, usable, started, observers>>

\* The disk is full: the text stays in the stream, or the close loses it.  Nobody
\* looks at the stream, and the file goes on to its rename as the open left it.
DiskFull(c) ==
    /\ command[c].pc = "write"
    /\ command' = [command EXCEPT ![c].pc = "rename", ![c].at = "nowhere"]
    /\ alone' = [alone EXCEPT ![c] = FALSE]
    /\ torn' = TRUE
    /\ UNCHANGED <<tool, record, tmp, usable, started, booted, selected, once_usable>>

\* The open or the rename fails by itself.
PersistFails(c) ==
    /\ command[c].pc \in {"open", "rename"}
    /\ command' = [command EXCEPT ![c] = AfterPersist(c, FALSE)]
    /\ alone' = [alone EXCEPT ![c] = FALSE]
    /\ UNCHANGED <<tool, record, tmp, usable, started, torn, booted, selected, once_usable>>

-----------------------------------------------------------------------------

\* The command returns, after its write, or from a status, a refused set or a
\* boot without a selection; or it is killed.
End(c) ==
    /\ Running(c)
    /\ command' = [command EXCEPT ![c] = Idle]
    /\ alone' = [alone EXCEPT ![c] = FALSE]
    /\ torn' = (torn \/ command[c].pc = "write")
    /\ UNCHANGED <<tool, record, tmp, usable, started, booted, selected, once_usable>>

\* Another command writes the slot files, which only the tool "boot" reads.
SlotsChange ==
    /\ tool = "boot"
    /\ usable' \in SUBSET Slot
    /\ once_usable' = once_usable \cup usable'
    /\ UNCHANGED <<tool, record, tmp, command, started, alone, torn, booted, selected>>

Next ==
    \/ \E c \in Commands :
        \/ \E op \in {"set", "reset", "increment"}, s \in Slot : Start(c, op, s)
        \/ \E op \in {"status", "clear", "simulate"} : Start(c, op, Idle.slot)
        \/ Call(c) \/ Persist(c) \/ PersistFails(c) \/ DiskFull(c) \/ End(c)
    \/ SlotsChange

Spec == Init /\ [][Next]_vars

-----------------------------------------------------------------------------

TypeOK ==
    /\ tool \in Tools
    /\ {record, tmp} \subseteq BootState \cup {NoFile, Empty}
    /\ usable \subseteq Slot
    /\ command \in [Commands ->
           [pc : {"idle", "call", "open", "write", "rename", "done"},
            op : Operations, slot : Slot, found : BOOLEAN, memory : BootState,
            at : {"tmp", "record", "nowhere"}, initializing : BOOLEAN, ok : BOOLEAN]]
    /\ started \in 0 .. MaxCommands
    /\ alone \in [Commands -> BOOLEAN]
    /\ torn \in BOOLEAN
    /\ booted \in [Slot -> 0 .. MaxCommands]
    /\ selected \cup once_usable \subseteq Slot

\* The states that are in a file or about to be.
States == BootState \cap ({record, tmp} \cup {command[c].memory : c \in Commands})

\* However commands overlap, overwrite each other's file and are killed, no
\* state counts a boot that was not simulated, and none runs or selects a slot
\* that no command selected; with boot control, that was never usable.
StatesTellWhatHappened ==
    \A state \in States :
        /\ \A s \in Slot : state.attempts[s] <= booted[s]
        /\ state.current \in {default_state.current} \cup selected
        /\ state.next_set => state.next \in selected
        /\ tool = "boot" => {state.current, state.next}
               \subseteq {default_state.current} \cup once_usable

\* A command that no other overlapped, and none of whose operations on the files
\* failed, reports success, and the file then holds the state it reports,
\* whatever commands that were killed or met a full disk left in either file.
LoneCommandDecides ==
    \A c \in Commands :
        command[c].pc = "done" /\ alone[c]
            => command[c].ok /\ record = command[c].memory /\ tmp = NoFile

\* Commands empty each other's file under its final name.  Once no command runs,
\* the file is whole all the same, unless one was killed between the open and
\* the write, or wrote on a full disk: a file that was renamed while it was empty
\* is written in place.
RecordWholeAtRest ==
    (\A c \in Commands : ~Running(c)) /\ ~torn => record # Empty
=============================================================================
