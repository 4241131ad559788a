------------------------- MODULE BootCommandsProofs -------------------------
(***************************************************************************)
(* Proofs about BootCommands, for any set of processes, any number of      *)
(* commands and any bound on the attempts.                                 *)
(***************************************************************************)
EXTENDS BootCommands, FiniteSetTheorems, TLAPS

CommandRecord ==
    [pc : {"idle", "call", "open", "write", "rename", "done"},
     op : Operations, slot : Slot, found : BOOLEAN, memory : BootState,
     at : {"tmp", "record", "nowhere"}, initializing : BOOLEAN, ok : BOOLEAN]

(* Everything TypeOK says, but for the number of boots.                       *)
Typed ==
    /\ tool \in Tools
    /\ {record, tmp} \subseteq BootState \cup {NoFile, Empty}
    /\ usable \subseteq Slot
    /\ command \in [Commands -> CommandRecord]
    /\ started \in 0 .. MaxCommands
    /\ alone \in [Commands -> BOOLEAN]
    /\ torn \in BOOLEAN
    /\ booted \in [Slot -> Nat]
    /\ selected \cup once_usable \subseteq Slot

(* The commands that may still count a boot.                                  *)
Waiting == {c \in Commands : command[c].pc = "call" \/ command[c].initializing}

BootsCounted ==
    /\ IsFiniteSet(Waiting)
    /\ \A s \in Slot : booted[s] + Cardinality(Waiting) <= started
    /\ \A c \in Commands : command[c].pc = "call" => ~command[c].initializing

(* What is written or held tells only of what happened.                       *)
Tells(state) ==
    /\ \A s \in Slot : state.attempts[s] <= booted[s]
    /\ state.current \in {"A"} \cup selected
    /\ state.next_set => state.next \in selected
    /\ tool = "boot" => {state.current, state.next} \subseteq {"A"} \cup once_usable

TruthInv ==
    /\ record \in BootState => Tells(record)
    /\ tmp \in BootState => Tells(tmp)
    /\ usable \subseteq once_usable
    /\ \A c \in Commands :
          /\ Tells(command[c].memory)
          /\ command[c].found => command[c].slot \in once_usable

(* A command that is alone finds its file where it left it.                   *)
AloneInv ==
    \A c \in Commands :
        alone[c] =>
            /\ \A d \in Commands \ {c} : ~Running(d)
            /\ command[c].pc = "write" => command[c].at = "tmp"
            /\ command[c].pc = "rename" => tmp = command[c].memory
            /\ command[c].pc = "done" =>
                  command[c].ok /\ record = command[c].memory /\ tmp = NoFile

WritesTo(c, place) == command[c].pc = "write" /\ command[c].at = place

(* Who opened an empty file is about to write it, unless one was killed or    *)
(* met a full disk instead of writing.                                        *)
EmptyInv ==
    ~torn =>
        /\ record = Empty => \E c \in Commands : WritesTo(c, "record")
        /\ tmp = Empty => \E c \in Commands : WritesTo(c, "tmp")

CommandInv == Typed /\ BootsCounted /\ TruthInv /\ AloneInv /\ EmptyInv

-----------------------------------------------------------------------------
(* What the steps of a command do to it. *)

LEMMA DefaultFacts ==
    /\ default_state \in BootState /\ Idle \in CommandRecord
    /\ default_state.current = "A" /\ default_state.next = "A" /\ ~default_state.next_set
    /\ \A s \in Slot : default_state.attempts[s] = 0
  BY CommandsAssumption DEF default_state, BootState, Slot, Idle, CommandRecord, Operations

LEMMA SelectFacts ==
    ASSUME NEW state \in BootState, NEW s \in Slot
    PROVE  LET q == select(state, s) IN
           /\ q \in BootState /\ q.next_set /\ q.next = s
           /\ q.current = state.current /\ q.attempts = state.attempts
  BY DEF select, BootState

LEMMA ClearFacts ==
    ASSUME NEW state \in BootState
    PROVE  LET q == clear(state) IN
           /\ q \in BootState /\ ~q.next_set /\ q.next = state.next
           /\ q.current = state.current /\ q.attempts = state.attempts
  BY DEF clear, BootState

LEMMA BootFacts ==
    ASSUME NEW state \in BootState, NEW s \in Slot, state.attempts[s] < MaxBoots
    PROVE  LET q == boot(state, s) IN
           /\ q \in BootState /\ q.current = s /\ ~q.next_set /\ q.next = state.next
           /\ q.attempts = [state.attempts EXCEPT ![s] = @ + 1]
  <1>1. state.attempts \in [Slot -> 0..MaxBoots] /\ state.attempts[s] + 1 \in 0..MaxBoots
    BY CommandsAssumption DEF BootState
  <1>2. QED
    BY <1>1 DEF boot, BootState

OthersKept(c) == \A d \in Commands \ {c} : command'[d] = command[d]

LEMMA AfterPersistFacts ==
    ASSUME Typed, NEW c \in Commands, NEW ok \in BOOLEAN
    PROVE  LET r == AfterPersist(c, ok) IN
           /\ r \in CommandRecord /\ r.memory = command[c].memory /\ r.at = "nowhere"
           /\ r.ok = ok /\ ~r.initializing /\ r.pc \in {"call", "done"}
           /\ r.pc = "call" => command[c].initializing
           /\ r.found = command[c].found /\ r.slot = command[c].slot
  <1>1. command[c] \in CommandRecord
    BY DEF Typed
  <1>2. QED
    BY <1>1 DEF AfterPersist, CommandRecord

LEMMA StartStep ==
    ASSUME Typed, NEW c \in Commands, NEW op \in Operations, NEW s \in Slot, Start(c, op, s)
    PROVE  /\ command' \in [Commands -> CommandRecord] /\ OthersKept(c)
           /\ ~Running(c) /\ command'[c].pc \in {"open", "call"}
           /\ command'[c].pc = "call" => ~command'[c].initializing
           /\ command'[c].at = "nowhere" /\ command'[c].slot = s
           /\ command'[c].found => s \in usable
           /\ command'[c].memory \in {default_state, record} \cap BootState
           /\ started < MaxCommands /\ started' = started + 1
           /\ alone' = [d \in Commands |-> d = c /\ \A e \in Commands : ~Running(e)]
           /\ UNCHANGED <<tool, record, tmp, usable, torn, booted, selected, once_usable>>
  <1>1. Loaded \in {default_state, record} \cap BootState
    BY DefaultFacts DEF Loaded
  <1>2. PICK first \in BOOLEAN : first = FirstStart
    <2>1. FirstStart \in BOOLEAN
      BY DEF FirstStart
    <2>2. QED
      BY <2>1
  <1>3. PICK found \in BOOLEAN : found = (s \in usable)
    <2>1. (s \in usable) \in BOOLEAN
      OBVIOUS
    <2>2. QED
      BY <2>1
  <1> DEFINE new == [Idle EXCEPT !.pc = IF first THEN "open" ELSE "call",
                        !.initializing = first,
                        !.op = op, !.slot = s, !.found = found, !.memory = Loaded]
  <1>4. /\ new \in CommandRecord /\ new.pc \in {"open", "call"} /\ new.at = "nowhere"
        /\ new.slot = s /\ new.found = found /\ new.memory = Loaded
        /\ new.pc = "call" => ~new.initializing
    BY <1>1, DefaultFacts DEF CommandRecord, Idle
  <1>5. command' = [command EXCEPT ![c] = new]
    BY <1>2, <1>3 DEF Start
  <1> HIDE DEF new
  <1>6. command' \in [Commands -> CommandRecord] /\ OthersKept(c) /\ command'[c] = new
    BY <1>4, <1>5 DEF Typed, OthersKept
  <1>7. QED
    BY <1>1, <1>4, <1>6, <1>3 DEF Start

(* A call changes memory, and then writes it: nothing else tells of a boot or *)
(* a selection than what is counted as one.                                   *)
LEMMA CallStep ==
    ASSUME Typed, TruthInv, NEW c \in Commands, Call(c)
    PROVE  /\ command' \in [Commands -> CommandRecord] /\ OthersKept(c)
           /\ command[c].pc = "call" /\ command'[c].pc = "open"
           /\ command'[c].initializing = command[c].initializing
           /\ command'[c].found = command[c].found /\ command'[c].slot = command[c].slot
           /\ Tells(command[c].memory)'
           /\ booted' \in [Slot -> Nat]
           /\ \A s \in Slot : booted'[s] \in {booted[s], booted[s] + 1}
           /\ selected \subseteq selected' /\ selected' \subseteq Slot
           /\ UNCHANGED <<tool, record, tmp, usable, started, alone, torn, once_usable>>
  <1> DEFINE old == command[c].memory
             s == command[c].slot
  <1>1. /\ command[c] \in CommandRecord /\ old \in BootState /\ s \in Slot /\ Tells(old)
        /\ old.attempts \in [Slot -> 0..MaxBoots] /\ old.next \in Slot
        /\ booted \in [Slot -> Nat] /\ selected \subseteq Slot
    BY DEF Typed, CommandRecord, TruthInv, BootState
  <1>2. UNCHANGED <<tool, record, tmp, usable, started, alone, torn, once_usable>>
    BY DEF Call
  <1>3. ASSUME NEW state \in BootState, Change(c, state)
        PROVE  /\ command' \in [Commands -> CommandRecord] /\ OthersKept(c)
               /\ command'[c].pc = "open" /\ command'[c].memory = state
               /\ command'[c].initializing = command[c].initializing
               /\ command'[c].found = command[c].found /\ command'[c].slot = command[c].slot
    <2>1. command' = [command EXCEPT ![c] = [@ EXCEPT !.memory = state, !.pc = "open"]]
      BY <1>1, <1>3 DEF Change, Typed, CommandRecord
    <2>2. QED
      BY <1>1, <2>1 DEF Typed, CommandRecord, OthersKept
  <1>4. CASE Set(c)
    <2>1. PICK q \in BootState :
            /\ q.next_set /\ q.next = s /\ q.current = old.current /\ q.attempts = old.attempts
            /\ Change(c, q)
      BY <1>1, <1>4, SelectFacts DEF Set
    <2>2. selected' = selected \cup {s} /\ booted' = booted /\ command[c].pc = "call"
          /\ (tool = "boot" => s \in once_usable)
      BY <1>4 DEF Set, TruthInv
    <2>3. Tells(q)'
      BY <1>1, <1>2, <2>1, <2>2 DEF Tells
    <2>4. QED
      BY <1>1, <1>2, <1>3, <2>1, <2>2, <2>3
  <1>5. CASE Clear(c)
    <2>1. PICK q \in BootState :
            /\ ~q.next_set /\ q.next = old.next /\ q.current = old.current
            /\ q.attempts = old.attempts /\ Change(c, q)
      BY <1>1, <1>5, ClearFacts DEF Clear
    <2>2. selected' = selected /\ booted' = booted /\ command[c].pc = "call"
      BY <1>5 DEF Clear
    <2>3. Tells(q)'
      BY <1>1, <1>2, <2>1, <2>2 DEF Tells
    <2>4. QED
      BY <1>1, <1>2, <1>3, <2>1, <2>2, <2>3
  <1>6. CASE Simulate(c)
    <2>1. /\ old.next_set /\ old.attempts[old.next] < MaxBoots /\ command[c].pc = "call"
          /\ Change(c, boot(old, old.next)) /\ selected' = selected
          /\ booted' = [booted EXCEPT ![old.next] = @ + 1]
      BY <1>6 DEF Simulate
    <2>2. PICK q \in BootState :
            /\ q.current = old.next /\ ~q.next_set /\ q.next = old.next
            /\ q.attempts = [old.attempts EXCEPT ![old.next] = @ + 1] /\ Change(c, q)
      BY <1>1, <2>1, BootFacts
    <2>3. Tells(q)'
      BY <1>1, <1>2, <2>1, <2>2 DEF Tells
    <2>4. QED
      BY <1>1, <1>2, <1>3, <2>1, <2>2, <2>3
  <1>7. CASE Reset(c)
    <2>1. PICK q \in BootState :
            /\ q.current = old.current /\ q.next_set = old.next_set /\ q.next = old.next
            /\ q.attempts = [old.attempts EXCEPT ![s] = 0] /\ Change(c, q)
      <3>1. 0 \in 0..MaxBoots /\ Change(c, [old EXCEPT !.attempts[s] = 0])
        BY <1>7, CommandsAssumption DEF Reset
      <3>2. PICK q : q = [old EXCEPT !.attempts[s] = 0] /\ Change(c, q)
        BY <3>1
      <3>3. /\ q \in BootState /\ q.current = old.current /\ q.next_set = old.next_set
            /\ q.next = old.next /\ q.attempts = [old.attempts EXCEPT ![s] = 0]
        BY <1>1, <3>1, <3>2 DEF BootState
      <3>4. QED
        BY <3>2, <3>3
    <2>2. selected' = selected /\ booted' = booted /\ command[c].pc = "call"
      BY <1>7 DEF Reset
    <2>3. Tells(q)'
      BY <1>1, <1>2, <2>1, <2>2 DEF Tells
    <2>4. QED
      BY <1>1, <1>2, <1>3, <2>1, <2>2, <2>3
  <1>8. CASE Increment(c)
    <2>1. old.attempts[s] < MaxBoots /\ old.attempts[s] + 1 \in 0..MaxBoots
      BY <1>1, <1>8, CommandsAssumption DEF Increment
    <2>2. PICK q \in BootState :
            /\ q.current = old.current /\ q.next_set = old.next_set /\ q.next = old.next
            /\ q.attempts = [old.attempts EXCEPT ![s] = old.attempts[s] + 1] /\ Change(c, q)
      <3>1. PICK n \in 0..MaxBoots :
                n = old.attempts[s] + 1 /\ Change(c, [old EXCEPT !.attempts[s] = n])
        BY <1>1, <1>8, <2>1 DEF Increment, BootState
      <3>2. PICK q : q = [old EXCEPT !.attempts[s] = n] /\ Change(c, q)
        BY <3>1
      <3>3. /\ q \in BootState /\ q.current = old.current /\ q.next_set = old.next_set
            /\ q.next = old.next /\ q.attempts = [old.attempts EXCEPT ![s] = n]
        BY <1>1, <3>1, <3>2 DEF BootState
      <3>4. QED
        BY <3>1, <3>2, <3>3
    <2>3. selected' = selected /\ booted' = [booted EXCEPT ![s] = @ + 1] /\ command[c].pc = "call"
      BY <1>8 DEF Increment
    <2>4. Tells(q)'
      BY <1>1, <1>2, <2>2, <2>3 DEF Tells
    <2>5. QED
      BY <1>1, <1>2, <1>3, <2>2, <2>3, <2>4
  <1>9. QED
    BY <1>4, <1>5, <1>6, <1>7, <1>8 DEF Call

(* The writes: command c opens, writes or renames its file, or fails to, and  *)
(* a file that another one has open may lose its name.                        *)
OpenStep(c) ==
    /\ command[c].pc = "open" /\ command'[c].pc = "write" /\ command'[c].at = "tmp"
    /\ command'[c].ok = command[c].ok /\ command'[c].initializing = command[c].initializing
    /\ OthersKept(c) /\ tmp' = Empty /\ record' = record

WriteStep(c) ==
    /\ command[c].pc = "write" /\ command'[c].pc = "rename" /\ command'[c].at = "nowhere"
    /\ command'[c].ok = command[c].ok /\ command'[c].initializing = command[c].initializing
    /\ OthersKept(c)
    /\ tmp' = IF command[c].at = "tmp" THEN command[c].memory ELSE tmp
    /\ record' = IF command[c].at = "record" THEN command[c].memory ELSE record

Persisted(c, ok) ==
    /\ command'[c].ok = ok /\ ~command'[c].initializing /\ command'[c].at = "nowhere"
    /\ command'[c].pc \in {"call", "done"}
    /\ command'[c].pc = "call" => command[c].initializing

RenameStep(c) ==
    /\ command[c].pc = "rename" /\ tmp # NoFile /\ Persisted(c, TRUE)
    /\ tmp' = NoFile /\ record' = tmp
    /\ \A d \in Commands \ {c} :
          /\ command'[d].pc = command[d].pc /\ command'[d].ok = command[d].ok
          /\ command'[d].initializing = command[d].initializing
          /\ command'[d].at = Moved(command[d].at)

NotPersisted(c) ==
    /\ command[c].pc \in {"open", "rename"} /\ Persisted(c, FALSE) /\ OthersKept(c)
    /\ UNCHANGED <<tmp, record>>

SameMemory ==
    \A d \in Commands : /\ command'[d].memory = command[d].memory
                        /\ command'[d].found = command[d].found
                        /\ command'[d].slot = command[d].slot

LEMMA PersistFailureFacts ==
    ASSUME Typed, NEW c \in Commands, command[c].pc \in {"open", "rename"},
           command' = [command EXCEPT ![c] = AfterPersist(c, FALSE)], UNCHANGED <<tmp, record>>
    PROVE  command' \in [Commands -> CommandRecord] /\ SameMemory /\ NotPersisted(c)
  <1>1. PICK r \in CommandRecord :
          /\ command' = [command EXCEPT ![c] = r]
          /\ r.memory = command[c].memory /\ r.at = "nowhere"
          /\ r.ok = FALSE /\ ~r.initializing /\ r.pc \in {"call", "done"}
          /\ r.pc = "call" => command[c].initializing
          /\ r.found = command[c].found /\ r.slot = command[c].slot
    BY AfterPersistFacts
  <1>2. command'[c] = r /\ OthersKept(c) /\ command' \in [Commands -> CommandRecord]
    BY <1>1 DEF Typed, OthersKept
  <1>3. QED
    BY <1>1, <1>2 DEF SameMemory, NotPersisted, Persisted, OthersKept

LEMMA PersistStep ==
    ASSUME Typed, NEW c \in Commands, Persist(c)
    PROVE  /\ command' \in [Commands -> CommandRecord] /\ SameMemory
           /\ {record', tmp'} \subseteq {record, tmp, command[c].memory, NoFile, Empty}
           /\ OpenStep(c) \/ WriteStep(c) \/ RenameStep(c)
                \/ (command[c].pc = "rename" /\ tmp = NoFile /\ NotPersisted(c))
           /\ UNCHANGED <<tool, usable, started, observers>>
  <1>1. command \in [Commands -> CommandRecord] /\ UNCHANGED <<tool, usable, started, observers>>
    BY DEF Typed, Persist
  <1>2. CASE Open(c)
    BY ZenonT(60), <1>1, <1>2 DEF Open, OpenStep, OthersKept, SameMemory, CommandRecord
  <1>3. CASE Write(c)
    BY ZenonT(60), <1>1, <1>3 DEF Write, WriteStep, OthersKept, SameMemory, CommandRecord
  <1>4. CASE Rename(c) /\ tmp = NoFile
    <2>1. /\ command[c].pc = "rename" /\ UNCHANGED <<tmp, record>>
          /\ command' = [command EXCEPT ![c] = AfterPersist(c, FALSE)]
      BY <1>4 DEF Rename
    <2>2. QED
      BY <1>1, <1>4, <2>1, PersistFailureFacts
  <1>5. CASE Rename(c) /\ tmp # NoFile
    <2>1. /\ command[c].pc = "rename" /\ tmp' = NoFile /\ record' = tmp
          /\ command' = [d \in Commands |->
                   IF d = c THEN AfterPersist(c, TRUE)
                            ELSE [command[d] EXCEPT !.at = Moved(@)]]
      BY <1>5 DEF Rename
    <2>2. PICK r \in CommandRecord :
          /\ r = AfterPersist(c, TRUE)
          /\ r.memory = command[c].memory /\ r.at = "nowhere"
          /\ r.ok = TRUE /\ ~r.initializing /\ r.pc \in {"call", "done"}
          /\ r.pc = "call" => command[c].initializing
          /\ r.found = command[c].found /\ r.slot = command[c].slot
      BY AfterPersistFacts
    <2>3. command'[c] = r
      BY <2>1, <2>2
    <2>4. ASSUME NEW d \in Commands \ {c}
          PROVE  /\ command'[d] \in CommandRecord
                 /\ command'[d].pc = command[d].pc /\ command'[d].ok = command[d].ok
                 /\ command'[d].initializing = command[d].initializing
                 /\ command'[d].at = Moved(command[d].at)
                 /\ command'[d].memory = command[d].memory
                 /\ command'[d].found = command[d].found /\ command'[d].slot = command[d].slot
      <3>1. command'[d] = [command[d] EXCEPT !.at = Moved(command[d].at)]
        BY <1>1, <2>1 DEF CommandRecord
      <3>2. Moved(command[d].at) \in {"tmp", "record", "nowhere"}
        BY DEF Moved
      <3>3. command[d] \in CommandRecord
        BY <1>1
      <3>4. QED
        BY <3>1, <3>2, <3>3 DEF CommandRecord
    <2>5. command' \in [Commands -> CommandRecord]
      BY <2>1, <2>3, <2>4
    <2>6. SameMemory
      BY <2>2, <2>3, <2>4 DEF SameMemory
    <2>7. RenameStep(c)
      BY <1>5, <2>1, <2>2, <2>3, <2>4 DEF RenameStep, Persisted
    <2>8. QED
      BY <1>1, <2>1, <2>5, <2>6, <2>7
  <1>6. QED
    BY <1>2, <1>3, <1>4, <1>5 DEF Persist

LEMMA PersistFailsStep ==
    ASSUME Typed, NEW c \in Commands, PersistFails(c)
    PROVE  /\ command' \in [Commands -> CommandRecord] /\ SameMemory /\ NotPersisted(c)
           /\ alone' = [alone EXCEPT ![c] = FALSE]
           /\ UNCHANGED <<tool, record, tmp, usable, started, torn, booted, selected, once_usable>>
  BY PersistFailureFacts DEF PersistFails

LEMMA DiskFullStep ==
    ASSUME Typed, NEW c \in Commands, DiskFull(c)
    PROVE  /\ command' \in [Commands -> CommandRecord] /\ SameMemory /\ OthersKept(c)
           /\ command[c].pc = "write" /\ command'[c].pc = "rename"
           /\ command'[c].initializing = command[c].initializing
           /\ alone' = [alone EXCEPT ![c] = FALSE] /\ torn' = TRUE
           /\ UNCHANGED <<tool, record, tmp, usable, started, booted, selected, once_usable>>
  <1>1. command \in [Commands -> CommandRecord]
    BY DEF Typed
  <1>2. QED
    BY ZenonT(60), <1>1 DEF DiskFull, OthersKept, SameMemory, CommandRecord

LEMMA EndStep ==
    ASSUME Typed, NEW c \in Commands, End(c)
    PROVE  /\ command' \in [Commands -> CommandRecord] /\ OthersKept(c) /\ command'[c] = Idle
           /\ alone' = [alone EXCEPT ![c] = FALSE]
           /\ torn' = (torn \/ command[c].pc = "write")
           /\ UNCHANGED <<tool, record, tmp, usable, started, booted, selected, once_usable>>
  BY DefaultFacts DEF End, Typed, OthersKept

-----------------------------------------------------------------------------
(* The invariant, part by part. *)

LEMMA TypedIsKept ==
    ASSUME Typed, TruthInv, [Next]_vars
    PROVE  Typed'
  <1>1. ASSUME NEW c \in Commands, NEW op \in Operations, NEW s \in Slot, Start(c, op, s)
        PROVE  Typed'
    <2>1. alone' \in [Commands -> BOOLEAN]
      BY <1>1, StartStep
    <2>2. started + 1 \in 0..MaxCommands
      BY <1>1, StartStep, CommandsAssumption DEF Typed
    <2>3. QED
      BY <1>1, <2>1, <2>2, StartStep DEF Typed
  <1>2. ASSUME NEW c \in Commands, Call(c)
        PROVE  Typed'
    BY <1>2, CallStep DEF Typed
  <1>3. ASSUME NEW c \in Commands, Persist(c)
        PROVE  Typed'
    <2>1. command[c].memory \in BootState
      BY DEF Typed, CommandRecord
    <2>2. QED
      BY <1>3, <2>1, PersistStep DEF Typed, observers
  <1>4. ASSUME NEW c \in Commands, PersistFails(c) \/ DiskFull(c) \/ End(c)
        PROVE  Typed'
    <2>1. /\ command' \in [Commands -> CommandRecord]
          /\ alone' = [alone EXCEPT ![c] = FALSE]
          /\ torn' \in BOOLEAN
          /\ UNCHANGED <<tool, record, tmp, usable, started, booted, selected, once_usable>>
      BY <1>4, PersistFailsStep, DiskFullStep, EndStep DEF Typed
    <2>2. QED
      BY <2>1 DEF Typed
  <1>5. CASE SlotsChange \/ UNCHANGED vars
    BY <1>5 DEF SlotsChange, vars, observers, Typed
  <1>6. {"set", "reset", "increment", "status", "clear", "simulate"} = Operations
        /\ Idle.slot \in Slot
    BY DEF Operations, Idle, Slot
  <1>7. QED
    BY <1>1, <1>2, <1>3, <1>4, <1>5, <1>6 DEF Next

\* A boot is counted by a command that was waiting to, and only once.
LEMMA BootsCountedIsKept ==
    ASSUME Typed, TruthInv, BootsCounted, [Next]_vars
    PROVE  BootsCounted'
  <1>1. Cardinality(Waiting) \in Nat /\ started \in Nat /\ booted \in [Slot -> Nat]
    BY FS_CardinalityType DEF BootsCounted, Typed
  <1> DEFINE Called == \A d \in Commands : command[d].pc = "call" => ~command[d].initializing
  <1>2. ASSUME Waiting' \subseteq Waiting, started' = started, booted' = booted, Called'
        PROVE  BootsCounted'
    <2>1. IsFiniteSet(Waiting') /\ Cardinality(Waiting') <= Cardinality(Waiting)
      BY <1>2, FS_Subset DEF BootsCounted
    <2>2. Cardinality(Waiting') \in Nat
      BY <2>1, FS_CardinalityType
    <2>3. \A s \in Slot : booted[s] + Cardinality(Waiting') <= started
      BY <1>1, <2>1, <2>2 DEF BootsCounted
    <2>4. QED
      BY <1>2, <2>1, <2>3 DEF BootsCounted
  <1>3. ASSUME NEW c \in Commands, NEW op \in Operations, NEW s \in Slot, Start(c, op, s)
        PROVE  BootsCounted'
    <2>1. Waiting' \subseteq Waiting \cup {c}
      BY <1>3, StartStep DEF Waiting, OthersKept
    <2>2. /\ IsFiniteSet(Waiting \cup {c})
          /\ Cardinality(Waiting \cup {c}) <= Cardinality(Waiting) + 1
      BY SMTT(60), <1>1, FS_AddElement DEF BootsCounted
    <2>3. /\ IsFiniteSet(Waiting') /\ Cardinality(Waiting') <= Cardinality(Waiting \cup {c})
          /\ Cardinality(Waiting') \in Nat /\ Cardinality(Waiting \cup {c}) \in Nat
      BY <2>1, <2>2, FS_Subset, FS_CardinalityType
    <2>4. started' = started + 1 /\ booted' = booted
      BY <1>3, StartStep
    <2>5. \A t \in Slot : booted[t] + Cardinality(Waiting') <= started + 1
      BY <1>1, <2>2, <2>3 DEF BootsCounted
    <2>6. Called'
      BY <1>3, StartStep DEF OthersKept, BootsCounted
    <2>7. QED
      BY <2>3, <2>4, <2>5, <2>6 DEF BootsCounted
  <1>4. ASSUME NEW c \in Commands, Call(c)
        PROVE  BootsCounted'
    <2>1. c \in Waiting /\ Waiting' \subseteq Waiting \ {c}
      BY <1>4, CallStep DEF Waiting, OthersKept, BootsCounted
    <2>2. IsFiniteSet(Waiting \ {c}) /\ Cardinality(Waiting \ {c}) = Cardinality(Waiting) - 1
      BY <2>1, FS_RemoveElement DEF BootsCounted
    <2>3. IsFiniteSet(Waiting') /\ Cardinality(Waiting') <= Cardinality(Waiting \ {c})
          /\ Cardinality(Waiting') \in Nat
      BY <2>1, <2>2, FS_Subset, FS_CardinalityType
    <2>4. started' = started /\ \A s \in Slot : booted'[s] \in {booted[s], booted[s] + 1}
      BY <1>4, CallStep
    <2>5. \A s \in Slot : booted'[s] + Cardinality(Waiting') <= started
      BY <1>1, <2>2, <2>3, <2>4 DEF BootsCounted
    <2>6. Called'
      BY <1>4, CallStep DEF OthersKept, BootsCounted
    <2>7. QED
      BY <2>3, <2>4, <2>5, <2>6 DEF BootsCounted
  <1>5. ASSUME NEW c \in Commands, Persist(c) \/ PersistFails(c) \/ DiskFull(c) \/ End(c)
        PROVE  BootsCounted'
    <2>1. \A d \in Commands \ {c} :
              command'[d].pc = command[d].pc /\ command'[d].initializing = command[d].initializing
      <3>1. CASE Persist(c)
        BY <3>1, PersistStep DEF OpenStep, WriteStep, RenameStep, NotPersisted, OthersKept
      <3>2. CASE PersistFails(c)
        BY <3>2, PersistFailsStep DEF NotPersisted, OthersKept
      <3>3. CASE DiskFull(c)
        BY <3>3, DiskFullStep DEF OthersKept
      <3>4. CASE End(c)
        BY <3>4, EndStep DEF OthersKept
      <3>5. QED
        BY <1>5, <3>1, <3>2, <3>3, <3>4
    <2>2. /\ command'[c].pc = "call" => command[c].initializing /\ ~command'[c].initializing
          /\ command'[c].initializing => command[c].initializing
      <3>1. CASE Persist(c)
        BY <3>1, PersistStep DEF OpenStep, WriteStep, RenameStep, NotPersisted, Persisted
      <3>2. CASE PersistFails(c)
        BY <3>2, PersistFailsStep DEF NotPersisted, Persisted
      <3>3. CASE DiskFull(c)
        BY <3>3, DiskFullStep
      <3>4. CASE End(c)
        <4>1. Idle.pc = "idle" /\ ~Idle.initializing
          BY DEF Idle
        <4>2. QED
          BY <3>4, <4>1, EndStep
      <3>5. QED
        BY <1>5, <3>1, <3>2, <3>3, <3>4
    <2>3. Waiting' \subseteq Waiting /\ Called'
      BY <2>1, <2>2 DEF Waiting, BootsCounted
    <2>4. started' = started /\ booted' = booted
      BY <1>5, PersistStep, PersistFailsStep, DiskFullStep, EndStep DEF observers
    <2>5. QED
      BY <1>2, <2>3, <2>4
  <1>6. CASE SlotsChange \/ UNCHANGED vars
    <2>1. Waiting' = Waiting /\ started' = started /\ booted' = booted /\ Called'
      BY <1>6 DEF SlotsChange, vars, observers, Waiting, BootsCounted
    <2>2. QED
      BY <1>2, <2>1
  <1>7. {"set", "reset", "increment", "status", "clear", "simulate"} = Operations
        /\ Idle.slot \in Slot
    BY DEF Operations, Idle, Slot
  <1>8. QED
    BY <1>3, <1>4, <1>5, <1>6, <1>7 DEF Next


\* What a state tells stays true: boots are counted and selections remembered.
LEMMA TellsForever ==
    ASSUME NEW state \in BootState, Tells(state), tool' = tool,
           \A s \in Slot : booted[s] \in Nat /\ booted'[s] \in {booted[s], booted[s] + 1},
           selected \subseteq selected', once_usable \subseteq once_usable'
    PROVE  Tells(state)'
  <1>1. \A s \in Slot : state.attempts[s] \in Nat
    BY CommandsAssumption DEF BootState
  <1>2. QED
    BY <1>1 DEF Tells

LEMMA TruthIsKept ==
    ASSUME Typed, Typed', TruthInv, [Next]_vars
    PROVE  TruthInv'
  <1>1. /\ \A c \in Commands : command[c].memory \in BootState
        /\ \A c \in Commands : command'[c].memory \in BootState
        /\ booted \in [Slot -> Nat]
    BY DEF Typed, CommandRecord
  <1>2. ASSUME tool' = tool, selected \subseteq selected', once_usable \subseteq once_usable',
               \A s \in Slot : booted'[s] \in {booted[s], booted[s] + 1}
        PROVE  \A state \in BootState : Tells(state) => Tells(state)'
    BY <1>1, <1>2, TellsForever
  <1>3. ASSUME NEW c \in Commands, NEW op \in Operations, NEW s \in Slot, Start(c, op, s)
        PROVE  TruthInv'
    <2>1. /\ OthersKept(c) /\ command'[c].slot = s /\ (command'[c].found => s \in usable)
          /\ command'[c].memory \in {default_state, record} \cap BootState
          /\ UNCHANGED <<tool, record, tmp, usable, torn, booted, selected, once_usable>>
      BY <1>3, StartStep
    <2>2. Tells(default_state)
      BY <1>1, DefaultFacts DEF Tells
    <2>3. \A state \in BootState : Tells(state) => Tells(state)'
      BY <1>2, <2>1, <1>1
    <2>4. Tells(command[c].memory)'
      BY <2>1, <2>2, <2>3 DEF TruthInv
    <2>5. \A d \in Commands \ {c} : Tells(command[d].memory)'
      BY <1>1, <2>1, <2>3 DEF TruthInv, OthersKept
    <2>6. QED
      BY <2>1, <2>3, <2>4, <2>5 DEF TruthInv, OthersKept
  <1>4. ASSUME NEW c \in Commands, Call(c)
        PROVE  TruthInv'
    <2>1. /\ OthersKept(c) /\ Tells(command[c].memory)'
          /\ command'[c].found = command[c].found /\ command'[c].slot = command[c].slot
          /\ \A s \in Slot : booted'[s] \in {booted[s], booted[s] + 1}
          /\ selected \subseteq selected'
          /\ UNCHANGED <<tool, record, tmp, usable, started, alone, torn, once_usable>>
      BY <1>4, CallStep
    <2>2. \A state \in BootState : Tells(state) => Tells(state)'
      BY <1>2, <2>1
    <2>3. \A d \in Commands \ {c} : Tells(command[d].memory)'
      BY <1>1, <2>1, <2>2 DEF TruthInv, OthersKept
    <2>4. QED
      BY <2>1, <2>2, <2>3 DEF TruthInv, OthersKept
  <1>5. ASSUME NEW c \in Commands, Persist(c) \/ PersistFails(c) \/ DiskFull(c)
        PROVE  TruthInv'
    <2>1. /\ SameMemory
          /\ {record', tmp'} \subseteq {record, tmp, command[c].memory, NoFile, Empty}
          /\ UNCHANGED <<tool, usable, booted, selected, once_usable>>
      BY <1>5, PersistStep, PersistFailsStep, DiskFullStep DEF observers
    <2>2. \A state \in BootState : Tells(state) => Tells(state)'
      BY <1>2, <2>1, <1>1
    <2>3. \A d \in Commands : Tells(command[d].memory)'
      BY <1>1, <2>1, <2>2 DEF TruthInv, SameMemory
    <2>4. QED
      BY <1>1, <2>1, <2>2, <2>3, CommandsAssumption DEF TruthInv, SameMemory
  <1>6. ASSUME NEW c \in Commands, End(c)
        PROVE  TruthInv'
    <2>1. /\ OthersKept(c) /\ command'[c] = Idle
          /\ UNCHANGED <<tool, record, tmp, usable, booted, selected, once_usable>>
      BY <1>6, EndStep
    <2>2. \A state \in BootState : Tells(state) => Tells(state)'
      BY <1>2, <2>1, <1>1
    <2>3. Idle.memory = default_state /\ ~Idle.found
      BY DEF Idle
    <2>4. Tells(default_state)'
      BY <1>1, <2>2, DefaultFacts DEF Tells
    <2>5. \A d \in Commands : Tells(command[d].memory)'
      BY <1>1, <2>1, <2>2, <2>3, <2>4 DEF TruthInv, OthersKept
    <2>6. QED
      BY <1>1, <2>1, <2>2, <2>3, <2>5 DEF TruthInv, OthersKept
  <1>7. CASE SlotsChange \/ UNCHANGED vars
    <2>1. /\ UNCHANGED <<tool, record, tmp, command, booted, selected>>
          /\ once_usable \subseteq once_usable' /\ usable' \subseteq once_usable'
      BY <1>7 DEF SlotsChange, vars, observers, TruthInv
    <2>2. \A state \in BootState : Tells(state) => Tells(state)'
      BY <1>2, <2>1, <1>1
    <2>3. \A d \in Commands : Tells(command[d].memory)'
      BY <1>1, <2>1, <2>2 DEF TruthInv
    <2>4. QED
      BY <2>1, <2>2, <2>3 DEF TruthInv
  <1>8. {"set", "reset", "increment", "status", "clear", "simulate"} = Operations
        /\ Idle.slot \in Slot
    BY DEF Operations, Idle, Slot
  <1>9. QED
    BY <1>3, <1>4, <1>5, <1>6, <1>7, <1>8 DEF Next


LEMMA AloneIsKept ==
    ASSUME Typed, TruthInv, AloneInv, [Next]_vars
    PROVE  AloneInv'
  <1> DEFINE Lone(c) ==
          /\ \A d \in Commands \ {c} : ~Running(d)
          /\ command[c].pc = "write" => command[c].at = "tmp"
          /\ command[c].pc = "rename" => tmp = command[c].memory
          /\ command[c].pc = "done" =>
                command[c].ok /\ record = command[c].memory /\ tmp = NoFile
  <1>1. AloneInv = \A c \in Commands : alone[c] => Lone(c)
    BY DEF AloneInv
  <1>2. alone \in [Commands -> BOOLEAN] /\ \A c \in Commands : command[c].memory \in BootState
    BY DEF Typed, CommandRecord
  <1>3. ASSUME NEW c \in Commands, NEW op \in Operations, NEW s \in Slot, Start(c, op, s)
        PROVE  AloneInv'
    <2>1. /\ OthersKept(c) /\ command'[c].pc \in {"open", "call"}
          /\ alone' = [d \in Commands |-> d = c /\ \A e \in Commands : ~Running(e)]
      BY <1>3, StartStep
    <2>2. ASSUME NEW d \in Commands, alone'[d]
          PROVE  Lone(d)'
      BY <2>1, <2>2 DEF OthersKept, Running
    <2>3. QED
      BY <2>2 DEF AloneInv
  <1>4. ASSUME NEW c \in Commands, Call(c)
        PROVE  AloneInv'
    <2>1. /\ OthersKept(c) /\ command[c].pc = "call" /\ command'[c].pc = "open" /\ alone' = alone
      BY <1>4, CallStep
    <2>2. ASSUME NEW d \in Commands, alone'[d]
          PROVE  Lone(d)'
      <3>1. Lone(d)
        BY <1>1, <2>1, <2>2
      <3>2. d = c
        BY <2>1, <3>1 DEF Running
      <3>3. QED
        BY <2>1, <3>1, <3>2 DEF OthersKept, Running
    <2>3. QED
      BY <2>2 DEF AloneInv
  <1>5. ASSUME NEW c \in Commands, Persist(c)
        PROVE  AloneInv'
    <2>1. /\ SameMemory /\ alone' = alone
          /\ OpenStep(c) \/ WriteStep(c) \/ RenameStep(c)
               \/ (command[c].pc = "rename" /\ tmp = NoFile /\ NotPersisted(c))
      BY <1>5, PersistStep DEF observers
    <2>2. Running(c)
      BY <2>1 DEF OpenStep, WriteStep, RenameStep, Running
    <2>3. ASSUME alone[c]
          PROVE  Lone(c)'
      <3>1. Lone(c)
        BY <1>1, <2>3
      <3>2. \A d \in Commands \ {c} : command'[d].pc = command[d].pc
        BY <2>1 DEF OpenStep, WriteStep, RenameStep, NotPersisted, OthersKept
      <3>3. (\A d \in Commands \ {c} : ~Running(d))'
        BY <3>1, <3>2 DEF Running
      <3>4. CASE OpenStep(c)
        BY <3>3, <3>4 DEF OpenStep
      <3>5. CASE WriteStep(c)
        BY <2>1, <3>1, <3>3, <3>5 DEF WriteStep, SameMemory
      <3>6. CASE RenameStep(c)
        BY <2>1, <3>1, <3>3, <3>6 DEF RenameStep, Persisted, SameMemory
      <3>7. command[c].pc = "rename" => tmp # NoFile
        BY <1>2, <3>1, CommandsAssumption
      <3>8. QED
        BY <2>1, <3>4, <3>5, <3>6, <3>7
    <2>4. \A d \in Commands \ {c} : ~alone[d]
      BY <1>1, <2>2
    <2>5. QED
      BY <2>1, <2>3, <2>4 DEF AloneInv
  <1>6. ASSUME NEW c \in Commands, PersistFails(c) \/ DiskFull(c) \/ End(c)
        PROVE  AloneInv'
    <2>1. Running(c) /\ alone' = [alone EXCEPT ![c] = FALSE]
      BY <1>6 DEF PersistFails, DiskFull, End, Running
    <2>2. \A d \in Commands : ~alone'[d]
      BY <1>1, <1>2, <2>1
    <2>3. QED
      BY <2>2 DEF AloneInv
  <1>7. CASE SlotsChange \/ UNCHANGED vars
    BY <1>7 DEF SlotsChange, vars, observers, AloneInv, Running
  <1>8. {"set", "reset", "increment", "status", "clear", "simulate"} = Operations
        /\ Idle.slot \in Slot
    BY DEF Operations, Idle, Slot
  <1>9. QED
    BY <1>3, <1>4, <1>5, <1>6, <1>7, <1>8 DEF Next

LEMMA EmptyIsKept ==
    ASSUME Typed, EmptyInv, [Next]_vars
    PROVE  EmptyInv'
  <1>1. \A c \in Commands : command[c].memory # Empty
    BY CommandsAssumption DEF Typed, CommandRecord
  <1>2. ASSUME NEW c \in Commands, command[c].pc # "write", OthersKept(c),
               UNCHANGED <<record, tmp>>, torn' = torn
        PROVE  EmptyInv'
    BY <1>2 DEF EmptyInv, WritesTo, OthersKept
  <1>3. ASSUME NEW c \in Commands, NEW op \in Operations, NEW s \in Slot, Start(c, op, s)
        PROVE  EmptyInv'
    <2>1. command[c].pc # "write" /\ OthersKept(c) /\ UNCHANGED <<record, tmp>> /\ torn' = torn
      BY <1>3, StartStep DEF Running
    <2>2. QED
      BY <1>2, <2>1
  <1>4. ASSUME NEW c \in Commands, Call(c) \/ PersistFails(c)
        PROVE  EmptyInv'
    <2>1. command[c].pc # "write"
      BY <1>4 DEF Call, Set, Clear, Simulate, Reset, Increment, PersistFails
    <2>2. UNCHANGED <<record, tmp>> /\ torn' = torn
      BY <1>4 DEF Call, PersistFails
    <2>3. OthersKept(c)
      BY <1>4 DEF Call, Set, Clear, Simulate, Reset, Increment, Change, PersistFails,
                  Typed, OthersKept
    <2>4. QED
      BY <1>2, <2>1, <2>2, <2>3
  <1>5. ASSUME NEW c \in Commands, Persist(c)
        PROVE  EmptyInv'
    <2>1. /\ torn' = torn
          /\ OpenStep(c) \/ WriteStep(c) \/ RenameStep(c)
               \/ (command[c].pc = "rename" /\ tmp = NoFile /\ NotPersisted(c))
      BY <1>5, PersistStep DEF observers
    <2>2. CASE OpenStep(c)
      BY <2>1, <2>2 DEF OpenStep, OthersKept, EmptyInv, WritesTo
    <2>3. CASE WriteStep(c)
      BY <1>1, <2>1, <2>3 DEF WriteStep, OthersKept, EmptyInv, WritesTo
    <2>4. CASE RenameStep(c)
      <3>1. ~torn /\ tmp = Empty => \E d \in Commands \ {c} : WritesTo(d, "tmp")
        BY <2>4 DEF EmptyInv, RenameStep, WritesTo
      <3>2. \A d \in Commands \ {c} : WritesTo(d, "tmp") => WritesTo(d, "record")'
        BY <2>4 DEF RenameStep, WritesTo, Moved
      <3>3. tmp' # Empty /\ record' = tmp
        BY <2>4, CommandsAssumption DEF RenameStep
      <3>4. QED
        BY <2>1, <3>1, <3>2, <3>3 DEF EmptyInv
    <2>5. CASE command[c].pc = "rename" /\ NotPersisted(c)
      BY <1>2, <2>1, <2>5 DEF NotPersisted
    <2>6. QED
      BY <2>1, <2>2, <2>3, <2>4, <2>5
  <1>6. ASSUME NEW c \in Commands, End(c)
        PROVE  EmptyInv'
    <2>1. /\ OthersKept(c) /\ torn' = (torn \/ command[c].pc = "write")
          /\ UNCHANGED <<record, tmp>>
      BY <1>6, EndStep
    <2>2. QED
      BY <2>1 DEF EmptyInv, WritesTo, OthersKept
  <1>7. ASSUME NEW c \in Commands, DiskFull(c)
        PROVE  EmptyInv'
    BY <1>7 DEF DiskFull, EmptyInv
  <1>8. CASE SlotsChange \/ UNCHANGED vars
    BY <1>8 DEF SlotsChange, vars, observers, EmptyInv, WritesTo
  <1>9. {"set", "reset", "increment", "status", "clear", "simulate"} = Operations
        /\ Idle.slot \in Slot
    BY DEF Operations, Idle, Slot
  <1>10. QED
    BY <1>3, <1>4, <1>5, <1>6, <1>7, <1>8, <1>9 DEF Next


-----------------------------------------------------------------------------
(* Theorems. *)

LEMMA CommandInvInit ==
    ASSUME Init
    PROVE  CommandInv
  <1>1. Typed
    <2>1. usable \subseteq Slot
      BY DEF Init
    <2>2. command \in [Commands -> CommandRecord]
      BY DefaultFacts DEF Init
    <2>3. started \in 0..MaxCommands
      BY CommandsAssumption DEF Init
    <2>4. QED
      BY <2>1, <2>2, <2>3 DEF Init, Typed
  <1>2. BootsCounted
    <2>1. Waiting = {}
      BY DEF Init, Waiting, Idle
    <2>2. QED
      BY <2>1, FS_EmptySet DEF BootsCounted, Init, Idle
  <1>3. TruthInv
    <2>1. Tells(default_state)
      BY DefaultFacts DEF Tells, Init
    <2>2. record = NoFile /\ tmp = NoFile /\ usable = once_usable
          /\ \A c \in Commands : command[c] = Idle
      BY DEF Init
    <2>3. Idle.memory = default_state /\ ~Idle.found
      BY DEF Idle
    <2>4. QED
      BY <2>1, <2>2, <2>3, CommandsAssumption DEF TruthInv
  <1>4. AloneInv
    BY DEF AloneInv, Init
  <1>5. EmptyInv
    BY CommandsAssumption DEF EmptyInv, Init
  <1>6. QED
    BY <1>1, <1>2, <1>3, <1>4, <1>5 DEF CommandInv

(* The invariant that the theorems below rest on, in every behaviour.         *)
THEOREM CommandInvariant == Spec => []CommandInv
  <1>1. Init => CommandInv
    BY CommandInvInit
  <1>2. CommandInv /\ [Next]_vars => CommandInv'
    BY TypedIsKept, BootsCountedIsKept, TruthIsKept, AloneIsKept, EmptyIsKept DEF CommandInv
  <1>3. QED
    BY <1>1, <1>2, PTL DEF Spec

(* Whatever the commands do to each other's files, and wherever they are      *)
(* killed or meet a full disk, every variable keeps its type, the attempts of a slot stay within  *)
(* MaxBoots, and no more boots are counted than commands were run.            *)
THEOREM TypeCorrect == Spec => []TypeOK
  <1>1. CommandInv => TypeOK
    <2>1. ASSUME CommandInv
          PROVE  TypeOK
      <3>1. Typed /\ BootsCounted
        BY <2>1 DEF CommandInv
      <3>2. Cardinality(Waiting) \in Nat
        BY <3>1, FS_CardinalityType DEF BootsCounted
      <3>3. \A s \in Slot : booted[s] \in 0..MaxCommands
        BY <3>1, <3>2, CommandsAssumption DEF Typed, BootsCounted
      <3>4. QED
        BY <3>1, <3>3 DEF Typed, TypeOK, CommandRecord
    <2>2. QED
      BY <2>1
  <1>2. QED
    BY <1>1, CommandInvariant, PTL

(* However commands overlap, overwrite each other's file and are killed, no   *)
(* state in a file or about to be counts a boot that was not simulated, runs  *)
(* or selects a slot that nobody selected, or with boot control a slot that   *)
(* was never usable.                                                          *)
THEOREM StatesAreTrue == Spec => []StatesTellWhatHappened
  <1>1. CommandInv => StatesTellWhatHappened
    BY DefaultFacts DEF CommandInv, TruthInv, Tells, StatesTellWhatHappened, States
  <1>2. QED
    BY <1>1, CommandInvariant, PTL

(* A command that no other overlapped, and none of whose operations on the    *)
(* files failed, reports success for its change, and the file then holds what *)
(* it reports, whatever files were left behind.                               *)
THEOREM LoneCommandsSucceed == Spec => []LoneCommandDecides
  <1>1. CommandInv => LoneCommandDecides
    BY DEF CommandInv, AloneInv, LoneCommandDecides
  <1>2. QED
    BY <1>1, CommandInvariant, PTL

(* Commands rename and truncate each other's file, so that an empty one comes *)
(* under the final name.  When nobody runs, and no command was killed between *)
(* the open and the write or wrote on a full disk, the state file is whole    *)
(* again.                                                                     *)
THEOREM RecordIsWhole == Spec => []RecordWholeAtRest
  <1>1. CommandInv => RecordWholeAtRest
    BY DEF CommandInv, EmptyInv, WritesTo, Running, RecordWholeAtRest
  <1>2. QED
    BY <1>1, CommandInvariant, PTL
=============================================================================
