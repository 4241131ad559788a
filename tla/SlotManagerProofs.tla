-------------------------- MODULE SlotManagerProofs --------------------------
(***************************************************************************)
(* Proofs about SlotManager, for any number of processes that load slots,  *)
(* any versions and any states that callers give a slot.                   *)
(***************************************************************************)
EXTENDS SlotManager, TLAPS

(* At most one process changes slots, and writes succeed. *)
OneWriter == (\A m, n \in Writers : m = n) /\ "io" \notin Faults

(* What the slot that global.json names may say of itself. *)
Settled(state) == state \in {"ACTIVE", "INACTIVE", "EMPTY"}

Reading(m) == pc[m] \in {"read_A", "read_B"}

WriteSequences == {persist_order, <<"B", "global">>, <<"global">>}

TypeInv == TypeOK /\ \A m \in Manager : pc[m] = "write" => to_write[m] \in WriteSequences

PhaseInv(m) ==
    /\ pc[m] = "off" => slot_info[m] = empty_slots /\ ~loaded[m]
    /\ pc[m] = "write" => m \in Writers /\ loaded[m]
    /\ switching[m] => pc[m] = "write"
    /\ Reading(m) => loaded[m] /\ global # NoSlot

GlobalSettled ==
    global # NoSlot /\ metadata[global] # NoInfo => Settled(metadata[global].state)

(* The memory of the process that changes slots, and the files. *)
WriterInv(w) ==
    /\ loaded[w] => Settled(slot_info[w][active_slot_[w]].state)
    /\ Reading(w) \/ (pc[w] = "idle" /\ loaded[w]) => global = active_slot_[w]
    /\ pc[w] = "read_B" \/ (pc[w] = "idle" /\ loaded[w]) =>
           metadata["A"] \in {NoInfo, slot_info[w]["A"]}
    /\ pc[w] = "idle" /\ loaded[w] => metadata["B"] \in {NoInfo, slot_info[w]["B"]}
    /\ pc[w] = "write" =>
           /\ to_write[w] # persist_order => metadata["A"] = slot_info[w]["A"]
           /\ to_write[w] = <<"global">> => metadata["B"] = slot_info[w]["B"]
           /\ global # NoSlot =>
                 /\ Settled(slot_info[w][global].state)
                 /\ metadata[global] # NoInfo =>
                       metadata[global].version = slot_info[w][global].version
           /\ switching[w] => consistent(slot_info[w], active_slot_[w])

AgreedInv ==
    /\ (IF global = NoSlot THEN "A" ELSE global) \in agreed
    /\ \A w \in Writers : loaded[w] => active_slot_[w] \in agreed

(* A load that one call overlaps at most. *)
ReaderInv(m) ==
    overlaps[m] < 2 =>
        /\ loaded[m] => Settled(slot_info[m][active_slot_[m]].state)
        /\ Reading(m) =>
              /\ metadata[active_slot_[m]] # NoInfo => Settled(metadata[active_slot_[m]].state)
              /\ overlaps[m] = 0 =>
                    global = active_slot_[m] /\ \A w \in Manager : pc[w] # "write"
              /\ \A w \in Writers :
                    pc[w] = "write" => Settled(slot_info[w][active_slot_[m]].state)

(* What a loss of power may leave names, with the names as they are, the slot *)
(* of global.json or none, and otherwise a slot it could name before.         *)
LossInv ==
    "power" \in Faults =>
        /\ \A d \in latest :
              /\ d.global \in {global, NoSlot}
              /\ \A s \in Slot : d.metadata[s] \in {metadata[s], NoInfo}
        /\ \A d \in earlier :
              d.global # NoSlot /\ d.metadata[d.global] # NoInfo
                  => Settled(d.metadata[d.global].state)

CoreInv ==
    /\ GlobalSettled /\ AgreedInv
    /\ \A m \in Manager : PhaseInv(m) /\ ReaderInv(m)
    /\ \A w \in Writers : WriterInv(w)

SlotInv == TypeInv /\ CoreInv /\ LossInv

-----------------------------------------------------------------------------
(* Slots and the order of writes. *)

LEMMA TwoSlots ==
    /\ Slot = {"A", "B"} /\ other("A") = "B" /\ other("B") = "A"
    /\ \A s \in Slot : other(s) \in Slot /\ other(s) # s /\ other(other(s)) = s
    /\ \A s, t \in Slot : t = s \/ t = other(s)
  BY DEF Slot, other

LEMMA WriteOrder ==
    /\ WriteSequences \subseteq Seq(File)
    /\ persist_order \in WriteSequences /\ persist_order # <<"B", "global">>
    /\ persist_order # <<"global">> /\ <<"B", "global">> # <<"global">>
    /\ Head(persist_order) = "A" /\ Tail(persist_order) = <<"B", "global">>
    /\ Len(persist_order) # 1
    /\ Head(<<"B", "global">>) = "B" /\ Tail(<<"B", "global">>) = <<"global">>
    /\ Len(<<"B", "global">>) # 1
    /\ Head(<<"global">>) = "global" /\ Tail(<<"global">>) = <<>> /\ Len(<<"global">>) = 1
    /\ <<>> \in Seq(File)
  BY DEF WriteSequences, persist_order, File, Slot

LEMMA DefaultSlots ==
    /\ default_slots \in [Slot -> SlotInfo] /\ empty_slots \in [Slot -> SlotInfo]
    /\ \A s \in Slot : empty_slots[s].state = "EMPTY"
    /\ default_slots["A"].state = "ACTIVE"
  BY SlotAssumption DEF default_slots, empty_slots, SlotInfo, SlotState, Slot

-----------------------------------------------------------------------------
(* What the actions do. *)

\* The memory of the other managers is left alone.
OthersKept(m) ==
    \A n \in Manager \ {m} :
        /\ slot_info'[n] = slot_info[n] /\ active_slot_'[n] = active_slot_[n]
        /\ pc'[n] = pc[n] /\ to_write'[n] = to_write[n]
        /\ switching'[n] = switching[n] /\ loaded'[n] = loaded[n]

MemoryTypeOK ==
    /\ slot_info \in [Manager -> [Slot -> SlotInfo]]
    /\ active_slot_ \in [Manager -> Slot]
    /\ pc \in [Manager -> {"off", "idle", "read_A", "read_B", "write"}]
    /\ to_write \in [Manager -> Seq(File)]
    /\ switching \in [Manager -> BOOLEAN]
    /\ loaded \in [Manager -> BOOLEAN]
    /\ \A m \in Manager : pc[m] = "write" => to_write[m] \in WriteSequences

\* A slot gets another state or version, and nothing else of it changes.
LEMMA SlotChanged ==
    ASSUME TypeOK, NEW m \in Manager, NEW s \in Slot, NEW info \in SlotInfo,
           slot_info' = [slot_info EXCEPT ![m][s] = info]
    PROVE  /\ slot_info' \in [Manager -> [Slot -> SlotInfo]]
           /\ \A n \in Manager \ {m} : slot_info'[n] = slot_info[n]
           /\ slot_info'[m][s] = info
           /\ \A t \in Slot \ {s} : slot_info'[m][t] = slot_info[m][t]
  BY DEF TypeOK

LEMMA PersistFacts ==
    ASSUME TypeInv, NEW m \in Manager, NEW is_switch \in BOOLEAN, persist(m, is_switch),
           active_slot_' \in [Manager -> Slot], loaded' \in [Manager -> BOOLEAN],
           slot_info' \in [Manager -> [Slot -> SlotInfo]]
    PROVE  /\ MemoryTypeOK'
           /\ pc'[m] = "write" /\ to_write'[m] = persist_order /\ switching'[m] = is_switch
           /\ \A n \in Manager \ {m} : /\ pc'[n] = pc[n] /\ to_write'[n] = to_write[n]
                                       /\ switching'[n] = switching[n]
  BY WriteOrder DEF TypeInv, TypeOK, persist, MemoryTypeOK

(* load_slot_state and initialize_slots. *)
Loads(m) ==
    /\ MemoryTypeOK' /\ OthersKept(m)
    /\ \/ /\ global # NoSlot /\ active_slot_'[m] = global /\ loaded'[m] /\ pc'[m] = "read_A"
          /\ slot_info'[m] = slot_info[m] /\ switching'[m] = switching[m]
       \/ /\ global = NoSlot /\ pc'[m] = "idle" /\ loaded'[m] = loaded[m]
          /\ slot_info'[m] = slot_info[m] /\ switching'[m] = switching[m]
          /\ active_slot_'[m] = active_slot_[m]
       \/ /\ global = NoSlot /\ m \in Writers /\ loaded'[m] /\ pc'[m] = "write"
          /\ slot_info'[m] = default_slots /\ active_slot_'[m] = "A" /\ ~switching'[m]
          /\ to_write'[m] = persist_order

LEMMA LoadStep ==
    ASSUME TypeInv, NEW m \in Manager, load_slot_state(m) \/ initialize_slots(m)
    PROVE  /\ Loads(m) /\ pc[m] = "off" /\ load_starts(m)
           /\ UNCHANGED <<disk_vars, versions_set, agreed>>
  <1>1. /\ pc[m] = "off" /\ load_starts(m) /\ UNCHANGED <<disk_vars, versions_set, agreed>>
        /\ \/ read_global(m, "load_slot_state")
           \/ m \in Writers /\ read_global(m, "initialize_slots")
    BY DEF load_slot_state, initialize_slots
  <1>2. CASE global # NoSlot
    <2>1. /\ active_slot_' = [active_slot_ EXCEPT ![m] = global]
          /\ loaded' = [loaded EXCEPT ![m] = TRUE]
          /\ pc' = [pc EXCEPT ![m] = "read_A"]
          /\ UNCHANGED <<to_write, slot_info, switching>>
      BY <1>1, <1>2 DEF read_global
    <2>2. global \in Slot
      BY <1>2 DEF TypeInv, TypeOK
    <2>3. MemoryTypeOK' /\ OthersKept(m)
      BY <2>1, <2>2 DEF TypeInv, TypeOK, MemoryTypeOK, OthersKept
    <2>4. QED
      BY <1>1, <1>2, <2>1, <2>3 DEF Loads, TypeInv, TypeOK
  <1>3. CASE global = NoSlot /\ pc' = [pc EXCEPT ![m] = "idle"]
    <2>1. UNCHANGED <<to_write, slot_info, active_slot_, switching, loaded>>
      <3>1. ~persist(m, FALSE)
        BY <1>3 DEF persist, TypeInv, TypeOK
      <3>2. QED
        BY <1>1, <1>3, <3>1 DEF read_global
    <2>2. MemoryTypeOK' /\ OthersKept(m)
      BY <1>3, <2>1 DEF TypeInv, TypeOK, MemoryTypeOK, OthersKept
    <2>3. QED
      BY <1>1, <1>3, <2>1, <2>2 DEF Loads, TypeInv, TypeOK
  <1>4. CASE global = NoSlot /\ pc' # [pc EXCEPT ![m] = "idle"]
    <2>1. /\ m \in Writers
          /\ slot_info' = [slot_info EXCEPT ![m] = default_slots]
          /\ active_slot_' = [active_slot_ EXCEPT ![m] = "A"]
          /\ loaded' = [loaded EXCEPT ![m] = TRUE]
          /\ persist(m, FALSE)
      BY <1>1, <1>4 DEF read_global
    <2>2. /\ slot_info' \in [Manager -> [Slot -> SlotInfo]]
          /\ active_slot_' \in [Manager -> Slot] /\ loaded' \in [Manager -> BOOLEAN]
      BY <2>1, DefaultSlots, TwoSlots DEF TypeInv, TypeOK
    <2>3. /\ MemoryTypeOK'
          /\ pc'[m] = "write" /\ to_write'[m] = persist_order /\ switching'[m] = FALSE
          /\ \A n \in Manager \ {m} : /\ pc'[n] = pc[n] /\ to_write'[n] = to_write[n]
                                      /\ switching'[n] = switching[n]
      BY <2>1, <2>2, PersistFacts
    <2>4. OthersKept(m)
      BY <2>1, <2>3 DEF OthersKept, TypeInv, TypeOK
    <2>5. QED
      BY <1>1, <1>4, <2>1, <2>3, <2>4 DEF Loads, TypeInv, TypeOK
  <1>5. QED
    BY <1>2, <1>3, <1>4

\* read_slot_metadata, of slot A and then of slot B.
Reads(m) ==
    /\ MemoryTypeOK' /\ OthersKept(m)
    /\ loaded'[m] = loaded[m] /\ active_slot_'[m] = active_slot_[m]
    /\ switching'[m] = switching[m]
    /\ \E s \in Slot :
          /\ pc[m] = (IF s = "A" THEN "read_A" ELSE "read_B")
          /\ pc'[m] = (IF s = "A" THEN "read_B" ELSE "idle")
          /\ metadata[s] # NoInfo => slot_info'[m][s] = metadata[s]
          /\ metadata[s] = NoInfo => slot_info'[m][s] = slot_info[m][s]
          /\ slot_info'[m][other(s)] = slot_info[m][other(s)]

LEMMA ReadStep ==
    ASSUME TypeInv, NEW m \in Manager, NEW s \in Slot, read_metadata(m, s)
    PROVE  Reads(m) /\ UNCHANGED <<disk_vars, versions_set, agreed, overlaps>>
  <1> USE DEF read_metadata
  <1>1. /\ pc[m] = (IF s = "A" THEN "read_A" ELSE "read_B")
        /\ pc' = [pc EXCEPT ![m] = IF s = "A" THEN "read_B" ELSE "idle"]
        /\ UNCHANGED <<disk_vars, active_slot_, to_write, switching, loaded, versions_set, agreed,
                       overlaps>>
    OBVIOUS
  <1>2. /\ slot_info' \in [Manager -> [Slot -> SlotInfo]]
        /\ \A n \in Manager \ {m} : slot_info'[n] = slot_info[n]
        /\ metadata[s] # NoInfo => slot_info'[m][s] = metadata[s]
        /\ metadata[s] = NoInfo => slot_info'[m][s] = slot_info[m][s]
        /\ slot_info'[m][other(s)] = slot_info[m][other(s)]
    <2>1. CASE metadata[s] = NoInfo
      <3>1. slot_info' = slot_info
        BY <2>1
      <3>2. QED
        BY <2>1, <3>1 DEF TypeInv, TypeOK
    <2>2. CASE metadata[s] # NoInfo
      <3>1. metadata[s] \in SlotInfo
        BY <2>2 DEF TypeInv, TypeOK
      <3>2. slot_info' = [slot_info EXCEPT ![m][s] = metadata[s]]
        BY <2>2
      <3>3. PICK info \in SlotInfo : info = metadata[s] /\ slot_info' = [slot_info EXCEPT ![m][s] = info]
        BY <3>1, <3>2
      <3>4. /\ slot_info' \in [Manager -> [Slot -> SlotInfo]]
            /\ \A n \in Manager \ {m} : slot_info'[n] = slot_info[n]
            /\ slot_info'[m][s] = info
            /\ \A t \in Slot \ {s} : slot_info'[m][t] = slot_info[m][t]
        <4>1. TypeOK /\ slot_info' = [slot_info EXCEPT ![m][s] = info]
          BY <3>3 DEF TypeInv
        <4>2. QED
          BY ZenonT(60), <4>1, SlotChanged
      <3>5. QED
        BY <2>2, <3>3, <3>4, TwoSlots
    <2>3. QED
      BY <2>1, <2>2
  <1>3. pc' \in [Manager -> {"off", "idle", "read_A", "read_B", "write"}]
    BY <1>1 DEF TypeInv, TypeOK
  <1>4. /\ pc'[m] = (IF s = "A" THEN "read_B" ELSE "idle")
        /\ \A n \in Manager \ {m} : pc'[n] = pc[n]
    BY <1>1 DEF TypeInv, TypeOK
  <1>5. MemoryTypeOK'
    BY <1>1, <1>2, <1>3, <1>4 DEF TypeInv, TypeOK, MemoryTypeOK
  <1>6. OthersKept(m)
    BY <1>1, <1>2, <1>4 DEF OthersKept
  <1>7. QED
    BY <1>1, <1>2, <1>4, <1>5, <1>6 DEF Reads

(* The calls that change slots leave alone what the active slot holds, except *)
(* that switch_active_slot makes it INACTIVE and the other one ACTIVE.        *)
Changes(m) ==
    /\ MemoryTypeOK' /\ OthersKept(m)
    /\ m \in Writers /\ pc[m] = "idle" /\ loaded[m] /\ loaded'[m]
    /\ pc'[m] = "write" /\ to_write'[m] = persist_order
    /\ \/ /\ ~switching'[m] /\ active_slot_'[m] = active_slot_[m] /\ agreed' = agreed
          /\ slot_info'[m][active_slot_[m]] = slot_info[m][active_slot_[m]]
       \/ /\ switching'[m] /\ active_slot_'[m] = inactive(m) /\ agreed' = agreed \cup {inactive(m)}
          /\ slot_info'[m][inactive(m)].state = "ACTIVE"
          /\ slot_info'[m][active_slot_[m]].state = "INACTIVE"
          /\ slot_info'[m][active_slot_[m]].version = slot_info[m][active_slot_[m]].version

LEMMA PersistingChange ==
    ASSUME TypeInv, NEW m \in Manager, may_change(m), persist(m, FALSE),
           UNCHANGED <<active_slot_, loaded, agreed>>,
           NEW info \in SlotInfo, slot_info' = [slot_info EXCEPT ![m][inactive(m)] = info]
    PROVE  Changes(m)
  <1>1. active_slot_[m] \in Slot /\ inactive(m) \in Slot /\ active_slot_[m] # inactive(m)
    BY TwoSlots DEF TypeInv, TypeOK, inactive
  <1>2. PICK s \in Slot : s = inactive(m)
    BY <1>1
  <1>3. slot_info' = [slot_info EXCEPT ![m][s] = info]
    BY <1>2
  <1>4. /\ slot_info' \in [Manager -> [Slot -> SlotInfo]]
        /\ \A n \in Manager \ {m} : slot_info'[n] = slot_info[n]
        /\ \A t \in Slot \ {s} : slot_info'[m][t] = slot_info[m][t]
    BY <1>3, SlotChanged DEF TypeInv
  <1>5. /\ MemoryTypeOK'
        /\ pc'[m] = "write" /\ to_write'[m] = persist_order /\ switching'[m] = FALSE
        /\ \A n \in Manager \ {m} : /\ pc'[n] = pc[n] /\ to_write'[n] = to_write[n]
                                    /\ switching'[n] = switching[n]
    BY <1>4, PersistFacts DEF TypeInv, TypeOK
  <1>6. QED
    BY <1>1, <1>2, <1>4, <1>5 DEF Changes, OthersKept, may_change

LEMMA SwitchStep ==
    ASSUME TypeInv, NEW m \in Manager, switch_active_slot(m)
    PROVE  Changes(m) /\ UNCHANGED <<disk_vars, versions_set>> /\ call_starts
  <1>1. active_slot_[m] \in Slot /\ inactive(m) \in Slot /\ active_slot_[m] # inactive(m)
    BY TwoSlots DEF TypeInv, TypeOK, inactive
  <1>2. PICK a \in Slot, i \in Slot : a = active_slot_[m] /\ i = inactive(m) /\ a # i
    BY <1>1
  <1>3. /\ may_change(m) /\ persist(m, TRUE) /\ call_starts
        /\ slot_info' = [slot_info EXCEPT ![m][i].state = "ACTIVE", ![m][a].state = "INACTIVE"]
        /\ active_slot_' = [active_slot_ EXCEPT ![m] = i]
        /\ agreed' = agreed \cup {i}
        /\ UNCHANGED <<disk_vars, loaded, versions_set>>
    BY <1>2 DEF switch_active_slot
  <1>4. "ACTIVE" \in SlotState /\ "INACTIVE" \in SlotState
    BY DEF SlotState
  <1>5. /\ slot_info' \in [Manager -> [Slot -> SlotInfo]]
        /\ \A n \in Manager \ {m} : slot_info'[n] = slot_info[n]
        /\ slot_info'[m][i].state = "ACTIVE" /\ slot_info'[m][a].state = "INACTIVE"
        /\ slot_info'[m][a].version = slot_info[m][a].version
    <2> DEFINE new == [slot_info[m][i] EXCEPT !.state = "ACTIVE"]
               old == [slot_info[m][a] EXCEPT !.state = "INACTIVE"]
               info == [[slot_info[m] EXCEPT ![i] = new] EXCEPT ![a] = old]
    <2>1. slot_info[m] \in [Slot -> SlotInfo] /\ slot_info[m][i] \in SlotInfo
          /\ slot_info[m][a] \in SlotInfo
      BY DEF TypeInv, TypeOK
    <2>2. /\ new \in SlotInfo /\ new.state = "ACTIVE"
          /\ old \in SlotInfo /\ old.state = "INACTIVE" /\ old.version = slot_info[m][a].version
      BY <1>4, <2>1 DEF SlotInfo
    <2>3. slot_info' = [slot_info EXCEPT ![m] = info]
      BY <1>2, <1>3, <2>1 DEF TypeInv, TypeOK
    <2> HIDE DEF new, old
    <2>4. info \in [Slot -> SlotInfo] /\ info[i] = new /\ info[a] = old
      BY <1>2, <2>1, <2>2
    <2> HIDE DEF info
    <2>5. /\ slot_info' \in [Manager -> [Slot -> SlotInfo]]
          /\ \A n \in Manager \ {m} : slot_info'[n] = slot_info[n]
          /\ slot_info'[m] = info
      BY <2>3, <2>4 DEF TypeInv, TypeOK
    <2>6. QED
      BY <2>2, <2>4, <2>5
  <1>6. active_slot_' \in [Manager -> Slot] /\ loaded' \in [Manager -> BOOLEAN]
    BY <1>3 DEF TypeInv, TypeOK
  <1>7. /\ MemoryTypeOK'
        /\ pc'[m] = "write" /\ to_write'[m] = persist_order /\ switching'[m] = TRUE
        /\ \A n \in Manager \ {m} : /\ pc'[n] = pc[n] /\ to_write'[n] = to_write[n]
                                    /\ switching'[n] = switching[n]
    BY <1>3, <1>5, <1>6, PersistFacts
  <1>8. OthersKept(m) /\ active_slot_'[m] = i /\ loaded'[m] = loaded[m]
    BY <1>3, <1>5, <1>7 DEF OthersKept, TypeInv, TypeOK
  <1>9. QED
    BY <1>2, <1>3, <1>5, <1>7, <1>8 DEF Changes, may_change

LEMMA ChangeStep ==
    ASSUME TypeInv, NEW m \in Manager, change(m)
    PROVE  /\ Changes(m) /\ UNCHANGED disk_vars /\ call_starts
           /\ versions_set' \in {versions_set, versions_set + 1} \cap 0..MaxVersions
  <1>1. inactive(m) \in Slot /\ slot_info[m][inactive(m)] \in SlotInfo
        /\ versions_set \in 0..MaxVersions /\ MaxVersions \in Nat
    <2>1. active_slot_[m] \in Slot /\ slot_info[m] \in [Slot -> SlotInfo]
          /\ versions_set \in 0..MaxVersions /\ MaxVersions \in Nat
      BY SlotAssumption DEF TypeInv, TypeOK
    <2>2. inactive(m) \in Slot
      BY <2>1, TwoSlots DEF inactive
    <2>3. QED
      BY <2>1, <2>2
  <1>2. ASSUME NEW state \in CallerStates, set_slot_state(m, state)
        PROVE  Changes(m) /\ UNCHANGED <<disk_vars, versions_set>> /\ call_starts
    <2> DEFINE info == [slot_info[m][inactive(m)] EXCEPT !.state = state]
    <2>1. info \in SlotInfo
      BY <1>1, SlotAssumption DEF SlotInfo
    <2>2. slot_info' = [slot_info EXCEPT ![m][inactive(m)] = info]
      BY <1>1, <1>2 DEF set_slot_state, TypeInv, TypeOK
    <2> HIDE DEF info
    <2>3. QED
      BY <1>2, <2>1, <2>2, PersistingChange DEF set_slot_state
  <1>3. ASSUME NEW v \in Version \cup {NoVersion}, prepare_inactive_slot(m, v)
        PROVE  Changes(m) /\ UNCHANGED disk_vars /\ call_starts
    <2> DEFINE info == [version |-> v, state |-> "PREPARED"]
    <2>1. info \in SlotInfo
      BY DEF SlotInfo, SlotState
    <2>2. slot_info' = [slot_info EXCEPT ![m][inactive(m)] = info]
      BY <1>3 DEF prepare_inactive_slot
    <2> HIDE DEF info
    <2>3. QED
      BY <1>3, <2>1, <2>2, PersistingChange DEF prepare_inactive_slot
  <1>4. ASSUME NEW v \in Version \cup {NoVersion}, set_slot_version(m, v)
        PROVE  Changes(m) /\ UNCHANGED disk_vars /\ call_starts
    <2> DEFINE info == [slot_info[m][inactive(m)] EXCEPT !.version = v]
    <2>1. info \in SlotInfo
      BY <1>1 DEF SlotInfo
    <2>2. slot_info' = [slot_info EXCEPT ![m][inactive(m)] = info]
      BY <1>1, <1>4 DEF set_slot_version, TypeInv, TypeOK
    <2> HIDE DEF info
    <2>3. QED
      BY <1>4, <2>1, <2>2, PersistingChange DEF set_slot_version
  <1>5. ASSUME set_slot_sha256(m)
        PROVE  Changes(m) /\ UNCHANGED <<disk_vars, versions_set>> /\ call_starts
    <2>1. slot_info' = [slot_info EXCEPT ![m][inactive(m)] = slot_info[m][inactive(m)]]
      BY <1>1, <1>5 DEF set_slot_sha256, TypeInv, TypeOK
    <2>2. PICK info \in SlotInfo : slot_info' = [slot_info EXCEPT ![m][inactive(m)] = info]
      BY <1>1, <2>1
    <2>3. QED
      BY <1>5, <2>2, PersistingChange DEF set_slot_sha256
  <1>6. /\ Changes(m) /\ UNCHANGED disk_vars /\ call_starts
    BY <1>2, <1>3, <1>4, <1>5, SwitchStep DEF change
  <1>7. \/ versions_set' = versions_set
        \/ versions_set < MaxVersions /\ versions_set' = versions_set + 1
    BY DEF change, prepare_inactive_slot, set_slot_version, set_slot_state, set_slot_sha256,
           switch_active_slot
  <1>8. QED
    BY <1>1, <1>6, <1>7

(* A write of the next file, after which a call may end. *)
outcomes(new, old, none) == IF "io" \in Faults THEN {new, old, none} ELSE {new}

Writes(m) ==
    /\ MemoryTypeOK' /\ OthersKept(m) /\ pc[m] = "write"
    /\ slot_info'[m] = slot_info[m] /\ active_slot_'[m] = active_slot_[m]
    /\ loaded'[m] = loaded[m]
    /\ \/ \E s \in Slot :
             /\ to_write[m] = (IF s = "A" THEN persist_order ELSE <<"B", "global">>)
             /\ to_write'[m] = (IF s = "A" THEN <<"B", "global">> ELSE <<"global">>)
             /\ pc'[m] = "write" /\ switching'[m] = switching[m]
             /\ metadata'[s] \in outcomes(slot_info[m][s], metadata[s], NoInfo)
             /\ metadata'[other(s)] = metadata[other(s)]
             /\ UNCHANGED <<global, agreed>>
       \/ /\ to_write[m] = <<"global">>
          /\ pc'[m] = "idle" /\ ~switching'[m]
          /\ global' \in outcomes(active_slot_[m], global, NoSlot)
          /\ agreed' = (IF switching[m] THEN {active_slot_[m]} ELSE agreed)
          /\ UNCHANGED metadata

LEMMA WriteStep ==
    ASSUME TypeInv, NEW m \in Manager, write_file(m)
    PROVE  /\ Writes(m) /\ UNCHANGED <<versions_set, overlaps>>
           /\ metadata' \in [Slot -> SlotInfo \cup {NoInfo}]
           /\ global' \in Slot \cup {NoSlot}
  <1>1. /\ pc[m] = "write" /\ to_write[m] \in WriteSequences
        /\ UNCHANGED <<slot_info, active_slot_, loaded, versions_set, overlaps>>
        /\ to_write' = [to_write EXCEPT ![m] = Tail(to_write[m])]
    BY DEF write_file, TypeInv, TypeOK
  <1>2. ASSUME NEW s \in Slot,
               to_write[m] = IF s = "A" THEN persist_order ELSE <<"B", "global">>
        PROVE  /\ Writes(m) /\ metadata' \in [Slot -> SlotInfo \cup {NoInfo}]
               /\ global' = global
    <2>1. /\ Head(to_write[m]) = s /\ Len(to_write[m]) # 1
          /\ Tail(to_write[m]) = IF s = "A" THEN <<"B", "global">> ELSE <<"global">>
          /\ s # "global" /\ s \in File
      BY <1>2, WriteOrder, TwoSlots DEF File
    <2>2. /\ \E info \in outcomes(slot_info[m][s], metadata[s], NoInfo) :
                 metadata' = [metadata EXCEPT ![s] = info]
          /\ UNCHANGED global
      <3>1. /\ replace_metadata(s, slot_info[m][s]) => metadata' = [metadata EXCEPT ![s] = slot_info[m][s]]
            /\ replace_metadata(s, NoInfo) => metadata' = [metadata EXCEPT ![s] = NoInfo]
            /\ UNCHANGED disk_vars => metadata' = [metadata EXCEPT ![s] = metadata[s]]
            /\ \A info : replace_metadata(s, info) => UNCHANGED global
            /\ UNCHANGED disk_vars => UNCHANGED global
        BY DEF replace_metadata, disk_vars, TypeInv, TypeOK
      <3>2. \/ replace_metadata(s, slot_info[m][s])
            \/ "io" \in Faults /\ replace_metadata(s, NoInfo)
            \/ "io" \in Faults /\ UNCHANGED disk_vars
        BY <2>1 DEF write_file
      <3>3. QED
        BY <3>1, <3>2 DEF outcomes
    <2>3. UNCHANGED <<pc, switching, agreed>>
      BY <2>1 DEF write_file
    <2>4. PICK info \in outcomes(slot_info[m][s], metadata[s], NoInfo) :
              metadata' = [metadata EXCEPT ![s] = info]
      BY <2>2
    <2>5. info \in SlotInfo \cup {NoInfo}
      BY DEF outcomes, TypeInv, TypeOK
    <2>6. /\ metadata' \in [Slot -> SlotInfo \cup {NoInfo}]
          /\ metadata'[s] = info /\ metadata'[other(s)] = metadata[other(s)]
      BY <2>4, <2>5, TwoSlots DEF TypeInv, TypeOK
    <2>7. /\ to_write'[m] = IF s = "A" THEN <<"B", "global">> ELSE <<"global">>
          /\ \A n \in Manager \ {m} : to_write'[n] = to_write[n]
          /\ to_write'[m] \in WriteSequences
          /\ to_write' \in [Manager -> Seq(File)]
      BY <1>1, <2>1, WriteOrder DEF TypeInv, TypeOK, WriteSequences
    <2>8. MemoryTypeOK' /\ OthersKept(m)
      BY <1>1, <2>3, <2>7 DEF TypeInv, TypeOK, MemoryTypeOK, OthersKept
    <2>9. QED
      BY <1>1, <1>2, <2>2, <2>4, <2>6, <2>7, <2>8, <2>3 DEF Writes
  <1>3. ASSUME to_write[m] = <<"global">>
        PROVE  /\ Writes(m) /\ metadata' = metadata
               /\ global' \in Slot \cup {NoSlot}
    <2>1. Head(to_write[m]) = "global" /\ Len(to_write[m]) = 1 /\ Tail(to_write[m]) = <<>>
      BY <1>3, WriteOrder
    <2>2. /\ global' \in outcomes(active_slot_[m], global, NoSlot)
          /\ UNCHANGED metadata
      <3>1. \/ replace_global(active_slot_[m])
            \/ "io" \in Faults /\ replace_global(NoSlot)
            \/ "io" \in Faults /\ UNCHANGED disk_vars
        BY <2>1 DEF write_file
      <3>2. QED
        BY <3>1 DEF replace_global, disk_vars, outcomes
    <2>3. /\ pc' = [pc EXCEPT ![m] = "idle"]
          /\ switching' = [switching EXCEPT ![m] = FALSE]
          /\ agreed' = IF switching[m] THEN {active_slot_[m]} ELSE agreed
      BY <2>1 DEF write_file
    <2>4. global' \in Slot \cup {NoSlot}
      BY <2>2 DEF outcomes, TypeInv, TypeOK
    <2>5. /\ to_write'[m] = <<>>
          /\ \A n \in Manager \ {m} : to_write'[n] = to_write[n]
          /\ to_write' \in [Manager -> Seq(File)]
      BY <1>1, <2>1, WriteOrder DEF TypeInv, TypeOK
    <2>6. MemoryTypeOK' /\ OthersKept(m) /\ pc'[m] = "idle" /\ ~switching'[m]
      BY <1>1, <2>3, <2>5 DEF TypeInv, TypeOK, MemoryTypeOK, OthersKept
    <2>7. QED
      BY <1>1, <1>3, <2>2, <2>4, <2>6, <2>3 DEF Writes
  <1>4. \/ to_write[m] = <<"global">>
        \/ \E s \in Slot : to_write[m] = IF s = "A" THEN persist_order ELSE <<"B", "global">>
    BY <1>1, TwoSlots DEF WriteSequences
  <1>5. QED
    BY <1>1, <1>2, <1>3, <1>4 DEF TypeInv, TypeOK

\* What a write adds to the outcomes of a loss of power.
Follows(d, e) ==
    /\ d.global \in {global', NoSlot} \/ (d.global = e.global /\ global' = global)
    /\ \A s \in Slot :
          \/ d.metadata[s] \in {metadata'[s], NoInfo}
          \/ d.metadata[s] = e.metadata[s] /\ metadata'[s] = metadata[s]

WriteFollows ==
    \/ "power" \notin Faults
    \/ UNCHANGED <<metadata, global, latest, earlier>>
    \/ /\ earlier' = earlier \cup latest
       /\ \A d \in latest' : \E e \in latest : Follows(d, e)

LEMMA NamesChange ==
    ASSUME TypeInv, NEW O \in SUBSET Outcomes_of_loss, names_change(O)
    PROVE  /\ latest' \cup earlier' \subseteq Outcomes_of_loss
           /\ \/ "power" \notin Faults /\ UNCHANGED <<latest, earlier>>
              \/ latest' = O /\ earlier' = earlier \cup latest
  BY DEF names_change, TypeInv, TypeOK

LEMMA WriteOutcomes ==
    ASSUME TypeInv, NEW m \in Manager, write_file(m)
    PROVE  /\ latest' \cup earlier' \subseteq Outcomes_of_loss
           /\ WriteFollows
  <1>1. ASSUME NEW s \in Slot, NEW info \in SlotInfo \cup {NoInfo}, replace_metadata(s, info)
        PROVE  latest' \cup earlier' \subseteq Outcomes_of_loss /\ WriteFollows
    <2> DEFINE O == {[d EXCEPT !.metadata[s] = i] : d \in latest, i \in {info, NoInfo}}
    <2>1. /\ names_change(O) /\ global' = global /\ metadata' = [metadata EXCEPT ![s] = info]
      BY <1>1 DEF replace_metadata
    <2>2. ASSUME NEW d \in O
          PROVE  d \in Outcomes_of_loss /\ \E e \in latest : Follows(d, e)
      <3>1. PICK e \in latest, i \in {info, NoInfo} : d = [e EXCEPT !.metadata[s] = i]
        OBVIOUS
      <3>2. e \in Outcomes_of_loss /\ e.metadata \in [Slot -> SlotInfo \cup {NoInfo}]
            /\ e.global \in Slot \cup {NoSlot}
        BY DEF TypeInv, TypeOK, Outcomes_of_loss
      <3>3. d = [e EXCEPT !.metadata = [e.metadata EXCEPT ![s] = i]]
        BY <3>1
      <3>4. d.global = e.global /\ d.metadata = [e.metadata EXCEPT ![s] = i]
            /\ d = [metadata |-> [e.metadata EXCEPT ![s] = i], global |-> e.global]
        BY <3>2, <3>3 DEF Outcomes_of_loss
      <3>5. [e.metadata EXCEPT ![s] = i] \in [Slot -> SlotInfo \cup {NoInfo}]
        BY <3>2
      <3>6. d \in Outcomes_of_loss
        BY <3>2, <3>4, <3>5 DEF Outcomes_of_loss
      <3>7. Follows(d, e)
        BY <2>1, <3>2, <3>4 DEF Follows, TypeInv, TypeOK
      <3>8. QED
        BY <3>6, <3>7
    <2> HIDE DEF O
    <2>3. O \in SUBSET Outcomes_of_loss
      BY <2>2
    <2>4. QED
      BY <2>1, <2>2, <2>3, NamesChange DEF WriteFollows
  <1>2. ASSUME NEW slot \in Slot \cup {NoSlot}, replace_global(slot)
        PROVE  latest' \cup earlier' \subseteq Outcomes_of_loss /\ WriteFollows
    <2> DEFINE O == {[d EXCEPT !.global = t] : d \in latest, t \in {slot, NoSlot}}
    <2>1. names_change(O) /\ global' = slot /\ metadata' = metadata
      BY <1>2 DEF replace_global
    <2>2. ASSUME NEW d \in O
          PROVE  d \in Outcomes_of_loss /\ \E e \in latest : Follows(d, e)
      <3>1. PICK e \in latest, t \in {slot, NoSlot} : d = [e EXCEPT !.global = t]
        OBVIOUS
      <3>2. e \in Outcomes_of_loss
        BY DEF TypeInv, TypeOK
      <3>3. d \in Outcomes_of_loss /\ d.global = t /\ d.metadata = e.metadata
        BY <3>1, <3>2 DEF Outcomes_of_loss
      <3>4. Follows(d, e)
        BY <2>1, <3>3 DEF Follows
      <3>5. QED
        BY <3>3, <3>4
    <2> HIDE DEF O
    <2>3. O \in SUBSET Outcomes_of_loss
      BY <2>2
    <2>4. QED
      BY <2>1, <2>2, <2>3, NamesChange DEF WriteFollows
  <1>3. CASE UNCHANGED disk_vars
    BY <1>3 DEF disk_vars, TypeInv, TypeOK, WriteFollows
  <1>4. \/ \E s \in Slot, info \in SlotInfo \cup {NoInfo} : replace_metadata(s, info)
        \/ \E slot \in Slot \cup {NoSlot} : replace_global(slot)
        \/ UNCHANGED disk_vars
    <2>1. Head(to_write[m]) \in Slot \cup {"global"}
      BY WriteOrder DEF write_file, TypeInv, WriteSequences, Slot
    <2>2. active_slot_[m] \in Slot /\ \A s \in Slot : slot_info[m][s] \in SlotInfo
      BY DEF TypeInv, TypeOK
    <2>3. QED
      BY <2>1, <2>2 DEF write_file
  <1>5. QED
    BY <1>1, <1>2, <1>3, <1>4

(* A process that exits, is killed or loses power forgets what it loaded. *)
Forgotten(m) ==
    /\ slot_info'[m] = empty_slots /\ pc'[m] = "off" /\ ~switching'[m] /\ ~loaded'[m]

LEMMA ForgetFacts ==
    ASSUME TypeInv, NEW M \in SUBSET Manager, forget(M)
    PROVE  /\ MemoryTypeOK' /\ \A m \in M : Forgotten(m)
           /\ \A n \in Manager \ M :
                  /\ slot_info'[n] = slot_info[n] /\ active_slot_'[n] = active_slot_[n]
                  /\ pc'[n] = pc[n] /\ to_write'[n] = to_write[n]
                  /\ switching'[n] = switching[n] /\ loaded'[n] = loaded[n]
                  /\ overlaps'[n] = overlaps[n]
           /\ overlaps' \in [Manager -> 0..2]
  <1>1. slot_info' \in [Manager -> [Slot -> SlotInfo]] /\ active_slot_' \in [Manager -> Slot]
    BY DefaultSlots, TwoSlots DEF forget, TypeInv, TypeOK
  <1>2. to_write' \in [Manager -> Seq(File)] /\ overlaps' \in [Manager -> 0..2]
    BY WriteOrder DEF forget, TypeInv, TypeOK
  <1>3. QED
    BY <1>1, <1>2 DEF forget, TypeInv, TypeOK, MemoryTypeOK, Forgotten

-----------------------------------------------------------------------------
(* Types, with any number of writers and whatever fails. *)

LEMMA StartsKeepTypes ==
    ASSUME TypeInv, NEW m \in Manager, load_starts(m) \/ call_starts
    PROVE  overlaps' \in [Manager -> 0..2]
  <1>1. \A n \in Manager : overlaps[n] \in 0..2
    BY DEF TypeInv, TypeOK
  <1>2. \A n \in Manager : overlaps[n] < 2 => overlaps[n] + 1 \in 0..2
    BY <1>1
  <1>3. CASE load_starts(m)
    BY <1>3 DEF TypeInv, TypeOK, load_starts
  <1>4. CASE call_starts
    BY <1>1, <1>2, <1>4 DEF call_starts
  <1>5. QED
    BY <1>3, <1>4

LEMMA TypeInvIsKept == TypeInv /\ [Next]_vars => TypeInv'
  <1> SUFFICES ASSUME TypeInv, [Next]_vars
               PROVE  TypeInv'
    OBVIOUS
  <1>1. ASSUME NEW m \in Manager, load_slot_state(m) \/ initialize_slots(m)
        PROVE  TypeInv'
    BY <1>1, LoadStep, StartsKeepTypes DEF TypeInv, TypeOK, Loads, MemoryTypeOK, disk_vars
  <1>2. ASSUME NEW m \in Manager, NEW s \in Slot, read_metadata(m, s)
        PROVE  TypeInv'
    BY <1>2, ReadStep DEF TypeInv, TypeOK, Reads, MemoryTypeOK, disk_vars
  <1>3. ASSUME NEW m \in Manager, change(m)
        PROVE  TypeInv'
    <2>1. agreed' \subseteq Slot
      <3>1. agreed \subseteq Slot /\ active_slot_[m] \in Slot
        BY DEF TypeInv, TypeOK
      <3>2. inactive(m) \in Slot
        BY <3>1, TwoSlots DEF inactive
      <3>3. agreed' = agreed \/ agreed' = agreed \cup {inactive(m)}
        BY <1>3, ChangeStep DEF Changes
      <3>4. QED
        BY <3>1, <3>2, <3>3
    <2>2. QED
      BY <1>3, <2>1, ChangeStep, StartsKeepTypes DEF TypeInv, TypeOK, Changes, MemoryTypeOK, disk_vars
  <1>4. ASSUME NEW m \in Manager, write_file(m)
        PROVE  TypeInv'
    <2>1. agreed' \subseteq Slot
      <3>1. agreed \subseteq Slot /\ active_slot_[m] \in Slot
        BY DEF TypeInv, TypeOK
      <3>2. agreed' = agreed \/ agreed' = {active_slot_[m]}
        BY <1>4, WriteStep DEF Writes
      <3>3. QED
        BY <3>1, <3>2
    <2>2. QED
      BY <1>4, <2>1, WriteStep, WriteOutcomes DEF TypeInv, TypeOK, Writes, MemoryTypeOK
  <1>5. ASSUME NEW m \in Manager, exit_process(m)
        PROVE  TypeInv'
    BY <1>5, ForgetFacts DEF exit_process, TypeInv, TypeOK, MemoryTypeOK, disk_vars
  <1>6. CASE power_loss
    <2>1. /\ metadata' \in [Slot -> SlotInfo \cup {NoInfo}] /\ global' \in Slot \cup {NoSlot}
          /\ latest' \cup earlier' \subseteq Outcomes_of_loss /\ agreed' \subseteq Slot
      BY <1>6, TwoSlots DEF power_loss, TypeInv, TypeOK, Outcomes_of_loss
    <2>2. QED
      BY <1>6, <2>1, ForgetFacts DEF power_loss, TypeInv, TypeOK, MemoryTypeOK
  <1>7. CASE write_back \/ UNCHANGED vars
    BY <1>7 DEF write_back, vars, disk_vars, memory_vars, TypeInv, TypeOK, Outcomes_of_loss
  <1>8. QED
    BY <1>1, <1>2, <1>3, <1>4, <1>5, <1>6, <1>7 DEF Next

-----------------------------------------------------------------------------
(* The invariant of the slots. *)

LEMMA EmptyIsSettled ==
    /\ \A s \in Slot : Settled(empty_slots[s].state)
    /\ Settled(default_slots["A"].state)
    /\ Settled("ACTIVE") /\ Settled("INACTIVE")
  BY DefaultSlots DEF Settled

LEMMA LoadKeepsCore ==
    ASSUME OneWriter, SlotInv, NEW m \in Manager, load_slot_state(m) \/ initialize_slots(m)
    PROVE  CoreInv'
  <1> USE DEF SlotInv, CoreInv
  <1>1. /\ Loads(m) /\ pc[m] = "off" /\ load_starts(m) /\ OthersKept(m)
        /\ metadata' = metadata /\ global' = global /\ agreed' = agreed
        /\ slot_info[m] = empty_slots /\ ~loaded[m] /\ ~switching[m]
    BY LoadStep DEF disk_vars, PhaseInv, Loads
  <1>2. \A n \in Manager \ {m} : overlaps'[n] = overlaps[n]
    BY <1>1 DEF load_starts, TypeInv, TypeOK
  <1>3. GlobalSettled'
    BY <1>1 DEF GlobalSettled
  <1>4. AgreedInv'
    <2>1. loaded'[m] => active_slot_'[m] \in agreed
      BY <1>1 DEF AgreedInv, Loads
    <2>2. \A w \in Writers : loaded'[w] => active_slot_'[w] \in agreed
      BY <1>1, <2>1, SlotAssumption DEF AgreedInv, OthersKept
    <2>3. QED
      BY <1>1, <2>2 DEF AgreedInv
  <1>5. ASSUME NEW n \in Manager
        PROVE  PhaseInv(n)'
    BY <1>1 DEF PhaseInv, Loads, OthersKept, Reading
  <1>6. ASSUME NEW w \in Writers
        PROVE  WriterInv(w)'
    <2>1. w \in Manager /\ WriterInv(w) /\ (global # NoSlot => global \in Slot)
      BY SlotAssumption DEF TypeInv, TypeOK
    <2>2. CASE w = m
      <3>1. CASE pc'[m] = "read_A"
        <4>1. /\ global # NoSlot /\ active_slot_'[m] = global /\ slot_info'[m] = slot_info[m]
          BY <1>1, <3>1 DEF Loads
        <4>2. Settled(slot_info'[m][active_slot_'[m]].state)
          BY <1>1, <2>1, <4>1, EmptyIsSettled
        <4>3. QED
          BY <1>1, <2>2, <3>1, <4>1, <4>2 DEF WriterInv
      <3>2. CASE pc'[m] = "idle"
        BY <1>1, <2>2, <3>2 DEF WriterInv, Loads, Reading
      <3>3. CASE pc'[m] = "write"
        <4>1. /\ global = NoSlot /\ slot_info'[m] = default_slots /\ active_slot_'[m] = "A"
              /\ to_write'[m] = persist_order /\ ~switching'[m]
          BY <1>1, <3>3 DEF Loads
        <4>2. Settled(slot_info'[m][active_slot_'[m]].state)
          BY <4>1, EmptyIsSettled
        <4>3. persist_order # <<"global">>
          BY WriteOrder
        <4>4. QED
          BY <1>1, <2>2, <3>3, <4>1, <4>2, <4>3 DEF WriterInv, Reading
      <3>4. QED
        BY <1>1, <3>1, <3>2, <3>3 DEF Loads
    <2>3. CASE w # m
      BY <1>1, <2>1, <2>3 DEF WriterInv, OthersKept, Reading
    <2>4. QED
      BY <2>2, <2>3
  <1>7. ASSUME NEW n \in Manager
        PROVE  ReaderInv(n)'
    <2>1. CASE n # m
      <3>1. Reading(n) => pc'[m] # "write"
        BY <1>1 DEF PhaseInv, Loads
      <3>2. \A w \in Manager \ {m} : pc'[w] = pc[w] /\ slot_info'[w] = slot_info[w]
        BY <1>1 DEF OthersKept
      <3>3. ReaderInv(n) /\ Writers \subseteq Manager
        BY SlotAssumption
      <3>4. /\ Reading(n)' <=> Reading(n)
            /\ active_slot_'[n] = active_slot_[n] /\ loaded'[n] = loaded[n]
        BY <1>1, <2>1 DEF OthersKept, Reading
      <3>5. QED
        BY <1>1, <1>2, <2>1, <3>1, <3>2, <3>3, <3>4 DEF ReaderInv
    <2>2. CASE n = m
      <3>1. CASE pc'[m] = "read_A"
        <4>1. /\ global # NoSlot /\ active_slot_'[m] = global /\ global \in Slot
              /\ slot_info'[m] = slot_info[m]
          BY <1>1, <3>1 DEF Loads, TypeInv, TypeOK
        <4>2. Settled(slot_info'[m][global].state)
          BY <1>1, <4>1, EmptyIsSettled
        <4>3. metadata[global] # NoInfo => Settled(metadata[global].state)
          BY <4>1 DEF GlobalSettled
        <4>4. overlaps'[m] = 0 => \A w \in Manager : pc'[w] # "write"
          <5>1. overlaps'[m] = IF \E w \in Manager \ {m} : pc[w] = "write" THEN 1 ELSE 0
            BY <1>1 DEF load_starts, TypeInv, TypeOK
          <5>2. QED
            BY <1>1, <3>1, <5>1 DEF OthersKept
        <4>5. \A w \in Writers : pc'[w] = "write" => Settled(slot_info'[w][global].state)
          BY <1>1, <3>1, <4>1, SlotAssumption DEF WriterInv, OthersKept
        <4>6. QED
          BY <1>1, <2>2, <4>1, <4>2, <4>3, <4>4, <4>5 DEF ReaderInv
      <3>2. CASE pc'[m] # "read_A"
        BY <1>1, <2>2, <3>2, EmptyIsSettled DEF ReaderInv, Loads, Reading
      <3>3. QED
        BY <3>1, <3>2
    <2>3. QED
      BY <2>1, <2>2
  <1>8. QED
    BY <1>3, <1>4, <1>5, <1>6, <1>7

LEMMA ReadKeepsCore ==
    ASSUME OneWriter, SlotInv, NEW m \in Manager, NEW s \in Slot, read_metadata(m, s)
    PROVE  CoreInv'
  <1> USE DEF SlotInv, CoreInv
  <1>1. /\ Reads(m) /\ OthersKept(m) /\ Reading(m) /\ loaded[m]
        /\ metadata' = metadata /\ global' = global /\ agreed' = agreed /\ overlaps' = overlaps
        /\ loaded'[m] = loaded[m] /\ active_slot_'[m] = active_slot_[m]
        /\ active_slot_[m] \in Slot
    BY ReadStep DEF disk_vars, PhaseInv, Reads, Reading, TypeInv, TypeOK
  <1>2. GlobalSettled'
    BY <1>1 DEF GlobalSettled
  <1>3. AgreedInv'
    <2>1. \A w \in Writers : loaded'[w] => active_slot_'[w] \in agreed
      BY <1>1, SlotAssumption DEF AgreedInv, OthersKept
    <2>2. QED
      BY <1>1, <2>1 DEF AgreedInv
  <1>4. ASSUME NEW n \in Manager
        PROVE  PhaseInv(n)'
    BY ZenonT(60), <1>1 DEF PhaseInv, Reads, OthersKept, Reading
  <1>5. PICK t \in Slot :
          /\ pc[m] = (IF t = "A" THEN "read_A" ELSE "read_B")
          /\ pc'[m] = (IF t = "A" THEN "read_B" ELSE "idle")
          /\ metadata[t] # NoInfo => slot_info'[m][t] = metadata[t]
          /\ metadata[t] = NoInfo => slot_info'[m][t] = slot_info[m][t]
          /\ slot_info'[m][other(t)] = slot_info[m][other(t)]
    BY <1>1 DEF Reads
  <1>6. ASSUME Settled(slot_info[m][active_slot_[m]].state),
               metadata[active_slot_[m]] # NoInfo => Settled(metadata[active_slot_[m]].state)
        PROVE  Settled(slot_info'[m][active_slot_[m]].state)
    <2>1. active_slot_[m] = t \/ active_slot_[m] = other(t)
      BY <1>1, TwoSlots
    <2>2. CASE active_slot_[m] = t
      BY <1>5, <1>6, <2>2
    <2>3. CASE active_slot_[m] = other(t)
      BY <1>5, <1>6, <2>3
    <2>4. QED
      BY <2>1, <2>2, <2>3
  <1>7. ASSUME NEW w \in Writers
        PROVE  WriterInv(w)'
    <2>1. w \in Manager /\ WriterInv(w)
      BY SlotAssumption
    <2>2. CASE w = m
      <3>1. global = active_slot_[m]
        BY <1>1, <2>1, <2>2 DEF WriterInv
      <3>2. Settled(slot_info'[m][active_slot_[m]].state)
        <4>1. metadata[active_slot_[m]] # NoInfo => Settled(metadata[active_slot_[m]].state)
          BY <1>1, <3>1, SlotAssumption DEF GlobalSettled
        <4>2. Settled(slot_info[m][active_slot_[m]].state)
          BY <1>1, <2>1, <2>2 DEF WriterInv
        <4>3. QED
          BY <1>6, <4>1, <4>2
      <3>3. pc'[m] \in {"read_B", "idle"}
        BY <1>5
      <3>4. metadata["A"] \in {NoInfo, slot_info'[m]["A"]}
        BY <1>5, <2>1, <2>2, TwoSlots DEF WriterInv
      <3>5. pc'[m] = "idle" => metadata["B"] \in {NoInfo, slot_info'[m]["B"]}
        BY <1>5, TwoSlots
      <3>6. QED
        BY <1>1, <2>2, <3>1, <3>2, <3>3, <3>4, <3>5 DEF WriterInv
    <2>3. CASE w # m
      BY <1>1, <2>1, <2>3 DEF WriterInv, OthersKept, Reading
    <2>4. QED
      BY <2>2, <2>3
  <1>8. \A w \in Manager : pc'[w] = "write" => pc[w] = "write" /\ slot_info'[w] = slot_info[w]
    BY <1>1, <1>5 DEF OthersKept
  <1>9. ASSUME NEW n \in Manager
        PROVE  ReaderInv(n)'
    <2>1. ReaderInv(n) /\ Writers \subseteq Manager
      BY SlotAssumption
    <2>2. CASE n # m
      BY <1>1, <1>8, <2>1, <2>2 DEF ReaderInv, OthersKept, Reading
    <2>3. CASE n = m
      <3>1. overlaps[m] < 2 => Settled(slot_info'[m][active_slot_[m]].state)
        BY <1>1, <1>6, <2>1, <2>3 DEF ReaderInv
      <3>2. QED
        BY <1>1, <1>8, <2>1, <2>3, <3>1 DEF ReaderInv, Reading
    <2>4. QED
      BY <2>2, <2>3
  <1>10. QED
    BY <1>2, <1>3, <1>4, <1>7, <1>9

\* What a call that changes slots finds, and what it leaves in memory.
LEMMA ChangeFacts ==
    ASSUME OneWriter, SlotInv, NEW m \in Manager, change(m)
    PROVE  /\ Changes(m) /\ WriterInv(m) /\ global = active_slot_[m] /\ global \in Slot
           /\ active_slot_'[m] \in Slot
           /\ Settled(slot_info'[m][global].state)
           /\ Settled(slot_info'[m][active_slot_'[m]].state)
           /\ metadata[global] # NoInfo =>
                  metadata[global].version = slot_info'[m][global].version
           /\ switching'[m] => consistent(slot_info'[m], active_slot_'[m])
  <1>1. Changes(m)
    BY ChangeStep DEF SlotInv
  <1>2. /\ WriterInv(m) /\ global = active_slot_[m] /\ global \in Slot
        /\ Settled(slot_info[m][global].state)
        /\ metadata[global] \in {NoInfo, slot_info[m][global]}
    <2>1. WriterInv(m) /\ pc[m] = "idle" /\ loaded[m]
      BY <1>1 DEF Changes, SlotInv, CoreInv
    <2>2. global = active_slot_[m] /\ active_slot_[m] \in Slot
      BY <2>1 DEF WriterInv, SlotInv, TypeInv, TypeOK
    <2>3. QED
      BY <2>1, <2>2, TwoSlots DEF WriterInv
  <1>3. CASE /\ ~switching'[m] /\ active_slot_'[m] = active_slot_[m]
             /\ slot_info'[m][active_slot_[m]] = slot_info[m][active_slot_[m]]
    BY <1>1, <1>2, <1>3
  <1>4. CASE /\ active_slot_'[m] = inactive(m)
             /\ slot_info'[m][inactive(m)].state = "ACTIVE"
             /\ slot_info'[m][active_slot_[m]].state = "INACTIVE"
             /\ slot_info'[m][active_slot_[m]].version = slot_info[m][active_slot_[m]].version
    <2>1. inactive(m) = other(global) /\ other(global) \in Slot /\ other(global) # global
          /\ \A s \in Slot : s = global \/ s = other(global)
      BY <1>2, TwoSlots DEF inactive
    <2>2. consistent(slot_info'[m], active_slot_'[m])
      BY <1>2, <1>4, <2>1 DEF consistent
    <2>3. QED
      BY <1>1, <1>2, <1>4, <2>1, <2>2, EmptyIsSettled
  <1>5. QED
    BY <1>1, <1>3, <1>4 DEF Changes

LEMMA ChangeKeepsCore ==
    ASSUME OneWriter, SlotInv, NEW m \in Manager, change(m)
    PROVE  CoreInv'
  <1> USE DEF SlotInv, CoreInv
  <1>1. /\ Changes(m) /\ OthersKept(m) /\ call_starts /\ m \in Writers
        /\ metadata' = metadata /\ global' = global
        /\ pc[m] = "idle" /\ loaded[m] /\ loaded'[m] /\ pc'[m] = "write"
        /\ to_write'[m] = persist_order
    BY ChangeStep DEF disk_vars, Changes
  <1>2. /\ global = active_slot_[m] /\ global \in Slot /\ active_slot_'[m] \in Slot
        /\ Settled(slot_info'[m][global].state)
        /\ Settled(slot_info'[m][active_slot_'[m]].state)
        /\ metadata[global] # NoInfo => metadata[global].version = slot_info'[m][global].version
        /\ switching'[m] => consistent(slot_info'[m], active_slot_'[m])
    BY ChangeFacts
  <1>3. GlobalSettled'
    BY <1>1 DEF GlobalSettled
  <1>4. AgreedInv'
    <2>1. agreed \subseteq agreed' /\ active_slot_'[m] \in agreed'
      BY <1>1 DEF Changes, AgreedInv
    <2>2. \A w \in Writers : w = m
      BY <1>1 DEF OneWriter
    <2>3. QED
      BY <1>1, <2>1, <2>2 DEF AgreedInv
  <1>5. ASSUME NEW n \in Manager
        PROVE  PhaseInv(n)'
    BY <1>1 DEF PhaseInv, OthersKept, Reading
  <1>6. ASSUME NEW w \in Writers
        PROVE  WriterInv(w)'
    <2>1. w = m /\ persist_order # <<"global">>
      BY <1>1, WriteOrder DEF OneWriter
    <2>2. QED
      BY <1>1, <1>2, <2>1 DEF WriterInv, Reading
  <1>7. ASSUME NEW n \in Manager
        PROVE  ReaderInv(n)'
    <2>1. ReaderInv(n) /\ overlaps[n] \in 0..2
      BY DEF TypeInv, TypeOK
    <2>2. overlaps'[n] = IF Reading(n) /\ overlaps[n] < 2 THEN overlaps[n] + 1 ELSE overlaps[n]
      BY <1>1 DEF call_starts, Reading
    <2>3. CASE n = m
      BY <1>1, <1>2, <2>3 DEF ReaderInv, Reading
    <2>4. CASE n # m
      <3>1. /\ active_slot_'[n] = active_slot_[n] /\ loaded'[n] = loaded[n]
            /\ slot_info'[n] = slot_info[n] /\ (Reading(n)' <=> Reading(n))
        BY <1>1, <2>4 DEF OthersKept, Reading
      <3>2. CASE ~Reading(n)
        BY <2>1, <2>2, <3>1, <3>2 DEF ReaderInv
      <3>3. CASE Reading(n) /\ overlaps'[n] < 2
        <4>1. overlaps[n] = 0 /\ overlaps'[n] = 1
          BY <2>1, <2>2, <3>3
        <4>2. global = active_slot_[n]
          BY <2>1, <3>3, <4>1 DEF ReaderInv
        <4>3. \A w \in Writers : w = m
          BY <1>1 DEF OneWriter
        <4>4. QED
          BY <1>1, <1>2, <2>1, <3>1, <3>3, <4>1, <4>2, <4>3 DEF ReaderInv
      <3>4. QED
        BY <3>2, <3>3 DEF ReaderInv
    <2>5. QED
      BY <2>3, <2>4
  <1>8. QED
    BY <1>3, <1>4, <1>5, <1>6, <1>7

(* A write of a file: of a slot, which then says what memory says, or of      *)
(* global.json, when both slots do.                                           *)
LEMMA WriteKeepsCore ==
    ASSUME OneWriter, SlotInv, NEW m \in Manager, write_file(m)
    PROVE  CoreInv'
  <1> USE DEF SlotInv, CoreInv
  <1>1. /\ Writes(m) /\ OthersKept(m) /\ pc[m] = "write" /\ m \in Writers /\ loaded[m]
        /\ slot_info'[m] = slot_info[m] /\ active_slot_'[m] = active_slot_[m]
        /\ loaded'[m] = loaded[m] /\ overlaps' = overlaps
        /\ active_slot_[m] \in Slot /\ PhaseInv(m) /\ WriterInv(m)
        /\ \A w \in Writers : w = m
    BY WriteStep DEF Writes, PhaseInv, TypeInv, TypeOK, OneWriter
  <1>2. /\ slot_info' = slot_info /\ active_slot_' = active_slot_ /\ loaded' = loaded
    BY DEF write_file
  <1>3. CASE \E s \in Slot :
               /\ to_write[m] = (IF s = "A" THEN persist_order ELSE <<"B", "global">>)
               /\ to_write'[m] = (IF s = "A" THEN <<"B", "global">> ELSE <<"global">>)
               /\ pc'[m] = "write" /\ switching'[m] = switching[m]
               /\ metadata'[s] \in outcomes(slot_info[m][s], metadata[s], NoInfo)
               /\ metadata'[other(s)] = metadata[other(s)]
               /\ UNCHANGED <<global, agreed>>
    <2>1. PICK s \in Slot :
               /\ to_write[m] = (IF s = "A" THEN persist_order ELSE <<"B", "global">>)
               /\ to_write'[m] = (IF s = "A" THEN <<"B", "global">> ELSE <<"global">>)
               /\ pc'[m] = "write" /\ switching'[m] = switching[m]
               /\ metadata'[s] = slot_info[m][s]
               /\ metadata'[other(s)] = metadata[other(s)]
               /\ UNCHANGED <<global, agreed>>
      BY <1>3 DEF OneWriter, outcomes
    <2>2. \A t \in Slot : metadata'[t] \in {metadata[t], slot_info[m][t]}
      BY <2>1, TwoSlots
    <2>3. global # NoSlot => global \in Slot /\ Settled(slot_info[m][global].state)
      BY <1>1 DEF WriterInv, TypeInv, TypeOK
    <2>4. GlobalSettled'
      BY <2>1, <2>2, <2>3 DEF GlobalSettled
    <2>5. AgreedInv'
      BY <1>2, <2>1 DEF AgreedInv
    <2>6. \A n \in Manager : pc'[n] = pc[n] /\ switching'[n] = switching[n]
      BY <1>1, <2>1 DEF OthersKept
    <2>7. \A n \in Manager : PhaseInv(n)'
      BY <1>2, <2>1, <2>6 DEF PhaseInv, Reading
    <2>8. WriterInv(m)'
      <3>1. to_write'[m] # persist_order => metadata'["A"] = slot_info[m]["A"]
        BY <1>1, <2>1, TwoSlots, WriteOrder DEF WriterInv
      <3>2. to_write'[m] = <<"global">> => metadata'["B"] = slot_info[m]["B"]
        BY <2>1, TwoSlots, WriteOrder
      <3>3. global # NoSlot /\ metadata'[global] # NoInfo =>
                metadata'[global].version = slot_info[m][global].version
        BY <1>1, <2>2, <2>3 DEF WriterInv
      <3>4. loaded[m] /\ Settled(slot_info[m][active_slot_[m]].state)
        BY <1>1 DEF WriterInv
      <3>5. switching[m] => consistent(slot_info[m], active_slot_[m])
        BY <1>1 DEF WriterInv
      <3>6. QED
        BY <1>2, <2>1, <2>3, <3>1, <3>2, <3>3, <3>4, <3>5 DEF WriterInv, Reading
    <2>9. ASSUME NEW n \in Manager
          PROVE  ReaderInv(n)'
      <3>1. ReaderInv(n) /\ active_slot_[n] \in Slot /\ Writers \subseteq Manager
        BY SlotAssumption DEF TypeInv, TypeOK
      <3>2. Reading(n) => overlaps[n] # 0 \/ ~(overlaps[n] < 2)
        BY <1>1, <3>1 DEF ReaderInv
      <3>3. Reading(n) /\ overlaps[n] < 2 => Settled(slot_info[m][active_slot_[n]].state)
        BY <1>1, <3>1 DEF ReaderInv
      <3>4. QED
        BY <1>1, <1>2, <2>1, <2>2, <2>6, <3>1, <3>2, <3>3 DEF ReaderInv, Reading
    <2>10. QED
      BY <1>1, <2>4, <2>5, <2>7, <2>8, <2>9
  <1>4. CASE /\ to_write[m] = <<"global">>
             /\ pc'[m] = "idle" /\ ~switching'[m]
             /\ global' \in outcomes(active_slot_[m], global, NoSlot)
             /\ agreed' = (IF switching[m] THEN {active_slot_[m]} ELSE agreed)
             /\ UNCHANGED metadata
    <2>1. global' = active_slot_[m] /\ global' # NoSlot
      BY <1>1, <1>4, SlotAssumption DEF OneWriter, outcomes
    <2>2. \A s \in Slot : metadata[s] = slot_info[m][s]
      BY <1>1, <1>4, TwoSlots, WriteOrder DEF WriterInv
    <2>3. Settled(slot_info[m][active_slot_[m]].state)
      BY <1>1 DEF WriterInv
    <2>4. GlobalSettled'
      BY <1>1, <1>4, <2>1, <2>2, <2>3 DEF GlobalSettled
    <2>5. AgreedInv'
      BY <1>1, <1>2, <1>4, <2>1 DEF AgreedInv
    <2>6. \A n \in Manager \ {m} : pc'[n] = pc[n] /\ switching'[n] = switching[n]
      BY <1>1 DEF OthersKept
    <2>7. \A n \in Manager : PhaseInv(n)'
      BY <1>1, <1>2, <1>4, <2>1, <2>6 DEF PhaseInv, Reading
    <2>8. WriterInv(m)'
      <3>1. metadata["A"] = slot_info[m]["A"] /\ metadata["B"] = slot_info[m]["B"]
        BY <2>2, TwoSlots
      <3>2. QED
        BY <1>1, <1>2, <1>4, <2>1, <2>3, <3>1 DEF WriterInv, Reading
    <2>9. ASSUME NEW n \in Manager
          PROVE  ReaderInv(n)'
      <3>1. ReaderInv(n) /\ Writers \subseteq Manager
        BY SlotAssumption
      <3>2. Reading(n) => overlaps[n] # 0 \/ ~(overlaps[n] < 2)
        BY <1>1, <3>1 DEF ReaderInv
      <3>3. Reading(n)' <=> Reading(n)
        BY <1>1, <1>4, <2>6 DEF Reading
      <3>4. \A w \in Writers : pc'[w] # "write"
        BY <1>1, <1>4
      <3>5. QED
        BY <1>1, <1>2, <1>4, <3>1, <3>2, <3>3, <3>4 DEF ReaderInv
    <2>10. QED
      BY <1>1, <2>4, <2>5, <2>7, <2>8, <2>9
  <1>5. QED
    BY <1>1, <1>3, <1>4 DEF Writes

LEMMA ExitKeepsCore ==
    ASSUME SlotInv, NEW m \in Manager, exit_process(m)
    PROVE  CoreInv'
  <1> USE DEF SlotInv, CoreInv
  <1>1. /\ Forgotten(m) /\ OthersKept(m) /\ metadata' = metadata /\ global' = global
        /\ agreed' = agreed /\ \A n \in Manager \ {m} : overlaps'[n] = overlaps[n]
    BY ForgetFacts DEF exit_process, disk_vars, OthersKept
  <1>2. GlobalSettled'
    BY <1>1 DEF GlobalSettled
  <1>3. AgreedInv'
    <2>1. \A w \in Writers : loaded'[w] => active_slot_'[w] \in agreed
      BY <1>1, SlotAssumption DEF AgreedInv, OthersKept, Forgotten
    <2>2. QED
      BY <1>1, <2>1 DEF AgreedInv
  <1>4. ASSUME NEW n \in Manager
        PROVE  PhaseInv(n)'
    BY <1>1 DEF PhaseInv, OthersKept, Reading, Forgotten
  <1>5. ASSUME NEW w \in Writers
        PROVE  WriterInv(w)'
    <2>1. w \in Manager /\ WriterInv(w)
      BY SlotAssumption
    <2>2. CASE w = m
      BY <1>1, <2>2 DEF WriterInv, Forgotten, Reading
    <2>3. CASE w # m
      BY <1>1, <2>1, <2>3 DEF WriterInv, OthersKept, Reading
    <2>4. QED
      BY <2>2, <2>3
  <1>6. ASSUME NEW n \in Manager
        PROVE  ReaderInv(n)'
    <2>1. ReaderInv(n) /\ Writers \subseteq Manager
      BY SlotAssumption
    <2>2. \A w \in Manager : pc'[w] = "write" => pc[w] = "write" /\ slot_info'[w] = slot_info[w]
      BY <1>1 DEF OthersKept, Forgotten
    <2>3. CASE n = m
      BY <1>1, <2>3 DEF ReaderInv, Forgotten, Reading
    <2>4. CASE n # m
      BY <1>1, <2>1, <2>2, <2>4 DEF ReaderInv, OthersKept, Reading
    <2>5. QED
      BY <2>3, <2>4
  <1>7. QED
    BY <1>2, <1>3, <1>4, <1>5, <1>6

\* A moment the disk may return to names a slot that was settled then.
LEMMA LossIsSettled ==
    ASSUME TypeInv, GlobalSettled, LossInv, "power" \in Faults, NEW d \in latest \cup earlier
    PROVE  d.global # NoSlot /\ d.metadata[d.global] # NoInfo
               => Settled(d.metadata[d.global].state)
  BY DEF LossInv, GlobalSettled, TypeInv, TypeOK, Outcomes_of_loss

LEMMA PowerLossKeepsCore ==
    ASSUME SlotInv, power_loss
    PROVE  CoreInv'
  <1> USE DEF SlotInv, CoreInv
  <1>1. PICK d \in latest \cup earlier :
            /\ metadata' = d.metadata /\ global' = d.global
            /\ agreed' = {IF d.global = NoSlot THEN "A" ELSE d.global}
            /\ latest' = {d}
    BY DEF power_loss
  <1>2. (\A m \in Manager : Forgotten(m)) /\ "power" \in Faults /\ earlier' = {}
    BY ForgetFacts DEF power_loss
  <1>3. GlobalSettled'
    BY <1>1, <1>2, LossIsSettled DEF GlobalSettled
  <1>4. AgreedInv'
    BY <1>1, <1>2, SlotAssumption DEF AgreedInv, Forgotten
  <1>6. \A m \in Manager : PhaseInv(m)' /\ ReaderInv(m)' /\ WriterInv(m)'
    BY <1>2 DEF PhaseInv, ReaderInv, WriterInv, Forgotten, Reading
  <1>7. QED
    BY <1>3, <1>4, <1>6, SlotAssumption

LEMMA LossInvIsKept ==
    ASSUME SlotInv, [Next]_vars
    PROVE  LossInv'
  <1>1. ASSUME NEW m \in Manager, write_file(m)
        PROVE  LossInv'
    <2>1. CASE "power" \notin Faults
      BY <2>1 DEF LossInv
    <2>2. CASE UNCHANGED <<metadata, global, latest, earlier>>
      BY <2>2 DEF LossInv, SlotInv, CoreInv
    <2>3. CASE /\ "power" \in Faults /\ earlier' = earlier \cup latest
               /\ \A d \in latest' : \E e \in latest : Follows(d, e)
      <3>1. ASSUME NEW d \in latest'
            PROVE  /\ d.global \in {global', NoSlot}
                   /\ \A s \in Slot : d.metadata[s] \in {metadata'[s], NoInfo}
        <4>1. PICK e \in latest : Follows(d, e)
          BY <2>3
        <4>2. QED
          BY <2>3, <4>1 DEF Follows, LossInv, SlotInv, CoreInv
      <3>2. \A d \in earlier' : d.global # NoSlot /\ d.metadata[d.global] # NoInfo
                => Settled(d.metadata[d.global].state)
        BY <2>3, LossIsSettled DEF SlotInv, CoreInv
      <3>3. QED
        BY <3>1, <3>2 DEF LossInv
    <2>4. QED
      BY <1>1, <2>1, <2>2, <2>3, WriteOutcomes DEF SlotInv, WriteFollows
  <1>2. CASE power_loss
    BY <1>2 DEF power_loss, LossInv
  <1>3. CASE write_back
    BY <1>3 DEF write_back, LossInv
  <1>4. CASE UNCHANGED disk_vars
    BY <1>4 DEF disk_vars, LossInv, SlotInv
  <1>5. ASSUME NEW m \in Manager,
               \/ load_slot_state(m) \/ initialize_slots(m) \/ change(m) \/ exit_process(m)
               \/ \E s \in Slot : read_metadata(m, s)
        PROVE  UNCHANGED disk_vars
    BY <1>5, LoadStep, ReadStep, ChangeStep DEF SlotInv, exit_process
  <1>6. QED
    BY <1>1, <1>2, <1>3, <1>4, <1>5 DEF Next, vars, disk_vars

LEMMA SlotInvIsKept ==
    ASSUME OneWriter, SlotInv, [Next]_vars
    PROVE  SlotInv'
  <1>1. TypeInv'
    BY TypeInvIsKept DEF SlotInv
  <1>2. LossInv'
    BY LossInvIsKept
  <1>3. CASE write_back \/ UNCHANGED vars
    <2>1. UNCHANGED <<metadata, global, memory_vars, agreed, overlaps>>
      BY <1>3 DEF write_back, vars, disk_vars
    <2>2. QED
      BY <1>1, <1>2, <2>1 DEF memory_vars, SlotInv, CoreInv, GlobalSettled, AgreedInv, PhaseInv,
                        ReaderInv, WriterInv, Reading
  <1>4. QED
    BY <1>1, <1>3, <1>2, LoadKeepsCore, ReadKeepsCore, ChangeKeepsCore, WriteKeepsCore, ExitKeepsCore,
       PowerLossKeepsCore DEF Next, SlotInv

LEMMA Initially == Init => SlotInv
  <1> SUFFICES ASSUME Init
               PROVE  SlotInv
    OBVIOUS
  <1>1. TypeInv
    BY SlotAssumption, DefaultSlots, WriteOrder, TwoSlots DEF Init, TypeInv, TypeOK, Outcomes_of_loss
  <1>2. GlobalSettled /\ AgreedInv /\ LossInv
    BY SlotAssumption DEF Init, GlobalSettled, AgreedInv, LossInv
  <1>3. \A m \in Manager : PhaseInv(m) /\ ReaderInv(m) /\ WriterInv(m)
    BY DEF Init, PhaseInv, ReaderInv, WriterInv, Reading
  <1>4. QED
    BY <1>1, <1>2, <1>3, SlotAssumption DEF SlotInv, CoreInv

(* With any number of processes that change slots, whatever fails, is killed  *)
(* or loses power, files and memory stay well formed, and a call that is      *)
(* writing has a suffix of slot A, slot B, global.json still to write.        *)
THEOREM TypeInvariant == Spec => []TypeInv
  <1>1. Init => TypeInv
    BY Initially DEF SlotInv
  <1>2. QED
    BY <1>1, TypeInvIsKept, PTL DEF Spec

(* SlotManager (slot_manager.cpp) keeps its files and its memory well formed. *)
THEOREM TypeCorrect == Spec => []TypeOK
  <1>1. TypeInv => TypeOK
    BY DEF TypeInv
  <1>2. QED
    BY <1>1, TypeInvariant, PTL

(* The inductive invariant: the slot that global.json names is ACTIVE,        *)
(* INACTIVE or EMPTY in its file and in the memory of the process that        *)
(* changes slots; the files that process has written say what it holds; and a *)
(* load that one call overlaps at most sees such a slot.                      *)
THEOREM SlotInvariant ==
    ASSUME OneWriter
    PROVE  Spec => []SlotInv
  <1>1. Init => SlotInv
    BY Initially
  <1>2. SlotInv /\ [Next]_vars => SlotInv'
    BY SlotInvIsKept
  <1>3. QED
    BY <1>1, <1>2, PTL DEF Spec

-----------------------------------------------------------------------------
(* The properties. *)

(* A load that at most one call overlaps, also one interleaved with a call    *)
(* that is killed, returns slots that fail validate_slot if they contradict   *)
(* the global state: "Detect inconsistencies between metadata and global      *)
(* state".                                                                    *)
THEOREM InconsistencyIsDetected ==
    ASSUME OneWriter
    PROVE  Spec => []DetectsInconsistency
  <1>1. SlotInv => DetectsInconsistency
    <2> SUFFICES ASSUME SlotInv, NEW m \in Manager, loaded[m], overlaps[m] < 2,
                        \A s \in Slot : slot_info[m][s].state # "EMPTY",
                        ~consistent(slot_info[m], active_slot_[m]),
                        \A s \in Slot : validate_slot(slot_info[m], active_slot_[m], s)
                 PROVE  FALSE
      BY DEF DetectsInconsistency
    <2>1. active_slot_[m] \in Slot /\ Settled(slot_info[m][active_slot_[m]].state)
      BY DEF SlotInv, CoreInv, TypeInv, TypeOK, ReaderInv
    <2>2. slot_info[m][active_slot_[m]].state = "ACTIVE"
      BY <2>1 DEF Settled, validate_slot
    <2>3. QED
      BY <2>1, <2>2 DEF consistent, validate_slot
  <1>2. QED
    BY <1>1, SlotInvariant, PTL

(* Once loaded, the active slot is the one the last switch made active, or    *)
(* the one before if that switch was interrupted; after a power loss, the one *)
(* of the moment the disk returned to, or slot A if global.json was lost.     *)
THEOREM ActiveSlotIsRemembered ==
    ASSUME OneWriter
    PROVE  Spec => []ActiveSlotRemembered
  <1>1. SlotInv => ActiveSlotRemembered
    BY DEF SlotInv, CoreInv, AgreedInv, ActiveSlotRemembered
  <1>2. QED
    BY <1>1, SlotInvariant, PTL

\* Only a write of its file changes what the slot of global.json says.
LEMMA PreservedByEveryStep ==
    ASSUME OneWriter, SlotInv, [Next]_vars, NEW n \in Manager, pc[n] = "write",
           pc'[n] # "off", NEW s \in Slot, s = global,
           metadata[s] # NoInfo, metadata'[s] # NoInfo
    PROVE  metadata'[s].version = metadata[s].version
  <1>1. ASSUME NEW m \in Manager, write_file(m)
        PROVE  metadata'[s].version = metadata[s].version
    <2>1. Writes(m) /\ pc[m] = "write" /\ m \in Writers
      BY <1>1, WriteStep DEF SlotInv, CoreInv, PhaseInv, Writes
    <2>2. metadata'[s] \in {metadata[s], slot_info[m][s]}
      BY <2>1, TwoSlots DEF Writes, outcomes, OneWriter
    <2>3. metadata[s].version = slot_info[m][s].version
      BY <2>1, SlotAssumption DEF SlotInv, CoreInv, WriterInv
    <2>4. QED
      BY <2>2, <2>3
  <1>2. ~power_loss
    BY ForgetFacts DEF power_loss, SlotInv, Forgotten
  <1>3. CASE ~power_loss /\ \A m \in Manager : ~write_file(m)
    <2>1. metadata' = metadata
      BY <1>3, LoadStep, ReadStep, ChangeStep
         DEF Next, exit_process, write_back, vars, disk_vars, SlotInv
    <2>2. QED
      BY <2>1
  <1>4. QED
    BY <1>1, <1>2, <1>3

(* No call changes the version of the slot that global.json names: "Never     *)
(* destroy the active slot during update preparation".                        *)
THEOREM ActiveSlotIsPreserved ==
    ASSUME OneWriter
    PROVE  Spec => ActiveSlotPreserved
  <1>1. SlotInv /\ [Next]_vars =>
            [ \A m \in Manager, s \in Slot :
                  pc[m] = "write" /\ pc'[m] # "off" /\ s = global
                  /\ NoInfo \notin {metadata[s], metadata'[s]}
                      => metadata'[s].version = metadata[s].version ]_vars
    BY PreservedByEveryStep
  <1>2. QED
    BY <1>1, SlotInvariant, PTL DEF Spec, ActiveSlotPreserved

\* The last write of switch_active_slot completes a consistent state.
LEMMA HealedByEverySwitch ==
    ASSUME OneWriter, SlotInv, [Next]_vars, NEW m \in Manager, switching[m], pc[m] = "write",
           pc'[m] = "idle"
    PROVE  consistent(metadata', global')
  <1>1. write_file(m)
    <2>1. ASSUME NEW n \in Manager \ {m}, \/ load_slot_state(n) \/ initialize_slots(n) \/ change(n)
                                       \/ write_file(n) \/ exit_process(n)
                                       \/ \E s \in Slot : read_metadata(n, s)
          PROVE  FALSE
      <3>1. pc'[m] = pc[m]
        BY <2>1, LoadStep, ReadStep, ChangeStep, WriteStep, ForgetFacts
           DEF SlotInv, Loads, Reads, Changes, Writes, OthersKept, exit_process
      <3>2. QED
        BY <3>1
    <2>2. ~load_slot_state(m) /\ ~initialize_slots(m) /\ ~change(m)
          /\ \A s \in Slot : ~read_metadata(m, s)
      BY LoadStep, ReadStep, ChangeStep DEF SlotInv, Loads, Reads, Changes
    <2>3. ~exit_process(m) /\ ~power_loss
      BY ForgetFacts DEF exit_process, power_loss, SlotInv, Forgotten
    <2>4. ~write_back /\ ~UNCHANGED vars
      BY DEF write_back, vars, memory_vars
    <2>5. QED
      BY <2>1, <2>2, <2>3, <2>4 DEF Next
  <1>2. Writes(m) /\ m \in Writers /\ WriterInv(m)
    BY <1>1, WriteStep DEF SlotInv, CoreInv, PhaseInv
  <1>3. to_write[m] = <<"global">> /\ metadata' = metadata /\ global' = active_slot_[m]
    BY <1>2 DEF Writes, outcomes, OneWriter
  <1>4. \A s \in Slot : metadata[s] = slot_info[m][s]
    BY <1>2, <1>3, WriteOrder, TwoSlots DEF WriterInv
  <1>5. consistent(slot_info[m], active_slot_[m])
    BY <1>2 DEF WriterInv
  <1>6. QED
    BY <1>3, <1>4, <1>5 DEF consistent

(* A completed switch leaves consistent files, whatever an interrupted call   *)
(* or a power loss had left before it.                                        *)
THEOREM SwitchesHeal ==
    ASSUME OneWriter
    PROVE  Spec => SwitchHeals
  <1>1. SlotInv /\ [Next]_vars =>
            [ \A m \in Manager :
                  switching[m] /\ pc[m] = "write" /\ pc'[m] = "idle"
                      => consistent(metadata', global') ]_vars
    BY HealedByEverySwitch
  <1>2. QED
    BY <1>1, SlotInvariant, PTL DEF Spec, SwitchHeals
=============================================================================
