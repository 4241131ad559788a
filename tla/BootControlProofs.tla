-------------------------- MODULE BootControlProofs --------------------------
(* Proofs about BootControl, for any bound on the attempts, with and without a *)
(* bootloader, with failing writes, kills and losses of power.                 *)
EXTENDS BootControl, TLAPS

(* No file is truncated by a full disk, and reset_boot_attempt_count is not    *)
(* called with a bootloader, which it leaves behind.                           *)
Careful == "full" \notin Faults /\ "reset_with_bootloader" \notin Calls

Apart(state) == state.next_set => state.next # state.current

(* The inductive invariant.  Once the bootloader has written, its file is its  *)
(* memory and boot control has taken the same decision; while it has still to  *)
(* write, boot control has already decided on a selection or its removal; a    *)
(* boot has consumed the selection.  Without a bootloader the file is the      *)
(* memory, unless there is none.  A selection is only acknowledged at the end. *)
BootInv ==
    /\ TypeOK
    /\ Apart(control) /\ Apart(loader)
    /\ control_file \in BootState => Apart(control_file)
    /\ loader_file \in BootState => Apart(loader_file)
    /\ pc = "loader" => with_bootloader
    /\ with_bootloader /\ pc \in {"ready", "control"} =>
         loader_file = loader /\ same_decision(control, loader)
    /\ pc = "loader" /\ call \in {"set_next_boot_slot", "clear_next_boot_slot"} =>
         same_decision(control, loader)
    /\ pc = "loader" =>
         call \in {"initialize", "set_next_boot_slot", "clear_next_boot_slot", "simulate_boot"}
    /\ pc = "loader" /\ call = "simulate_boot" => ~ loader.next_set
    /\ pc = "loader" /\ call = "initialize" => loader_file \notin BootState
    /\ ~ with_bootloader /\ pc = "control" /\ call = "initialize" => control_file = NoFile
    /\ ~ with_bootloader /\ pc = "ready" /\ control_file \in BootState =>
         control = control_file
    /\ ~ with_bootloader /\ pc = "control" /\ call = "reset_boot_attempt_count"
         /\ control_file \in BootState =>
         /\ control.next_set = control_file.next_set
         /\ control.next = control_file.next
    /\ pc \in {"loader", "control"} /\ call = "set_next_boot_slot" => control.next_set
    /\ pc \in {"loader", "control"}
         /\ call \in {"set_next_boot_slot", "clear_next_boot_slot", "simulate_boot"} =>
         selected = NoSlot
    /\ with_bootloader /\ pc = "control" => call # "initialize"
    /\ pc = "control" => call # "none"
    /\ with_bootloader => call # "reset_boot_attempt_count"
    /\ SelectionSurvives

(* The same of every moment that a loss of power may return the disk to.       *)
ApartIn(outcome) ==
    /\ outcome.control_file \in BootState => Apart(outcome.control_file)
    /\ outcome.loader_file \in BootState => Apart(outcome.loader_file)

LossInv == latest # {} /\ \A d \in latest \cup earlier : ApartIn(d)

-----------------------------------------------------------------------------
(* What the operators on a state do with its fields. *)

LEMMA DefaultFacts ==
    default_state \in BootState /\ ~ default_state.next_set
  BY BootAssumption DEF default_state, BootState, Slot

LEMMA SelectFacts ==
    ASSUME NEW state \in BootState, NEW s \in Slot
    PROVE  LET q == select(state, s) IN
           /\ q \in BootState
           /\ q.next_set /\ q.next = s
           /\ q.current = state.current /\ q.attempts = state.attempts
  BY DEF select, BootState

LEMMA ClearFacts ==
    ASSUME NEW state \in BootState
    PROVE  LET q == clear(state) IN
           /\ q \in BootState
           /\ q.next_set = FALSE /\ q.next = state.next
           /\ q.current = state.current /\ q.attempts = state.attempts
  BY DEF clear, BootState

LEMMA GetStateFacts ==
    ASSUME NEW state \in BootState
    PROVE  LET q == get_state(state) IN
           /\ q \in BootState
           /\ q.next_set = state.next_set
           /\ state.next_set => q.next = state.next
           /\ q.current = state.current /\ q.attempts = state.attempts
  BY DEF get_state, BootState

LEMMA BootFacts ==
    ASSUME NEW state \in BootState, NEW target \in Slot, state.attempts[target] < MaxBoots
    PROVE  boot(state, target) \in BootState /\ ~ boot(state, target).next_set
  <1> DEFINE counted == [state.attempts EXCEPT ![target] = @ + 1]
  <1>1. counted \in [Slot -> 0..MaxBoots]
    BY BootAssumption DEF BootState
  <1>2. boot(state, target) = [state EXCEPT !.current = target, !.next_set = FALSE,
                                            !.attempts = counted]
    BY DEF boot, BootState
  <1> HIDE DEF counted
  <1>3. QED
    BY <1>1, <1>2 DEF BootState

LEMMA ResetFacts ==
    ASSUME NEW state \in BootState, NEW s \in Slot
    PROVE  LET q == [state EXCEPT !.attempts[s] = 0] IN
           /\ q \in BootState
           /\ q.next_set = state.next_set /\ q.next = state.next
           /\ q.current = state.current
  <1> DEFINE zeroed == [state.attempts EXCEPT ![s] = 0]
  <1>1. zeroed \in [Slot -> 0..MaxBoots]
    BY BootAssumption DEF BootState
  <1>2. [state EXCEPT !.attempts[s] = 0] = [state EXCEPT !.attempts = zeroed]
    BY DEF BootState
  <1> HIDE DEF zeroed
  <1>3. QED
    BY <1>1, <1>2 DEF BootState

LEMMA FollowFacts ==
    ASSUME NEW state \in BootState, NEW s \in Slot
    PROVE  LET q == [state EXCEPT !.next = s] IN
           /\ q \in BootState
           /\ q.next_set = state.next_set
           /\ q.current = state.current /\ q.attempts = state.attempts
  BY DEF BootState

LEMMA NextIsSlot ==
    ASSUME NEW state \in BootState
    PROVE  state.next \in Slot
  BY DEF BootState

-----------------------------------------------------------------------------
(* The steps of a call, one lemma for each kind. *)

LEMMA InitStep == Init => BootInv /\ LossInv
  BY BootAssumption, DefaultFacts
     DEF Init, BootInv, TypeOK, File, Outcomes_of_loss, Apart, ApartIn, LossInv,
         SelectionSurvives, Slot

LEMMA InitializeLoaderStep ==
    ASSUME Careful, BootInv, initialize_loader
    PROVE  BootInv'
  <1>1. CASE loader_file \in BootState
    <2>1. PICK q : q = get_state(loader_file)
      OBVIOUS
    <2>2. q \in BootState /\ same_decision(q, loader_file) /\ (Apart(loader_file) => Apart(q))
      BY <1>1, <2>1, GetStateFacts DEF same_decision, Apart
    <2>3. /\ control' = q /\ loader' = loader_file /\ with_bootloader
          /\ pc' = "ready" /\ loader_file' = loader_file
      BY <1>1, <2>1 DEF initialize_loader, disk_vars
    <2>4. QED
      BY <1>1, <2>2, <2>3
         DEF initialize_loader, BootInv, TypeOK, SelectionSurvives, recorded, disk_vars,
             Apart, same_decision
  <1>2. CASE loader_file \notin BootState
    BY <1>2 DEF initialize_loader, persist, BootInv, TypeOK, Apart, SelectionSurvives,
                recorded, same_decision, disk_vars
  <1>3. QED
    BY <1>1, <1>2

LEMMA InitializeControlStep ==
    ASSUME Careful, BootInv, initialize_control
    PROVE  BootInv'
  BY BootAssumption, DefaultFacts
     DEF initialize_control, persist, BootInv, TypeOK, File, Apart, SelectionSurvives,
         recorded, same_decision, disk_vars

LEMMA SelectStep ==
    ASSUME Careful, BootInv, NEW s \in Slot, set_next_boot_slot(s)
    PROVE  BootInv'
  <1>1. PICK q : q = select(control, s)
    OBVIOUS
  <1>2. PICK r : r = select(loader, s)
    OBVIOUS
  <1>3. control \in BootState /\ loader \in BootState
    BY DEF BootInv, TypeOK
  <1>4. /\ q \in BootState /\ q.next_set /\ q.next = s
        /\ q.current = control.current /\ q.attempts = control.attempts
    BY <1>1, <1>3, SelectFacts
  <1>5. /\ r \in BootState /\ r.next_set /\ r.next = s
        /\ r.current = loader.current /\ r.attempts = loader.attempts
    BY <1>2, <1>3, SelectFacts
  <1>6. control' = q /\ loader' = IF with_bootloader THEN r ELSE loader
    BY <1>1, <1>2 DEF set_next_boot_slot
  <1>7. CASE with_bootloader
    <2>1. /\ loader_file = loader /\ same_decision(control, loader)
          /\ control' = q /\ loader' = r /\ pc' = "loader"
      BY <1>6, <1>7 DEF set_next_boot_slot, persist, BootInv
    <2>2. same_decision(q, r) /\ Apart(q) /\ Apart(r)
      BY <1>4, <1>5, <2>1 DEF set_next_boot_slot, same_decision, Apart
    <2>3. QED
      BY <1>4, <1>5, <1>7, <2>1, <2>2
         DEF set_next_boot_slot, persist, BootInv, TypeOK, SelectionSurvives, disk_vars,
             Apart, same_decision
  <1>8. CASE ~ with_bootloader
    BY <1>3, <1>4, <1>6, <1>8
       DEF set_next_boot_slot, persist, BootInv, TypeOK, Apart, SelectionSurvives,
           disk_vars
  <1>9. QED
    BY <1>7, <1>8

LEMMA ClearStep ==
    ASSUME Careful, BootInv, clear_next_boot_slot
    PROVE  BootInv'
  <1>1. PICK q : q = clear(control)
    OBVIOUS
  <1>2. PICK r : r = clear(loader)
    OBVIOUS
  <1>3. control \in BootState /\ loader \in BootState
    BY DEF BootInv, TypeOK
  <1>4. /\ q \in BootState /\ q.next_set = FALSE /\ q.next = control.next
        /\ q.current = control.current /\ q.attempts = control.attempts
    BY <1>1, <1>3, ClearFacts
  <1>5. /\ r \in BootState /\ r.next_set = FALSE /\ r.next = loader.next
        /\ r.current = loader.current /\ r.attempts = loader.attempts
    BY <1>2, <1>3, ClearFacts
  <1>6. control' = q /\ loader' = IF with_bootloader THEN r ELSE loader
    BY <1>1, <1>2 DEF clear_next_boot_slot
  <1>7. CASE with_bootloader
    <2>1. /\ loader_file = loader /\ same_decision(control, loader)
          /\ control' = q /\ loader' = r /\ pc' = "loader"
      BY <1>6, <1>7 DEF clear_next_boot_slot, persist, BootInv
    <2>2. same_decision(q, r) /\ Apart(q) /\ Apart(r)
      BY <1>4, <1>5, <2>1 DEF clear_next_boot_slot, same_decision, Apart
    <2>3. QED
      BY <1>4, <1>5, <1>7, <2>1, <2>2
         DEF clear_next_boot_slot, persist, BootInv, TypeOK, SelectionSurvives, disk_vars,
             Apart, same_decision
  <1>8. CASE ~ with_bootloader
    BY <1>3, <1>4, <1>6, <1>8
       DEF clear_next_boot_slot, persist, BootInv, TypeOK, Apart, SelectionSurvives,
           disk_vars
  <1>9. QED
    BY <1>7, <1>8

LEMMA SimulateBootStep ==
    ASSUME Careful, BootInv, simulate_boot
    PROVE  BootInv'
  <1>1. /\ control \in BootState /\ loader \in BootState /\ pc = "ready"
        /\ control.next \in Slot
    BY NextIsSlot DEF BootInv, TypeOK, simulate_boot
  <1>2. CASE with_bootloader
    <2>1. PICK r : r = boot(loader, control.next)
      OBVIOUS
    <2>2. loader' = r /\ r \in BootState /\ ~ r.next_set
      BY <1>1, <1>2, <2>1, BootFacts DEF simulate_boot
    <2>3. QED
      BY <1>1, <1>2, <2>2
         DEF simulate_boot, persist, BootInv, TypeOK, Apart, SelectionSurvives,
             recorded, same_decision, disk_vars
  <1>3. CASE ~ with_bootloader
    <2>1. PICK q : q = boot(control, control.next)
      OBVIOUS
    <2>2. control' = q /\ q \in BootState /\ ~ q.next_set
      BY <1>1, <1>3, <2>1, BootFacts DEF simulate_boot
    <2>3. QED
      BY <1>1, <1>3, <2>2
         DEF simulate_boot, persist, BootInv, TypeOK, Apart, SelectionSurvives,
             recorded, same_decision, disk_vars
  <1>4. QED
    BY <1>2, <1>3

LEMMA ResetStep ==
    ASSUME Careful, BootInv, NEW s \in Slot, reset_boot_attempt_count(s)
    PROVE  BootInv'
  <1>1. PICK q : q = [control EXCEPT !.attempts[s] = 0]
    OBVIOUS
  <1>2. control \in BootState
    BY DEF BootInv, TypeOK
  <1>3. /\ q \in BootState
        /\ q.next_set = control.next_set /\ q.next = control.next
        /\ q.current = control.current
    BY <1>1, <1>2, ResetFacts
  <1>4. control' = q /\ ~ with_bootloader
    BY <1>1 DEF reset_boot_attempt_count, Careful
  <1>5. QED
    BY <1>3, <1>4
       DEF reset_boot_attempt_count, BootInv, TypeOK, Apart, SelectionSurvives,
           recorded, same_decision, disk_vars

-----------------------------------------------------------------------------
(* The writes, and the end of the process. *)

LEMMA NamesChange ==
    ASSUME BootInv, NEW O \in SUBSET Outcomes_of_loss, names_change(O)
    PROVE  /\ latest' \cup earlier' \subseteq Outcomes_of_loss
           /\ \/ "power" \notin Faults /\ UNCHANGED <<latest, earlier>>
              \/ "power" \in Faults /\ latest' = O /\ earlier' = earlier \cup latest
  BY DEF names_change, BootInv, TypeOK

\* The outcomes of a power loss after a write of the bootloader's file, and of
\* the one of boot control.
with_loader(e, f) == [control_file |-> e.control_file, loader_file |-> f]
with_control(e, f) == [control_file |-> f, loader_file |-> e.loader_file]

LoaderAfter(content) ==
    \/ "power" \notin Faults /\ UNCHANGED <<latest, earlier>>
    \/ /\ "power" \in Faults /\ earlier' = earlier \cup latest
       /\ \A d \in latest' : \E e \in latest, f \in {content, Empty} : d = with_loader(e, f)
       /\ \A e \in latest, f \in {content, Empty} : with_loader(e, f) \in latest'

ControlAfter(content) ==
    \/ "power" \notin Faults /\ UNCHANGED <<latest, earlier>>
    \/ /\ "power" \in Faults /\ earlier' = earlier \cup latest
       /\ \A d \in latest' : \E e \in latest, f \in {content, Empty} : d = with_control(e, f)
       /\ \A e \in latest, f \in {content, Empty} : with_control(e, f) \in latest'

LEMMA LoaderReplaced ==
    ASSUME BootInv, NEW content \in File, replace_loader(content)
    PROVE  /\ loader_file' = content /\ control_file' = control_file
           /\ latest' \cup earlier' \subseteq Outcomes_of_loss
           /\ LoaderAfter(content)
  <1> DEFINE O == {[d EXCEPT !.loader_file = f] : d \in latest, f \in {content, Empty}}
  <1>1. names_change(O) /\ loader_file' = content /\ control_file' = control_file
    BY DEF replace_loader
  <1>2. ASSUME NEW e \in latest, NEW f \in {content, Empty}
        PROVE  /\ [e EXCEPT !.loader_file = f] = with_loader(e, f)
               /\ with_loader(e, f) \in Outcomes_of_loss
    BY DEF with_loader, Outcomes_of_loss, BootInv, TypeOK, File
  <1>3. /\ O \in SUBSET Outcomes_of_loss
        /\ \A d \in O : \E e \in latest, f \in {content, Empty} : d = with_loader(e, f)
        /\ \A e \in latest, f \in {content, Empty} : with_loader(e, f) \in O
    BY <1>2
  <1> HIDE DEF O
  <1>4. QED
    BY <1>1, <1>3, NamesChange DEF LoaderAfter

LEMMA ControlReplaced ==
    ASSUME BootInv, NEW content \in File, replace_control(content)
    PROVE  /\ control_file' = content /\ loader_file' = loader_file
           /\ latest' \cup earlier' \subseteq Outcomes_of_loss
           /\ ControlAfter(content)
  <1> DEFINE O == {[d EXCEPT !.control_file = f] : d \in latest, f \in {content, Empty}}
  <1>1. names_change(O) /\ control_file' = content /\ loader_file' = loader_file
    BY DEF replace_control
  <1>2. ASSUME NEW e \in latest, NEW f \in {content, Empty}
        PROVE  /\ [e EXCEPT !.control_file = f] = with_control(e, f)
               /\ with_control(e, f) \in Outcomes_of_loss
    BY DEF with_control, Outcomes_of_loss, BootInv, TypeOK, File
  <1>3. /\ O \in SUBSET Outcomes_of_loss
        /\ \A d \in O : \E e \in latest, f \in {content, Empty} : d = with_control(e, f)
        /\ \A e \in latest, f \in {content, Empty} : with_control(e, f) \in O
    BY <1>2
  <1> HIDE DEF O
  <1>4. QED
    BY <1>1, <1>3, NamesChange DEF ControlAfter

\* What the two writes do.
LEMMA LoaderWritten ==
    ASSUME Careful, BootInv, write_loader
    PROVE  /\ loader_file' = loader /\ control_file' = control_file
           /\ latest' \cup earlier' \subseteq Outcomes_of_loss
           /\ LoaderAfter(loader)
  <1>1. replace_loader(loader) /\ loader \in File
    BY DEF write_loader, written, Careful, BootInv, TypeOK, File
  <1>2. QED
    BY <1>1, LoaderReplaced

LEMMA ControlWritten ==
    ASSUME Careful, BootInv, write_control
    PROVE  /\ control_file' = control /\ loader_file' = loader_file
           /\ latest' \cup earlier' \subseteq Outcomes_of_loss
           /\ ControlAfter(control)
  <1>1. replace_control(control) /\ control \in File
    BY DEF write_control, written, Careful, BootInv, TypeOK, File
  <1>2. QED
    BY <1>1, ControlReplaced

LEMMA WriteLoaderStep ==
    ASSUME Careful, BootInv, write_loader
    PROVE  BootInv'
  <1>1. /\ loader \in BootState /\ control \in BootState /\ with_bootloader
        /\ pc = "loader" /\ Apart(loader) /\ Apart(control) /\ control.next \in Slot
    BY NextIsSlot DEF BootInv, TypeOK, write_loader
  <1>2. /\ loader_file' = loader /\ loader' = loader
        /\ loader \in File /\ control_file' = control_file
    BY LoaderWritten DEF write_loader, BootInv, TypeOK, File
  <1>3. latest' \cup earlier' \subseteq Outcomes_of_loss
    BY LoaderWritten
  <1>4. CASE call = "initialize"
    <2>1. PICK q : q = get_state(loader)
      OBVIOUS
    <2>2. q \in BootState /\ same_decision(q, loader) /\ Apart(q)
      BY <1>1, <2>1, GetStateFacts DEF same_decision, Apart
    <2>3. control' = q /\ pc' = "ready" /\ call' = "none"
      BY <1>4, <2>1 DEF write_loader, after_loader
    <2>4. selected = NoSlot
      BY <1>1, <1>4 DEF BootInv, SelectionSurvives, recorded
    <2>5. QED
      BY <1>1, <1>2, <1>3, <2>2, <2>3, <2>4
         DEF write_loader, BootInv, TypeOK, SelectionSurvives, Apart, same_decision
  <1>5. CASE call = "simulate_boot"
    <2>1. PICK q : q = [loader EXCEPT !.next = control.next]
      OBVIOUS
    <2>2. q \in BootState /\ same_decision(q, loader) /\ Apart(q)
      BY <1>1, <1>5, <2>1, FollowFacts DEF same_decision, Apart, BootInv
    <2>3. control' = q /\ pc' = "control" /\ call' = call
      BY <1>5, <2>1 DEF write_loader, after_loader
    <2>4. QED
      BY <1>1, <1>2, <1>3, <1>5, <2>2, <2>3
         DEF write_loader, BootInv, TypeOK, SelectionSurvives, Apart, same_decision
  <1>6. CASE call \in {"set_next_boot_slot", "clear_next_boot_slot"}
    <2>1. control' = control /\ pc' = "control" /\ call' = call
      BY <1>6 DEF write_loader, after_loader
    <2>2. QED
      BY <1>1, <1>2, <1>3, <1>6, <2>1
         DEF write_loader, BootInv, TypeOK, SelectionSurvives, Apart, same_decision
  <1>7. QED
    BY <1>1, <1>4, <1>5, <1>6 DEF BootInv

LEMMA WriteControlStep ==
    ASSUME Careful, BootInv, write_control
    PROVE  BootInv'
  <1>1. control_file' = control /\ loader_file' = loader_file /\ control \in File
    BY ControlWritten DEF BootInv, TypeOK, File
  <1>2. latest' \cup earlier' \subseteq Outcomes_of_loss
    BY ControlWritten
  <1>3. control.next \in Slot
    BY NextIsSlot DEF BootInv, TypeOK
  <1>4. SelectionSurvives'
    BY <1>1, BootAssumption
       DEF write_control, BootInv, TypeOK, SelectionSurvives, recorded, same_decision
  <1>5. TypeOK'
    BY <1>1, <1>2, <1>3 DEF write_control, BootInv, TypeOK
  <1>6. QED
    BY <1>1, <1>4, <1>5 DEF write_control, BootInv, Apart, same_decision

LEMMA ForgetStep ==
    ASSUME Careful, BootInv, forget,
           UNCHANGED <<disk_vars, with_bootloader, selected>>
    PROVE  BootInv'
  BY DefaultFacts
     DEF forget, BootInv, TypeOK, Apart, SelectionSurvives, recorded, disk_vars

LEMMA WriteFailsStep ==
    ASSUME Careful, BootInv, write_fails
    PROVE  BootInv'
  <1>1. CASE call = "initialize" /\ ~ with_bootloader
    BY <1>1, BootAssumption
       DEF write_fails, BootInv, TypeOK, Apart, SelectionSurvives, recorded, disk_vars,
           same_decision
  <1>2. CASE ~ (call = "initialize" /\ ~ with_bootloader)
    BY <1>2, ForgetStep DEF write_fails
  <1>3. QED
    BY <1>1, <1>2

LEMMA PowerLossStep ==
    ASSUME Careful, BootInv, LossInv, power_loss
    PROVE  BootInv'
  <1>1. PICK left \in latest \cup earlier :
            /\ control_file' = left.control_file /\ loader_file' = left.loader_file
            /\ selected' = (IF recorded_in(left) = recorded THEN selected ELSE NoSlot)
            /\ latest' = {left}
    BY DEF power_loss
  <1>2. left \in Outcomes_of_loss /\ ApartIn(left)
    BY DEF BootInv, TypeOK, LossInv
  <1>3. TypeOK'
    BY <1>1, <1>2, DefaultFacts DEF power_loss, forget, BootInv, TypeOK, Outcomes_of_loss
  <1>4. SelectionSurvives'
    BY <1>1 DEF power_loss, BootInv, SelectionSurvives, recorded, recorded_in
  <1>5. QED
    BY <1>1, <1>2, <1>3, <1>4, DefaultFacts
       DEF power_loss, forget, BootInv, Apart, ApartIn

LEMMA WriteBackStep ==
    ASSUME Careful, BootInv, write_back
    PROVE  BootInv'
  BY DEF write_back, memory_vars, BootInv, TypeOK, Outcomes_of_loss, Apart, SelectionSurvives, recorded,
         same_decision

LEMMA StutterStep ==
    ASSUME Careful, BootInv, UNCHANGED vars
    PROVE  BootInv'
  BY DEF vars, disk_vars, memory_vars, BootInv, TypeOK, Apart, SelectionSurvives,
         recorded, same_decision

-----------------------------------------------------------------------------
(* Every step, and the theorems. *)

LEMMA LossInvStep ==
    ASSUME Careful, BootInv, LossInv, [Next]_vars
    PROVE  LossInv'
  <1>1. CASE write_loader
    <2>1. Apart(loader) /\ loader \in BootState
      BY DEF BootInv, TypeOK
    <2>2. \A e \in latest, f \in {loader, Empty} : ApartIn(with_loader(e, f))
      BY <2>1, BootAssumption DEF LossInv, ApartIn, with_loader, BootInv, TypeOK, File
    <2>3. QED
      BY <1>1, <2>2, LoaderWritten DEF LossInv, LoaderAfter
  <1>2. CASE write_control
    <2>1. Apart(control) /\ control \in BootState
      BY DEF BootInv, TypeOK
    <2>2. \A e \in latest, f \in {control, Empty} : ApartIn(with_control(e, f))
      BY <2>1, BootAssumption DEF LossInv, ApartIn, with_control, BootInv, TypeOK, File
    <2>3. QED
      BY <1>2, <2>2, ControlWritten DEF LossInv, ControlAfter
  <1>3. CASE power_loss
    BY <1>3 DEF power_loss, LossInv
  <1>4. CASE write_back
    BY <1>4 DEF write_back, LossInv, ApartIn, BootInv
  <1>5. CASE UNCHANGED disk_vars
    BY <1>5 DEF disk_vars, LossInv
  <1>6. QED
    BY <1>1, <1>2, <1>3, <1>4, <1>5
       DEF Next, vars, initialize_loader, initialize_control, set_next_boot_slot,
           prepare_next_boot, reset_boot_attempt_count, clear_next_boot_slot, simulate_boot,
           write_fails, exit_process

LEMMA NextStep ==
    ASSUME Careful, BootInv, LossInv, [Next]_vars
    PROVE  BootInv'
  <1>1. CASE initialize_loader
    BY <1>1, InitializeLoaderStep
  <1>2. CASE initialize_control
    BY <1>2, InitializeControlStep
  <1>3. CASE \E s \in Slot : set_next_boot_slot(s)
    BY <1>3, SelectStep
  <1>4. CASE \E s \in Slot : prepare_next_boot(s)
    BY <1>4, SelectStep DEF prepare_next_boot
  <1>5. CASE \E s \in Slot : reset_boot_attempt_count(s)
    BY <1>5, ResetStep
  <1>6. CASE clear_next_boot_slot
    BY <1>6, ClearStep
  <1>7. CASE simulate_boot
    BY <1>7, SimulateBootStep
  <1>8. CASE write_loader
    BY <1>8, WriteLoaderStep
  <1>9. CASE write_control
    BY <1>9, WriteControlStep
  <1>10. CASE write_fails
    BY <1>10, WriteFailsStep
  <1>11. CASE exit_process
    BY <1>11, ForgetStep DEF exit_process
  <1>12. CASE power_loss
    BY <1>12, PowerLossStep
  <1>13. CASE write_back
    BY <1>13, WriteBackStep
  <1>14. CASE UNCHANGED vars
    BY <1>14, StutterStep
  <1>15. QED
    BY <1>1, <1>2, <1>3, <1>4, <1>5, <1>6, <1>7, <1>8, <1>9, <1>10, <1>11, <1>12,
       <1>13, <1>14 DEF Next

(* The state of the two files, the two objects and the running call has the     *)
(* shape TypeOK gives it, and is related as BootInv says, after any steps.      *)
THEOREM BootInvariance ==
    ASSUME Careful
    PROVE  Spec => []BootInv
  <1>1. Init => BootInv /\ LossInv
    BY InitStep
  <1>2. BootInv /\ LossInv /\ [Next]_vars => BootInv' /\ LossInv'
    BY NextStep, LossInvStep
  <1>3. QED
    BY <1>1, <1>2, PTL DEF Spec

(* Every variable keeps its type; the counters of attempts stay in their bound. *)
THEOREM TypeCorrect ==
    ASSUME Careful
    PROVE  Spec => []TypeOK
  <1>1. BootInv => TypeOK
    BY DEF BootInv
  <1>2. QED
    BY <1>1, BootInvariance, PTL

(* An acknowledged selection is on record until a later call or a loss of       *)
(* power removes it, whatever write fails and whenever the process is killed.   *)
THEOREM SelectionIsDurable ==
    ASSUME Careful
    PROVE  Spec => []SelectionSurvives
  <1>1. BootInv => SelectionSurvives
    BY DEF BootInv
  <1>2. QED
    BY <1>1, BootInvariance, PTL

(* In neither file is the slot that runs also the slot selected to boot next.   *)
THEOREM PendingIsNotRunning ==
    ASSUME Careful
    PROVE  Spec => []PendingIsOther
  <1>1. BootInv => PendingIsOther
    BY DEF BootInv, PendingIsOther, Apart
  <1>2. QED
    BY <1>1, BootInvariance, PTL

(* Between two calls boot control has taken the decision that is on record,     *)
(* with a bootloader and without one.                                           *)
THEOREM MemoryFollowsRecord ==
    ASSUME Careful
    PROVE  Spec => []MemoryIsRecorded
  <1>1. BootInv => MemoryIsRecorded
    BY DEF BootInv, MemoryIsRecorded, recorded, same_decision
  <1>2. QED
    BY <1>1, BootInvariance, PTL

-----------------------------------------------------------------------------
(* BootControl implements BootSelection.  The invariant needed for it says of   *)
(* a state in memory that is not yet in the file what a write of it will do to  *)
(* the recorded state.                                                          *)

record == state_of(recorded)

possible == {state_of(recorded_in(d)) : d \in latest \cup earlier}

memory == IF with_bootloader THEN loader ELSE control

\* One operation of BootSelection leads from one state to the other.
Follows(before, after) ==
    \/ after = clear(before)
    \/ before.next_set /\ after = boot(before, before.next)
    \/ \E s \in Slot : s # before.current /\ after = select(before, s)
    \/ \E s \in Slot : after = [before EXCEPT !.attempts[s] = 0]

\* The running call has still to write the file that is the record.
Unwritten == pc \in {"loader", "control"} /\ ~ (with_bootloader /\ pc = "control")

RecordInv ==
    /\ pc = "off" => memory = default_state
    /\ pc # "off" /\ ~ Unwritten => memory = record
    /\ Unwritten => Follows(record, memory)
    /\ Unwritten /\ call = "initialize" => memory = default_state

\* What a step does to the record, and to what a power loss may leave of it.
Stays == record' = record /\ possible' = possible

Operates ==
    /\ Follows(record, record')
    /\ possible' = IF "power" \in Faults THEN possible \cup {default_state, record'} ELSE possible

RecordStep ==
    \/ Stays \/ Operates
    \/ "power" \in Faults /\ record' \in possible /\ possible' = {record'}
    \/ "power" \in Faults /\ record' = record /\ possible' = {record}

LEMMA RecordInit == Init => RecordInv
  BY DEF Init, RecordInv, memory, Unwritten

LEMMA QuietRecord ==
    ASSUME UNCHANGED <<disk_vars, with_bootloader>>
    PROVE  Stays /\ record' = record
  BY DEF disk_vars, Stays, record, possible, state_of, recorded, recorded_in

\* What the two writes do to what a power loss may leave.
LEMMA PossibleLoader ==
    ASSUME BootInv, LossInv, LoaderAfter(loader), with_bootloader, with_bootloader'
    PROVE  possible' = IF "power" \in Faults THEN possible \cup {default_state, loader}
                                           ELSE possible
  <1>1. /\ possible = {state_of(d.loader_file) : d \in latest \cup earlier}
        /\ possible' = {state_of(d.loader_file) : d \in latest' \cup earlier'}
    BY DEF possible, recorded_in
  <1>2. CASE "power" \notin Faults
    BY <1>1, <1>2 DEF LoaderAfter
  <1>3. CASE "power" \in Faults
    <2>1. /\ \A d \in latest' : \E e \in latest, f \in {loader, Empty} : d = with_loader(e, f)
          /\ \A e \in latest, f \in {loader, Empty} : with_loader(e, f) \in latest'
          /\ earlier' = earlier \cup latest
      BY <1>3 DEF LoaderAfter
    <2>2. state_of(Empty) = default_state /\ state_of(loader) = loader
      BY BootAssumption DEF state_of, BootInv, TypeOK
    <2>3. \A d \in latest' : d.loader_file \in {loader, Empty}
      BY <2>1 DEF with_loader
    <2>4. \A f \in {loader, Empty} : \E d \in latest' : d.loader_file = f
      BY <2>1 DEF with_loader, LossInv
    <2>5. {state_of(d.loader_file) : d \in latest'} = {default_state, loader}
      BY <2>2, <2>3, <2>4
    <2>6. QED
      BY <1>1, <1>3, <2>1, <2>5
  <1>4. QED
    BY <1>2, <1>3

LEMMA PossibleControl ==
    ASSUME BootInv, LossInv, ControlAfter(control), ~ with_bootloader, ~ with_bootloader'
    PROVE  possible' = IF "power" \in Faults THEN possible \cup {default_state, control}
                                           ELSE possible
  <1>1. /\ possible = {state_of(d.control_file) : d \in latest \cup earlier}
        /\ possible' = {state_of(d.control_file) : d \in latest' \cup earlier'}
    BY DEF possible, recorded_in
  <1>2. CASE "power" \notin Faults
    BY <1>1, <1>2 DEF ControlAfter
  <1>3. CASE "power" \in Faults
    <2>1. /\ \A d \in latest' : \E e \in latest, f \in {control, Empty} : d = with_control(e, f)
          /\ \A e \in latest, f \in {control, Empty} : with_control(e, f) \in latest'
          /\ earlier' = earlier \cup latest
      BY <1>3 DEF ControlAfter
    <2>2. state_of(Empty) = default_state /\ state_of(control) = control
      BY BootAssumption DEF state_of, BootInv, TypeOK
    <2>3. \A d \in latest' : d.control_file \in {control, Empty}
      BY <2>1 DEF with_control
    <2>4. \A f \in {control, Empty} : \E d \in latest' : d.control_file = f
      BY <2>1 DEF with_control, LossInv
    <2>5. {state_of(d.control_file) : d \in latest'} = {default_state, control}
      BY <2>2, <2>3, <2>4
    <2>6. QED
      BY <1>1, <1>3, <2>1, <2>5
  <1>4. QED
    BY <1>2, <1>3

LEMMA PossibleKept ==
    ASSUME LossInv, ControlAfter(control), with_bootloader, with_bootloader'
    PROVE  possible' = possible
  <1>1. /\ possible = {state_of(d.loader_file) : d \in latest \cup earlier}
        /\ possible' = {state_of(d.loader_file) : d \in latest' \cup earlier'}
    BY DEF possible, recorded_in
  <1>2. CASE "power" \notin Faults
    BY <1>1, <1>2 DEF ControlAfter
  <1>3. CASE "power" \in Faults
    <2>1. /\ \A d \in latest' : \E e \in latest, f \in {control, Empty} : d = with_control(e, f)
          /\ earlier' = earlier \cup latest
      BY <1>3 DEF ControlAfter
    <2>2. \A d \in latest' : \E e \in latest : d.loader_file = e.loader_file
      BY <2>1 DEF with_control
    <2>3. QED
      BY <1>1, <2>1, <2>2
  <1>4. QED
    BY <1>2, <1>3

LEMMA DefaultFollows == Follows(default_state, default_state)
  BY DefaultFacts DEF Follows, clear, BootState

LEMMA RecordInitialize ==
    ASSUME BootInv, RecordInv, initialize_loader \/ initialize_control
    PROVE  RecordInv' /\ RecordStep
  <1>1. Stays /\ record' = record /\ Unwritten = FALSE
    BY QuietRecord DEF initialize_loader, initialize_control, Unwritten
  <1>2. CASE initialize_loader
    <2>1. CASE loader_file \in BootState
      <3>1. memory' = record /\ pc' = "ready"
        BY <1>2, <2>1 DEF initialize_loader, memory, record, state_of, recorded
      <3>2. QED
        BY <1>1, <3>1 DEF RecordInv, RecordStep, Unwritten
    <2>2. CASE loader_file \notin BootState
      <3>1. /\ memory' = default_state /\ record' = default_state
            /\ pc' = "loader" /\ call' = "initialize"
        BY <1>1, <1>2, <2>2
           DEF initialize_loader, persist, RecordInv, memory, record, state_of, recorded
      <3>2. Follows(record', memory')
        BY <3>1, DefaultFollows
      <3>3. QED
        BY <1>1, <3>1, <3>2 DEF RecordInv, RecordStep, Unwritten
    <2>3. QED
      BY <2>1, <2>2
  <1>3. CASE initialize_control
    <2>1. CASE control_file # NoFile
      <3>1. memory' = record /\ pc' = "ready"
        BY <1>3, <2>1, BootAssumption
           DEF initialize_control, memory, record, state_of, recorded, BootInv, TypeOK, File
      <3>2. QED
        BY <1>1, <3>1 DEF RecordInv, RecordStep, Unwritten
    <2>2. CASE control_file = NoFile
      <3>1. /\ memory' = default_state /\ record' = default_state /\ ~ with_bootloader'
            /\ pc' = "control" /\ call' = "initialize"
        BY <1>1, <1>3, <2>2, BootAssumption
           DEF initialize_control, persist, RecordInv, memory, record, state_of, recorded
      <3>2. Follows(record', memory')
        BY <3>1, DefaultFollows
      <3>3. QED
        BY <1>1, <3>1, <3>2 DEF RecordInv, RecordStep, Unwritten
    <2>3. QED
      BY <2>1, <2>2
  <1>4. QED
    BY <1>2, <1>3

\* A call that changes the memory and has still to write it.
LEMMA RecordCall ==
    ASSUME BootInv, RecordInv, pc = "ready", pc' = IF with_bootloader THEN "loader" ELSE "control",
           UNCHANGED <<disk_vars, with_bootloader>>, Follows(memory, memory'),
           call' # "initialize"
    PROVE  RecordInv' /\ RecordStep
  <1>1. Stays /\ record' = record
    BY QuietRecord
  <1>2. memory = record
    BY DEF RecordInv, Unwritten
  <1>3. Follows(record', memory')
    BY <1>1, <1>2
  <1>4. QED
    BY <1>1, <1>3 DEF RecordInv, RecordStep, Unwritten

LEMMA RecordSelect ==
    ASSUME BootInv, RecordInv, NEW s \in Slot, set_next_boot_slot(s)
    PROVE  RecordInv' /\ RecordStep
  <1>1. memory' = select(memory, s)
    BY DEF set_next_boot_slot, memory
  <1>2. s # memory.current
    BY DEF set_next_boot_slot, memory, BootInv, same_decision
  <1>3. Follows(memory, memory')
    BY <1>1, <1>2 DEF Follows
  <1>4. QED
    BY <1>3, RecordCall DEF set_next_boot_slot, persist

LEMMA RecordClear ==
    ASSUME BootInv, RecordInv, clear_next_boot_slot
    PROVE  RecordInv' /\ RecordStep
  <1>1. memory' = clear(memory)
    BY DEF clear_next_boot_slot, memory
  <1>2. Follows(memory, memory')
    BY <1>1 DEF Follows
  <1>3. QED
    BY <1>2, RecordCall DEF clear_next_boot_slot, persist

LEMMA RecordBoot ==
    ASSUME BootInv, RecordInv, simulate_boot
    PROVE  RecordInv' /\ RecordStep
  <1>1. memory.next_set /\ control.next = memory.next
    BY DEF simulate_boot, memory, BootInv, same_decision
  <1>2. memory' = boot(memory, memory.next)
    BY <1>1 DEF simulate_boot, memory
  <1>3. Follows(memory, memory')
    BY <1>1, <1>2 DEF Follows
  <1>4. QED
    BY <1>3, RecordCall DEF simulate_boot, persist

LEMMA RecordReset ==
    ASSUME Careful, BootInv, RecordInv, NEW s \in Slot, reset_boot_attempt_count(s)
    PROVE  RecordInv' /\ RecordStep
  <1>1. ~ with_bootloader
    BY DEF reset_boot_attempt_count, Careful
  <1>2. memory' = [memory EXCEPT !.attempts[s] = 0]
    BY <1>1 DEF reset_boot_attempt_count, memory
  <1>3. Follows(memory, memory')
    BY <1>2 DEF Follows
  <1>4. QED
    BY <1>1, <1>3, RecordCall DEF reset_boot_attempt_count

LEMMA RecordWrite ==
    ASSUME Careful, BootInv, LossInv, RecordInv, write_loader \/ write_control
    PROVE  RecordInv' /\ RecordStep
  <1>1. CASE write_loader
    <2>1. Unwritten /\ with_bootloader /\ loader \in BootState
      BY <1>1 DEF write_loader, Unwritten, BootInv, TypeOK
    <2>2. record' = memory /\ memory' = memory /\ memory = loader
      BY <1>1, <2>1, LoaderWritten DEF write_loader, record, state_of, recorded, memory
    <2>3. pc' \in {"ready", "control"} /\ with_bootloader'
      BY <1>1, <2>1 DEF write_loader, after_loader
    <2>4. Operates
      BY <1>1, <2>1, <2>2, <2>3, LoaderWritten, PossibleLoader DEF Operates, RecordInv
    <2>5. QED
      BY <2>1, <2>2, <2>3, <2>4 DEF RecordInv, RecordStep, Unwritten
  <1>2. CASE write_control /\ ~ with_bootloader
    <2>1. Unwritten /\ control \in BootState
      BY <1>2 DEF write_control, Unwritten, BootInv, TypeOK
    <2>2. /\ record' = memory /\ memory' = memory /\ memory = control
          /\ pc' = "ready" /\ ~ with_bootloader'
      BY <1>2, <2>1, ControlWritten DEF write_control, record, state_of, recorded, memory
    <2>3. Operates
      BY <1>2, <2>1, <2>2, ControlWritten, PossibleControl DEF Operates, RecordInv
    <2>4. QED
      BY <2>1, <2>2, <2>3 DEF RecordInv, RecordStep, Unwritten
  <1>3. CASE write_control /\ with_bootloader
    <2>1. /\ record' = record /\ memory' = memory /\ pc = "control" /\ pc' = "ready"
          /\ with_bootloader'
      BY <1>3, ControlWritten DEF write_control, record, state_of, recorded, memory
    <2>2. Stays
      BY <1>3, <2>1, ControlWritten, PossibleKept DEF Stays
    <2>3. QED
      BY <1>3, <2>1, <2>2 DEF RecordInv, RecordStep, Unwritten
  <1>4. QED
    BY <1>1, <1>2, <1>3

LEMMA RecordForget ==
    ASSUME forget, UNCHANGED <<disk_vars, with_bootloader>>
    PROVE  RecordInv' /\ RecordStep
  <1>1. Stays /\ record' = record
    BY QuietRecord
  <1>2. QED
    BY <1>1 DEF forget, RecordInv, RecordStep, Unwritten, memory

LEMMA RecordFails ==
    ASSUME BootInv, RecordInv, write_fails
    PROVE  RecordInv' /\ RecordStep
  <1>1. CASE call = "initialize" /\ ~ with_bootloader
    <2>1. Stays /\ record' = record /\ memory' = memory /\ pc' = "ready" /\ ~ with_bootloader'
      BY <1>1, QuietRecord DEF write_fails, memory
    <2>2. pc = "control" /\ record = default_state
      BY <1>1, BootAssumption DEF write_fails, BootInv, record, state_of, recorded
    <2>3. QED
      BY <1>1, <2>1, <2>2 DEF RecordInv, RecordStep, Unwritten
  <1>2. CASE ~ (call = "initialize" /\ ~ with_bootloader)
    BY <1>2, RecordForget DEF write_fails
  <1>3. QED
    BY <1>1, <1>2

LEMMA RecordPowerLoss ==
    ASSUME power_loss
    PROVE  RecordInv' /\ RecordStep
  <1>1. PICK left \in latest \cup earlier :
            /\ control_file' = left.control_file /\ loader_file' = left.loader_file
            /\ latest' = {left}
    BY DEF power_loss
  <1>2. record' = state_of(recorded_in(left)) /\ record' \in possible
    BY <1>1 DEF power_loss, record, recorded, recorded_in, state_of, possible
  <1>3. latest' \cup earlier' = {left} /\ with_bootloader' = with_bootloader
    BY <1>1 DEF power_loss
  <1>4. possible' = {record'}
    BY <1>1, <1>2, <1>3 DEF possible, recorded_in, state_of
  <1>5. RecordInv'
    BY DEF power_loss, forget, RecordInv, Unwritten, memory
  <1>6. QED
    BY <1>2, <1>4, <1>5 DEF RecordStep, power_loss

LEMMA RecordQuiet ==
    ASSUME RecordInv, write_back \/ UNCHANGED vars
    PROVE  RecordInv' /\ RecordStep
  <1>1. /\ record' = record /\ memory' = memory /\ Unwritten' = Unwritten
        /\ pc' = pc /\ call' = call
    BY DEF write_back, vars, disk_vars, memory_vars, memory, Unwritten, record, state_of, recorded
  <1>2. CASE write_back
    <2>1. /\ latest' \cup earlier' = {[control_file |-> control_file, loader_file |-> loader_file]}
          /\ with_bootloader' = with_bootloader /\ "power" \in Faults
      BY <1>2 DEF write_back
    <2>2. PICK d : /\ d = [control_file |-> control_file, loader_file |-> loader_file]
                   /\ latest' \cup earlier' = {d}
      BY <2>1
    <2>3. d.control_file = control_file /\ d.loader_file = loader_file
      BY <2>2
    <2>4. possible' = {record}
      BY <2>1, <2>2, <2>3 DEF possible, record, recorded, recorded_in, state_of
    <2>5. QED
      BY <1>1, <2>1, <2>4 DEF RecordInv, RecordStep
  <1>3. CASE UNCHANGED vars
    <2>1. Stays
      BY <1>3, QuietRecord DEF vars
    <2>2. QED
      BY <1>1, <2>1 DEF RecordInv, RecordStep
  <1>4. QED
    BY <1>2, <1>3

LEMMA RecordNext ==
    ASSUME Careful, BootInv, LossInv, RecordInv, [Next]_vars
    PROVE  RecordInv' /\ RecordStep
  <1>1. CASE initialize_loader \/ initialize_control
    BY <1>1, RecordInitialize
  <1>2. CASE \E s \in Slot : set_next_boot_slot(s) \/ prepare_next_boot(s)
    BY <1>2, RecordSelect DEF prepare_next_boot
  <1>3. CASE \E s \in Slot : reset_boot_attempt_count(s)
    BY <1>3, RecordReset
  <1>4. CASE clear_next_boot_slot
    BY <1>4, RecordClear
  <1>5. CASE simulate_boot
    BY <1>5, RecordBoot
  <1>6. CASE write_loader \/ write_control
    BY <1>6, RecordWrite
  <1>7. CASE write_fails
    BY <1>7, RecordFails
  <1>8. CASE exit_process
    BY <1>8, RecordForget DEF exit_process
  <1>9. CASE power_loss
    BY <1>9, RecordPowerLoss
  <1>10. CASE write_back \/ UNCHANGED vars
    BY <1>10, RecordQuiet
  <1>11. QED
    BY <1>1, <1>2, <1>3, <1>4, <1>5, <1>6, <1>7, <1>8, <1>9, <1>10 DEF Next

LEMMA SelectionStep ==
    ASSUME RecordStep
    PROVE  [Selection!Next]_(<<record, possible>>)
  <1>1. Operates => Selection!Next
    BY DEF Operates, Follows, record, possible, Selection!Next, Selection!Persist,
           Selection!Clear, Selection!Boot, Selection!Select, Selection!Reset, clear, boot, select
  <1>2. "power" \in Faults /\ record' \in possible /\ possible' = {record'} => Selection!Next
    BY DEF record, possible, Selection!Next, Selection!Lose
  <1>3. "power" \in Faults /\ record' = record /\ possible' = {record} => Selection!Next
    BY DEF record, possible, Selection!Next, Selection!WriteBack
  <1>4. QED
    BY <1>1, <1>2, <1>3 DEF RecordStep, Stays

(* The recorded state behaves as BootSelection says: a call changes it once, by  *)
(* a whole operation, at the write of the file the next process goes by, or not  *)
(* at all, and the second file never disturbs it.                                *)
THEOREM Refinement ==
    ASSUME Careful
    PROVE  Spec => ImplementsBootSelection
  <1>1. Init => BootInv /\ LossInv /\ RecordInv /\ Selection!Init
    BY InitStep, RecordInit, BootAssumption
       DEF Init, Selection!Init, recorded, recorded_in, state_of
  <1>2. BootInv /\ LossInv /\ RecordInv /\ [Next]_vars =>
          BootInv' /\ LossInv' /\ RecordInv' /\ [Selection!Next]_(<<record, possible>>)
    BY NextStep, LossInvStep, RecordNext, SelectionStep
  <1>3. QED
    BY <1>1, <1>2, PTL
       DEF Spec, ImplementsBootSelection, Selection!Spec, record, possible
==============================================================================
