--------------------------- MODULE InstallerProofs ---------------------------
(***************************************************************************)
(* Proofs about Installer, for any number of processes, versions, images,  *)
(* blocks and inodes.                                                      *)
(*                                                                         *)
(* Every action of a running call is reduced to what it does to the call   *)
(* itself and to its own version; what other calls rely on follows from    *)
(* CallStep and OtherVersionsKept, once for all of them.                   *)
(***************************************************************************)
EXTENDS Installer, FiniteSetTheorems, TLAPS

(* No two calls that overlap are for the same version. *)
NoSharedVersion == Overlap # "any"

Working(p) == pc[p] # "idle"

VersionsApart ==
    \A p, q \in Process : Working(p) /\ Working(q) /\ version(p) = version(q) => p = q

JobsReleased == \A p \in Process : Working(p) => <<version(p), expected(p)>> \in Release

(* No inode has two names. *)
NamesApart ==
    \A v, w \in Version :
        /\ staging[v] # NoInode => staging[v] # target[w]
        /\ staging[v] # NoInode /\ staging[v] = staging[w] => v = w
        /\ target[v] # NoInode /\ target[v] = target[w] => v = w

(* What a call has open still has its name. *)
OpenFile(p) ==
    /\ pc[p] = "write_staging" =>
           file[p] # NoInode /\ file[p] = staged(p) /\ src[p] = NoInode
    /\ pc[p] = "write_target" =>
           /\ file[p] # NoInode /\ file[p] = installed(p)
           /\ src[p] # NoInode /\ src[p] = staged(p)
    /\ pc[p] \notin {"write_staging", "write_target"} =>
           file[p] = NoInode /\ src[p] = NoInode /\ block[p] = 1

FilesInv ==
    /\ TypeOK
    /\ VersionsApart
    /\ JobsReleased
    /\ NamesApart
    /\ \A p \in Process : OpenFile(p)

-----------------------------------------------------------------------------
(* What a step of a call does to calls and to other versions. *)

CallTypeOK ==
    /\ pc \in [Process -> Steps]
    /\ job \in [Process -> InstallInfo \cup {NoJob}]
    /\ \A p \in Process : IF pc[p] = "idle" THEN job[p] = NoJob ELSE job[p] \in InstallInfo
    /\ file \in [Process -> Inode \cup {NoInode}]
    /\ src \in [Process -> Inode \cup {NoInode}]
    /\ block \in [Process -> 1..Blocks]
    /\ result \in [Process -> Results]

FileTypeOK ==
    /\ dirs_exist \in BOOLEAN
    /\ staging_dir \subseteq Version
    /\ target_dir \subseteq Version
    /\ staging \in [Version -> Inode \cup {NoInode}]
    /\ target \in [Version -> Inode \cup {NoInode}]
    /\ content \in [Inode -> [1..Blocks -> Payload \cup {NoPayload}]]
    /\ dirty \subseteq Inode
    /\ state_file \in [Version -> Payload \cup {NoPayload}]
    /\ state_dirty \subseteq Version
    /\ excuse \in [Process -> {"none", "overlap", "fault"}]

CallStep(p) ==
    /\ \A q \in Process \ {p} :
           /\ pc'[q] = pc[q] /\ job'[q] = job[q] /\ file'[q] = file[q]
           /\ src'[q] = src[q] /\ block'[q] = block[q] /\ result'[q] = result[q]
    /\ pc'[p] = "idle" \/ job'[p] = job[p]

OtherVersionsKept(p) ==
    \A v \in Version \ {version(p)} :
        /\ staging'[v] = staging[v] /\ target'[v] = target[v]
        /\ v \in staging_dir' <=> v \in staging_dir
        /\ v \in target_dir' <=> v \in target_dir
        /\ state_file'[v] = state_file[v]
        /\ \A i \in {staging[v], target[v]} \ {NoInode} : content'[i] = content[i]

LEMMA TypeParts == TypeOK <=> FileTypeOK /\ CallTypeOK
  BY DEF TypeOK, FileTypeOK, CallTypeOK

LEMMA OneIsBlock == 1 \in 1..Blocks
  BY InstallerAssumption

LEMMA ReturnFacts ==
    ASSUME TypeOK, NEW p \in Process, NEW status \in Results, return(p, status)
    PROVE  /\ CallTypeOK' /\ CallStep(p) /\ OpenFile(p)'
           /\ pc'[p] = "idle" /\ result'[p] = status
  <1> USE DEF return
  <1>1. CallTypeOK'
    BY OneIsBlock DEF TypeOK, CallTypeOK, Steps
  <1>2. CallStep(p) /\ OpenFile(p)' /\ pc'[p] = "idle" /\ result'[p] = status
    BY DEF TypeOK, CallStep, OpenFile
  <1>3. QED
    BY <1>1, <1>2

LEMMA CleanUpFacts ==
    ASSUME TypeOK, NEW p \in Process, Working(p), NEW status \in Results, clean_up(p, status)
    PROVE  /\ CallTypeOK' /\ CallStep(p) /\ OpenFile(p)'
           /\ pc'[p] = "cleanup" /\ result'[p] = status /\ job' = job
  <1> USE DEF clean_up, Working
  <1>1. CallTypeOK'
    BY OneIsBlock DEF TypeOK, CallTypeOK, Steps
  <1>2. /\ CallStep(p) /\ OpenFile(p)'
        /\ pc'[p] = "cleanup" /\ result'[p] = status /\ job' = job
    BY DEF TypeOK, CallStep, OpenFile
  <1>3. QED
    BY <1>1, <1>2

\* A step of a call that opens and closes nothing.
LEMMA ProceedFacts ==
    ASSUME FilesInv, NEW p \in Process, Working(p), pc[p] \notin {"write_staging", "write_target"},
           NEW step \in Steps \ {"idle", "write_staging", "write_target"},
           proceed(p, step), UNCHANGED <<job, file, src, block, result>>
    PROVE  CallTypeOK' /\ CallStep(p) /\ OpenFile(p)' /\ pc'[p] = step
  <1> USE DEF proceed, Working, FilesInv, TypeOK
  <1>1. CallTypeOK'
    BY DEF CallTypeOK, Steps
  <1>2. CallStep(p) /\ OpenFile(p)' /\ pc'[p] = step
    BY DEF CallStep, OpenFile
  <1>3. QED
    BY <1>1, <1>2

\* A call that keeps to its own version keeps the invariant.
LEMMA CallStepKeepsFilesInv ==
    ASSUME FilesInv, NEW p \in Process, Working(p), CallTypeOK', FileTypeOK', CallStep(p),
           OtherVersionsKept(p), NamesApart', OpenFile(p)'
    PROVE  FilesInv'
  <1> USE DEF FilesInv, CallStep, Working
  <1>1. VersionsApart' /\ JobsReleased'
    BY DEF VersionsApart, JobsReleased, version, expected
  <1>2. ASSUME NEW q \in Process PROVE OpenFile(q)'
    <2>1. CASE q = p
      BY <2>1
    <2>2. CASE q # p /\ pc[q] = "idle"
      BY <2>2 DEF OpenFile
    <2>3. CASE q # p /\ pc[q] # "idle"
      <3>1. version(q) \in Version \ {version(p)} /\ version(q)' = version(q)
        BY <2>3 DEF VersionsApart, version, TypeOK, InstallInfo
      <3>2. staged(q)' = staged(q) /\ installed(q)' = installed(q)
        BY <3>1 DEF OtherVersionsKept, staged, installed
      <3>3. QED
        BY <2>3, <3>2 DEF OpenFile
    <2>4. QED
      BY <2>1, <2>2, <2>3
  <1>3. QED
    BY <1>1, <1>2, TypeParts DEF TypeOK, FileTypeOK, CallTypeOK

-----------------------------------------------------------------------------
(* Every step of a running call concerns its own version. *)

ProperStep(p) ==
    /\ Working(p) /\ CallStep(p) /\ OtherVersionsKept(p)
    /\ FileTypeOK' /\ CallTypeOK' /\ NamesApart' /\ OpenFile(p)'

LEMMA FilesUntouched ==
    ASSUME FilesInv, NEW p \in Process, UNCHANGED <<file_vars, content, state_file>>
    PROVE  OtherVersionsKept(p) /\ NamesApart'
  BY DEF FilesInv, OtherVersionsKept, NamesApart, file_vars

LEMMA WorkersHaveJobs ==
    ASSUME FilesInv, NEW p \in Process, Working(p)
    PROVE  /\ job[p] \in InstallInfo /\ version(p) \in Version /\ expected(p) \in Payload
           /\ <<version(p), expected(p)>> \in Release
  BY DEF FilesInv, TypeOK, Working, InstallInfo, version, expected, JobsReleased

LEMMA StepNames ==
    /\ {"create_staging_dir", "open_staging", "verify_staged", "finalize", "sync",
        "verify_installed", "open_state", "write_state", "cleanup"}
         \subseteq Steps \ {"idle", "write_staging", "write_target"}
    /\ {"idle", "write_staging", "write_target"} \subseteq Steps
    /\ {"NOT_READY", "INSTALLED", "INSUFFICIENT_SPACE", "FAILED"} = Results
  BY DEF Steps, Results, CleanedOnFailure, LeftOnFailure

LEMMA CreateStagingDirStep ==
    ASSUME FilesInv, NEW p \in Process, create_staging_dir(p)
    PROVE  ProperStep(p) /\ pc'[p] = "open_staging"
  <1> USE DEF create_staging_dir
  <1>1. Working(p) /\ version(p) \in Version
    BY WorkersHaveJobs DEF Working
  <1>2. CallTypeOK' /\ CallStep(p) /\ OpenFile(p)' /\ pc'[p] = "open_staging"
    BY <1>1, ProceedFacts, StepNames
  <1>3. FileTypeOK'
    BY <1>1 DEF FilesInv, TypeOK, FileTypeOK, data_vars, state_vars
  <1>4. OtherVersionsKept(p) /\ NamesApart'
    BY DEF FilesInv, OtherVersionsKept, NamesApart, data_vars, state_vars
  <1>5. QED
    BY <1>1, <1>2, <1>3, <1>4 DEF ProperStep

\* A path is opened for writing: the inode it names, or one that nothing uses.
LEMMA OpenedFacts ==
    ASSUME FilesInv, NEW v \in Version, NEW i \in Inode, NEW n, opened(i, n),
           n = staging[v] \/ n = target[v]
    PROVE  /\ i # NoInode
           /\ n # NoInode => i = n
           /\ n = NoInode => \A w \in Version : i # staging[w] /\ i # target[w]
           /\ \A w \in Version \ {v} : i # staging[w] /\ i # target[w]
           /\ n = staging[v] => i # target[v]
           /\ n = target[v] => i # staging[v]
  BY InstallerAssumption DEF FilesInv, TypeOK, NamesApart, opened, in_use

LEMMA OpenStagingStep ==
    ASSUME FilesInv, NEW p \in Process, open_staging(p)
    PROVE  /\ ProperStep(p) /\ UNCHANGED <<target, state_file>>
           /\ \A v \in Version : target[v] # NoInode => content'[target[v]] = content[target[v]]
           /\ \/ version(p) \notin staging_dir /\ pc'[p] = "cleanup" /\ result'[p] = "FAILED"
                 /\ UNCHANGED <<staging, content>>
              \/ pc'[p] = "write_staging"
  <1> USE DEF open_staging
  <1>1. Working(p) /\ version(p) \in Version
    BY WorkersHaveJobs DEF Working
  <1>2. CASE version(p) \notin staging_dir
    <2>1. clean_up(p, "FAILED") /\ UNCHANGED <<file_vars, data_vars, state_vars, excuse>>
      BY <1>2 DEF file_vars
    <2>2. /\ CallTypeOK' /\ CallStep(p) /\ OpenFile(p)'
          /\ pc'[p] = "cleanup" /\ result'[p] = "FAILED"
      BY <1>1, <2>1, CleanUpFacts, StepNames DEF FilesInv
    <2>3. FileTypeOK'
      BY <2>1 DEF FilesInv, TypeOK, FileTypeOK, data_vars, state_vars, file_vars
    <2>4. OtherVersionsKept(p) /\ NamesApart'
      BY <2>1, FilesUntouched DEF data_vars, state_vars
    <2>5. QED
      BY <1>1, <1>2, <2>1, <2>2, <2>3, <2>4 DEF ProperStep, data_vars, state_vars, file_vars
  <1>3. CASE version(p) \in staging_dir
    <2>1. PICK i \in Inode :
            /\ opened(i, staged(p))
            /\ staging' = [staging EXCEPT ![version(p)] = i]
            /\ file' = [file EXCEPT ![p] = i]
            /\ proceed(p, "write_staging")
            /\ UNCHANGED <<job, src, block, result>>
            /\ content' = [content EXCEPT ![i] = blank]
            /\ mark_dirty(i)
      BY <1>3
    <2>2. /\ i # NoInode /\ i # target[version(p)]
          /\ staged(p) # NoInode => i = staged(p)
          /\ \A w \in Version \ {version(p)} : i # staging[w] /\ i # target[w]
      BY <1>1, <2>1, OpenedFacts DEF staged
    <2>3. CallTypeOK' /\ CallStep(p) /\ pc'[p] = "write_staging"
      BY <2>1, <1>1, StepNames DEF FilesInv, TypeOK, CallTypeOK, CallStep, proceed, Steps, Working
    <2>4. staging'[version(p)] = i /\ file'[p] = i /\ src'[p] = NoInode /\ version(p)' = version(p)
      BY <2>1, <1>1 DEF FilesInv, TypeOK, OpenFile, version
    <2>5. OpenFile(p)'
      BY <2>2, <2>3, <2>4 DEF OpenFile, staged
    <2>6. blank \in [1..Blocks -> Payload \cup {NoPayload}]
      BY DEF blank, whole
    <2>7. FileTypeOK'
      BY <2>1, <2>6, <1>1 DEF FilesInv, TypeOK, FileTypeOK, mark_dirty, state_vars
    <2>8. NamesApart' /\ OtherVersionsKept(p)
      BY <2>1, <2>2, <1>1 DEF FilesInv, TypeOK, NamesApart, OtherVersionsKept, state_vars, staged
    <2>9. \A v \in Version : target[v] # NoInode => content'[target[v]] = content[target[v]]
      BY <2>1, <2>2, <1>1 DEF FilesInv, TypeOK
    <2>10. QED
      BY <1>1, <2>3, <2>5, <2>7, <2>8, <2>9 DEF ProperStep, state_vars
  <1>4. QED
    BY <1>2, <1>3

\* The next block of a copy, or no room for it.
LEMMA CopyBlockFacts ==
    ASSUME FilesInv, NEW p \in Process, pc[p] \in {"write_staging", "write_target"},
           NEW payload \in Payload \cup {NoPayload},
           NEW next \in Steps \ {"idle", "write_staging", "write_target"},
           copy_block(p, payload, next)
    PROVE  /\ CallTypeOK' /\ CallStep(p) /\ UNCHANGED <<job, result, excuse>>
           /\ content' \in [Inode -> [1..Blocks -> Payload \cup {NoPayload}]]
           /\ \A i \in Inode \ {file[p]} : content'[i] = content[i]
           /\ \A k \in 1..Blocks : k # block[p] => content'[file[p]][k] = content[file[p]][k]
           /\ content'[file[p]][block[p]] = payload
           /\ dirty' \subseteq Inode
           /\ \/ /\ block[p] = Blocks /\ pc'[p] = next
                 /\ file'[p] = NoInode /\ src'[p] = NoInode /\ block'[p] = 1
              \/ /\ block[p] < Blocks /\ pc'[p] = pc[p] /\ block'[p] = block[p] + 1
                 /\ file'[p] = file[p] /\ src'[p] = src[p]
  <1> USE DEF copy_block
  <1>1. file[p] \in Inode /\ block[p] \in 1..Blocks /\ Blocks \in Nat
    BY InstallerAssumption DEF FilesInv, OpenFile, TypeOK
  <1>2. /\ content' \in [Inode -> [1..Blocks -> Payload \cup {NoPayload}]]
        /\ \A i \in Inode \ {file[p]} : content'[i] = content[i]
        /\ \A k \in 1..Blocks : k # block[p] => content'[file[p]][k] = content[file[p]][k]
        /\ content'[file[p]][block[p]] = payload
    BY <1>1 DEF FilesInv, TypeOK
  <1>3. CASE block[p] = Blocks
    <2>1. /\ proceed(p, next)
          /\ file' = [file EXCEPT ![p] = NoInode]
          /\ src' = [src EXCEPT ![p] = NoInode]
          /\ block' = [block EXCEPT ![p] = 1]
          /\ UNCHANGED <<job, result, excuse>>
      BY <1>3
    <2>2. CallTypeOK' /\ CallStep(p)
      BY <2>1, OneIsBlock DEF FilesInv, TypeOK, CallTypeOK, CallStep, proceed
    <2>3. pc'[p] = next /\ file'[p] = NoInode /\ src'[p] = NoInode /\ block'[p] = 1
      BY <2>1 DEF FilesInv, TypeOK, proceed
    <2>4. QED
      BY <1>1, <1>2, <1>3, <2>1, <2>2, <2>3 DEF FilesInv, TypeOK, mark_dirty
  <1>4. CASE block[p] # Blocks
    <2>1. /\ block' = [block EXCEPT ![p] = @ + 1]
          /\ UNCHANGED <<pc, file, src, job, result, excuse>>
      BY <1>4
    <2>2. block[p] < Blocks /\ block[p] + 1 \in 1..Blocks
      BY <1>1, <1>4
    <2>3. CallTypeOK' /\ CallStep(p) /\ block'[p] = block[p] + 1
      BY <2>1, <2>2 DEF FilesInv, TypeOK, CallTypeOK, CallStep
    <2>4. QED
      BY <1>1, <1>2, <2>1, <2>2, <2>3 DEF FilesInv, TypeOK, mark_dirty
  <1>5. QED
    BY <1>3, <1>4

LEMMA DiskFullStep ==
    ASSUME FilesInv, NEW p \in Process, Working(p), NEW payload, disk_full(p, payload),
           UNCHANGED <<file_vars, state_vars>>
    PROVE  /\ ProperStep(p) /\ UNCHANGED content /\ job' = job
           /\ pc'[p] = "cleanup" /\ result'[p] = "FAILED"
  <1> USE DEF disk_full
  <1>1. /\ CallTypeOK' /\ CallStep(p) /\ OpenFile(p)' /\ job' = job
        /\ pc'[p] = "cleanup" /\ result'[p] = "FAILED"
    BY CleanUpFacts, StepNames DEF FilesInv
  <1>2. excuse' \in [Process -> {"none", "overlap", "fault"}]
    BY DEF FilesInv, TypeOK
  <1>3. FileTypeOK'
    BY <1>2 DEF FilesInv, TypeOK, FileTypeOK, data_vars, state_vars, file_vars
  <1>4. OtherVersionsKept(p) /\ NamesApart'
    BY FilesUntouched DEF data_vars, state_vars
  <1>5. QED
    BY <1>1, <1>3, <1>4 DEF ProperStep, data_vars

\* A block is written to the staged file, which is no target.
LEMMA WriteStagingStep ==
    ASSUME FilesInv, NEW p \in Process, write_staging(p)
    PROVE  /\ ProperStep(p) /\ UNCHANGED <<target, state_file>>
           /\ \A v \in Version : target[v] # NoInode => content'[target[v]] = content[target[v]]
           /\ pc'[p] \in {"write_staging", "verify_staged", "cleanup"}
  <1>1. /\ pc[p] = "write_staging" /\ Working(p) /\ version(p) \in Version
        /\ UNCHANGED <<file_vars, state_vars>>
    BY WorkersHaveJobs DEF write_staging, Working
  <1>2. CASE copy_block(p, job[p].image, "verify_staged")
    <2> "verify_staged" \in Steps \ {"idle", "write_staging", "write_target"}
      BY StepNames
    <2>1. PICK payload \in Payload \cup {NoPayload} : copy_block(p, payload, "verify_staged")
      BY <1>1, <1>2, WorkersHaveJobs DEF InstallInfo
    <2>2. /\ CallTypeOK' /\ CallStep(p) /\ UNCHANGED <<job, result, excuse>>
          /\ content' \in [Inode -> [1..Blocks -> Payload \cup {NoPayload}]]
          /\ \A i \in Inode \ {file[p]} : content'[i] = content[i]
          /\ dirty' \subseteq Inode
          /\ \/ /\ block[p] = Blocks /\ pc'[p] = "verify_staged"
                /\ file'[p] = NoInode /\ src'[p] = NoInode /\ block'[p] = 1
             \/ /\ block[p] < Blocks /\ pc'[p] = pc[p] /\ block'[p] = block[p] + 1
                /\ file'[p] = file[p] /\ src'[p] = src[p]
      BY <1>1, <2>1, CopyBlockFacts
    <2>3. file[p] # NoInode /\ file[p] = staged(p) /\ src[p] = NoInode
      BY <1>1 DEF FilesInv, OpenFile
    <2>4. FileTypeOK'
      BY <1>1, <2>2 DEF FilesInv, TypeOK, FileTypeOK, state_vars, file_vars
    <2>5. OpenFile(p)'
      BY <1>1, <2>2, <2>3 DEF OpenFile, staged, version, file_vars
    <2>6. NamesApart' /\ OtherVersionsKept(p)
      BY <1>1, <2>2, <2>3 DEF FilesInv, TypeOK, NamesApart, OtherVersionsKept, state_vars,
                              file_vars, staged
    <2>7. \A v \in Version : target[v] # NoInode => content'[target[v]] = content[target[v]]
      BY <1>1, <2>2, <2>3 DEF FilesInv, TypeOK, NamesApart, staged
    <2>8. QED
      BY <1>1, <2>2, <2>4, <2>5, <2>6, <2>7 DEF ProperStep, file_vars, state_vars
  <1>3. CASE disk_full(p, job[p].image)
    BY <1>1, <1>3, DiskFullStep DEF file_vars, state_vars
  <1>4. QED
    BY <1>2, <1>3 DEF write_staging

LEMMA VerifyStagedStep ==
    ASSUME FilesInv, NEW p \in Process, verify_staged_artifact(p)
    PROVE  /\ ProperStep(p) /\ UNCHANGED <<file_vars, data_vars, state_vars, job>>
           /\ \/ /\ pc'[p] = "finalize" /\ UNCHANGED result
                 /\ staged(p) # NoInode /\ content[staged(p)] = whole(expected(p))
              \/ /\ pc'[p] = "cleanup" /\ result'[p] = "FAILED"
                 /\ ~(staged(p) # NoInode /\ content[staged(p)] = whole(expected(p)))
  <1> USE DEF verify_staged_artifact
  <1>1. Working(p)
    BY DEF Working
  <1>2. FileTypeOK'
    BY DEF FilesInv, TypeOK, FileTypeOK, data_vars, state_vars, file_vars
  <1>3. OtherVersionsKept(p) /\ NamesApart'
    BY FilesUntouched DEF data_vars, state_vars
  <1>4. CASE staged(p) # NoInode /\ content[staged(p)] = whole(expected(p))
    BY <1>1, <1>2, <1>3, <1>4, ProceedFacts, StepNames DEF ProperStep
  <1>5. CASE ~(staged(p) # NoInode /\ content[staged(p)] = whole(expected(p)))
    BY <1>1, <1>2, <1>3, <1>5, CleanUpFacts, StepNames DEF ProperStep, FilesInv
  <1>6. QED
    BY <1>4, <1>5

LEMMA FinalizeStep ==
    ASSUME FilesInv, NEW p \in Process, finalize_installation(p)
    PROVE  /\ ProperStep(p) /\ UNCHANGED <<state_file, staging_dir>>
           /\ version(p) \in target_dir'
           /\ \/ /\ staged(p) = NoInode
                 /\ pc'[p] = "cleanup" /\ result'[p] = "FAILED"
                 /\ UNCHANGED <<staging, target, data_vars>>
              \/ /\ staged(p) # NoInode /\ RenameWorks
                 /\ pc'[p] = "sync" /\ UNCHANGED <<data_vars, job, result>>
                 /\ target' = [target EXCEPT ![version(p)] = staged(p)]
                 /\ staging' = [staging EXCEPT ![version(p)] = NoInode]
              \/ /\ staged(p) # NoInode /\ ~RenameWorks
                 /\ pc'[p] = "write_target" /\ UNCHANGED <<staging, job, block, result>>
                 /\ content'[staged(p)] = content[staged(p)]
                 /\ \E i \in Inode :
                       /\ opened(i, installed(p))
                       /\ target' = [target EXCEPT ![version(p)] = i]
                       /\ content' = [content EXCEPT ![i] = blank]
  <1> USE DEF finalize_installation
  <1>1. Working(p) /\ version(p) \in Version
    BY WorkersHaveJobs DEF Working
  <1>2. version(p) \in target_dir' /\ target_dir' \subseteq Version /\ dirs_exist' \in BOOLEAN
    BY <1>1 DEF FilesInv, TypeOK
  <1>3. CASE staged(p) = NoInode
    <2>1. clean_up(p, "FAILED") /\ UNCHANGED <<staging, target, data_vars>>
      BY <1>3
    <2>2. /\ CallTypeOK' /\ CallStep(p) /\ OpenFile(p)'
          /\ pc'[p] = "cleanup" /\ result'[p] = "FAILED"
      BY <1>1, <2>1, CleanUpFacts, StepNames DEF FilesInv
    <2>3. FileTypeOK'
      BY <1>2, <2>1 DEF FilesInv, TypeOK, FileTypeOK, data_vars, state_vars
    <2>4. OtherVersionsKept(p) /\ NamesApart'
      BY <1>1, <2>1 DEF FilesInv, NamesApart, OtherVersionsKept, data_vars, state_vars
    <2>5. QED
      BY <1>1, <1>2, <1>3, <2>1, <2>2, <2>3, <2>4 DEF ProperStep, state_vars
  <1>4. CASE staged(p) # NoInode /\ RenameWorks
    <2>1. /\ target' = [target EXCEPT ![version(p)] = staged(p)]
          /\ staging' = [staging EXCEPT ![version(p)] = NoInode]
          /\ proceed(p, "sync")
          /\ UNCHANGED <<data_vars, job, file, src, block, result>>
      BY <1>4
    <2>2. CallTypeOK' /\ CallStep(p) /\ OpenFile(p)' /\ pc'[p] = "sync"
      BY <1>1, <2>1, ProceedFacts, StepNames
    <2>3. FileTypeOK'
      BY <1>1, <1>2, <2>1 DEF FilesInv, TypeOK, FileTypeOK, data_vars, state_vars, staged
    <2>4. OtherVersionsKept(p) /\ NamesApart'
      BY <1>1, <2>1 DEF FilesInv, TypeOK, NamesApart, OtherVersionsKept, data_vars, state_vars,
                        staged
    <2>5. QED
      BY <1>1, <1>2, <1>4, <2>1, <2>2, <2>3, <2>4 DEF ProperStep, state_vars
  <1>5. CASE staged(p) # NoInode /\ ~RenameWorks
    <2>1. PICK i \in Inode :
            /\ opened(i, installed(p))
            /\ target' = [target EXCEPT ![version(p)] = i]
            /\ file' = [file EXCEPT ![p] = i]
            /\ src' = [src EXCEPT ![p] = staged(p)]
            /\ proceed(p, "write_target")
            /\ UNCHANGED <<staging, job, block, result>>
            /\ content' = [content EXCEPT ![i] = blank]
            /\ mark_dirty(i)
      BY <1>5
    <2>2. /\ i # NoInode /\ i # staging[version(p)]
          /\ \A w \in Version \ {version(p)} : i # staging[w] /\ i # target[w]
      BY <1>1, <2>1, OpenedFacts DEF installed
    <2>3. staged(p) \in Inode
      BY <1>1, <1>5 DEF FilesInv, TypeOK, staged
    <2>4. CallTypeOK' /\ CallStep(p) /\ pc'[p] = "write_target"
      BY <2>1, <2>3, <1>1, StepNames DEF FilesInv, TypeOK, CallTypeOK, CallStep, proceed, Working
    <2>5. /\ target'[version(p)] = i /\ file'[p] = i /\ src'[p] = staged(p)
          /\ version(p)' = version(p)
      BY <2>1, <1>1 DEF FilesInv, TypeOK, version
    <2>6. OpenFile(p)'
      BY <1>5, <2>1, <2>2, <2>4, <2>5 DEF OpenFile, staged, installed
    <2>7. blank \in [1..Blocks -> Payload \cup {NoPayload}]
      BY DEF blank, whole
    <2>8. FileTypeOK'
      BY <2>1, <2>7, <1>1, <1>2 DEF FilesInv, TypeOK, FileTypeOK, mark_dirty, state_vars
    <2>9. NamesApart' /\ OtherVersionsKept(p)
      BY <2>1, <2>2, <1>1 DEF FilesInv, TypeOK, NamesApart, OtherVersionsKept, state_vars
    <2>10. content'[staged(p)] = content[staged(p)]
      BY <2>1, <2>2, <2>3 DEF FilesInv, TypeOK, staged
    <2>11. QED
      BY <1>1, <1>2, <1>5, <2>1, <2>4, <2>6, <2>8, <2>9, <2>10 DEF ProperStep, state_vars
  <1>6. QED
    BY <1>3, <1>4, <1>5

\* A block is written to the target; after the last the staged file is removed.
LEMMA WriteTargetStep ==
    ASSUME FilesInv, NEW p \in Process, write_target(p)
    PROVE  ProperStep(p) /\ UNCHANGED <<target, target_dir, staging_dir, state_file>>
  <1>1. /\ pc[p] = "write_target" /\ Working(p) /\ version(p) \in Version
        /\ UNCHANGED <<dirs_exist, staging_dir, target_dir, target, state_vars>>
    BY WorkersHaveJobs DEF write_target, Working
  <1>2. /\ file[p] \in Inode /\ file[p] # NoInode /\ file[p] = installed(p)
        /\ src[p] \in Inode /\ src[p] = staged(p) /\ src[p] # NoInode
    BY <1>1 DEF FilesInv, TypeOK, OpenFile
  <1>3. ASSUME copy_block(p, content[src[p]][block[p]], "sync"),
               staging' = [staging EXCEPT ![version(p)] = IF block[p] = Blocks THEN NoInode ELSE @]
        PROVE  ProperStep(p)
    <2> "sync" \in Steps \ {"idle", "write_staging", "write_target"}
      BY StepNames
    <2>1. PICK payload \in Payload \cup {NoPayload} : copy_block(p, payload, "sync")
      BY ZenonT(60), <1>1, <1>2, <1>3 DEF FilesInv, TypeOK
    <2>2. /\ CallTypeOK' /\ CallStep(p) /\ UNCHANGED <<job, result, excuse>>
          /\ content' \in [Inode -> [1..Blocks -> Payload \cup {NoPayload}]]
          /\ \A i \in Inode \ {file[p]} : content'[i] = content[i]
          /\ dirty' \subseteq Inode
          /\ \/ /\ block[p] = Blocks /\ pc'[p] = "sync"
                /\ file'[p] = NoInode /\ src'[p] = NoInode /\ block'[p] = 1
             \/ /\ block[p] < Blocks /\ pc'[p] = pc[p] /\ block'[p] = block[p] + 1
                /\ file'[p] = file[p] /\ src'[p] = src[p]
      BY <1>1, <2>1, CopyBlockFacts
    <2>3. FileTypeOK'
      BY <1>1, <1>3, <2>2 DEF FilesInv, TypeOK, FileTypeOK, state_vars
    <2>4. OpenFile(p)'
      <3>1. CASE block[p] = Blocks
        BY <2>2, <3>1 DEF OpenFile, FilesInv, TypeOK
      <3>2. CASE block[p] # Blocks
        <4>1. staging'[version(p)] = staging[version(p)]
          BY <1>1, <1>3, <3>2 DEF FilesInv, TypeOK
        <4>2. pc'[p] = pc[p] /\ file'[p] = file[p] /\ src'[p] = src[p]
          BY <2>2, <3>2
        <4>3. QED
          BY <1>1, <1>2, <2>2, <4>1, <4>2 DEF OpenFile, staged, installed, version
      <3>3. QED
        BY <3>1, <3>2
    <2>5. NamesApart' /\ OtherVersionsKept(p)
      BY <1>1, <1>2, <1>3, <2>2 DEF FilesInv, TypeOK, NamesApart, OtherVersionsKept, state_vars,
                                    installed
    <2>6. QED
      BY <1>1, <2>2, <2>3, <2>4, <2>5 DEF ProperStep
  <1>4. ASSUME disk_full(p, content[src[p]][block[p]]), UNCHANGED staging
        PROVE  ProperStep(p)
    <2>1. PICK payload : disk_full(p, payload)
      BY <1>4
    <2>2. UNCHANGED <<file_vars, state_vars>>
      BY <1>1, <1>4 DEF file_vars
    <2>3. QED
      BY <1>1, <2>1, <2>2, DiskFullStep
  <1>5. QED
    BY <1>1, <1>3, <1>4 DEF write_target, state_vars

LEMMA SyncStep ==
    ASSUME FilesInv, NEW p \in Process, sync_to_disk(p)
    PROVE  ProperStep(p)
  <1> USE DEF sync_to_disk
  <1>1. Working(p)
    BY DEF Working
  <1>2. FileTypeOK'
    BY DEF FilesInv, TypeOK, FileTypeOK, data_vars, state_vars, file_vars
  <1>3. OtherVersionsKept(p) /\ NamesApart'
    BY FilesUntouched DEF data_vars, state_vars
  <1>4. CASE version(p) \in target_dir
    BY <1>1, <1>2, <1>3, <1>4, ProceedFacts, StepNames DEF ProperStep
  <1>5. CASE version(p) \notin target_dir
    BY <1>1, <1>2, <1>3, <1>5, ReturnFacts, StepNames DEF ProperStep, FilesInv
  <1>6. QED
    BY <1>4, <1>5

LEMMA VerifyInstalledStep ==
    ASSUME FilesInv, NEW p \in Process, verify_installed_artifact(p)
    PROVE  ProperStep(p)
  <1> USE DEF verify_installed_artifact
  <1>1. Working(p)
    BY DEF Working
  <1>2. FileTypeOK'
    BY DEF FilesInv, TypeOK, FileTypeOK, data_vars, state_vars, file_vars
  <1>3. OtherVersionsKept(p) /\ NamesApart'
    BY FilesUntouched DEF data_vars, state_vars
  <1>4. CASE installed(p) # NoInode /\ content[installed(p)] = whole(expected(p))
    BY <1>1, <1>2, <1>3, <1>4, ProceedFacts, StepNames DEF ProperStep
  <1>5. CASE ~(installed(p) # NoInode /\ content[installed(p)] = whole(expected(p)))
    BY <1>1, <1>2, <1>3, <1>5, ReturnFacts, StepNames DEF ProperStep, FilesInv
  <1>6. QED
    BY <1>4, <1>5

LEMMA OpenStateStep ==
    ASSUME FilesInv, NEW p \in Process, open_state(p)
    PROVE  ProperStep(p) /\ pc'[p] = "write_state"
  <1> USE DEF open_state
  <1>1. Working(p) /\ version(p) \in Version
    BY WorkersHaveJobs DEF Working
  <1>2. FileTypeOK'
    BY <1>1 DEF FilesInv, TypeOK, FileTypeOK, data_vars, file_vars, state_dirty_with
  <1>3. OtherVersionsKept(p) /\ NamesApart'
    BY <1>1 DEF FilesInv, TypeOK, OtherVersionsKept, NamesApart, data_vars, file_vars
  <1>4. QED
    BY <1>1, <1>2, <1>3, ProceedFacts, StepNames DEF ProperStep

LEMMA WriteStateStep ==
    ASSUME FilesInv, NEW p \in Process, write_state(p)
    PROVE  ProperStep(p) /\ pc'[p] = "cleanup" /\ result'[p] = "INSTALLED" /\ job' = job
  <1> USE DEF write_state
  <1>1. Working(p) /\ version(p) \in Version /\ expected(p) \in Payload
    BY WorkersHaveJobs DEF Working
  <1>2. FileTypeOK'
    BY <1>1 DEF FilesInv, TypeOK, FileTypeOK, data_vars, file_vars, state_vars, state_dirty_with
  <1>3. OtherVersionsKept(p) /\ NamesApart'
    BY <1>1 DEF FilesInv, TypeOK, OtherVersionsKept, NamesApart, data_vars, file_vars, state_vars
  <1>4. QED
    BY <1>1, <1>2, <1>3, CleanUpFacts, StepNames DEF ProperStep, FilesInv

LEMMA FinishStep ==
    ASSUME FilesInv, NEW p \in Process, finish(p)
    PROVE  /\ ProperStep(p) /\ pc'[p] = "idle" /\ result'[p] = result[p]
           /\ UNCHANGED <<target, content, state_file>>
  <1> USE DEF finish
  <1>1. Working(p) /\ version(p) \in Version
    BY WorkersHaveJobs DEF Working
  <1>2. result[p] \in Results
    BY DEF FilesInv, TypeOK
  <1>3. FileTypeOK'
    BY <1>1 DEF FilesInv, TypeOK, FileTypeOK, data_vars, state_vars, remove_staging
  <1>4. OtherVersionsKept(p) /\ NamesApart'
    BY ZenonT(60), <1>1 DEF FilesInv, TypeOK, OtherVersionsKept, NamesApart, data_vars, state_vars,
                remove_staging
  <1>5. QED
    BY <1>1, <1>2, <1>3, <1>4, ReturnFacts DEF ProperStep, FilesInv, data_vars, state_vars

LEMMA StepFailsStep ==
    ASSUME FilesInv, NEW p \in Process, step_fails(p)
    PROVE  /\ ProperStep(p) /\ UNCHANGED <<file_vars, data_vars, state_vars>>
           /\ pc'[p] \in {"cleanup", "idle"} /\ excuse' = [excuse EXCEPT ![p] = "fault"]
  <1> USE DEF step_fails
  <1>1. Working(p)
    BY DEF Working, CleanedOnFailure, LeftOnFailure
  <1>2. FileTypeOK'
    BY DEF FilesInv, TypeOK, FileTypeOK, data_vars, state_vars, file_vars
  <1>3. OtherVersionsKept(p) /\ NamesApart'
    BY FilesUntouched DEF data_vars, state_vars
  <1>4. CASE clean_up(p, "FAILED")
    BY <1>1, <1>2, <1>3, <1>4, CleanUpFacts, StepNames DEF ProperStep, FilesInv
  <1>5. CASE return(p, "FAILED")
    BY <1>1, <1>2, <1>3, <1>5, ReturnFacts, StepNames DEF ProperStep, FilesInv
  <1>6. QED
    BY <1>4, <1>5

LEMMA CrashStep ==
    ASSUME FilesInv, NEW p \in Process, crash(p)
    PROVE  /\ ProperStep(p) /\ UNCHANGED <<file_vars, data_vars, state_vars>>
           /\ pc'[p] = "idle" /\ result'[p] = "NOT_READY"
  <1> USE DEF crash
  <1>1. FileTypeOK'
    BY DEF FilesInv, TypeOK, FileTypeOK, data_vars, state_vars, file_vars
  <1>2. OtherVersionsKept(p) /\ NamesApart'
    BY FilesUntouched DEF data_vars, state_vars
  <1>3. QED
    BY <1>1, <1>2, ReturnFacts, StepNames DEF ProperStep, FilesInv, Working

LEMMA ContinueStep ==
    ASSUME FilesInv, NEW p \in Process, continue(p) \/ crash(p)
    PROVE  ProperStep(p)
  BY CreateStagingDirStep, OpenStagingStep, WriteStagingStep, VerifyStagedStep, FinalizeStep,
     WriteTargetStep, SyncStep, VerifyInstalledStep, OpenStateStep, WriteStateStep, FinishStep,
     StepFailsStep, CrashStep DEF continue

-----------------------------------------------------------------------------
(* The invariant on files and names. *)

LEMMA InstallKeepsFilesInv ==
    ASSUME FilesInv, NoSharedVersion, NEW p \in Process, NEW info \in InstallInfo,
           install(p, info)
    PROVE  FilesInv'
  <1> USE DEF install
  <1>1. excuse' \in [Process -> {"none", "overlap", "fault"}]
    BY DEF FilesInv, TypeOK
  <1>2. FileTypeOK'
    BY <1>1 DEF FilesInv, TypeOK, FileTypeOK, file_vars, data_vars, state_vars
  <1>3. NamesApart'
    BY DEF FilesInv, NamesApart, file_vars
  <1>4. CASE check_disk_space
    <2>1. /\ pc' = [pc EXCEPT ![p] = "create_staging_dir"]
          /\ job' = [job EXCEPT ![p] = info]
          /\ result' = [result EXCEPT ![p] = "NOT_READY"]
          /\ UNCHANGED <<file, src, block>>
      BY <1>4 DEF proceed
    <2>2. CallTypeOK'
      BY <2>1, StepNames DEF FilesInv, TypeOK, CallTypeOK
    <2>3. \A q \in Process : Working(q) => version(q) # info.version
      BY InstallerAssumption DEF may_start, being_installed, NoSharedVersion, Working
    <2>4. /\ \A q \in Process \ {p} : pc'[q] = pc[q] /\ job'[q] = job[q]
          /\ job'[p] = info
      BY <2>1 DEF FilesInv, TypeOK
    <2>5. VersionsApart' /\ JobsReleased'
      BY <2>3, <2>4 DEF FilesInv, VersionsApart, JobsReleased, Working, version, expected
    <2>6. \A q \in Process : OpenFile(q)'
      BY <2>1, <2>4 DEF FilesInv, TypeOK, OpenFile, staged, installed, version, file_vars
    <2>7. QED
      BY <1>2, <1>3, <2>2, <2>5, <2>6, TypeParts DEF FilesInv, TypeOK, FileTypeOK, CallTypeOK
  <1>5. CASE ~check_disk_space
    <2>1. return(p, "INSUFFICIENT_SPACE")
      BY <1>5
    <2>2. /\ CallTypeOK' /\ OpenFile(p)' /\ pc'[p] = "idle"
          /\ \A q \in Process \ {p} :
                 /\ pc'[q] = pc[q] /\ job'[q] = job[q] /\ file'[q] = file[q]
                 /\ src'[q] = src[q] /\ block'[q] = block[q]
      BY <2>1, ReturnFacts, StepNames DEF FilesInv, CallStep
    <2>3. VersionsApart' /\ JobsReleased'
      BY <2>2 DEF FilesInv, VersionsApart, JobsReleased, Working, version, expected
    <2>4. \A q \in Process : OpenFile(q)'
      BY <2>2 DEF FilesInv, OpenFile, staged, installed, version, file_vars
    <2>5. QED
      BY <1>2, <1>3, <2>2, <2>3, <2>4, TypeParts DEF FilesInv, TypeOK, FileTypeOK, CallTypeOK
  <1>6. QED
    BY <1>4, <1>5

\* A cleanup by another program removes names that no call works with.
LEMMA CleanupsKeepFilesInv ==
    ASSUME FilesInv, NEW v \in Version, cleanup_staging(v) \/ cleanup_install_target(v)
    PROVE  FilesInv'
  <1> USE DEF cleanup_staging, cleanup_install_target, remove_staging
  <1>1. TypeOK'
    BY DEF FilesInv, TypeOK, call_vars, data_vars, state_vars
  <1>2. VersionsApart' /\ JobsReleased'
    BY DEF FilesInv, VersionsApart, JobsReleased, Working, version, expected, call_vars
  <1>3. NamesApart'
    BY DEF FilesInv, TypeOK, NamesApart
  <1>4. ASSUME NEW q \in Process PROVE OpenFile(q)'
    <2>1. CASE pc[q] = "idle"
      BY <2>1 DEF FilesInv, OpenFile, call_vars
    <2>2. CASE pc[q] # "idle"
      <3>1. version(q) # v /\ version(q) \in Version /\ job' = job
        BY <2>2, WorkersHaveJobs DEF being_installed, Working, call_vars
      <3>2. staged(q)' = staged(q) /\ installed(q)' = installed(q)
        BY <3>1 DEF FilesInv, TypeOK, staged, installed, version
      <3>3. QED
        BY <3>2 DEF FilesInv, OpenFile, call_vars
    <2>3. QED
      BY <2>1, <2>2
  <1>5. QED
    BY <1>1, <1>2, <1>3, <1>4 DEF FilesInv

LEMMA PowerLossKeepsFilesInv ==
    ASSUME FilesInv, power_loss
    PROVE  FilesInv'
  <1> USE DEF power_loss
  <1>1. blank \in [1..Blocks -> Payload \cup {NoPayload}]
    BY DEF blank, whole
  <1>2. TypeOK'
    BY <1>1, OneIsBlock, StepNames DEF FilesInv, TypeOK, file_vars
  <1>3. QED
    BY <1>2 DEF FilesInv, VersionsApart, JobsReleased, NamesApart, OpenFile, Working, file_vars

LEMMA WriteBackKeepsFilesInv ==
    ASSUME FilesInv, write_back \/ UNCHANGED vars
    PROVE  FilesInv'
  <1> USE DEF write_back, vars, file_vars, data_vars, state_vars, call_vars
  <1>1. TypeOK'
    BY DEF FilesInv, TypeOK
  <1>2. QED
    BY <1>1 DEF FilesInv, VersionsApart, JobsReleased, NamesApart, OpenFile, Working, version,
                expected, staged, installed

LEMMA FilesInitially == Init => FilesInv
  <1> SUFFICES ASSUME Init PROVE FilesInv
    OBVIOUS
  <1> USE DEF Init
  <1>1. TypeOK
    BY InstallerAssumption, OneIsBlock, StepNames DEF TypeOK, blank, whole
  <1>2. QED
    BY <1>1 DEF FilesInv, VersionsApart, JobsReleased, NamesApart, OpenFile, Working

LEMMA FilesInvIsKept ==
    ASSUME FilesInv, NoSharedVersion, [Next]_vars
    PROVE  FilesInv'
  <1>1. ASSUME NEW p \in Process, continue(p) \/ crash(p)
        PROVE  FilesInv'
    BY <1>1, ContinueStep, CallStepKeepsFilesInv DEF ProperStep
  <1>2. QED
    BY <1>1, InstallKeepsFilesInv, CleanupsKeepFilesInv, PowerLossKeepsFilesInv,
       WriteBackKeepsFilesInv DEF Next

(* Whatever fails, is cancelled, killed or loses power, the state of the      *)
(* installer is well formed, no inode gets two names, and a call writes only  *)
(* to files that still have the names it opened them by; the calls that       *)
(* overlap are for different versions.                                        *)
THEOREM FilesInvariant ==
    ASSUME NoSharedVersion
    PROVE  Spec => []FilesInv
  <1>1. FilesInv /\ [Next]_vars => FilesInv'
    BY FilesInvIsKept
  <1>2. QED
    BY <1>1, FilesInitially, PTL DEF Spec

(* install (installer.cpp) keeps its state well formed. *)
THEOREM TypeCorrect ==
    ASSUME NoSharedVersion
    PROVE  Spec => []TypeOK
  <1>1. FilesInv => TypeOK
    BY DEF FilesInv
  <1>2. QED
    BY <1>1, FilesInvariant, PTL

-----------------------------------------------------------------------------
(* Images and records, where the image is moved into place by rename, nothing *)
(* is lost with the power, and nobody removes an installed image.             *)
Reliable ==
    /\ NoSharedVersion
    /\ RenameWorks
    /\ "power" \notin Faults
    /\ "cleanup_install_target" \notin Calls

Verified(p, i) == i # NoInode /\ content[i] = whole(expected(p))

(* What is moved into place has been verified, and stays as it was until the  *)
(* record is written.                                                         *)
Moved(p) ==
    /\ pc[p] # "write_target"
    /\ pc[p] = "finalize" /\ staged(p) # NoInode => Verified(p, staged(p))
    /\ pc[p] \in {"sync", "verify_installed", "open_state", "write_state"} =>
           Verified(p, installed(p))

RecordsReleased ==
    \A v \in Version :
        state_file[v] # NoPayload => <<v, state_file[v]>> \in Release /\ target[v] # NoInode

ImageInv ==
    /\ FilesInv
    /\ TargetNeverTorn
    /\ RecordsReleased
    /\ \A p \in Process : Moved(p)

TargetsKept ==
    \A v \in Version :
        /\ target'[v] = target[v]
        /\ target[v] # NoInode => content'[target[v]] = content[target[v]]

(* What a step of a call does to images and records: nothing, or it empties   *)
(* the record of its version, or fills it with the image that is there, or    *)
(* puts a whole expected image into place.                                    *)
Effect(p) ==
    \/ TargetsKept /\ UNCHANGED state_file
    \/ TargetsKept /\ state_file' = [state_file EXCEPT ![version(p)] = NoPayload]
    \/ /\ TargetsKept /\ Verified(p, installed(p))
       /\ state_file' = [state_file EXCEPT ![version(p)] = expected(p)]
    \/ /\ target'[version(p)] # NoInode
       /\ content'[target'[version(p)]] = whole(expected(p))
       /\ UNCHANGED state_file

LEMMA OthersStayMoved ==
    ASSUME FilesInv, NEW p \in Process, ProperStep(p), NEW q \in Process \ {p}, Moved(q)
    PROVE  Moved(q)'
  <1> USE DEF ProperStep, CallStep
  <1>1. pc'[q] = pc[q] /\ job'[q] = job[q]
    OBVIOUS
  <1>2. CASE pc[q] = "idle"
    BY <1>1, <1>2 DEF Moved
  <1>3. CASE pc[q] # "idle"
    <2>1. version(q) \in Version \ {version(p)}
      BY <1>3, WorkersHaveJobs DEF FilesInv, VersionsApart, Working
    <2>2. /\ version(q)' = version(q) /\ expected(q)' = expected(q)
          /\ staged(q)' = staged(q) /\ installed(q)' = installed(q)
          /\ \A i \in {staged(q), installed(q)} \ {NoInode} : content'[i] = content[i]
      BY <1>1, <2>1 DEF OtherVersionsKept, version, expected, staged, installed
    <2>3. QED
      BY <1>1, <2>2 DEF Moved, Verified
  <1>4. QED
    BY <1>2, <1>3

\* What a step of a call does to images and to the call itself.
LEMMA CallEffect ==
    ASSUME Reliable, ImageInv, NEW p \in Process, continue(p) \/ crash(p)
    PROVE  ProperStep(p) /\ Effect(p) /\ Moved(p)'
  <1> USE DEF Reliable, ImageInv
  <1>1. ProperStep(p)
    BY ContinueStep
  <1>2. Moved(p) /\ FilesInv /\ version(p) \in Version
    BY <1>1, WorkersHaveJobs DEF ProperStep
  <1>3. CASE create_staging_dir(p)
    BY <1>1, <1>3, CreateStagingDirStep
       DEF create_staging_dir, Effect, TargetsKept, Moved, data_vars, state_vars
  <1>4. CASE open_staging(p)
    BY <1>1, <1>4, OpenStagingStep DEF Effect, TargetsKept, Moved
  <1>5. CASE write_staging(p)
    BY <1>1, <1>5, WriteStagingStep DEF Effect, TargetsKept, Moved
  <1>6. CASE verify_staged_artifact(p)
    BY <1>1, <1>6, VerifyStagedStep DEF Effect, TargetsKept, Moved, Verified, data_vars, file_vars,
                                        state_vars, staged, version, expected
  <1>7. CASE finalize_installation(p)
    <2>1. CASE pc'[p] = "cleanup"
      BY <1>1, <1>7, <2>1, FinalizeStep DEF Effect, TargetsKept, Moved, data_vars
    <2>2. CASE pc'[p] # "cleanup"
      <3>1. /\ staged(p) # NoInode /\ pc'[p] = "sync"
            /\ UNCHANGED <<data_vars, job, state_file>>
            /\ target' = [target EXCEPT ![version(p)] = staged(p)]
        BY <1>7, <2>2, FinalizeStep
      <3>2. Verified(p, staged(p))
        BY <1>2, <1>7, <3>1 DEF Moved, finalize_installation
      <3>3. target'[version(p)] = staged(p)
        BY <1>2, <3>1 DEF FilesInv, TypeOK
      <3>4. QED
        BY <1>1, <3>1, <3>2, <3>3 DEF Effect, Moved, Verified, data_vars, installed, version,
                                      expected
    <2>3. QED
      BY <2>1, <2>2
  <1>8. CASE write_target(p)
    BY <1>2, <1>8 DEF Moved, write_target
  <1>9. CASE sync_to_disk(p)
    BY <1>1, <1>2, <1>9 DEF sync_to_disk, proceed, return, Effect, TargetsKept, Moved, Verified,
         data_vars, file_vars, state_vars, staged, installed, version, expected, FilesInv, TypeOK
  <1>10. CASE verify_installed_artifact(p)
    BY <1>1, <1>2, <1>10 DEF verify_installed_artifact, proceed, return, Effect, TargetsKept,
         Moved, Verified, data_vars, file_vars, state_vars, staged, installed, version, expected,
         FilesInv, TypeOK
  <1>11. CASE open_state(p)
    BY <1>1, <1>2, <1>11, OpenStateStep DEF open_state, Effect, TargetsKept, Moved, Verified,
         data_vars, file_vars, installed, version, expected
  <1>12. CASE write_state(p)
    BY <1>1, <1>2, <1>12, WriteStateStep DEF write_state, Effect, TargetsKept, Moved, Verified,
         data_vars, file_vars, state_vars
  <1>13. CASE finish(p)
    BY <1>1, <1>13, FinishStep DEF Effect, TargetsKept, Moved
  <1>14. CASE step_fails(p)
    BY <1>1, <1>14, StepFailsStep DEF Effect, TargetsKept, Moved, data_vars, file_vars, state_vars
  <1>15. CASE crash(p)
    BY <1>1, <1>15, CrashStep DEF Effect, TargetsKept, Moved, data_vars, file_vars, state_vars
  <1>16. QED
    BY <1>3, <1>4, <1>5, <1>6, <1>7, <1>8, <1>9, <1>10, <1>11, <1>12, <1>13, <1>14, <1>15
       DEF continue

\* Such an effect keeps images whole and records true.
LEMMA EffectKeepsImages ==
    ASSUME ImageInv, NEW p \in Process, ProperStep(p), Effect(p)
    PROVE  TargetNeverTorn' /\ RecordsReleased'
  <1> USE DEF ImageInv
  <1>1. version(p) \in Version /\ <<version(p), expected(p)>> \in Release
        /\ expected(p) \in Payload
    BY WorkersHaveJobs DEF ProperStep
  <1>2. CASE TargetsKept
    <2>1. TargetNeverTorn'
      BY <1>2 DEF TargetsKept, TargetNeverTorn
    <2>2. RecordsReleased'
      BY <1>1, <1>2 DEF TargetsKept, RecordsReleased, Effect, Verified, installed, FilesInv, TypeOK
    <2>3. QED
      BY <2>1, <2>2
  <1>3. CASE /\ target'[version(p)] # NoInode
             /\ content'[target'[version(p)]] = whole(expected(p))
             /\ UNCHANGED state_file
    <2>1. \A v \in Version \ {version(p)} :
              /\ target'[v] = target[v]
              /\ target[v] # NoInode => content'[target[v]] = content[target[v]]
      BY DEF ProperStep, OtherVersionsKept
    <2>2. TargetNeverTorn'
      <3> SUFFICES ASSUME NEW v \in Version, target'[v] # NoInode
                   PROVE  \E r \in Release : r[1] = v /\ content'[target'[v]] = whole(r[2])
        BY DEF TargetNeverTorn
      <3>1. CASE v = version(p)
        <4> DEFINE r == <<version(p), expected(p)>>
        <4>1. r \in Release /\ r[1] = v /\ r[2] = expected(p)
          BY <1>1, <3>1
        <4>2. QED
          BY <1>3, <3>1, <4>1
      <3>2. CASE v # version(p)
        BY <2>1, <3>2 DEF TargetNeverTorn
      <3>3. QED
        BY <3>1, <3>2
    <2>3. RecordsReleased'
      BY <1>1, <1>3, <2>1 DEF RecordsReleased
    <2>4. QED
      BY <2>2, <2>3
  <1>4. QED
    BY <1>2, <1>3 DEF Effect

\* Steps outside of running calls: none of them touches an image or a record.
LEMMA OtherStepsKeepImages ==
    ASSUME Reliable, ImageInv,
           \/ \E p \in Process, info \in InstallInfo : install(p, info)
           \/ \E v \in Version : cleanup_staging(v) \/ cleanup_install_target(v)
           \/ power_loss \/ write_back \/ UNCHANGED vars
    PROVE  TargetsKept /\ UNCHANGED state_file /\ \A p \in Process : Moved(p)'
  <1> USE DEF Reliable, ImageInv, vars, file_vars, data_vars, state_vars
  <1>1. ASSUME NEW p \in Process, NEW info \in InstallInfo, install(p, info)
        PROVE  TargetsKept /\ UNCHANGED state_file /\ \A q \in Process : Moved(q)'
    <2> USE <1>1 DEF install
    <2>1. TargetsKept /\ UNCHANGED state_file
      BY DEF TargetsKept
    <2>2. pc'[p] \in {"create_staging_dir", "idle"}
      BY DEF FilesInv, TypeOK, proceed, return
    <2>3. \A q \in Process \ {p} : pc'[q] = pc[q] /\ job'[q] = job[q]
      BY DEF FilesInv, TypeOK, proceed, return
    <2>4. QED
      BY <2>1, <2>2, <2>3 DEF Moved, Verified, staged, installed, version, expected
  <1>2. ASSUME NEW v \in Version, cleanup_staging(v)
        PROVE  TargetsKept /\ UNCHANGED state_file /\ \A q \in Process : Moved(q)'
    <2> USE <1>2 DEF cleanup_staging, remove_staging, call_vars
    <2>1. TargetsKept /\ UNCHANGED state_file
      BY DEF TargetsKept
    <2>2. \A q \in Process : Working(q) => version(q) \in Version \ {v}
      BY WorkersHaveJobs DEF being_installed, Working
    <2>3. \A q \in Process : Working(q) => staged(q)' = staged(q) /\ installed(q)' = installed(q)
      BY <2>2 DEF FilesInv, TypeOK, staged, installed, version
    <2>4. QED
      BY <2>1, <2>3 DEF Moved, Verified, Working, expected
  <1>3. CASE write_back \/ UNCHANGED vars
    BY <1>3 DEF write_back, call_vars, TargetsKept, Moved, Verified, staged, installed, version,
                expected
  <1>4. ~power_loss /\ \A v \in Version : ~cleanup_install_target(v)
    BY DEF power_loss, cleanup_install_target
  <1>5. QED
    BY <1>1, <1>2, <1>3, <1>4

LEMMA KeptImagesStayTrue ==
    ASSUME TargetNeverTorn, RecordsReleased, TargetsKept, UNCHANGED state_file
    PROVE  TargetNeverTorn' /\ RecordsReleased'
  BY DEF TargetNeverTorn, RecordsReleased, TargetsKept

LEMMA ImageInvIsKept ==
    ASSUME Reliable, ImageInv, [Next]_vars
    PROVE  ImageInv'
  <1>1. FilesInv'
    BY FilesInvIsKept DEF Reliable, ImageInv
  <1>2. ASSUME NEW p \in Process, continue(p) \/ crash(p)
        PROVE  ImageInv'
    <2>1. ProperStep(p) /\ Effect(p) /\ Moved(p)'
      BY <1>2, CallEffect
    <2>2. TargetNeverTorn' /\ RecordsReleased'
      BY <2>1, EffectKeepsImages
    <2>3. \A q \in Process : Moved(q)'
      BY <2>1, OthersStayMoved DEF ImageInv
    <2>4. QED
      BY <1>1, <2>2, <2>3 DEF ImageInv
  <1>3. CASE \/ \E p \in Process, info \in InstallInfo : install(p, info)
             \/ \E v \in Version : cleanup_staging(v) \/ cleanup_install_target(v)
             \/ power_loss \/ write_back \/ UNCHANGED vars
    BY <1>1, <1>3, OtherStepsKeepImages, KeptImagesStayTrue DEF ImageInv
  <1>4. QED
    BY <1>2, <1>3 DEF Next

THEOREM ImageInvariant ==
    ASSUME Reliable
    PROVE  Spec => []ImageInv
  <1>1. Init => ImageInv
    BY FilesInitially DEF ImageInv, Init, TargetNeverTorn, RecordsReleased, Moved
  <1>2. ImageInv /\ [Next]_vars => ImageInv'
    BY ImageInvIsKept
  <1>3. QED
    BY <1>1, <1>2, PTL DEF Spec

(* An image under the install target is whole and one that was released for  *)
(* its version: finalize_installation (installer.cpp) renames what            *)
(* verify_staged_artifact has accepted, whatever is killed or fails around it *)
(* and however calls of other versions interleave.                            *)
THEOREM InstalledImagesAreWhole ==
    ASSUME Reliable
    PROVE  Spec => []TargetNeverTorn
  <1>1. ImageInv => TargetNeverTorn
    BY DEF ImageInv
  <1>2. QED
    BY <1>1, ImageInvariant, PTL

\* Of a version released once, the record and the image are the same release.
LEMMA RecordsNameImages == TargetNeverTorn /\ RecordsReleased => RecordedImageIntact
  <1> SUFFICES ASSUME TargetNeverTorn, RecordsReleased,
                      NEW v \in Version, state_file[v] # NoPayload
               PROVE  \E r \in Release :
                         /\ r[1] = v /\ target[v] # NoInode /\ content[target[v]] = whole(r[2])
                         /\ (\A q \in Release : q[1] = v => q = r) => r[2] = state_file[v]
    BY DEF RecordedImageIntact
  <1> DEFINE recorded == <<v, state_file[v]>>
  <1>1. recorded \in Release /\ recorded[1] = v /\ recorded[2] = state_file[v]
        /\ target[v] # NoInode
    BY DEF RecordsReleased
  <1>2. PICK r \in Release : r[1] = v /\ content[target[v]] = whole(r[2])
    BY <1>1 DEF TargetNeverTorn
  <1> HIDE DEF recorded
  <1>3. QED
    BY <1>1, <1>2

(* installation_<version>.json names an image that is installed and whole,    *)
(* and, unless the version was released again, that very image: "No false     *)
(* success state is reported".                                                *)
THEOREM RecordedImagesAreThere ==
    ASSUME Reliable
    PROVE  Spec => []RecordedImageIntact
  <1>1. ImageInv => RecordedImageIntact
    BY RecordsNameImages DEF ImageInv
  <1>2. QED
    BY <1>1, ImageInvariant, PTL

-----------------------------------------------------------------------------
(* The refinement of InstallTarget. *)

target_view == <<[v \in Version |-> image_of(v)], state_file>>

\* A whole image is its first block.
LEMMA WholeImage ==
    ASSUME NEW i, NEW h, content[i] = whole(h)
    PROVE  content[i][1] = h
  BY OneIsBlock DEF whole

LEMMA TargetsKeptStutter ==
    ASSUME TargetsKept, NEW v \in Version
    PROVE  image_of(v)' = image_of(v)
  BY DEF TargetsKept, image_of

LEMMA StepRefines ==
    ASSUME Reliable, ImageInv, [Next]_vars
    PROVE  [Target!Next]_target_view
  <1> DEFINE image == [v \in Version |-> image_of(v)]
  <1>1. CASE TargetsKept
    <2>1. UNCHANGED image
      BY <1>1, TargetsKeptStutter
    <2>2. CASE UNCHANGED state_file
      BY <2>1, <2>2 DEF target_view
    <2>3. ASSUME NEW p \in Process, ProperStep(p),
                 \/ state_file' = [state_file EXCEPT ![version(p)] = NoPayload]
                 \/ /\ Verified(p, installed(p))
                    /\ state_file' = [state_file EXCEPT ![version(p)] = expected(p)]
          PROVE  Target!Next
      <3>1. version(p) \in Version /\ expected(p) \in Payload
        BY <2>3, WorkersHaveJobs DEF ProperStep, ImageInv
      <3>2. CASE state_file' = [state_file EXCEPT ![version(p)] = NoPayload]
        <4>1. Target!Forget(version(p))
          BY <2>1, <3>2 DEF Target!Forget
        <4>2. QED
          BY <3>1, <4>1 DEF Target!Next
      <3>3. CASE /\ Verified(p, installed(p))
                 /\ state_file' = [state_file EXCEPT ![version(p)] = expected(p)]
        <4>1. image_of(version(p)) = expected(p)
          BY <3>3, WholeImage DEF Verified, image_of, installed
        <4>2. image[version(p)] = expected(p) /\ expected(p) # NoPayload
          BY <3>1, <4>1, InstallerAssumption
        <4>3. Target!Record(version(p))
          BY <2>1, <3>3, <4>2 DEF Target!Record
        <4>4. QED
          BY <3>1, <4>3 DEF Target!Next
      <3>4. QED
        BY <2>3, <3>2, <3>3
    <2>4. QED
      <3>1. ASSUME NEW p \in Process, continue(p) \/ crash(p)
            PROVE  [Target!Next]_target_view
        <4>1. ProperStep(p) /\ Effect(p)
          BY <3>1, CallEffect
        <4>2. CASE UNCHANGED state_file
          BY <2>2, <4>2
        <4>3. CASE ~UNCHANGED state_file
          BY <2>3, <4>1, <4>3 DEF Effect
        <4>4. QED
          BY <4>2, <4>3
      <3>2. QED
        BY <2>2, <3>1, OtherStepsKeepImages DEF Next
  <1>2. CASE ~TargetsKept
    <2>1. PICK p \in Process : continue(p) \/ crash(p)
      BY <1>2, OtherStepsKeepImages DEF Next
    <2>2. ProperStep(p) /\ Effect(p)
      BY <2>1, CallEffect
    <2>3. /\ target'[version(p)] # NoInode
          /\ content'[target'[version(p)]] = whole(expected(p))
          /\ UNCHANGED state_file
      BY <1>2, <2>2 DEF Effect
    <2>4. PICK v \in Version, h \in Payload :
              v = version(p) /\ h = expected(p) /\ <<v, h>> \in Release
      BY <2>2, WorkersHaveJobs DEF ProperStep, ImageInv
    <2>5. image_of(v)' = h
      <3>1. target'[v] # NoInode /\ content'[target'[v]] = whole(h)
        BY <2>3, <2>4
      <3>2. content'[target'[v]][1] = h
        BY <3>1, OneIsBlock DEF whole
      <3>3. QED
        BY <3>1, <3>2 DEF image_of
    <2>6. \A w \in Version \ {v} : image_of(w)' = image_of(w)
      BY <2>2, <2>4 DEF ProperStep, OtherVersionsKept, image_of
    <2>7. image' = [image EXCEPT ![v] = h]
      BY <2>5, <2>6
    <2>8. Target!Replace(v)
      <3>1. <<v, h>> \in Release /\ <<v, h>>[1] = v /\ <<v, h>>[2] = h
        BY <2>4
      <3>2. QED
        BY <2>3, <2>7, <3>1 DEF Target!Replace
    <2>9. QED
      BY <2>8 DEF Target!Next
  <1>3. QED
    BY <1>1, <1>2

(* Seen as values, the images and the records of the versions behave as       *)
(* InstallTarget says: an image is replaced as a whole, and a record names    *)
(* the image that is there when the record is written.                        *)
THEOREM InstallerRefinesTarget ==
    ASSUME Reliable
    PROVE  Spec => ImplementsInstallTarget
  <1>1. Init => Target!Init
    BY DEF Init, Target!Init, image_of
  <1>2. ImageInv /\ [Next]_vars => [Target!Next]_target_view
    BY StepRefines
  <1>3. QED
    BY <1>1, <1>2, ImageInvariant, PTL DEF Spec, ImplementsInstallTarget, Target!Spec, target_view

-----------------------------------------------------------------------------
(* The space on the disk. *)

Occupied == {b \in {i \in Inode : in_use(i)} \X (1..Blocks) : content[b[1]][b[2]] # NoPayload}

\* The k-th block of inode i holds data.
Holds(i, k) == in_use(i) /\ content[i][k] # NoPayload

LEMMA BlocksAreFinite ==
    ASSUME NEW S, S \subseteq Inode \X (1..Blocks)
    PROVE  IsFiniteSet(S) /\ Cardinality(S) \in Nat
  <1>1. IsFiniteSet(1..Blocks)
    BY FS_Interval, InstallerAssumption
  <1>2. IsFiniteSet(Inode \X (1..Blocks))
    BY <1>1, FS_Product, InstallerAssumption
  <1>3. IsFiniteSet(S)
    BY <1>2, FS_Subset
  <1>4. QED
    BY <1>3, FS_CardinalityType

LEMMA AvailableIsCapacityLeft ==
    /\ Occupied \subseteq Inode \X (1..Blocks)
    /\ available = Capacity - Cardinality(Occupied)
    /\ available \in Int
  <1>1. Occupied \subseteq Inode \X (1..Blocks)
    BY DEF Occupied
  <1>2. Cardinality(Occupied) \in Nat
    BY <1>1, BlocksAreFinite
  <1>3. available = Capacity - Cardinality(Occupied)
    BY DEF available, Occupied
  <1>4. QED
    BY <1>1, <1>2, <1>3, InstallerAssumption

LEMMA AvailableIsCapacityLeftNext ==
    /\ Occupied' \subseteq Inode \X (1..Blocks)
    /\ available' = Capacity - Cardinality(Occupied')
    /\ available' \in Int
  <1>1. Occupied' \subseteq Inode \X (1..Blocks)
    BY DEF Occupied
  <1>2. Cardinality(Occupied') \in Nat
    BY <1>1, BlocksAreFinite
  <1>3. available' = Capacity - Cardinality(Occupied')
    BY DEF available, Occupied
  <1>4. QED
    BY <1>1, <1>2, <1>3, InstallerAssumption

LEMMA SpaceKept ==
    ASSUME \A i \in Inode : \A k \in 1..Blocks : Holds(i, k)' => Holds(i, k)
    PROVE  available' >= available
  <1>1. Occupied' \in SUBSET Occupied
    BY DEF Occupied, Holds
  <1>2. Cardinality(Occupied') <= Cardinality(Occupied)
    BY <1>1, AvailableIsCapacityLeft, BlocksAreFinite, FS_Subset
  <1>3. Cardinality(Occupied) \in Nat /\ Cardinality(Occupied') \in Nat
    BY AvailableIsCapacityLeft, AvailableIsCapacityLeftNext, BlocksAreFinite
  <1>4. QED
    BY <1>2, <1>3, AvailableIsCapacityLeft, AvailableIsCapacityLeftNext, InstallerAssumption

LEMMA SpaceForOneBlock ==
    ASSUME NEW j \in Inode, NEW m \in 1..Blocks,
           \A i \in Inode : \A k \in 1..Blocks : Holds(i, k)' => Holds(i, k) \/ <<i, k>> = <<j, m>>
    PROVE  available' >= available - 1
  <1> DEFINE more == Occupied \cup {<<j, m>>}
  <1>1. Occupied' \in SUBSET more
    BY DEF Occupied, Holds
  <1>2. /\ IsFiniteSet(more) /\ Cardinality(more) \in Nat
        /\ Cardinality(more) <= Cardinality(Occupied) + 1
    <2>1. IsFiniteSet(Occupied) /\ Cardinality(Occupied) \in Nat
      BY AvailableIsCapacityLeft, BlocksAreFinite
    <2>2. /\ IsFiniteSet(more)
          /\ Cardinality(more) = IF <<j, m>> \in Occupied THEN Cardinality(Occupied)
                                                        ELSE Cardinality(Occupied) + 1
      BY <2>1, FS_AddElement
    <2>3. QED
      BY <2>1, <2>2
  <1>3. Cardinality(Occupied') <= Cardinality(more)
    BY <1>1, <1>2, FS_Subset
  <1>4. Cardinality(Occupied) \in Nat /\ Cardinality(Occupied') \in Nat
    BY AvailableIsCapacityLeft, AvailableIsCapacityLeftNext, BlocksAreFinite
  <1>5. QED
    BY <1>2, <1>3, <1>4, AvailableIsCapacityLeft, AvailableIsCapacityLeftNext, InstallerAssumption

-----------------------------------------------------------------------------
(* Calls that nothing went wrong for: how far they got, and, where no other   *)
(* call overlaps, the room that is left for the rest.                         *)

Progress(p) ==
    /\ job[p].image = expected(p) /\ result[p] # "FAILED"
    /\ pc[p] \in CleanedOnFailure => version(p) \in staging_dir
    /\ pc[p] \in {"write_target", "sync", "verify_installed"} => version(p) \in target_dir
    /\ pc[p] \in {"write_staging", "write_target"} =>
           \A k \in 1..Blocks : k < block[p] => content[file[p]][k] = expected(p)
    /\ pc[p] \in {"verify_staged", "finalize", "write_target"} => Verified(p, staged(p))
    /\ pc[p] \in {"sync", "verify_installed"} => Verified(p, installed(p))

Room(p) ==
    /\ \A q \in Process : Working(q) => q = p
    /\ pc[p] \in {"create_staging_dir", "open_staging"} => available >= 2 * Blocks
    /\ pc[p] = "write_staging" => available >= 2 * Blocks - (block[p] - 1)
    /\ pc[p] \in {"verify_staged", "finalize"} => available >= Blocks
    /\ pc[p] = "write_target" => available >= Blocks - (block[p] - 1)

SpaceInv ==
    /\ FilesInv
    /\ OnlyFaultsFail
    /\ \A p \in Process : Working(p) /\ excuse[p] # "fault" => Progress(p)
    /\ \A p \in Process : Working(p) /\ excuse[p] = "none" => Room(p)

(* What a step of a call owes the invariant. *)
GoodStep(p) ==
    /\ result'[p] = "FAILED" => excuse'[p] = "fault"
    /\ pc'[p] # "idle" /\ excuse'[p] # "fault" => Progress(p)'
    /\ pc'[p] # "idle" /\ excuse'[p] = "none" => Room(p)'

LEMMA ExcusesOfOthers ==
    ASSUME NEW p \in Process, continue(p) \/ crash(p), excuse \in [Process -> {"none", "overlap", "fault"}],
           NEW q \in Process \ {p}
    PROVE  excuse'[q] = excuse[q]
  BY DEF continue, crash, create_staging_dir, open_staging, write_staging, copy_block, disk_full,
         verify_staged_artifact, finalize_installation, write_target, sync_to_disk,
         verify_installed_artifact, open_state, write_state, finish, step_fails

LEMMA OthersProgress ==
    ASSUME FilesInv, NEW p \in Process, ProperStep(p), NEW q \in Process \ {p},
           Working(q), Progress(q)
    PROVE  Progress(q)'
  <1> USE DEF ProperStep, CallStep
  <1>1. /\ pc'[q] = pc[q] /\ job'[q] = job[q] /\ block'[q] = block[q]
        /\ file'[q] = file[q] /\ result'[q] = result[q]
    OBVIOUS
  <1>2. version(q)' = version(q) /\ expected(q)' = expected(q)
    BY <1>1 DEF version, expected
  <1>3. version(q) \in Version \ {version(p)}
    BY WorkersHaveJobs DEF FilesInv, VersionsApart
  <1>4. /\ staging'[version(q)] = staging[version(q)]
        /\ target'[version(q)] = target[version(q)]
        /\ version(q) \in staging_dir => version(q) \in staging_dir'
        /\ version(q) \in target_dir => version(q) \in target_dir'
        /\ staged(q) # NoInode => content'[staged(q)] = content[staged(q)]
        /\ installed(q) # NoInode => content'[installed(q)] = content[installed(q)]
    BY <1>3 DEF OtherVersionsKept, staged, installed
  <1>5. staged(q)' = staged(q) /\ installed(q)' = installed(q)
    BY <1>2, <1>4 DEF staged, installed
  <1>6. pc[q] \in {"write_staging", "write_target"} => content'[file[q]] = content[file[q]]
    BY <1>4 DEF FilesInv, OpenFile
  <1>7. Verified(q, staged(q)) => Verified(q, staged(q))'
    BY <1>2, <1>4, <1>5 DEF Verified
  <1>8. Verified(q, installed(q)) => Verified(q, installed(q))'
    BY <1>2, <1>4, <1>5 DEF Verified
  <1>9. job'[q].image = expected(q)'
    BY <1>1, <1>2 DEF Progress
  <1>10. QED
    BY <1>1, <1>2, <1>4, <1>6, <1>7, <1>8, <1>9 DEF Progress

LEMMA GoodStepsKeepSpaceInv ==
    ASSUME SpaceInv, FilesInv', NEW p \in Process, continue(p) \/ crash(p), ProperStep(p),
           GoodStep(p)
    PROVE  SpaceInv'
  <1> USE DEF SpaceInv
  <1>1. excuse \in [Process -> {"none", "overlap", "fault"}]
    BY DEF FilesInv, TypeOK
  <1>2. ASSUME NEW q \in Process \ {p}
        PROVE  /\ excuse'[q] = excuse[q] /\ pc'[q] = pc[q] /\ result'[q] = result[q]
               /\ Working(q)' <=> Working(q)
    BY <1>1, <1>2, ExcusesOfOthers DEF ProperStep, CallStep, Working
  <1>3. OnlyFaultsFail'
    BY <1>2 DEF OnlyFaultsFail, GoodStep
  <1>4. ASSUME NEW q \in Process, Working(q)', excuse'[q] # "fault"
        PROVE  Progress(q)'
    BY <1>2, <1>4, OthersProgress DEF GoodStep, Working
  <1>5. ASSUME NEW q \in Process, Working(q)', excuse'[q] = "none"
        PROVE  Room(q)'
    <2>1. CASE q = p
      BY <1>5, <2>1 DEF GoodStep, Working
    <2>2. CASE q # p
      <3>1. Room(q) /\ Working(p)
        BY <1>2, <1>5, <2>2 DEF ProperStep
      <3>2. QED
        BY <2>2, <3>1 DEF Room
    <2>3. QED
      BY <2>1, <2>2
  <1>6. QED
    BY <1>3, <1>4, <1>5

LEMMA FaultsStay ==
    ASSUME FilesInv, NEW p \in Process, continue(p), excuse[p] = "fault"
    PROVE  GoodStep(p)
  <1>1. excuse \in [Process -> {"none", "overlap", "fault"}]
    BY DEF FilesInv, TypeOK
  <1>2. excuse'[p] = "fault"
    BY <1>1 DEF continue, create_staging_dir, open_staging, write_staging, copy_block, disk_full,
         verify_staged_artifact, finalize_installation, write_target, sync_to_disk,
         verify_installed_artifact, open_state, write_state, finish, step_fails
  <1>3. QED
    BY <1>2 DEF GoodStep

LEMMA StoppedIsGood ==
    ASSUME FilesInv, NEW p \in Process, step_fails(p) \/ crash(p)
    PROVE  GoodStep(p)
  <1>1. CASE step_fails(p)
    BY <1>1, StepFailsStep DEF GoodStep, FilesInv, TypeOK
  <1>2. CASE crash(p)
    BY <1>2, CrashStep DEF GoodStep
  <1>3. QED
    BY <1>1, <1>2

(* A call that nothing went wrong for so far. *)
Fine(p) ==
    /\ FilesInv /\ Working(p) /\ excuse[p] # "fault" /\ Progress(p)
    /\ excuse[p] = "none" => Room(p)

LEMMA StaysAlone ==
    ASSUME NEW p \in Process, ProperStep(p), Room(p), NEW q \in Process, Working(q)'
    PROVE  q = p
  BY DEF ProperStep, CallStep, Room, Working

LEMMA SameJob ==
    ASSUME NEW p \in Process, job'[p] = job[p]
    PROVE  /\ version(p)' = version(p) /\ expected(p)' = expected(p)
           /\ job'[p].image = job[p].image
  BY DEF version, expected

\* No call opens a file that had no name before.
LEMMA NothingOpened ==
    ASSUME UNCHANGED content, NEW p \in Process, FilesInv,
           \A v \in Version : {staging'[v], target'[v]} \ {NoInode}
                                  \subseteq {staging[w] : w \in Version} \cup {target[w] : w \in Version},
           \A q \in Process : {file'[q], src'[q]} \ {NoInode} \subseteq {file[q], src[q]}
    PROVE  available' >= available
  BY SpaceKept, InstallerAssumption DEF Holds, in_use

LEMMA CreateStagingDirIsGood ==
    ASSUME NEW p \in Process, Fine(p), create_staging_dir(p)
    PROVE  GoodStep(p)
  <1> USE DEF Fine
  <1>1. /\ pc[p] = "create_staging_dir" /\ pc'[p] = "open_staging"
        /\ version(p) \in staging_dir'
        /\ UNCHANGED <<target_dir, staging, target, content, job, file, src, block, result, excuse>>
        /\ ProperStep(p)
    BY CreateStagingDirStep DEF create_staging_dir, data_vars
  <1>2. available' >= available
    BY <1>1, NothingOpened
  <1>3. Progress(p)'
    BY <1>1 DEF Progress, version, expected
  <1>4. excuse[p] = "none" => Room(p)'
    BY <1>1, <1>2, StaysAlone, AvailableIsCapacityLeft, AvailableIsCapacityLeftNext,
       InstallerAssumption DEF Room
  <1>5. QED
    BY <1>1, <1>3, <1>4 DEF GoodStep, Progress

LEMMA OpenStagingIsGood ==
    ASSUME NEW p \in Process, Fine(p), open_staging(p)
    PROVE  GoodStep(p)
  <1> USE DEF Fine
  <1>1. /\ pc[p] = "open_staging" /\ version(p) \in staging_dir /\ version(p) \in Version
        /\ ProperStep(p) /\ FilesInv /\ block[p] = 1
    BY OpenStagingStep, WorkersHaveJobs
       DEF open_staging, Progress, CleanedOnFailure, FilesInv, OpenFile
  <1>2. PICK i \in Inode :
          /\ opened(i, staged(p))
          /\ staging' = [staging EXCEPT ![version(p)] = i]
          /\ file' = [file EXCEPT ![p] = i]
          /\ proceed(p, "write_staging")
          /\ content' = [content EXCEPT ![i] = blank]
          /\ UNCHANGED <<job, src, block, result, excuse, staging_dir, target>>
    BY <1>1 DEF open_staging
  <1>3. pc'[p] = "write_staging" /\ block'[p] = 1 /\ version(p) \in staging_dir'
        /\ version(p)' = version(p) /\ result'[p] # "FAILED"
        /\ job'[p].image = expected(p)'
    BY <1>1, <1>2 DEF proceed, FilesInv, TypeOK, version, expected, Progress
  <1>4. \A j \in Inode : \A k \in 1..Blocks : Holds(j, k)' => Holds(j, k)
    <2>1. \A k \in 1..Blocks : content'[i][k] = NoPayload
      BY <1>2 DEF FilesInv, TypeOK, blank, whole
    <2>2. \A j \in Inode \ {i} : content'[j] = content[j]
      BY <1>2 DEF FilesInv, TypeOK
    <2>3. \A j \in Inode \ {i} : in_use(j)' => in_use(j)
      BY <1>1, <1>2 DEF FilesInv, TypeOK, in_use
    <2>4. QED
      BY <2>1, <2>2, <2>3 DEF Holds
  <1>5. available' >= available
    BY <1>4, SpaceKept
  <1>6. Progress(p)'
    <2>1. \A k \in 1..Blocks : ~(k < block'[p])
      BY <1>3
    <2>2. QED
      BY <1>3, <2>1 DEF Progress
  <1>7. excuse[p] = "none" => Room(p)'
    BY <1>1, <1>3, <1>5, StaysAlone, AvailableIsCapacityLeft, AvailableIsCapacityLeftNext,
       InstallerAssumption DEF Room
  <1>8. QED
    BY <1>2, <1>3, <1>6, <1>7 DEF GoodStep

\* A file filled block by block is whole.
LEMMA AllBlocksAreWhole ==
    ASSUME NEW i \in Inode, NEW h, FilesInv', \A k \in 1..Blocks : content'[i][k] = h
    PROVE  content'[i] = whole(h)
  BY DEF FilesInv, TypeOK, whole

(* A block that is written takes at most one block of space.                  *)
LEMMA CopyTakesOneBlock ==
    ASSUME FilesInv, NEW p \in Process, NEW j \in Inode, j = file[p], block[p] \in 1..Blocks,
           \A i \in Inode \ {j} : content'[i] = content[i],
           \A k \in 1..Blocks : k # block[p] => content'[j][k] = content[j][k],
           \A v \in Version : /\ target'[v] = target[v]
                              /\ staging'[v] \in {staging[v], NoInode},
           \A q \in Process : /\ file'[q] \in {file[q], NoInode}
                              /\ src'[q] \in {src[q], NoInode}
    PROVE  available' >= available - 1
  <1>1. in_use(j)
    BY DEF in_use
  <1>2. ASSUME NEW i \in Inode, in_use(i)'
        PROVE  in_use(i)
    BY <1>2, InstallerAssumption DEF in_use
  <1>3. \A i \in Inode : \A k \in 1..Blocks :
            Holds(i, k)' => Holds(i, k) \/ <<i, k>> = <<j, block[p]>>
    BY <1>1, <1>2 DEF Holds
  <1>4. QED
    BY <1>3, SpaceForOneBlock

\* Where no call overlaps, the disk cannot be full.
LEMMA RoomMeansNotFull ==
    ASSUME FilesInv, NEW p \in Process, pc[p] \in {"write_staging", "write_target"}, Room(p)
    PROVE  available > 0
  <1>1. block[p] \in 1..Blocks /\ Blocks \in Nat \ {0} /\ available \in Int
    BY AvailableIsCapacityLeft, InstallerAssumption DEF FilesInv, TypeOK
  <1>2. QED
    BY <1>1 DEF Room

LEMMA DiskFullIsGood ==
    ASSUME NEW p \in Process, Fine(p), pc[p] \in {"write_staging", "write_target"},
           NEW payload, disk_full(p, payload)
    PROVE  GoodStep(p)
  <1>1. excuse[p] # "none"
    BY RoomMeansNotFull, AvailableIsCapacityLeft DEF Fine, disk_full
  <1>2. excuse'[p] = "fault"
    BY <1>1 DEF Fine, disk_full, FilesInv, TypeOK
  <1>3. QED
    BY <1>2 DEF GoodStep

LEMMA WriteStagingIsGood ==
    ASSUME NEW p \in Process, Fine(p), write_staging(p)
    PROVE  GoodStep(p)
  <1> USE DEF Fine
  <1>1. /\ pc[p] = "write_staging" /\ version(p) \in Version /\ expected(p) \in Payload
        /\ ProperStep(p) /\ UNCHANGED <<staging_dir, target_dir, staging, target>>
        /\ job[p].image = expected(p)
    BY WriteStagingStep, WorkersHaveJobs DEF write_staging, Progress, file_vars
  <1>2. file[p] \in Inode /\ file[p] # NoInode /\ file[p] = staged(p) /\ block[p] \in 1..Blocks
    BY <1>1 DEF FilesInv, TypeOK, OpenFile
  <1>3. CASE copy_block(p, job[p].image, "verify_staged")
    <2> "verify_staged" \in Steps \ {"idle", "write_staging", "write_target"}
      BY StepNames
    <2>1. PICK payload \in Payload \cup {NoPayload} :
              payload = expected(p) /\ copy_block(p, payload, "verify_staged")
      BY <1>1, <1>3
    <2>2. /\ CallTypeOK' /\ CallStep(p) /\ UNCHANGED <<job, result, excuse>>
          /\ content' \in [Inode -> [1..Blocks -> Payload \cup {NoPayload}]]
          /\ \A i \in Inode \ {file[p]} : content'[i] = content[i]
          /\ \A k \in 1..Blocks : k # block[p] => content'[file[p]][k] = content[file[p]][k]
          /\ content'[file[p]][block[p]] = payload
          /\ dirty' \subseteq Inode
          /\ \/ /\ block[p] = Blocks /\ pc'[p] = "verify_staged"
                /\ file'[p] = NoInode /\ src'[p] = NoInode /\ block'[p] = 1
             \/ /\ block[p] < Blocks /\ pc'[p] = pc[p] /\ block'[p] = block[p] + 1
                /\ file'[p] = file[p] /\ src'[p] = src[p]
      BY <1>1, <2>1, CopyBlockFacts
    <2>3. /\ version(p)' = version(p) /\ expected(p)' = expected(p) /\ staged(p)' = staged(p)
          /\ job'[p].image = job[p].image
      BY <1>1, <2>2 DEF version, expected, staged
    <2>4. \A k \in 1..Blocks : k <= block[p] => content'[file[p]][k] = expected(p)
      BY <1>1, <1>2, <2>1, <2>2, InstallerAssumption DEF Progress
    <2>5. available' >= available - 1
      <3>1. \A q \in Process : /\ file'[q] \in {file[q], NoInode}
                               /\ src'[q] \in {src[q], NoInode}
        BY <2>2 DEF CallStep
      <3>2. QED
        BY <1>1, <1>2, <2>2, <3>1, CopyTakesOneBlock
    <2>6. Blocks \in Nat \ {0} /\ available \in Int /\ available' \in Int
      BY AvailableIsCapacityLeft, AvailableIsCapacityLeftNext, InstallerAssumption
    <2>7. CASE block[p] = Blocks
      <3>1. pc'[p] = "verify_staged"
        BY <2>2, <2>6, <2>7
      <3>2. content'[file[p]] = whole(expected(p))
        BY <1>2, <2>2, <2>4, <2>7 DEF whole
      <3>3. Verified(p, staged(p))'
        BY <1>2, <2>3, <3>2 DEF Verified
      <3>4. Progress(p)'
        BY <1>1, <2>2, <2>3, <3>1, <3>3 DEF Progress, CleanedOnFailure
      <3>5. excuse[p] = "none" => Room(p)'
        BY <1>1, <1>2, <2>5, <2>6, <2>7, <3>1, StaysAlone DEF Room
      <3>6. QED
        BY <2>2, <3>4, <3>5 DEF GoodStep, Progress
    <2>8. CASE block[p] # Blocks
      <3>1. /\ pc'[p] = "write_staging" /\ block'[p] = block[p] + 1 /\ file'[p] = file[p]
            /\ block[p] \in Nat
        BY <1>1, <1>2, <2>2, <2>8
      <3>2. \A k \in 1..Blocks : k < block'[p] => content'[file'[p]][k] = expected(p)'
        BY <2>3, <2>4, <3>1
      <3>3. Progress(p)'
        BY <1>1, <2>2, <2>3, <3>1, <3>2 DEF Progress, CleanedOnFailure
      <3>4. excuse[p] = "none" => Room(p)'
        BY <1>1, <2>5, <2>6, <3>1, StaysAlone DEF Room
      <3>5. QED
        BY <2>2, <3>3, <3>4 DEF GoodStep, Progress
    <2>9. QED
      BY <2>7, <2>8
  <1>4. CASE disk_full(p, job[p].image)
    BY <1>1, <1>4, DiskFullIsGood
  <1>5. QED
    BY <1>3, <1>4 DEF write_staging

LEMMA VerifyStagedIsGood ==
    ASSUME NEW p \in Process, Fine(p), verify_staged_artifact(p)
    PROVE  GoodStep(p)
  <1> USE DEF Fine
  <1>1. /\ pc[p] = "verify_staged" /\ ProperStep(p) /\ Verified(p, staged(p))
        /\ UNCHANGED <<file_vars, data_vars, job, excuse>>
    BY VerifyStagedStep DEF verify_staged_artifact, Progress
  <1>2. /\ proceed(p, "finalize") /\ UNCHANGED <<job, file, src, block, result>>
    BY <1>1 DEF verify_staged_artifact, Verified
  <1>3. pc'[p] = "finalize" /\ version(p)' = version(p) /\ expected(p)' = expected(p)
    BY <1>2 DEF proceed, FilesInv, TypeOK, version, expected
  <1>4. available' >= available
    BY <1>1, <1>2, NothingOpened DEF data_vars, file_vars
  <1>5. Progress(p)'
    BY <1>1, <1>2, <1>3 DEF Progress, CleanedOnFailure, Verified, staged, file_vars, data_vars
  <1>6. excuse[p] = "none" => Room(p)'
    BY <1>1, <1>3, <1>4, StaysAlone, AvailableIsCapacityLeft, AvailableIsCapacityLeftNext,
       InstallerAssumption DEF Room
  <1>7. QED
    BY <1>1, <1>5, <1>6 DEF GoodStep, Progress

LEMMA FinalizeIsGood ==
    ASSUME NEW p \in Process, Fine(p), finalize_installation(p)
    PROVE  GoodStep(p)
  <1> USE DEF Fine
  <1>1. /\ pc[p] = "finalize" /\ version(p) \in Version /\ version(p) \in target_dir'
        /\ ProperStep(p) /\ Verified(p, staged(p)) /\ UNCHANGED <<staging_dir, excuse>>
        /\ version(p) \in staging_dir /\ block[p] = 1 /\ result[p] # "FAILED"
        /\ job[p].image = expected(p)
    BY FinalizeStep, WorkersHaveJobs
       DEF finalize_installation, Progress, CleanedOnFailure, FilesInv, OpenFile
  <1>2. staged(p) # NoInode /\ staged(p) \in Inode
    BY <1>1 DEF Verified, FilesInv, TypeOK, staged
  <1>3. CASE RenameWorks
    <2>1. /\ target' = [target EXCEPT ![version(p)] = staged(p)]
          /\ proceed(p, "sync")
          /\ UNCHANGED <<content, job, result>>
      BY <1>2, <1>3 DEF finalize_installation, data_vars
    <2>2. /\ pc'[p] = "sync" /\ version(p)' = version(p) /\ expected(p)' = expected(p)
          /\ installed(p)' = staged(p)
      BY <1>1, <2>1 DEF proceed, FilesInv, TypeOK, version, expected, installed
    <2>3. Verified(p, installed(p))'
      BY <1>1, <2>1, <2>2 DEF Verified
    <2>4. Progress(p)'
      BY <1>1, <2>1, <2>2, <2>3 DEF Progress, CleanedOnFailure
    <2>5. excuse[p] = "none" => Room(p)'
      BY <1>1, <2>2, StaysAlone DEF Room
    <2>6. QED
      BY <1>1, <2>1, <2>4, <2>5 DEF GoodStep
  <1>4. CASE ~RenameWorks
    <2>1. PICK i \in Inode :
            /\ opened(i, installed(p))
            /\ target' = [target EXCEPT ![version(p)] = i]
            /\ file' = [file EXCEPT ![p] = i]
            /\ src' = [src EXCEPT ![p] = staged(p)]
            /\ proceed(p, "write_target")
            /\ UNCHANGED <<staging, job, block, result>>
            /\ content' = [content EXCEPT ![i] = blank]
      BY <1>2, <1>4 DEF finalize_installation
    <2>2. /\ pc'[p] = "write_target" /\ block'[p] = 1
          /\ version(p)' = version(p) /\ expected(p)' = expected(p) /\ staged(p)' = staged(p)
      BY <1>1, <2>1 DEF proceed, FilesInv, TypeOK, version, expected, staged
    <2>3. i # staged(p)
      BY <1>1, <2>1, OpenedFacts DEF staged, installed
    <2>4. \A j \in Inode : \A k \in 1..Blocks : Holds(j, k)' => Holds(j, k)
      <3>1. \A k \in 1..Blocks : content'[i][k] = NoPayload
        BY <2>1 DEF FilesInv, TypeOK, blank, whole
      <3>2. \A j \in Inode \ {i} : content'[j] = content[j]
        BY <2>1 DEF FilesInv, TypeOK
      <3>3. \A j \in Inode \ {i} : in_use(j)' => in_use(j)
        BY <1>1, <2>1 DEF FilesInv, TypeOK, in_use, staged
      <3>4. QED
        BY <3>1, <3>2, <3>3 DEF Holds
    <2>5. available' >= available
      BY <2>4, SpaceKept
    <2>6. Verified(p, staged(p))'
      BY <1>1, <1>2, <2>1, <2>2, <2>3 DEF Verified, FilesInv, TypeOK
    <2>7. \A k \in 1..Blocks : ~(k < block'[p])
      BY <2>2
    <2>8. Progress(p)'
      BY <1>1, <2>1, <2>2, <2>6, <2>7 DEF Progress
    <2>9. excuse[p] = "none" => Room(p)'
      BY <1>1, <2>2, <2>5, StaysAlone, AvailableIsCapacityLeft, AvailableIsCapacityLeftNext,
         InstallerAssumption DEF Room
    <2>10. QED
      BY <1>1, <2>1, <2>8, <2>9 DEF GoodStep
  <1>5. QED
    BY <1>3, <1>4

LEMMA WriteTargetIsGood ==
    ASSUME NEW p \in Process, Fine(p), write_target(p)
    PROVE  GoodStep(p)
  <1> USE DEF Fine
  <1>1. /\ pc[p] = "write_target" /\ version(p) \in Version /\ expected(p) \in Payload
        /\ ProperStep(p) /\ UNCHANGED <<staging_dir, target_dir, target>>
        /\ job[p].image = expected(p) /\ Verified(p, staged(p))
        /\ version(p) \in target_dir /\ version(p) \in staging_dir /\ result[p] # "FAILED"
    BY WriteTargetStep, WorkersHaveJobs DEF write_target, Progress, CleanedOnFailure
  <1>2. /\ file[p] \in Inode /\ file[p] # NoInode /\ file[p] = installed(p)
        /\ src[p] = staged(p) /\ staged(p) # NoInode /\ staged(p) \in Inode
        /\ file[p] # staged(p) /\ block[p] \in 1..Blocks
    BY <1>1 DEF FilesInv, TypeOK, OpenFile, NamesApart, staged, installed
  <1>3. content[src[p]][block[p]] = expected(p)
    BY <1>1, <1>2 DEF Verified, whole
  <1>4. ASSUME copy_block(p, expected(p), "sync"),
               staging' = [staging EXCEPT ![version(p)] = IF block[p] = Blocks THEN NoInode ELSE @]
        PROVE  GoodStep(p)
    <2> "sync" \in Steps \ {"idle", "write_staging", "write_target"}
      BY StepNames
    <2>1. PICK payload \in Payload \cup {NoPayload} :
              payload = expected(p) /\ copy_block(p, payload, "sync")
      BY <1>1, <1>4
    <2>2. /\ CallTypeOK' /\ CallStep(p) /\ UNCHANGED <<job, result, excuse>>
          /\ content' \in [Inode -> [1..Blocks -> Payload \cup {NoPayload}]]
          /\ \A i \in Inode \ {file[p]} : content'[i] = content[i]
          /\ \A k \in 1..Blocks : k # block[p] => content'[file[p]][k] = content[file[p]][k]
          /\ content'[file[p]][block[p]] = payload
          /\ dirty' \subseteq Inode
          /\ \/ /\ block[p] = Blocks /\ pc'[p] = "sync"
                /\ file'[p] = NoInode /\ src'[p] = NoInode /\ block'[p] = 1
             \/ /\ block[p] < Blocks /\ pc'[p] = pc[p] /\ block'[p] = block[p] + 1
                /\ file'[p] = file[p] /\ src'[p] = src[p]
      BY <1>1, <2>1, CopyBlockFacts
    <2>3. /\ version(p)' = version(p) /\ expected(p)' = expected(p)
          /\ installed(p)' = installed(p) /\ job'[p].image = job[p].image
      BY <1>1, <2>2 DEF version, expected, installed
    <2>4. \A k \in 1..Blocks : k <= block[p] => content'[file[p]][k] = expected(p)
      BY <1>1, <1>2, <2>1, <2>2, InstallerAssumption DEF Progress
    <2>5. available' >= available - 1
      <3>1. \A q \in Process : /\ file'[q] \in {file[q], NoInode}
                               /\ src'[q] \in {src[q], NoInode}
        BY <2>2 DEF CallStep
      <3>2. \A v \in Version : target'[v] = target[v] /\ staging'[v] \in {staging[v], NoInode}
        BY <1>1, <1>4 DEF FilesInv, TypeOK
      <3>3. QED
        BY <1>2, <2>2, <3>1, <3>2, CopyTakesOneBlock
    <2>6. Blocks \in Nat \ {0} /\ available \in Int /\ available' \in Int
      BY AvailableIsCapacityLeft, AvailableIsCapacityLeftNext, InstallerAssumption
    <2>7. CASE block[p] = Blocks
      <3>1. pc'[p] = "sync"
        BY <2>2, <2>6, <2>7
      <3>2. content'[file[p]] = whole(expected(p))
        BY <1>2, <2>2, <2>4, <2>7 DEF whole
      <3>3. Verified(p, installed(p))'
        BY <1>2, <2>3, <3>2 DEF Verified
      <3>4. Progress(p)'
        BY <1>1, <2>2, <2>3, <3>1, <3>3 DEF Progress, CleanedOnFailure
      <3>5. excuse[p] = "none" => Room(p)'
        BY <1>1, <3>1, StaysAlone DEF Room
      <3>6. QED
        BY <1>1, <2>2, <3>4, <3>5 DEF GoodStep
    <2>8. CASE block[p] # Blocks
      <3>1. /\ pc'[p] = "write_target" /\ block'[p] = block[p] + 1 /\ file'[p] = file[p]
            /\ block[p] \in Nat
        BY <1>1, <1>2, <2>2, <2>8
      <3>2. \A k \in 1..Blocks : k < block'[p] => content'[file'[p]][k] = expected(p)'
        BY <2>3, <2>4, <3>1
      <3>3. staged(p)' = staged(p)
        BY <1>1, <1>4, <2>3, <2>8 DEF staged, FilesInv, TypeOK
      <3>4. Verified(p, staged(p))'
        BY <1>1, <1>2, <2>2, <2>3, <3>3 DEF Verified
      <3>5. Progress(p)'
        BY <1>1, <2>2, <2>3, <3>1, <3>2, <3>4 DEF Progress
      <3>6. excuse[p] = "none" => Room(p)'
        BY <1>1, <2>5, <2>6, <3>1, StaysAlone DEF Room
      <3>7. QED
        BY <1>1, <2>2, <3>5, <3>6 DEF GoodStep
    <2>9. QED
      BY <2>7, <2>8
  <1>5. ASSUME disk_full(p, content[src[p]][block[p]])
        PROVE  GoodStep(p)
    <2>1. PICK payload : disk_full(p, payload)
      BY <1>5
    <2>2. QED
      BY <1>1, <2>1, DiskFullIsGood
  <1>6. \/ copy_block(p, expected(p), "sync")
           /\ staging' = [staging EXCEPT ![version(p)] = IF block[p] = Blocks THEN NoInode ELSE @]
        \/ disk_full(p, content[src[p]][block[p]])
    BY <1>3 DEF write_target
  <1>7. QED
    BY <1>4, <1>5, <1>6

\* After the image is in place no room is needed.
LEMMA LaterStepsAreGood ==
    ASSUME NEW p \in Process, Fine(p),
           \/ sync_to_disk(p) \/ verify_installed_artifact(p) \/ open_state(p)
           \/ write_state(p) \/ finish(p)
    PROVE  GoodStep(p)
  <1> USE DEF Fine
  <1>1. /\ job[p].image = expected(p) /\ result[p] # "FAILED" /\ ProperStep(p)
        /\ pc[p] # "idle" /\ excuse[p] # "fault"
    BY SyncStep, VerifyInstalledStep, OpenStateStep, WriteStateStep, FinishStep
       DEF Progress, Working
  <1>2. CASE sync_to_disk(p)
    <2>1. /\ pc[p] = "sync" /\ version(p) \in target_dir /\ Verified(p, installed(p))
          /\ proceed(p, "verify_installed")
          /\ UNCHANGED <<job, result, target_dir, target, content, excuse>>
      BY <1>2 DEF sync_to_disk, Progress, file_vars, data_vars
    <2>2. pc'[p] = "verify_installed" /\ version(p)' = version(p) /\ expected(p)' = expected(p)
          /\ installed(p)' = installed(p)
      BY <2>1 DEF proceed, FilesInv, TypeOK, version, expected, installed
    <2>3. Progress(p)'
      BY <1>1, <2>1, <2>2 DEF Progress, CleanedOnFailure, Verified
    <2>4. excuse[p] = "none" => Room(p)'
      BY <1>1, <2>2, StaysAlone DEF Room
    <2>5. QED
      BY <1>1, <2>1, <2>3, <2>4 DEF GoodStep
  <1>3. CASE verify_installed_artifact(p)
    <2>1. /\ pc[p] = "verify_installed" /\ Verified(p, installed(p))
          /\ proceed(p, "open_state") /\ UNCHANGED <<job, result, excuse>>
      BY <1>3 DEF verify_installed_artifact, Progress, Verified
    <2>2. pc'[p] = "open_state" /\ expected(p)' = expected(p)
      BY <2>1 DEF proceed, FilesInv, TypeOK, expected
    <2>3. Progress(p)'
      BY <1>1, <2>1, <2>2 DEF Progress, CleanedOnFailure
    <2>4. excuse[p] = "none" => Room(p)'
      BY <1>1, <2>2, StaysAlone DEF Room
    <2>5. QED
      BY <1>1, <2>1, <2>3, <2>4 DEF GoodStep
  <1>4. CASE open_state(p)
    <2>1. pc'[p] = "write_state" /\ expected(p)' = expected(p) /\ UNCHANGED <<job, result, excuse>>
      BY <1>4, OpenStateStep DEF open_state, expected
    <2>2. Progress(p)'
      BY <1>1, <2>1 DEF Progress, CleanedOnFailure
    <2>3. excuse[p] = "none" => Room(p)'
      BY <1>1, <2>1, StaysAlone DEF Room
    <2>4. QED
      BY <1>1, <2>1, <2>2, <2>3 DEF GoodStep
  <1>5. CASE write_state(p)
    <2>1. pc'[p] = "cleanup" /\ result'[p] = "INSTALLED" /\ UNCHANGED <<job, excuse>>
          /\ expected(p)' = expected(p)
      BY <1>5, WriteStateStep DEF write_state, expected
    <2>2. Progress(p)'
      BY <1>1, <2>1 DEF Progress, CleanedOnFailure
    <2>3. excuse[p] = "none" => Room(p)'
      BY <1>1, <2>1, StaysAlone DEF Room
    <2>4. QED
      BY <1>1, <2>1, <2>2, <2>3 DEF GoodStep
  <1>6. CASE finish(p)
    BY <1>1, <1>6, FinishStep DEF GoodStep
  <1>7. QED
    BY <1>2, <1>3, <1>4, <1>5, <1>6

LEMMA CallsAreGood ==
    ASSUME SpaceInv, NEW p \in Process, continue(p) \/ crash(p)
    PROVE  ProperStep(p) /\ GoodStep(p)
  <1>1. FilesInv /\ ProperStep(p) /\ Working(p)
    BY ContinueStep DEF SpaceInv, ProperStep
  <1>2. CASE step_fails(p) \/ crash(p)
    BY <1>1, <1>2, StoppedIsGood
  <1>3. CASE continue(p) /\ excuse[p] = "fault"
    BY <1>1, <1>3, FaultsStay
  <1>4. CASE continue(p) /\ excuse[p] # "fault" /\ ~step_fails(p)
    <2>1. Fine(p)
      BY <1>1, <1>4 DEF Fine, SpaceInv
    <2>2. QED
      BY <1>1, <1>4, <2>1, CreateStagingDirIsGood, OpenStagingIsGood, WriteStagingIsGood,
         VerifyStagedIsGood, FinalizeIsGood, WriteTargetIsGood, LaterStepsAreGood DEF continue
  <1>5. QED
    BY <1>1, <1>2, <1>3, <1>4

\* A new call finds the room, and takes it from the calls it overlaps.
LEMMA InstallKeepsSpaceInv ==
    ASSUME SpaceInv, FilesInv', NEW p \in Process, NEW info \in InstallInfo, install(p, info)
    PROVE  SpaceInv'
  <1> USE DEF SpaceInv
  <1>1. /\ pc[p] = "idle"
        /\ excuse' = [q \in Process |->
               IF q = p THEN IF info.image # info.expected_sha256 THEN "fault"
                             ELSE IF being_installed = {} THEN "none" ELSE "overlap"
               ELSE IF pc[q] # "idle" /\ excuse[q] = "none" THEN "overlap" ELSE excuse[q]]
        /\ UNCHANGED <<dirs_exist, staging_dir, target_dir, staging, target, content>>
    BY DEF install, file_vars, data_vars
  <1>2. \/ /\ pc'[p] = "create_staging_dir" /\ job'[p] = info /\ result'[p] = "NOT_READY"
           /\ check_disk_space /\ UNCHANGED <<file, src, block>>
           /\ \A q \in Process \ {p} : pc'[q] = pc[q] /\ job'[q] = job[q] /\ result'[q] = result[q]
        \/ /\ pc'[p] = "idle" /\ result'[p] = "INSUFFICIENT_SPACE"
           /\ \A q \in Process \ {p} :
                  /\ pc'[q] = pc[q] /\ job'[q] = job[q] /\ result'[q] = result[q]
                  /\ file'[q] = file[q] /\ src'[q] = src[q] /\ block'[q] = block[q]
           /\ file'[p] = NoInode /\ src'[p] = NoInode
    BY DEF install, proceed, return, FilesInv, TypeOK
  <1>3. \A q \in Process \ {p} : /\ pc'[q] = pc[q] /\ job'[q] = job[q] /\ result'[q] = result[q]
                                 /\ file'[q] = file[q] /\ block'[q] = block[q]
                                 /\ excuse'[q] = "fault" <=> excuse[q] = "fault"
                                 /\ excuse'[q] = "none" => pc[q] = "idle"
    BY <1>1, <1>2
  <1>4. OnlyFaultsFail'
    BY <1>2, <1>3 DEF OnlyFaultsFail
  <1>5. ASSUME NEW q \in Process, Working(q)', excuse'[q] # "fault"
        PROVE  Progress(q)'
    <2>1. CASE q = p
      BY <1>1, <1>2, <1>5, <2>1 DEF Progress, Working, expected, CleanedOnFailure
    <2>2. CASE q # p
      <3>1. Progress(q)
        BY <1>3, <1>5, <2>2 DEF Working
      <3>2. QED
        BY <1>1, <1>3, <2>2, <3>1 DEF Progress, version, expected, staged, installed, Verified
    <2>3. QED
      BY <2>1, <2>2
  <1>6. ASSUME NEW q \in Process, Working(q)', excuse'[q] = "none"
        PROVE  Room(q)'
    <2>1. q = p /\ being_installed = {} /\ pc'[p] = "create_staging_dir" /\ check_disk_space
          /\ UNCHANGED <<file, src>>
      BY <1>1, <1>2, <1>3, <1>6 DEF Working
    <2>2. \A r \in Process : pc[r] = "idle"
      BY <2>1 DEF being_installed
    <2>3. \A r \in Process : Working(r)' => r = p
      BY <1>3, <2>2 DEF Working
    <2>4. available' >= available
      BY <1>1, <2>1, NothingOpened
    <2>5. available' >= 2 * Blocks
      BY <2>1, <2>4, AvailableIsCapacityLeft, AvailableIsCapacityLeftNext, InstallerAssumption
         DEF check_disk_space
    <2>6. QED
      BY <2>1, <2>3, <2>5 DEF Room
  <1>7. QED
    BY <1>4, <1>5, <1>6

LEMMA CleanupsKeepSpaceInv ==
    ASSUME SpaceInv, FilesInv', NEW v \in Version, cleanup_staging(v) \/ cleanup_install_target(v)
    PROVE  SpaceInv'
  <1> USE DEF SpaceInv
  <1>1. /\ v \notin being_installed
        /\ UNCHANGED <<content, pc, job, file, src, block, result, excuse>>
        /\ \A w \in Version \ {v} :
               /\ staging'[w] = staging[w] /\ target'[w] = target[w]
               /\ w \in staging_dir => w \in staging_dir'
               /\ w \in target_dir => w \in target_dir'
        /\ \A w \in Version :
               staging'[w] \in {staging[w], NoInode} /\ target'[w] \in {target[w], NoInode}
    BY DEF cleanup_staging, cleanup_install_target, remove_staging, data_vars, call_vars,
           FilesInv, TypeOK
  <1>2. ASSUME NEW p \in Process, Working(p), Progress(p)
        PROVE  Progress(p)'
    <2>1. version(p) \in Version \ {v}
      BY <1>1, <1>2, WorkersHaveJobs DEF being_installed, Working
    <2>2. /\ staged(p)' = staged(p) /\ installed(p)' = installed(p)
          /\ version(p)' = version(p) /\ expected(p)' = expected(p)
      BY <1>1, <2>1 DEF staged, installed, version, expected
    <2>3. QED
      BY <1>1, <1>2, <2>1, <2>2 DEF Progress, Verified
  <1>3. available' >= available
    BY <1>1, SpaceKept, InstallerAssumption DEF Holds, in_use
  <1>4. ASSUME NEW p \in Process, Working(p), Room(p)
        PROVE  Room(p)'
    <2>1. available \in Int /\ available' \in Int /\ Blocks \in Nat /\ block[p] \in Nat
      BY AvailableIsCapacityLeft, AvailableIsCapacityLeftNext, InstallerAssumption
         DEF FilesInv, TypeOK
    <2>2. QED
      BY <1>1, <1>3, <1>4, <2>1 DEF Room, Working
  <1>5. QED
    BY <1>1, <1>2, <1>4 DEF Working, OnlyFaultsFail

LEMMA PowerLossKeepsSpaceInv ==
    ASSUME SpaceInv, FilesInv', power_loss
    PROVE  SpaceInv'
  BY DEF SpaceInv, power_loss, OnlyFaultsFail, Working

LEMMA WriteBackKeepsSpaceInv ==
    ASSUME SpaceInv, FilesInv', write_back \/ UNCHANGED vars
    PROVE  SpaceInv'
  <1> USE DEF SpaceInv
  <1>1. UNCHANGED <<file_vars, content, call_vars>>
    BY DEF write_back, vars, data_vars
  <1>2. available' = available
    BY <1>1 DEF available, in_use, file_vars, call_vars
  <1>3. \A p \in Process : Progress(p) => Progress(p)'
    BY <1>1 DEF Progress, Verified, staged, installed, version, expected, file_vars, call_vars
  <1>4. \A p \in Process : Room(p) => Room(p)'
    BY <1>1, <1>2 DEF Room, Working, call_vars
  <1>5. QED
    BY <1>1, <1>3, <1>4 DEF Working, OnlyFaultsFail, call_vars

(* The inductive invariant of the space check: a call nothing went wrong for  *)
(* has copied and verified what its step says, and, while no other call       *)
(* overlaps, still finds the room for what is left to copy.                   *)
THEOREM SpaceInvariant ==
    ASSUME NoSharedVersion
    PROVE  Spec => []SpaceInv
  <1>1. Init => SpaceInv
    BY FilesInitially DEF SpaceInv, Init, OnlyFaultsFail, Working
  <1>2. SpaceInv /\ [Next]_vars => SpaceInv'
    <2> SUFFICES ASSUME SpaceInv, [Next]_vars
                 PROVE  SpaceInv'
      OBVIOUS
    <2>1. FilesInv'
      BY FilesInvIsKept DEF SpaceInv
    <2>2. ASSUME NEW p \in Process, continue(p) \/ crash(p)
          PROVE  SpaceInv'
      BY <2>1, <2>2, CallsAreGood, GoodStepsKeepSpaceInv
    <2>3. QED
      BY <2>1, <2>2, InstallKeepsSpaceInv, CleanupsKeepSpaceInv, PowerLossKeepsSpaceInv,
         WriteBackKeepsSpaceInv DEF Next
  <1>3. QED
    BY <1>1, <1>2, PTL DEF Spec

(* A call of install with the right image that passes the space check fails   *)
(* only where a fault hits that call, or an overlapping call fills the disk:  *)
(* what failed, killed or powered-off calls left behind never stops a retry,  *)
(* and twice the image is room enough for the copy in the staging directory   *)
(* and the one under the target.                                              *)
THEOREM RetriesSucceed ==
    ASSUME NoSharedVersion
    PROVE  Spec => []OnlyFaultsFail
  <1>1. SpaceInv => OnlyFaultsFail
    BY DEF SpaceInv
  <1>2. QED
    BY <1>1, SpaceInvariant, PTL
=============================================================================
