------------------------------ MODULE Installer ------------------------------
(***************************************************************************)
(* InstallManager (src/installation/installer.cpp): install, one file      *)
(* operation at a time, run by processes (`ota-cli install`) that share    *)
(* the state directory and take no lock.                                   *)
(*                                                                         *)
(* An image is Blocks blocks of one payload, whose identity stands for its *)
(* SHA-256.  Paths hold inodes: rename moves a name, a process keeps       *)
(* writing the inode it opened.  Verification reads a file in one step.    *)
(***************************************************************************)
EXTENDS Naturals, FiniteSets

CONSTANTS
    Process,
    Version, Payload,
    Release,        \* <<version, payload>> pairs: the hashes callers expect
    Blocks,         \* blocks of an image
    Inode, NoInode, NoPayload, NoJob,
    Capacity,       \* blocks of the file system
    Margin,         \* config_.min_free_space_mb, in blocks
    Overlap,        \* calls that may overlap: "none", those of different "versions", or "any"
    DirsExist,      \* the staging and target directories were created beforehand
    RenameWorks,    \* staging and target are under one mount: rename does not fail
    Calls,          \* bound: optional calls
    Faults          \* what may go wrong: subset of FaultKinds

FaultKinds == {"io", "cancel", "crash", "power"}
CallKinds == {"cleanup_staging", "cleanup_install_target"}

ASSUME InstallerAssumption ==
    /\ Release \subseteq Version \X Payload
    /\ Blocks \in Nat \ {0}
    /\ IsFiniteSet(Inode)
    /\ NoInode \notin Inode
    /\ NoPayload \notin Payload
    /\ Capacity \in Nat /\ Margin \in Nat
    /\ Overlap \in {"none", "versions", "any"}
    /\ DirsExist \in BOOLEAN /\ RenameWorks \in BOOLEAN
    /\ Calls \subseteq CallKinds
    /\ Faults \subseteq FaultKinds

VARIABLES
    \* the file system
    dirs_exist,   \* staging_dir or install_target exists
    staging_dir,  \* versions with a directory under staging_dir
    target_dir,   \* versions with a directory under install_target
    staging,      \* inode of staging/<version>/image.bin
    target,       \* inode of install-target/<version>/image.bin
    content,      \* blocks of each inode
    dirty,        \* inodes the kernel has not yet written to the disk
    state_file,   \* sha256 in installation_<version>.json; NoPayload: missing or empty
    state_dirty,  \* versions whose state file the kernel has not yet written
    \* each process
    pc,           \* next step of install
    job,          \* InstallInfo of the running call
    file, src,    \* inodes the running call writes and copies from
    block,        \* next block it copies
    result,       \* InstallResult of the last call, or of the running one once decided
    excuse        \* observer: "fault" hit the call or its image, or ran into a disk filled by
                  \* an "overlap" with another call

file_vars == <<dirs_exist, staging_dir, target_dir, staging, target>>
data_vars == <<content, dirty>>
state_vars == <<state_file, state_dirty>>
call_vars == <<pc, job, file, src, block, result, excuse>>
vars == <<file_vars, data_vars, state_vars, call_vars>>

whole(h) == [k \in 1..Blocks |-> h]
blank == whole(NoPayload)

\* InstallInfo; expected_size is the size of the image.
InstallInfo == [version : Version, image : Payload, expected_sha256 : Payload]

CleanedOnFailure == {"open_staging", "write_staging", "verify_staged", "finalize", "write_target"}
LeftOnFailure == {"create_staging_dir", "sync", "verify_installed", "open_state"}
CallbackBefore == {"create_staging_dir", "open_staging", "verify_staged", "finalize", "sync",
                   "verify_installed"}
Steps == CleanedOnFailure \cup LeftOnFailure \cup {"idle", "write_state", "cleanup"}
Results == {"NOT_READY", "INSTALLED", "INSUFFICIENT_SPACE", "FAILED"}

TypeOK ==
    /\ dirs_exist \in BOOLEAN
    /\ staging_dir \subseteq Version
    /\ target_dir \subseteq Version
    /\ staging \in [Version -> Inode \cup {NoInode}]
    /\ target \in [Version -> Inode \cup {NoInode}]
    /\ content \in [Inode -> [1..Blocks -> Payload \cup {NoPayload}]]
    /\ dirty \subseteq Inode
    /\ state_file \in [Version -> Payload \cup {NoPayload}]
    /\ state_dirty \subseteq Version
    /\ pc \in [Process -> Steps]
    /\ job \in [Process -> InstallInfo \cup {NoJob}]
    /\ \A p \in Process : IF pc[p] = "idle" THEN job[p] = NoJob ELSE job[p] \in InstallInfo
    /\ file \in [Process -> Inode \cup {NoInode}]
    /\ src \in [Process -> Inode \cup {NoInode}]
    /\ block \in [Process -> 1..Blocks]
    /\ result \in [Process -> Results]
    /\ excuse \in [Process -> {"none", "overlap", "fault"}]

Init ==
    /\ dirs_exist = DirsExist
    /\ staging_dir = {} /\ target_dir = {}
    /\ staging = [v \in Version |-> NoInode]
    /\ target = [v \in Version |-> NoInode]
    /\ content = [i \in Inode |-> blank]
    /\ dirty = {}
    /\ state_file = [v \in Version |-> NoPayload]
    /\ state_dirty = {}
    /\ pc = [p \in Process |-> "idle"]
    /\ job = [p \in Process |-> NoJob]
    /\ file = [p \in Process |-> NoInode]
    /\ src = [p \in Process |-> NoInode]
    /\ block = [p \in Process |-> 1]
    /\ result = [p \in Process |-> "NOT_READY"]
    /\ excuse = [p \in Process |-> "none"]

-----------------------------------------------------------------------------
(* Files. *)

version(p) == job[p].version
expected(p) == job[p].expected_sha256
staged(p) == staging[version(p)]
installed(p) == target[version(p)]

in_use(i) ==
    \/ \E v \in Version : i \in {staging[v], target[v]}
    \/ \E p \in Process : i \in {file[p], src[p]}

mark_dirty(i) == dirty' = IF "power" \in Faults THEN dirty \cup {i} ELSE dirty

available ==
    Capacity - Cardinality({b \in {i \in Inode : in_use(i)} \X (1..Blocks) :
                               content[b[1]][b[2]] # NoPayload})

\* Opening a path for writing: its inode, or a new one.
opened(i, named) == IF named = NoInode THEN ~in_use(i) ELSE i = named

\* Mutant: room for one copy of the image.
space_for_one_copy == dirs_exist /\ available >= Blocks + Margin

\* check_disk_space: statvfs fails on directories that do not exist.
check_disk_space == dirs_exist /\ available >= 2 * Blocks + Margin

-----------------------------------------------------------------------------
(* install. *)

\* The end of a call, and a failure that removes the staging directory first.
return(p, status) ==
    /\ pc' = [pc EXCEPT ![p] = "idle"]
    /\ job' = [job EXCEPT ![p] = NoJob]
    /\ file' = [file EXCEPT ![p] = NoInode]
    /\ src' = [src EXCEPT ![p] = NoInode]
    /\ block' = [block EXCEPT ![p] = 1]
    /\ result' = [result EXCEPT ![p] = status]

clean_up(p, status) ==
    /\ pc' = [pc EXCEPT ![p] = "cleanup"]
    /\ file' = [file EXCEPT ![p] = NoInode]
    /\ src' = [src EXCEPT ![p] = NoInode]
    /\ block' = [block EXCEPT ![p] = 1]
    /\ result' = [result EXCEPT ![p] = status]
    /\ UNCHANGED job

proceed(p, step) == pc' = [pc EXCEPT ![p] = step]

being_installed == {version(p) : p \in {q \in Process : pc[q] # "idle"}}

may_start(v) ==
    /\ Overlap = "none" => being_installed = {}
    /\ Overlap = "versions" => v \notin being_installed

\* The checks of the arguments and of the free space.
install(p, info) ==
    /\ pc[p] = "idle"
    /\ <<info.version, info.expected_sha256>> \in Release
    /\ may_start(info.version)
    /\ excuse' = [q \in Process |->
           IF q = p THEN IF info.image # info.expected_sha256 THEN "fault"
                         ELSE IF being_installed = {} THEN "none" ELSE "overlap"
           ELSE IF pc[q] # "idle" /\ excuse[q] = "none" THEN "overlap" ELSE excuse[q]]
    /\ IF check_disk_space
       THEN /\ proceed(p, "create_staging_dir")
            /\ job' = [job EXCEPT ![p] = info]
            /\ result' = [result EXCEPT ![p] = "NOT_READY"]
            /\ UNCHANGED <<file, src, block>>
       ELSE return(p, "INSUFFICIENT_SPACE")
    /\ UNCHANGED <<file_vars, data_vars, state_vars>>

\* Mutant: mkdir must not find the directory of an earlier call.
create_new_staging_dir(p) ==
    /\ pc[p] = "create_staging_dir"
    /\ dirs_exist' = TRUE
    /\ staging_dir' = staging_dir \cup {version(p)}
    /\ IF version(p) \in staging_dir
       THEN return(p, "FAILED")
       ELSE proceed(p, "open_staging") /\ UNCHANGED <<job, file, src, block, result>>
    /\ UNCHANGED <<target_dir, staging, target, data_vars, state_vars, excuse>>

create_staging_dir(p) ==
    /\ pc[p] = "create_staging_dir"
    /\ dirs_exist' = TRUE
    /\ staging_dir' = staging_dir \cup {version(p)}
    /\ proceed(p, "open_staging")
    /\ UNCHANGED <<target_dir, staging, target, data_vars, state_vars, job, file, src, block,
                   result, excuse>>

\* copy_to_staging: what an earlier call left is truncated.
open_staging(p) ==
    /\ pc[p] = "open_staging"
    /\ IF version(p) \notin staging_dir
       THEN /\ clean_up(p, "FAILED")
            /\ UNCHANGED <<staging, data_vars>>
       ELSE \E i \in Inode :
               /\ opened(i, staged(p))
               /\ staging' = [staging EXCEPT ![version(p)] = i]
               /\ file' = [file EXCEPT ![p] = i]
               /\ proceed(p, "write_staging")
               /\ UNCHANGED <<job, src, block, result>>
               /\ content' = [content EXCEPT ![i] = blank]
               /\ mark_dirty(i)
    /\ UNCHANGED <<dirs_exist, staging_dir, target_dir, target, state_vars, excuse>>

\* Mutant: the copy does not stop at the last block.
copy_past_end(p, payload, next) ==
    /\ payload = NoPayload \/ content[file[p]][block[p]] # NoPayload \/ available > 0
    /\ block' = [block EXCEPT ![p] = @ + 1]
    /\ content' = [content EXCEPT ![file[p]][block[p]] = payload]
    /\ mark_dirty(file[p])
    /\ UNCHANGED <<pc, file, src, job, result, excuse>>

\* Writes the next block of a copy, if the disk has room for it.
copy_block(p, payload, next) ==
    /\ payload = NoPayload \/ content[file[p]][block[p]] # NoPayload \/ available > 0
    /\ IF block[p] = Blocks
       THEN /\ proceed(p, next)
            /\ file' = [file EXCEPT ![p] = NoInode]
            /\ src' = [src EXCEPT ![p] = NoInode]
            /\ block' = [block EXCEPT ![p] = 1]
       ELSE /\ block' = [block EXCEPT ![p] = @ + 1]
            /\ UNCHANGED <<pc, file, src>>
    /\ content' = [content EXCEPT ![file[p]][block[p]] = payload]
    /\ mark_dirty(file[p])
    /\ UNCHANGED <<job, result, excuse>>

disk_full(p, payload) ==
    /\ payload # NoPayload /\ content[file[p]][block[p]] = NoPayload /\ available = 0
    /\ clean_up(p, "FAILED")
    /\ excuse' = [excuse EXCEPT ![p] = IF @ = "overlap" THEN "fault" ELSE @]
    /\ UNCHANGED data_vars

write_staging(p) ==
    /\ pc[p] = "write_staging"
    /\ \/ copy_block(p, job[p].image, "verify_staged")
       \/ disk_full(p, job[p].image)
    /\ UNCHANGED <<file_vars, state_vars>>

\* Mutant: the staged image is not verified.
verify_nothing(p) ==
    /\ pc[p] = "verify_staged"
    /\ proceed(p, "finalize")
    /\ UNCHANGED <<file_vars, data_vars, state_vars, job, file, src, block, result, excuse>>

verify_staged_artifact(p) ==
    /\ pc[p] = "verify_staged"
    /\ IF staged(p) # NoInode /\ content[staged(p)] = whole(expected(p))
       THEN proceed(p, "finalize") /\ UNCHANGED <<job, file, src, block, result>>
       ELSE clean_up(p, "FAILED")
    /\ UNCHANGED <<file_vars, data_vars, state_vars, excuse>>

\* Mutant: the image is copied into place even where it could be renamed.
finalize_by_copy(p) ==
    /\ pc[p] = "finalize"
    /\ target_dir' = target_dir \cup {version(p)}
    /\ dirs_exist' = TRUE
    /\ IF staged(p) = NoInode
       THEN clean_up(p, "FAILED") /\ UNCHANGED <<target, data_vars>>
       ELSE \E i \in Inode :
               /\ opened(i, installed(p))
               /\ target' = [target EXCEPT ![version(p)] = i]
               /\ file' = [file EXCEPT ![p] = i]
               /\ src' = [src EXCEPT ![p] = staged(p)]
               /\ proceed(p, "write_target")
               /\ UNCHANGED <<job, block, result>>
               /\ content' = [content EXCEPT ![i] = blank]
               /\ mark_dirty(i)
    /\ UNCHANGED <<staging_dir, staging, state_vars, excuse>>

\* finalize_installation: rename, which replaces an installed image at once;
\* where rename fails, a copy that truncates the installed image first.
finalize_installation(p) ==
    /\ pc[p] = "finalize"
    /\ target_dir' = target_dir \cup {version(p)}
    /\ dirs_exist' = TRUE
    /\ IF staged(p) = NoInode
       THEN /\ clean_up(p, "FAILED")
            /\ UNCHANGED <<staging, target, data_vars>>
       ELSE IF RenameWorks
       THEN /\ target' = [target EXCEPT ![version(p)] = staged(p)]
            /\ staging' = [staging EXCEPT ![version(p)] = NoInode]
            /\ proceed(p, "sync")
            /\ UNCHANGED <<data_vars, job, file, src, block, result>>
       ELSE \E i \in Inode :
               /\ opened(i, installed(p))
               /\ target' = [target EXCEPT ![version(p)] = i]
               /\ file' = [file EXCEPT ![p] = i]
               /\ src' = [src EXCEPT ![p] = staged(p)]
               /\ proceed(p, "write_target")
               /\ UNCHANGED <<staging, job, block, result>>
               /\ content' = [content EXCEPT ![i] = blank]
               /\ mark_dirty(i)
    /\ UNCHANGED <<staging_dir, state_vars, excuse>>

\* The last block of the copy is followed by the removal of the staged file.
write_target(p) ==
    /\ pc[p] = "write_target"
    /\ LET payload == content[src[p]][block[p]]
       IN  \/ /\ copy_block(p, payload, "sync")
              /\ staging' = [staging EXCEPT
                     ![version(p)] = IF block[p] = Blocks THEN NoInode ELSE @]
           \/ disk_full(p, payload) /\ UNCHANGED staging
    /\ UNCHANGED <<dirs_exist, staging_dir, target_dir, target, state_vars>>

\* sync_to_disk(target_path): the fsync of a directory, which writes the name
\* of the image to the disk and not its blocks.
sync_to_disk(p) ==
    /\ pc[p] = "sync"
    /\ IF version(p) \in target_dir
       THEN proceed(p, "verify_installed") /\ UNCHANGED <<job, file, src, block, result>>
       ELSE return(p, "FAILED")
    /\ UNCHANGED <<file_vars, data_vars, state_vars, excuse>>

verify_installed_artifact(p) ==
    /\ pc[p] = "verify_installed"
    /\ IF installed(p) # NoInode /\ content[installed(p)] = whole(expected(p))
       THEN proceed(p, "open_state") /\ UNCHANGED <<job, file, src, block, result>>
       ELSE return(p, "FAILED")
    /\ UNCHANGED <<file_vars, data_vars, state_vars, excuse>>

state_dirty_with(v) == IF "power" \in Faults THEN state_dirty \cup {v} ELSE {}

\* save_installation_state: the state file is truncated, ...
open_state(p) ==
    /\ pc[p] = "open_state"
    /\ state_file' = [state_file EXCEPT ![version(p)] = NoPayload]
    /\ state_dirty' = state_dirty_with(version(p))
    /\ proceed(p, "write_state")
    /\ UNCHANGED <<file_vars, data_vars, job, file, src, block, result, excuse>>

\* ... and written when the stream is closed, after its state was examined: a
\* failure to write goes unreported.
write_state(p) ==
    /\ pc[p] = "write_state"
    /\ \/ /\ state_file' = [state_file EXCEPT ![version(p)] = expected(p)]
          /\ state_dirty' = state_dirty_with(version(p))
       \/ "io" \in Faults /\ UNCHANGED state_vars
    /\ clean_up(p, "INSTALLED")
    /\ UNCHANGED <<file_vars, data_vars, excuse>>

\* cleanup_staging, whose failures go unreported; the call then returns.
remove_staging(v) ==
    \/ /\ staging' = [staging EXCEPT ![v] = NoInode]
       /\ staging_dir' = staging_dir \ {v}
    \/ "io" \in Faults /\ UNCHANGED <<staging, staging_dir>>

finish(p) ==
    /\ pc[p] = "cleanup"
    /\ remove_staging(version(p))
    /\ return(p, result[p])
    /\ UNCHANGED <<data_vars, dirs_exist, target_dir, target, state_vars, excuse>>

\* An operation fails, or the progress callback asks to stop before it.
step_fails(p) ==
    /\ "io" \in Faults \/ ("cancel" \in Faults /\ pc[p] \in CallbackBefore)
    /\ \/ pc[p] \in CleanedOnFailure /\ clean_up(p, "FAILED")
       \/ pc[p] \in LeftOnFailure /\ return(p, "FAILED")
    /\ excuse' = [excuse EXCEPT ![p] = "fault"]
    /\ UNCHANGED <<file_vars, data_vars, state_vars>>

-----------------------------------------------------------------------------
(* Other calls, crashes and power losses. *)

cleanup_staging(v) ==
    /\ "cleanup_staging" \in Calls /\ v \notin being_installed
    /\ v \in staging_dir
    /\ remove_staging(v)
    /\ UNCHANGED <<data_vars, dirs_exist, target_dir, target, state_vars, call_vars>>

\* Leaves the state file as it is.
cleanup_install_target(v) ==
    /\ "cleanup_install_target" \in Calls /\ v \notin being_installed
    /\ v \in target_dir
    /\ target' = [target EXCEPT ![v] = NoInode]
    /\ target_dir' = target_dir \ {v}
    /\ UNCHANGED <<data_vars, dirs_exist, staging_dir, staging, state_vars, call_vars>>

crash(p) ==
    /\ "crash" \in Faults
    /\ pc[p] # "idle"
    /\ return(p, "NOT_READY")
    /\ excuse' = [excuse EXCEPT ![p] = "none"]
    /\ UNCHANGED <<data_vars, file_vars, state_vars>>

\* Names are not set back: the state file keeps its own, it is written only once
\* sync_to_disk has brought the name of the image to the disk, and to set a
\* name back before that leaves the files of an earlier loss of power.
power_loss ==
    /\ "power" \in Faults
    /\ pc' = [p \in Process |-> "idle"]
    /\ job' = [p \in Process |-> NoJob]
    /\ file' = [p \in Process |-> NoInode]
    /\ src' = [p \in Process |-> NoInode]
    /\ block' = [p \in Process |-> 1]
    /\ result' = [p \in Process |-> "NOT_READY"]
    /\ \E lost \in SUBSET dirty, lost_state \in SUBSET state_dirty :
          /\ content' = [i \in Inode |-> IF i \in lost THEN blank ELSE content[i]]
          /\ state_file' = [v \in Version |-> IF v \in lost_state THEN NoPayload ELSE state_file[v]]
    /\ excuse' = [p \in Process |-> "none"]
    /\ dirty' = {} /\ state_dirty' = {}
    /\ UNCHANGED file_vars

write_back ==
    /\ \/ \E i \in dirty : dirty' = dirty \ {i} /\ UNCHANGED state_dirty
       \/ \E v \in state_dirty : state_dirty' = state_dirty \ {v} /\ UNCHANGED dirty
    /\ UNCHANGED <<file_vars, content, state_file, call_vars>>

continue(p) ==
    \/ create_staging_dir(p)
    \/ open_staging(p)
    \/ write_staging(p)
    \/ verify_staged_artifact(p)
    \/ finalize_installation(p)
    \/ write_target(p)
    \/ sync_to_disk(p)
    \/ verify_installed_artifact(p)
    \/ open_state(p)
    \/ write_state(p)
    \/ finish(p)
    \/ step_fails(p)

Next ==
    \/ \E p \in Process :
          \/ \E info \in InstallInfo : install(p, info)
          \/ continue(p)
          \/ crash(p)
    \/ \E v \in Version : cleanup_staging(v) \/ cleanup_install_target(v)
    \/ power_loss \/ write_back

Spec == Init /\ [][Next]_vars

-----------------------------------------------------------------------------
(* Properties. *)

\* An installed image is always one whole payload that some caller expected
\* for that version, in the middle of a reinstallation and after any crash:
\* it is verified in the staging directory and moved into place by rename.
TargetNeverTorn ==
    \A v \in Version :
        target[v] # NoInode => \E r \in Release : r[1] = v /\ content[target[v]] = whole(r[2])

\* installation_<version>.json never names an image that is not, whole, under
\* the install target ("No false success state is reported"); where a version
\* was released with several images, it may still name one of the others.
RecordedImageIntact ==
    \A v \in Version :
        state_file[v] # NoPayload
            => \E r \in Release :
                  /\ r[1] = v /\ target[v] # NoInode /\ content[target[v]] = whole(r[2])
                  /\ (\A q \in Release : q[1] = v => q = r) => r[2] = state_file[v]

\* A call that passed the space check and whose image is the expected one
\* fails only when a fault hits that very call, or an overlapping call fills
\* the disk: what a failed, killed or powered-off call left in the staging
\* directory, under the target or in the state file never stops a retry, and
\* the room check_disk_space asks for is enough for both copies.
OnlyFaultsFail == \A p \in Process : result[p] = "FAILED" => excuse[p] = "fault"

\* The image and the record of each version, seen as values, behave as
\* InstallTarget says.
image_of(v) == IF target[v] = NoInode THEN NoPayload ELSE content[target[v]][1]

Target == INSTANCE InstallTarget WITH
    image <- [v \in Version |-> image_of(v)],
    record <- state_file

ImplementsInstallTarget == Target!Spec
=============================================================================
