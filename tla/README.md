# Verification of embedded-linux-ota

TLA+ specifications of the A/B over-the-air update client in this repository and of its server,
the TLC configurations that check them on small instances, and TLAPS proofs of the properties that
matter most. Source paths below are relative to the repository; in `PROJECT.json` they carry the
prefix `src/`.

## 1. The system

| component | state it keeps | operations | meets |
|---|---|---|---|
| transaction state machine `src/transaction/transaction_state_machine.cpp` | the transition table | `can_transition`, `transition_to`, `is_active` | consulted by the transaction manager |
| transaction manager `src/transaction/transaction_manager.cpp` | the record in memory, `transaction.json`, its `.tmp`, the history directory, the fcntl lock | `acquire_lock`, `release_lock`, `create_transaction`, `update_*`, `complete_transaction`, `record_failure`, `abort_transaction`, `load_transaction`, history | other processes, through the files and the lock |
| installer `src/installation/installer.cpp` | staging directory, target file, `installation_<version>.json` | `install`, `cleanup_staging`, `cleanup_install_target` | the command line tool; other processes through the files, without a lock |
| slot manager `src/slot/slot_manager.cpp` | two slot records and the active slot, in memory and in three files | `initialize_slots`, `prepare_inactive_slot`, `switch_active_slot`, `validate_slot*`, setters, load | other processes through the files; boot control decides what really boots |
| boot control `src/boot/simulated_boot_control.cpp`, command `boot` | current and next boot slot, attempts, `boot_state.json` | `initialize`, `set_next_boot_slot`, `clear_next_boot_slot`, `simulate_boot`, `reset_boot_attempt_count` | bootloader (optional), slot manager; other commands, through the file and its `.tmp` |
| bootloader `src/boot/bootloader/simulated_bootloader.cpp`, command `bootloader` | its own copy of the same, `bootloader_state.json` | the same, plus `mark_boot_started` | boot control; other commands likewise |
| update manager, response parser `src/client/` | the device configuration | `check_for_update`, `download_update`, `compare_versions`, parsing and validation | server, download manager |
| HTTP client, download manager `src/network/`, `src/download/` | the file `<version>.img` | `get` and `download` with retries | server; other commands through the file |
| integrity validator `src/validation/` | none | size and digest of a file | command line tool |
| signature verifier `src/security/`, with the command `verify-signature` | none; `/tmp/ota_canonical_metadata.json` while a command runs | read metadata and signature, canonicalize, `verify_signature` | the release directory; other commands, through that one file |
| release signing `scripts/sign-release` | `metadata.sig`, the field `signature` of `metadata.json` | canonicalize, sign, store, rewrite the metadata in place | the directory that `create_release.py` makes and replaces |
| device configuration and state `src/device/`, `src/main.cpp` | `state.conf` | load, initialise; the service loop | |
| command line tool `src/cli_main.cpp` | none | `verify`, `verify-signature`, `install`, `check`, `download`, `status`, `history`, `slots`, `boot`, `bootloader` | drives everything, one process per command |
| server `ota-server/server/`, script `ota-server/scripts/create_release.py` | release metadata, cached at start; image files, read when asked for | `load_releases`, `find_update`, image download; replace a release in place | clients |
| logger, scripts, units, keys | | output and deployment | |

What is hard here, in the order it matters: (1) files written in several steps, each of which a
kill, a failing operation or a loss of power may interrupt; (2) processes that share those files,
with a lock that only transactions take; (3) two or three files that must agree (slot records, boot
state and bootloader state, installation record and image, release metadata and image) and are
written one after the other; (4) memory that runs ahead of, or behind, the file it mirrors;
(5) attempts that are repeated over what the last one left; (6) bounded things at their bound (the
history, the disk, an int); (7) temporary files of a fixed name, which commands that overlap
truncate, rename and remove under each other. `PROJECT.json` lists these hazards line by line with
the properties that would catch each one.

Per component, correct means:

- transactions: one durable record, whole at any time, whose state follows the table; one writer;
  a history that says nothing false, forgets no outcome, and stays bounded;
- installer: what an installation record calls installed is on the disk and is the verified image;
  an image is replaced at once or not at all; what a failed call leaves stops no retry;
- slots: the active slot is not overwritten nor forgotten; a torn switch is noticed, and repaired
  by the next one;
- boot: a selection that was acknowledged survives until it is used, replaced or cleared; it is
  used once; attempts count every boot; memory agrees with the record; whatever commands overlap,
  the record counts no boot that did not happen and selects nothing that was not selected;
- signatures: what is called valid was signed as it lay there; what was signed to the end is
  accepted, whatever was killed before;
- update: what is accepted was released completely for this device and is newer; nothing partial
  stays behind; server and client agree on what an update is; a command ends.

## 2. Modules

| module | models | state and actions in the code |
|---|---|---|
| `TransactionStateMachine` | the table, as operators | `valid_transitions_`, `can_transition` |
| `TransactionLifecycle` | abstract: one durable record, begun in IDLE, moved along the table | what a reader of `transaction.json` may assume |
| `TransactionLock` | the fcntl lock and the fields `lock_fd_`, `owns_lock_` | `acquire_lock`, `release_lock`, constructor, destructor |
| `TransactionManager` | extends the two; record, files, history, crashes | each public call is one action up to its first file operation; open, write and rename of `transaction.json.tmp`, and listing, clearing and saving of the history, are actions of their own |
| `InstallTarget` | abstract: image and record of each version | what a reader of the target directory may assume |
| `Installer` | `install`, one file operation per action | one `pc` value per operation; inodes, blocks, free space, the copying fallback of rename |
| `SlotManager` | the three files and the memory of each manager | a write of a file is one action (it is a rename); `to_write` holds what the running call has still to write; `latest` and `earlier`, what a loss of power may leave |
| `BootSelection` | abstract: the running slot, the selection, the counts | what the operator is told |
| `BootStates` | what both boot modules hold and change, as operators | `BootState` and its counterpart in the bootloader; the assignments of select, clear and boot |
| `BootControl` | boot control alone, or with the bootloader behind it | one process at a time; `persist` of each of the two files is one action |
| `BootCommands` | the commands `boot` and `bootloader` as processes over one file | load, change, open of the shared `.tmp`, write (which a full disk may lose unnoticed), rename, report: an action each; `at` says which name the open descriptor's file has now |
| `Versions` | the orders of the server (Python integers) and of the client (int, and what `>>` leaves on overflow) | `is_newer_version`, `compare_versions` |
| `ReleaseServer` | releases directory, server cache, the script | `create_release` with its `rmtree` file by file and in any order, `load_releases` release by release with a step for each check or read of a file; `find_update`, `handle_image_download` as operators the client calls |
| `UpdateClient` | extends the two: the command `download` as processes over the shared file | one action per request, `fopen`, received block, failure and check; `linked` says whether the open descriptor is still the file of that name |
| `ReleaseSigning` | one release directory with its two writers | `create_release.py` replacing it and `sign-release`, one file operation per action, each killed anywhere |
| `SignatureCheck` | extends it: `verify-signature` as processes with one temporary file, on this directory (`here`) or on another, whose metadata is one of `Elsewhere` | two reads, open, write, python, unlink, verdict; the order of the checks of `verify_signature` |
| `TransactionLockProofs`, `TransactionManagerProofs`, `InstallerProofs`, `SlotManagerProofs`, `BootControlProofs`, `BootCommandsProofs`, `UpdateClientProofs`, `SignatureCheckProofs` | proofs about the module each is named after | |
| `MC*` | values for TLC | |

Definitions commented *Mutant* are plausible wrong versions of the definition below them; they are
in no specification and only show that a property notices the mistake.

Abstractions.

- *Transactions.* A record keeps its identifier, its state and the transaction its `download_path`
  was set for, which stands for the fields that `create_transaction` clears. The other fields are
  not kept; their setters still persist the record. Files are inodes,
  so a writer that lost the name of its file is represented; a file is empty or holds one record,
  because a record goes out in one buffered write. An empty history file is skipped by
  `load_history`, so it is modelled as absent. Timestamps are a clock that ticks at will. A listing
  of the history that fails, or entries that cannot be read, leave a shorter history in memory, with
  which the call goes on, as in the code: `list_history` chooses any part of the directory, and
  `overlooked` notes that it was not the whole.
- *Installer.* An image is `Blocks` blocks of one payload, whose identity is its digest. Checks of
  version strings and paths are functions of the arguments and left out.
- *Slots.* Hardware version and digest of a slot are not kept; their setters still write all three
  files again. Setters of the state and the version act on the inactive slot.
- *Boot.* In `BootControl` the state of the slots enters as a choice made when a slot is selected;
  in `BootCommands` another process changes it. A behaviour of `BootCommands` is about one of the
  two tools, whose files never meet. Texts of one file differ by a character or two after the
  closing brace, which the reader does not look at, so a write over another leaves the newer state.
- *Signatures.* A signature is the canonical data and the key it was made from. Metadata is a body,
  which stands for the image it describes, and the field `signature`. Where two writers hold one
  file, the shorter text over the longer leaves a tail, and Python refuses the whole (`Garbled`). Of
  a directory other than the modelled one a command takes only its metadata, valid or not, into the
  temporary file all commands share; its own verdict is not looked at. The format checks of base64
  always succeed, as the command encodes the bytes itself.
- *Update.* An image is a sequence of blocks named after it, its digest the sequence. A hole left
  by a truncation is a block of its own. The text of requests and answers is reduced to its fields.
  `max_download_size` does not appear: its test sits in a progress callback that libcurl calls only
  when `CURLOPT_NOPROGRESS` is 0, and nothing sets that.

The environment is explicit. `Faults` says what may go wrong: `io` or `full` (a file operation
fails), `cancel` (the progress callback says no), `crash` (a process is killed between any two
operations), `power`. A loss of power kills all processes and returns the disk to what it might
hold then: nothing here flushes a file but the installer, so renames and removals may be undone,
the newest first, and a file renamed lately may come up empty. `TransactionManager`, `SlotManager`
and `BootControl` (there through `BootSelection`) keep the outcomes: `latest` are those of the
newest names, `earlier` those of names before them, from which `write_back` takes all away
once the kernel has caught up. `MaxEarlier` bounds how many it may hold back. In
`Installer` a loss of power empties files but undoes no rename: the record of an installation is
written in place, after `sync_to_disk` has synchronised the directory, so names that matter to a
record are on the disk before it.

A server that loads its releases answers nobody (`Serving`): the request fails, and counts as an
attempt. The write of a state by `boot` or `bootloader` may be lost to a full disk (`DiskFull`).
`UpdateClient` always has broken transfers, failing opens, a full disk at `fclose`, kills, restarts
of the server and a script that may be stopped. `CallersLock` says that callers hold the lock
around a transaction (the usage of `docs/transaction-management.md`; the methods do not check it).
`CallersReload` says that a caller does not go on with a record that could not be persisted.
`Calls` bounds which optional calls an instance makes.

## 3. Runs

| run | question | outcome |
|---|---|---|
| `tx_record` | is `transaction.json` one durable record under kills and failing operations, with two processes | holds, with the refinement of `TransactionLifecycle` |
| `tx_history` | is the history true, and bounded unless a listing missed an entry; what may a loss of power at any step do to `transaction.json`; under partial listings, removals and writes that fail, kills | holds; a loss of power brings back a record the file had, or none, and every session goes on from there along the table: the refinement |
| `tx_history_full` | does a full history take the newest outcome (`docs/transaction-management.md`: completed transactions are recorded) | no: `prune_history` drops it |
| `install_record` | two overlapping installations of different versions, a version released twice, kills and failures: are images replaced whole, do records name images that are there, is no retry stopped | holds, with the refinement of `InstallTarget` |
| `install_retry` | a nearly full disk, rename replaced by the copy, losses of power: is room for two copies enough, does a leftover stop a retry | holds |
| `install_power` | does a recorded image survive a loss of power (`docs/update-installation.md`: data is flushed) | no: only the directory is synchronised |
| `slot_crash` | is a torn switch detected by whoever loads it, the active slot remembered and never overwritten, the tear repaired by the next switch, under kills and losses of power that undo writes | holds, for one writer and a reader of its files |
| `slot_write_fails` | does `validate_slot` notice a metadata write that failed | no: results of the writes are ignored |
| `boot_control` | do acknowledged selections survive, is each used once, does memory follow the record, in both setups | holds, with the refinement of `BootSelection`, in which a loss of power brings back an earlier state or none |
| `boot_commands` | `boot` or `bootloader` commands that overlap and are killed, and slot files that change meanwhile: do states tell what happened, does a command alone decide, is the file whole in the end | holds; a write lost to a full disk is the exception |
| `update_client` | one command against releases made, removed file by file and replaced while the server starts and serves: is what it accepts released and newest, is nothing partial left, does it end, does no server take up metadata for another image | holds |
| `signature` | `verify-signature` commands that overlap, on this directory and on others, while it is signed, signed again and replaced, all killed anywhere: is what is valid signed, is what is signed accepted | holds, except in a directory where a signing has run into a replacement (section 5) |

Each property has at least one mutant, listed in `PROJECT.json`.

Bounds and why they are enough.

- Transactions: two processes give every interleaving of two writers, a third could only wait. Two
  transactions let one replace the other and overfill a history of one. Two inodes suffice under the
  lock. In `tx_history` there is one process, as the lock admits one, and the clock stands still: all
  entries are of one second, which leaves their order open, so entries of different seconds show
  nothing more. `MaxEarlier` 1 lets a loss of power undo the two newest changes, the record and
  its entry in the history among them.
- Installer: two processes and two versions, one released with two payloads, let a replacement
  overlap another installation; four inodes are two staged and two installed images. One block, or
  two where a torn image must show. `Capacity` 3 is the least that passes the space check once.
- Slots: one version, set once, suffices for the properties, as the state of the slots, not
  their content, is at stake; the second manager loads between any two writes of the first. A loss
  of power undoes up to two writes (`MaxEarlier` 2), which takes back a switch. Callers mark slots
  BOOTABLE, which a switch needs; the proofs have every state.
- Boot: three attempts let a boot be repeated after a reset; `MaxEarlier` 3 reaches back over
  the two files of a call and the call before it.
- Update: two releases let one replace another while it is loaded, offered or served; the versions
  2.0.0 and 1.2.0 over an installed 1.1.0 tell a lexicographic order from one by parts; two blocks
  make a partial and a mixed file; one retry gives a first and a last attempt. One command is run, as
  each counts its own attempts; commands that overlap on one file are left to the proofs, which
  hold for any number of them.
- Boot commands: two processes meet at every step of each other, and the third command of the three
  starts from what two killed or overlapped ones left in both files. The count stops at two boots.
- Signatures: two creations with different bodies replace a signed release, two signings sign it
  again; two commands either overlap or are one that starts from what a killed one left in `/tmp`,
  each on this directory or on another. The key file of a command is the right one, another, missing
  or broken.

`CHECK_DEADLOCK FALSE` in the transaction runs, `signature` and `boot_commands`: the processes may
all stop, and identifiers or the commands that may be run are used up.

Fairness. Only `UpdateClient` states any: a command that runs goes on (`WF_vars(Proceed(c))`), which
the timeouts of libcurl (`connect_timeout`, `request_timeout`, `download_timeout`) and the absence
of any wait for another process justify. The server, the script, the network, kills and starts are
not fair, and a server that never finishes loading only makes requests fail. `CommandEnds` then says
that attempts are counted on every way an attempt can fail. The other modules promise safety only:
nothing in their code waits, except for a lock that is refused rather than waited for.

## 4. What is proved

`TransactionLockProofs` proves, for any number of processes with one manager each
(`OneManagerPerProcess`; `docs/difficulties.md` explains why one process needs more), that
`owns_lock_` implies the kernel's lock and hence mutual exclusion.

Every property of the passing runs except `CommandEnds` is a theorem, for every value of the
constants that satisfies the assumptions below. Hardly any is inductive alone; each module
proves an invariant that is, with one lemma per action or per kind of action, and derives the rest.

`TransactionManagerProofs`: any number of processes, transactions and inodes, every failing
operation, partial listing, kill and loss of power, under `Disciplined`: callers hold the lock and
reload after a failed write (section 5 says what happens if they go on). `RecordStaysWhole` alone
also assumes that the power stays on, as a record that was not flushed may come up empty.

- `RecordInv` gives `TypeOK`, `LockMutualExclusion`, `RecordNeverTorn`, `SessionMatchesDisk`
  and `PathBelongsToTransaction`. Whoever is inside a call owns the
  lock (`CallsUnderLock`) and runs (`OwnersRun`); the only open file is `transaction.json.tmp` and
  holds the caller's record when it is renamed (`WriterHasTmp`); the two names differ
  (`NamesApart`); a session's memory is on the disk unless it is being persisted (`MemoryOnDisk`),
  and then it is one step from the disk (`PendingIsStep`). What a loss
  of power may leave was there before (`LossesKnown`, `RecordsWellFormed`).
- `HistoryInv` gives `HistoryTellsTruth` and `HistoryWithinLimit`. An entry is true because the
  outcome it states was reached by the rename that went before it (`OutcomeReached`), and what a
  call still has to write is true as well (`UnwrittenTrue`). `save_history` removes all files and
  writes the kept entries one by one, so the bound needs that written and `unwritten` entries fit
  together (`RoomForUnwritten`). It holds as long as every listing was complete (`overlooked`); an
  entry that was neither listed nor removed is one too many (section 5). All of it also holds of
  every history a loss of power may bring back.
- `LifecycleInv` gives the refinement: a record on the disk has an identifier, and a pending one
  begins in IDLE or goes on with the transaction of the disk, so each rename is one abstract step,
  and a loss of power is the abstract one.

`InstallerProofs`: any number of processes, versions, payloads, blocks and inodes. `TypeOK` and
`OnlyFaultsFail` assume `NoSharedVersion` (calls that overlap are for different versions, since two
for one version share the staged file). What concerns images and records assumes `Reliable`: in
addition `rename` moves the image (the copy that replaces it across file systems writes the target
in place), the power stays on (`install_power` shows why) and nobody calls `cleanup_install_target`.

- `FilesInv`: no inode has two names, and what a call has open still has its name.
- `ImageInv` gives `TargetNeverTorn`, `RecordedImageIntact` and the refinement of `InstallTarget`:
  what `finalize` moves was verified, and stays as it was until its record is written.
- `SpaceInv` gives `OnlyFaultsFail`: a call that has met no fault has room for every block it has
  still to write. Lemmas about `available`, which is a cardinality, bound what a step of another
  call takes, the leftovers of failed calls included.

`SlotManagerProofs`: any number of readers and versions, kills at any write and losses of power.
`TypeOK` needs no assumption; `DetectsInconsistency`, `ActiveSlotRemembered`, `ActiveSlotPreserved`
and `SwitchHeals` assume `OneWriter`, that one process changes slots and its writes succeed
(`slot_write_fails` and section 5 say what happens else). `SlotInv` relates memory, the three files
and the writes that are still to come; `LossInv` says what the disk may return to: files as they are
or empty, or an earlier global state whose slot was settled; `ReaderInv` says what a load has seen
while the writer ran, as long as two calls did not overtake it.

`BootCommandsProofs` proves every property of `boot_commands` for any number of commands, with no
assumption but those of the module. `CommandInv` has a part per property: boots that happened and
those that running commands may still add are no more than the commands started (`BootsCounted`);
what lies in either file or in a memory tells what happened, wherever it was copied from
(`TruthInv`); a command that was alone from its start finds both files as it left them (`AloneInv`);
an empty file has a writer, unless a command was killed before it wrote or wrote on a full disk
(`EmptyInv`, `torn`). A command whose write is lost counts as disturbed in `LoneCommandDecides`.

`SignatureCheckProofs` proves every property of `signature` for any number of commands, creations
and signings, with no assumption but those of the modules. `SignatureInv` says what the two writers
of the directory leave in it at each point (`DirectoryInv`, `UnmixedInv`, `SignedInv`), that the
signature a command read went with the metadata beside it at a moment of the command, unless the
directory was mixed (`JustifiedInv`), whatever overlapping commands left in the temporary file; and
what a command finds in `/tmp` alone (`AloneInv`) and in a directory that stayed as it was
(`SteadyInv`).

`UpdateClientProofs` proves every safety property of the update pipeline, for any number of
commands, images, releases and attempts, from the named assumptions of the modules alone
(`OffersAreNewest` needs one more: every version is `Readable`, no part exceeds the client's int).

- `Inv`: what the server knows and what a running command was offered is a release that was
  completed, for the device, newer than its version. It carries `AcceptedWasReleased` through the
  steps between the offer and the check. Two lemmas, one for steps that keep the file and one for
  steps that remove it and so unlink the others, reduce each action to the state it leaves.
- `DirectoryInv`: metadata in the directory describes the image beside it or one that has just been
  removed, and a release being made has none. It gives `LoadedIsConsistent`, as `load_releases`
  reads both before it takes a release up.
- `MetadataInv` with `OrdersAgree` gives `OfferIsNewest`: the server's order and the client's
  saturating one coincide on readable versions.
- `FilesInv` with `OneFileAtATime`: a step concerns the file of one version, and ends with the
  command at work on it, or the file suspect, gone or whole. It gives `NothingHalfLeft`.
- `TypedInv` gives `TypeOK`; it needs `OpenFilesAreThere`, that a descriptor which still has the
  name of its file has a file behind it.
- `CommandsRunDown` is the safety half of `CommandEnds`: every step of a command runs down four
  numbers in their order (phase, attempts left, steps left in the attempt, blocks left of the
  answer), all natural and the first three bounded by the constants (`Bounded`), and no other step
  changes those of a running command except a kill, which ends it. With the fairness of `Spec`, it
  ends.

`BootControlProofs` proves every property of `boot_control`, the refinement of `BootSelection`
included, for any bound on the attempts, with and without a bootloader, with failing writes, kills
and losses of power. It assumes `Careful`: no full disk truncates a file, and
`reset_boot_attempt_count` is not called with a bootloader (section 5 says what happens if it is).

- `BootInv` relates memory, the two files and the running call; `LossInv`, that nothing a
  loss of power may leave selects the running slot. The properties fail to be inductive because a
  call changes memory before it writes: while the bootloader's file is unwritten, boot
  control must already have taken the same decision (`same_decision`) or copy it afterwards.
- `RecordInv` (of `BootControlProofs`) says what an unwritten state will do to the record: it
  `Follows` from it by one operation of `BootSelection`. Every step then keeps the record or
  replaces it by a state that follows (`RecordStep`), which is a step of the abstract specification.

Only model-checked: `CommandEnds` itself, as liveness under fairness is out of the prover's reach.
Outside the named assumptions neither a run nor a proof claims anything, except for the runs that
expect a violation.

## 5. What the models show besides the runs

True of the model as well as of the code, found while choosing assumptions and not kept as runs:

- Transactions: a loss of power after the rename may leave `transaction.json` empty or as it was
  before, since nothing is flushed. `load_history` passes over a directory it cannot read to its end
  and entries it cannot open, and `save_history` over removals that fail
  (`transaction_manager.cpp:328`, `:370`): an entry that was neither listed nor removed makes the
  history longer than `docs/transaction-management.md:187` says. A crash between the outcome and its
  history entry loses the entry. `create_transaction` keeps the slots of the transaction before.
  `update_state` advances the memory before it persists, so a caller that goes on after a failed
  write skips a state in the file, which `docs/transaction-management.md:71` excludes.
- Installer: the space check needs `install_target` or `staging_dir` to exist, and `install`
  creates them after it, so the first call in a fresh state directory reports INSUFFICIENT_SPACE
  (`DirsExist = FALSE`). Re-installing a version interrupted between image and record leaves the
  old record. Two calls for one version overlap on the staged file (`Overlap = "any"`). A failure
  or cancellation after the move leaves the staging directory. INSTALLED is reported though the
  record could not be written.
- Slots: a loss of power may take back a switch that was reported done. A process killed within a
  switch leaves two ACTIVE records until the next switch. An emptied `global.json` makes
  `initialize_slots` forget the active slot. With two writers a stale one prepares the slot that has
  become active. A load that two calls overtake mixes states unnoticed. A switch activates a slot
  with an empty version.
- Boot: `persist_boot_state` does not look at the result of its write
  (`simulated_boot_control.cpp:170`, `simulated_bootloader.cpp:172`): on a full disk it renames an
  empty file and reports success, where `docs/boot-control.md:98-102` promises consistency across
  restarts. A loss of power may bring back an earlier state, and a slot boots again. Of two
  commands at once the later replaces the change of the earlier, also when both report
  success; they share `boot_state.json.tmp`, so one may rename the file the other has just emptied,
  report success for a state that is never recorded or a failure for one that is, and leave
  `boot_state.json` empty until the other writes it in place, and for good if it is killed before,
  where `docs/boot-control.md:98` and `docs/bootloader-integration.md:144` speak of an atomic
  replacement. A slot marked INVALID after it was selected boots all the same. An emptied
  `boot_state.json` is read as defaults. With a bootloader, `reset_boot_attempt_count` changes boot
  control's count alone, and the next boot brings the bootloader's count back, where
  `docs/bootloader-integration.md:181` says that boot operations are delegated.
- Signatures: `verify-signature` commands that overlap may refuse a good release, as one empties or
  removes the other's `/tmp/ota_canonical_metadata.json`. A `sign-release` that overlaps a
  replacement leaves the signature of one release beside the metadata of the next, and commands on
  may then accept what was never signed, as they use each other's data (the exception `disturbed` of
  `ValidWasSigned`). Killed while it rewrites `metadata.json`, `sign-release` leaves it empty, which
  only `create_release.py` repairs. Nothing but the command asks for a signature: `download` and
  `install` compare size and digest (`docs/digital-signatures.md:301` shows `ota-client` rejecting
  an update for its signature).
- Update: a command that fails removes the file of its version even if another command has accepted
  it in the meantime; the pipeline takes no lock. After a release is replaced, downloads are
  rejected until the server restarts, as its digest is the old one; the rejected file stays in the
  download directory. Every 4xx but 400 and 404 is retried, where
  `docs/ota-client-communication.md:191-192` says none is. The size limit of
  `docs/ota-client-communication.md:159` is not enforced (see *Abstractions*). Past `INT_MAX` the
  client drops the rest of a version and no longer agrees with the server.

## 6. What is not modelled

The logger and the deployment scripts have no state of their own. `state.conf` of the client service
(`src/device/`) is written once, in place, when the service finds none, and then only displayed. A
kill within that one write leaves a file that later starts take for a state, with empty fields.
`status`, `history`, `check` and `slots` display what other modules hold. Reading the history while
another process rewrites it can show one with entries missing (a listed hazard without a property),
as it takes no lock. The text of files, requests and reports; direct calls of `record_history`; POST
and `cleanup_download`, which nothing calls.

The image that `install` reads is a choice among the payloads, whatever digest was expected, so a
download that replaces it beforehand is included, one that changes it between two blocks is not.

## 7. Plan

1. Weaker assumptions: what of `ImageInv` survives the copying fallback, `cleanup_install_target`
   and a loss of power (a record of an image that is torn or gone, but never of another payload);
   what of `SlotInv` survives a failing write.
2. The order of `Nearer` as a well-founded one, so that `CommandEnds` follows from
   `CommandsRunDown` and the fairness by an argument written out.
3. Extensions of existing modules: a reader of the history without the lock, a source image that
   changes while it is staged, `state.conf`.
