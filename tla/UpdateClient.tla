----------------------------- MODULE UpdateClient -----------------------------
(* The command "ota-cli download": ask the server for an update, download the  *)
(* image into the download directory, compare it with the metadata that came   *)
(* with the offer.  Several commands may run at once; they share the file      *)
(* <version>.img.  An image is fetched by attempts that may fail, from a       *)
(* server whose releases change underneath.                                    *)
EXTENDS ReleaseServer

CONSTANTS
    Commands,           \* processes that run the command
    hardware_version,   \* device_config_.hardware_version
    software_version,   \* device_config_.software_version
    retry_count         \* HttpClient::retry_count_

ASSUME ClientAssumption ==
    /\ software_version \in Version
    /\ retry_count \in Nat

VARIABLES
    command,            \* the state of each process
    download_dir,       \* the file of each version, or Missing
    suspect             \* observer: versions whose file was rejected, or left
                        \* unchecked by a killed command, and not removed since

clientVars == <<command, download_dir, suspect>>
vars == <<serverVars, clientVars>>

Hole == "zero"          \* a block that was never written
Block == Images \cup {Hole, Missing}
File == Seq(Block)

ASSUME FilesAssumption == Missing \notin File

(* The steps of a command; "idle" is also the state of one that has exited.    *)
Steps == {"idle", "check", "prepare", "open", "request", "receive", "measure",
          "validate_size", "validate_hash"}

(* How the command ended. *)
Results == {"none", "error", "no_update", "incompatible", "failed", "rejected",
            "accepted"}

(* linked: the descriptor the process writes to is still the file in the       *)
(* directory; written: the blocks it wrote; read: the blocks it hashed.        *)
Process == [step : Steps, info : Metadata \cup {Missing}, attempt : 0..retry_count,
            status : {0, 200, 404, 500}, body : File, written : Nat,
            linked : BOOLEAN, read : File, result : Results]

Exited(result) ==
    [step |-> "idle", info |-> Missing, attempt |-> 0, status |-> 0,
     body |-> << >>, written |-> 0, linked |-> FALSE, read |-> << >>,
     result |-> result]

Init ==
    /\ ServerInit
    /\ command = [c \in Commands |-> Exited("none")]
    /\ download_dir = [v \in Releasable |-> Missing]
    /\ suspect = {}

version(c) == command[c].info.version
file(c) == download_dir[version(c)]

Become(c, process) == command' = [command EXCEPT ![c] = process]
Goto(c, step) == Become(c, [command[c] EXCEPT !.step = step])

(* remove(path): whoever had the file open writes to it without a name now.    *)
Unlinked(v) ==
    [d \in Commands |->
        IF command[d].linked /\ command[d].info.version = v
        THEN [command[d] EXCEPT !.linked = FALSE] ELSE command[d]]

RemoveAndBecome(c, process) ==
    /\ command' = [Unlinked(version(c)) EXCEPT ![c] = process]
    /\ download_dir' = [download_dir EXCEPT ![version(c)] = Missing]
    /\ suspect' = suspect \ {version(c)}

-------------------------------------------------------------------------------
(* UpdateManager::check_for_update *)

start(c) ==
    /\ command[c].step = "idle"
    /\ Become(c, [Exited("none") EXCEPT !.step = "check"])
    /\ UNCHANGED <<serverVars, download_dir, suspect>>

(* get_validation_error: every field is there and the size is positive. *)
get_validation_error(metadata) == metadata.size <= 0

is_compatible(metadata) == metadata.hardware_version = hardware_version

(* What the process is once it has read the answer to its request. *)
checked(answer) ==
    IF answer = Missing THEN Exited("no_update")
    ELSE IF get_validation_error(answer) THEN Exited("error")
    ELSE IF ~ is_compatible(answer) THEN Exited("incompatible")
    ELSE IF ~ compare_versions(software_version, answer.version) THEN Exited("no_update")
    ELSE [Exited("none") EXCEPT !.step = "prepare", !.info = answer]

check_for_update(c) ==
    /\ command[c].step = "check"
    /\ Serving
    /\ \E answer \in find_update(hardware_version, software_version) :
         Become(c, checked(answer))
    /\ UNCHANGED <<serverVars, download_dir, suspect>>

(* HttpClient::execute_with_retry: a request that got no answer is repeated.   *)
check_fails(c) ==
    /\ command[c].step = "check"
    /\ Become(c, IF command[c].attempt < retry_count
                 THEN [command[c] EXCEPT !.attempt = @ + 1] ELSE Exited("error"))
    /\ UNCHANGED <<serverVars, download_dir, suspect>>

-------------------------------------------------------------------------------
(* DownloadManager::download and HttpClient::download *)

(* An older file of the version is removed first. *)
prepare(c) ==
    /\ command[c].step = "prepare"
    /\ RemoveAndBecome(c, [command[c] EXCEPT !.step = "open", !.attempt = 0])
    /\ UNCHANGED serverVars

(* fopen(path, "wb"): creates the file, or truncates the one that is there.    *)
open_file(c) ==
    /\ command[c].step = "open"
    /\ Become(c, [command[c] EXCEPT !.step = "request", !.linked = TRUE, !.written = 0])
    /\ download_dir' = [download_dir EXCEPT ![version(c)] = << >>]
    /\ UNCHANGED <<serverVars, suspect>>

(* ensure_download_dir or fopen fails; after fopen the file is removed again.   *)
no_directory(c) ==
    /\ command[c].step = "prepare"
    /\ Become(c, Exited("failed"))
    /\ UNCHANGED <<serverVars, download_dir, suspect>>

open_fails(c) ==
    /\ command[c].step = "open"
    /\ RemoveAndBecome(c, Exited("failed"))
    /\ UNCHANGED serverVars

(* The server answers with what it has now. *)
request_image(c) ==
    /\ command[c].step = "request"
    /\ Serving
    /\ LET answer == handle_image_download(version(c))
       IN  Become(c, [command[c] EXCEPT !.step = "receive",
                        !.status = answer.status, !.body = answer.body])
    /\ UNCHANGED <<serverVars, download_dir, suspect>>

(* The file with block n set, holes before it if it had become shorter.        *)
Put(f, n, block) ==
    [b \in 1..(IF n > Len(f) THEN n ELSE Len(f)) |->
        IF b = n THEN block ELSE IF b <= Len(f) THEN f[b] ELSE Hole]

(* write_file_callback.  The progress callback that would stop a body larger   *)
(* than max_download_size is never called, as CURLOPT_NOPROGRESS keeps its     *)
(* default: every body is received to its end.                                 *)
receive(c) ==
    LET process == command[c]
        n == process.written + 1
    IN  /\ process.step = "receive"
        /\ process.written < Len(process.body)
        /\ Become(c, [process EXCEPT !.written = n])
        /\ download_dir' = IF ~ process.linked THEN download_dir
             ELSE [download_dir EXCEPT ![version(c)] = Put(@, n, process.body[n])]
        /\ UNCHANGED <<serverVars, suspect>>

(* The result of fclose is not looked at: on a full disk the end of the file   *)
(* may be lost without notice.                                                 *)
lose_tail(c) ==
    /\ command[c].step = "receive"
    /\ command[c].linked
    /\ command[c].written + 1 = Len(command[c].body)
    /\ Become(c, [command[c] EXCEPT !.written = @ + 1])
    /\ UNCHANGED <<serverVars, download_dir, suspect>>

Closed(process, step) ==
    [process EXCEPT !.step = step, !.status = 0, !.body = << >>, !.written = 0,
                    !.linked = FALSE]

(* Mutants: one attempt too many; the attempt is not counted.                  *)
retry_once_more(process) ==
    IF process.attempt <= retry_count
    THEN [Closed(process, "open") EXCEPT !.attempt = @ + 1] ELSE Exited("failed")
retry_uncounted(process) ==
    IF process.attempt < retry_count THEN Closed(process, "open") ELSE Exited("failed")

(* The next round of the loop, or the failure of DownloadManager::download,    *)
(* which removes the file once more.                                           *)
retry(process) ==
    IF process.attempt < retry_count
    THEN [Closed(process, "open") EXCEPT !.attempt = @ + 1] ELSE Exited("failed")

(* The connection breaks, the timeout strikes, a write fails. *)
transfer_breaks(c) ==
    /\ command[c].step \in {"request", "receive"}
    /\ RemoveAndBecome(c, retry(command[c]))
    /\ UNCHANGED serverVars

(* An answer other than 2xx: 400 and 404 are final. *)
transfer_refused(c) ==
    /\ command[c].step = "receive"
    /\ command[c].written = Len(command[c].body)
    /\ command[c].status # 200
    /\ RemoveAndBecome(c, IF command[c].status \in {400, 404} THEN Exited("failed")
                          ELSE retry(command[c]))
    /\ UNCHANGED serverVars

transfer_ends(c) ==
    /\ command[c].step = "receive"
    /\ command[c].written = Len(command[c].body)
    /\ command[c].status = 200
    /\ Become(c, Closed(command[c], "measure"))
    /\ UNCHANGED <<serverVars, download_dir, suspect>>

(* Mutant: an empty file fails and stays. *)
measure_keeps_empty(c) ==
    /\ command[c].step = "measure"
    /\ IF file(c) \in {Missing, << >>} THEN Become(c, Exited("failed"))
                                      ELSE Goto(c, "validate_size")
    /\ UNCHANGED <<serverVars, download_dir, suspect>>

(* The rest of DownloadManager::download: a file that is gone or empty fails.  *)
measure(c) ==
    /\ command[c].step = "measure"
    /\ \/ /\ file(c) \in {Missing, << >>}
          /\ RemoveAndBecome(c, Exited("failed"))
       \/ /\ file(c) \notin {Missing, << >>}
          /\ Goto(c, "validate_size")
          /\ UNCHANGED <<download_dir, suspect>>
    /\ UNCHANGED serverVars

-------------------------------------------------------------------------------
(* IntegrityValidator::validate_file, on the path, with the metadata of the    *)
(* offer; a file that is rejected stays.                                       *)

size_matches(f, metadata) == f # Missing /\ Len(f) = metadata.size
\* Mutant: the size is enough.
any_hash_matches(f, metadata) == f # Missing
hash_matches(f, metadata) == f # Missing /\ f = metadata.sha256

Reject(c) ==
    /\ Become(c, Exited("rejected"))
    /\ suspect' = suspect \cup {version(c)}

validate_size(c) ==
    /\ command[c].step = "validate_size"
    /\ IF size_matches(file(c), command[c].info)
       THEN Goto(c, "validate_hash") /\ UNCHANGED suspect
       ELSE Reject(c)
    /\ UNCHANGED <<serverVars, download_dir>>

validate_hash(c) ==
    /\ command[c].step = "validate_hash"
    /\ IF hash_matches(file(c), command[c].info)
       THEN /\ Become(c, [Exited("accepted") EXCEPT !.info = command[c].info,
                                                   !.read = file(c)])
            /\ UNCHANGED suspect
       ELSE Reject(c)
    /\ UNCHANGED <<serverVars, download_dir>>

(* A command works on its file from fopen until it has checked it. *)
WorksOn(c, v) ==
    /\ command[c].step \notin {"idle", "check", "prepare"}
    /\ command[c].info.version = v

(* The process is killed; the file stays as it is. *)
kill(c) ==
    /\ command[c].step # "idle"
    /\ Become(c, Exited("none"))
    /\ suspect' = suspect \cup {v \in Releasable : WorksOn(c, v)}
    /\ UNCHANGED <<serverVars, download_dir>>

-------------------------------------------------------------------------------
Proceed(c) ==
    \/ check_for_update(c) \/ check_fails(c)
    \/ prepare(c) \/ no_directory(c) \/ open_file(c) \/ open_fails(c)
    \/ request_image(c) \/ receive(c) \/ lose_tail(c)
    \/ transfer_breaks(c) \/ transfer_refused(c) \/ transfer_ends(c) \/ measure(c)
    \/ validate_size(c) \/ validate_hash(c)

Next ==
    \/ ServerNext /\ UNCHANGED clientVars
    \/ \E c \in Commands : start(c) \/ Proceed(c) \/ kill(c)

(* A command that runs goes on: each of its calls returns, for connect_timeout,*)
(* request_timeout and download_timeout bound those that wait for the server.  *)
(* Nothing is assumed of the server, the script, or who starts and kills.      *)
Spec == Init /\ [][Next]_vars /\ \A c \in Commands : WF_vars(Proceed(c))

-------------------------------------------------------------------------------
(* The state is made of these values. *)
TypeOK ==
    /\ ServerTypeOK
    /\ command \in [Commands -> Process]
    /\ download_dir \in [Releasable -> File \cup {Missing}]
    /\ suspect \subseteq Releasable

(* An image for which the command reported success was, when it was hashed,    *)
(* block for block an image that was released completely, for the hardware of  *)
(* the device and under a version newer than its own; whatever was replaced,   *)
(* cut short or written by another command between the offer and the check.    *)
AcceptedWasReleased ==
    \A c \in Commands : command[c].result = "accepted" =>
        /\ command[c].info \in published
        /\ command[c].read = command[c].info.sha256
        /\ command[c].info.hardware_version = hardware_version
        /\ Precedes(software_version, command[c].info.version)

(* A file that no command works on is a whole image that was released, unless  *)
(* it was rejected or a command was killed over it: no failure of a download,  *)
(* at any point and with other commands at work on the same path, leaves an    *)
(* empty or partial file behind.                                               *)
NothingHalfLeft ==
    \A v \in Releasable \ suspect :
        (\A c \in Commands : ~ WorksOn(c, v)) =>
            download_dir[v] \in {Missing} \cup {m.sha256 : m \in published}

(* The server and the client agree on what an update is: an answered check     *)
(* ends in a download of the newest release for the device that the server     *)
(* knows of if there is a newer one than its own, and in NO_UPDATE otherwise.  *)
Answered(c) ==
    /\ command[c].step = "check"
    /\ \/ command'[c].step = "prepare"
       \/ command'[c].result \in {"no_update", "incompatible"}

OfferIsNewest ==
    [][\A c \in Commands : Answered(c) =>
         LET candidates == Candidates(hardware_version, software_version)
         IN  IF candidates = {} THEN command'[c].result = "no_update"
             ELSE /\ command'[c].step = "prepare"
                  /\ \A m \in candidates :
                       ~ Precedes(command'[c].info.version, m.version)]_command

(* Whatever the server, the network and other commands do, a command ends: the *)
(* attempts are counted across every way an attempt can fail.                  *)
CommandEnds ==
    \A c \in Commands : command[c].step # "idle" ~> command[c].step = "idle"
================================================================================
