--------------------------- MODULE SignatureCheck ---------------------------
(***************************************************************************)
(* The command "ota-cli verify-signature", run by several processes on one *)
(* release directory while that directory is signed, signed again and      *)
(* replaced, and by others on other directories.  The command reads        *)
(* metadata.json, then metadata.sig, and has python canonicalize the       *)
(* metadata through a file whose name, /tmp/ota_canonical_metadata.json,   *)
(* is the same for every process and every directory.                      *)
(***************************************************************************)
EXTENDS ReleaseSigning

CONSTANTS
    Commands,       \* processes that run verify-signature
    KeyFiles,       \* public key files they are called with
    Elsewhere,      \* what metadata.json of the other directories may hold
    MaxCommands     \* calls of the command

ASSUME CommandsAssumption ==
    /\ MaxCommands \in Nat
    /\ Elsewhere \subseteq Whole \cup {Garbled}
    /\ {"missing", "unloadable"} \cap SigningKeys = {}

VARIABLES
    temp,       \* contents of the file of the fixed name, or NoFile
    started,    \* how often the command was called, for the bound
    command,    \* per process: [pc, here, meta, sig, data, linked]
    (* Observers: what the properties compare a verdict with. *)
    alone,      \* per process: nobody else used the file, and nothing failed
    together,   \* per process: the signatures that, at some moment of the
                \* command, went with the metadata beside them
    disturbed,  \* per process: at some moment of it the directory was mixed
    steady,     \* per process: a signed directory stayed so during the command
    signed,     \* the last to write to the directory was a complete signing
    mixed       \* a signing overlapped a replacement, and none followed since

observers == <<alone, together, disturbed, steady, signed, mixed>>
vars == <<release_vars, temp, started, command, observers>>

-----------------------------------------------------------------------------
(* SignatureVerifier::verify_signature: the first check that fails decides. *)
(* The command encodes the bytes of metadata.sig itself, so the checks of   *)
(* the base64 format and of its decoding always succeed and are left out.   *)
verify_signature(data, signature, key) ==
    IF data = Nothing           THEN "SIGNED_DATA_INVALID"
    ELSE IF signature = Nothing THEN "SIGNATURE_MISSING"
    ELSE IF key = "missing"     THEN "PUBLIC_KEY_MISSING"
    ELSE IF key = "unloadable"  THEN "PUBLIC_KEY_CANNOT_LOAD"
    ELSE IF signature = [over |-> data, by |-> key] THEN "SIGNATURE_VALID"
    ELSE "SIGNATURE_INVALID"

(* The python of canonicalize_metadata prints nothing for what is not JSON. *)
CanonicalOutput(content) == IF IsWhole(content) THEN Canonical(content) ELSE Nothing

CommandIdle == [pc |-> "idle", here |-> FALSE, meta |-> Nothing, sig |-> Nothing, data |-> Nothing,
                linked |-> FALSE]

(* The signature that goes with the metadata beside it, as it lies there;   *)
(* of a mixed directory nothing is asked.                                   *)
Together == IF Consistent /\ ~mixed THEN {release.sig} ELSE {}

Running(c) == command[c].pc # "idle"

(* Between the open of the temporary file and its removal. *)
UsesTemp(c) == command[c].pc \in {"write", "python", "unlink"}

Init ==
    /\ InitRelease
    /\ temp = NoFile
    /\ started = 0
    /\ command = [c \in Commands |-> CommandIdle]
    /\ alone = [c \in Commands |-> FALSE]
    /\ together = [c \in Commands |-> {}]
    /\ disturbed = [c \in Commands |-> FALSE]
    /\ steady = [c \in Commands |-> FALSE]
    /\ signed = FALSE
    /\ mixed = FALSE

-----------------------------------------------------------------------------
(* The command *)

(* load_file_content of metadata.json, in the directory that -r names; the  *)
(* command ends without content.                                           *)
LoadMetadata(c) ==
    /\ command[c].pc = "idle"
    /\ started < MaxCommands
    /\ started' = started + 1
    /\ \/ /\ release.meta \notin {NoFile, Nothing}
          /\ command' = [command EXCEPT ![c].pc = "signature", ![c].here = TRUE,
                                        ![c].meta = release.meta]
          /\ together' = [together EXCEPT ![c] = Together]
          /\ disturbed' = [disturbed EXCEPT ![c] = mixed]
          /\ steady' = [steady EXCEPT ![c] = signed]
       \/ /\ \E meta \in Elsewhere :
                command' = [command EXCEPT ![c].pc = "signature", ![c].meta = meta]
          /\ UNCHANGED <<together, disturbed, steady>>
    /\ UNCHANGED <<temp, alone, signed, mixed>>

(* metadata.sig must open; its bytes become base64 whatever they are.  The  *)
(* signature of another directory is left out: such a command matters for  *)
(* what it does to the file the commands share.                            *)
LoadSignature(c) ==
    /\ command[c].pc = "signature"
    /\ \/ /\ command[c].here /\ release.sig # NoFile
          /\ command' = [command EXCEPT ![c].pc = "open", ![c].sig = release.sig]
       \/ /\ ~command[c].here
          /\ command' = [command EXCEPT ![c].pc = "open"]
    /\ UNCHANGED <<temp, observers>>

(* Mutant: a file that is there already is taken for the canonical form of  *)
(* an earlier call and used again.                                         *)
OpenTempOnce(c) ==
    /\ command[c].pc = "open"
    /\ temp' = IF temp = NoFile THEN Nothing ELSE temp
    /\ command' = [command EXCEPT ![c].pc = IF temp = NoFile THEN "write" ELSE "python",
                                  ![c].linked = TRUE]
    /\ alone' = [d \in Commands |->
           IF d = c THEN \A e \in Commands \ {c} : ~UsesTemp(e) ELSE alone[d] /\ ~UsesTemp(d)]
    /\ UNCHANGED <<together, disturbed, steady, signed, mixed>>

(* canonicalize_metadata: ofstream(temp_path) creates the file or truncates it. *)
OpenTemp(c) ==
    /\ command[c].pc = "open"
    /\ temp' = Nothing
    /\ command' = [command EXCEPT ![c].pc = "write", ![c].linked = TRUE]
    /\ alone' = [d \in Commands |->
           IF d = c THEN \A e \in Commands \ {c} : ~UsesTemp(e) ELSE alone[d] /\ ~UsesTemp(d)]
    /\ UNCHANGED <<together, disturbed, steady, signed, mixed>>

(* The stream goes out when it is closed, into the file of that name unless *)
(* another command has unlinked it.                                        *)
WriteTemp(c) ==
    /\ command[c].pc = "write"
    /\ temp' \in IF command[c].linked THEN Overwrite(temp, command[c].meta) ELSE {temp}
    /\ command' = [command EXCEPT ![c].pc = "python"]
    /\ UNCHANGED observers

(* popen: python opens the file by its name. *)
RunPython(c) ==
    /\ command[c].pc = "python"
    /\ command' = [command EXCEPT ![c].pc = "unlink", ![c].data = CanonicalOutput(temp)]
    /\ UNCHANGED <<temp, observers>>

(* Opening the file or popen fails: the canonical form is empty. *)
CanonicalizeFails(c) ==
    /\ command[c].pc \in {"open", "python"}
    /\ command' = [command EXCEPT ![c].pc = IF @ = "open" THEN "report" ELSE "unlink"]
    /\ alone' = [alone EXCEPT ![c] = FALSE]
    /\ UNCHANGED <<temp, together, disturbed, steady, signed, mixed>>

UnlinkTemp(c) ==
    /\ command[c].pc = "unlink"
    /\ temp' = NoFile
    /\ command' = [d \in Commands |->
           [command[d] EXCEPT !.linked = FALSE, !.pc = IF d = c THEN "report" ELSE @]]
    /\ UNCHANGED observers

(* What the command reports when it is called with that public key. *)
Verdict(c, key) == verify_signature(command[c].data, command[c].sig, key)

(* The end of the command: a report, metadata.sig that does not open, or a  *)
(* kill, which leaves the temporary file.                                  *)
CommandEnds(c) ==
    /\ Running(c)
    /\ command' = [command EXCEPT ![c] = CommandIdle]
    /\ alone' = [alone EXCEPT ![c] = FALSE]
    /\ together' = [together EXCEPT ![c] = {}]
    /\ disturbed' = [disturbed EXCEPT ![c] = FALSE]
    /\ steady' = [steady EXCEPT ![c] = FALSE]
    /\ UNCHANGED <<temp, signed, mixed>>

Check(c) ==
    /\ \/ LoadMetadata(c)
       \/ /\ \/ LoadSignature(c) \/ OpenTemp(c) \/ WriteTemp(c) \/ RunPython(c)
             \/ CanonicalizeFails(c) \/ UnlinkTemp(c) \/ CommandEnds(c)
          /\ UNCHANGED started
    /\ UNCHANGED release_vars

(* The writers of the directory, and what the observers make of their step. *)
Overlap == signer.pc # "idle" /\ creator.pc # "idle"
Replaced == creator.pc = "make" /\ creator'.pc = "image" /\ signer.pc = "idle"

Release ==
    /\ Create \/ Sign
    /\ mixed' = (Overlap' \/ (mixed /\ ~Replaced))
    /\ signed' = IF release' = release THEN signed \/ (~mixed /\ SignDone) ELSE FALSE
    /\ steady' = [c \in Commands |-> steady[c] /\ release' = release]
    /\ disturbed' = [c \in Commands |-> disturbed[c] \/ (command[c].here /\ mixed')]
    /\ together' = [c \in Commands |->
           IF command[c].here /\ ~disturbed'[c] THEN together[c] \cup Together' ELSE {}]
    /\ UNCHANGED <<temp, started, command, alone>>

Next == Release \/ \E c \in Commands : Check(c)

Spec == Init /\ [][Next]_vars

-----------------------------------------------------------------------------

TypeOK ==
    /\ ReleaseTypeOK
    /\ temp \in Metadata
    /\ started \in 0 .. MaxCommands
    /\ \A c \in Commands :
           /\ command[c].pc \in {"idle", "signature", "open", "write", "python", "unlink",
                                 "report"}
           /\ command[c].here \in BOOLEAN
           /\ command[c].meta \in Whole \cup {Garbled, Nothing}
           /\ command[c].sig \in Fields
           /\ command[c].data \in Bodies \cup {Nothing}
           /\ command[c].linked \in BOOLEAN
    /\ together \in [Commands -> SUBSET Signature]
    /\ {alone, disturbed, steady} \subseteq [Commands -> BOOLEAN]
    /\ {signed, mixed} \subseteq BOOLEAN

Reports(c, key, verdict) == command[c].pc = "report" /\ Verdict(c, key) = verdict

(* A command that had the temporary file to itself says SIGNATURE_VALID     *)
(* only if the signature it read is for the metadata it read, by the key it *)
(* was given: whatever earlier commands, killed at any step, left in /tmp,  *)
(* and whatever is being done to the directory meanwhile.                   *)
ValidForWhatWasRead ==
    \A c \in Commands, key \in KeyFiles :
        Reports(c, key, "SIGNATURE_VALID") /\ alone[c] =>
            /\ IsWhole(command[c].meta)
            /\ command[c].sig = [over |-> command[c].meta.body, by |-> key]

(* Commands that overlap, here or on other directories, and so read,        *)
(* truncate and remove each other's file, may refuse a good release.  The   *)
(* one thing such a command accepts is a signature by the very key it was   *)
(* given that, at some moment of the command, went with the metadata beside *)
(* it.  Excepted is a command during which the directory was mixed: a       *)
(* signing had run into a replacement, and no replacement had followed.     *)
ValidWasSigned ==
    \A c \in Commands, key \in KeyFiles :
        Reports(c, key, "SIGNATURE_VALID") /\ ~disturbed[c] =>
            [over |-> command[c].data, by |-> key] \in together[c]

(* A release that sign-release has signed to the end, the first time or     *)
(* again, over whatever a killed signing or replacement left, is accepted   *)
(* with its key by a command that nobody disturbs: the field that step 5    *)
(* writes is not part of what is signed.                                    *)
SignedIsAccepted ==
    /\ signed => Consistent
    /\ \A c \in Commands :
           command[c].pc = "report" /\ alone[c] /\ steady[c]
               => Verdict(c, release.sig.by) = "SIGNATURE_VALID"
=============================================================================
