--------------------------- MODULE ReleaseSigning ---------------------------
(***************************************************************************)
(* One release directory of the server, as its two writers see it:         *)
(* create_release.py replaces the whole directory, sign-release adds       *)
(* metadata.sig and rewrites metadata.json in place with the field         *)
(* "signature".  Neither takes a lock, and both may be killed anywhere.    *)
(*                                                                         *)
(* Metadata without its signature field is a Body; a body names the image  *)
(* it describes by digest, so it stands for that image too.  A signature   *)
(* is the canonical data it was made from and the key that made it.        *)
(***************************************************************************)
EXTENDS Naturals

CONSTANTS
    Bodies,         \* metadata that releases of this version may be given
    SigningKeys,    \* private keys sign-release is called with
    MaxCreations,   \* calls of create_release.py
    MaxSignings,    \* calls of sign-release
    NoFile,         \* a name that no file has
    Garbled,        \* a file two processes wrote at once; python refuses it
    Nothing         \* no value: an empty string or file, or no body

ASSUME CallsAssumption == {MaxCreations, MaxSignings} \subseteq Nat

VARIABLES
    release,    \* [exists, image, meta, sig]: the directory and its files
    creator,    \* create_release.py: [pc, body, listed]
    signer,     \* sign-release: [pc, key, canon, field, held, linked]
    calls       \* how often each of the two was called, for the bounds

release_vars == <<release, creator, signer, calls>>

-----------------------------------------------------------------------------
(* Data *)

(* Mutant: the field "signature" is signed like the others. *)
CanonicalWithField(meta) == meta

(* json.dumps of the metadata without the field "signature". *)
Canonical(meta) == meta.body

Signature  == [over : Bodies, by : SigningKeys]
Fields     == Signature \cup {Nothing}
Whole      == [body : Bodies, field : Fields]
Metadata   == Whole \cup {NoFile, Garbled, Nothing}
Signatures == Signature \cup {NoFile, Nothing}

IsWhole(meta) == meta \notin {NoFile, Garbled, Nothing}

(* One write at offset 0 of a file opened earlier: over longer content of   *)
(* another process the tail of that content stays.                         *)
Overwrite(old, new) == IF old \in {Nothing, new} THEN {new} ELSE {new, Garbled}

ASSUME BodiesAssumption ==
    /\ NoFile # Garbled /\ NoFile # Nothing /\ Garbled # Nothing
    /\ \A none \in {NoFile, Garbled, Nothing} :
           /\ none \notin Bodies \cup SigningKeys
           /\ none \notin Signature /\ none \notin Whole

Files == {"image", "meta", "sig"}

CreatorIdle == [pc |-> "idle", body |-> Nothing, listed |-> {}]
SignerIdle  == [pc |-> "idle", key |-> Nothing, canon |-> Nothing,
                field |-> Nothing, held |-> Nothing, linked |-> FALSE]

InitRelease ==
    /\ release = [exists |-> FALSE, image |-> NoFile, meta |-> NoFile, sig |-> NoFile]
    /\ creator = CreatorIdle
    /\ signer = SignerIdle
    /\ calls = [create |-> 0, sign |-> 0]

-----------------------------------------------------------------------------
(* create_release.py *)

CreatorGoes(pc) == creator' = [creator EXCEPT !.pc = pc]

(* Mutant: a release that exists is written over in place. *)
CreateStartInPlace(body) ==
    /\ creator.pc = "idle"
    /\ calls.create < MaxCreations
    /\ calls' = [calls EXCEPT !.create = @ + 1]
    /\ creator' = [pc |-> "make", body |-> body, listed |-> {}]
    /\ UNCHANGED <<release, signer>>

CreateStart(body) ==
    /\ creator.pc = "idle"
    /\ calls.create < MaxCreations
    /\ calls' = [calls EXCEPT !.create = @ + 1]
    /\ creator' = [pc |-> IF release.exists THEN "remove" ELSE "make", body |-> body,
                   listed |-> {file \in Files : release[file] # NoFile}]
    /\ UNCHANGED <<release, signer>>

(* shutil.rmtree lists the directory and removes the files one by one.  A   *)
(* file that is open for writing stays open without its name, and one that  *)
(* appeared after the listing makes the rmdir fail and the script end.      *)
RemoveFile(file) ==
    /\ creator.pc = "remove"
    /\ file \in creator.listed
    /\ release' = [release EXCEPT ![file] = NoFile]
    /\ creator' = [creator EXCEPT !.listed = @ \ {file}]
    /\ signer' = [signer EXCEPT !.linked =
           @ /\ ~(file = "sig"  /\ signer.pc = "write_sig")
             /\ ~(file = "meta" /\ signer.pc = "write_meta")]

RemoveDirectory ==
    /\ creator.pc = "remove"
    /\ creator.listed = {}
    /\ \A file \in Files : release[file] = NoFile
    /\ release' = [release EXCEPT !.exists = FALSE]
    /\ CreatorGoes("make")
    /\ UNCHANGED signer

MakeDirectory ==
    /\ creator.pc = "make"
    /\ release' = [release EXCEPT !.exists = TRUE]
    /\ CreatorGoes("image")
    /\ UNCHANGED signer

CopyImage ==
    /\ creator.pc = "image"
    /\ release' = [release EXCEPT !.image = creator.body]
    /\ CreatorGoes("open_meta")
    /\ UNCHANGED signer

OpenMetadata ==
    /\ creator.pc = "open_meta"
    /\ release' = [release EXCEPT !.meta = Nothing]
    /\ CreatorGoes("write_meta")
    /\ UNCHANGED signer

WriteMetadata ==
    /\ creator.pc = "write_meta"
    /\ \E meta \in Overwrite(release.meta, [body |-> creator.body, field |-> Nothing]) :
           release' = [release EXCEPT !.meta = meta]
    /\ creator' = CreatorIdle
    /\ UNCHANGED signer

(* A step that fails, or a kill. *)
CreatorStops ==
    /\ creator.pc # "idle"
    /\ creator' = CreatorIdle
    /\ UNCHANGED <<release, signer>>

Create ==
    \/ \E body \in Bodies : CreateStart(body)
    \/ /\ \/ \E file \in Files : RemoveFile(file)
          \/ RemoveDirectory \/ MakeDirectory \/ CopyImage
          \/ OpenMetadata \/ WriteMetadata \/ CreatorStops
       /\ UNCHANGED calls

-----------------------------------------------------------------------------
(* sign-release, which runs under "set -e": a step that fails ends it *)

SignerGoes(pc) == signer' = [signer EXCEPT !.pc = pc]

(* Step 1.  A release that has a signature is signed again on request. *)
SignStart(key) ==
    /\ signer.pc = "idle"
    /\ calls.sign < MaxSignings
    /\ calls' = [calls EXCEPT !.sign = @ + 1]
    /\ IsWhole(release.meta)
    /\ signer' = [SignerIdle EXCEPT !.pc = "image", !.key = key]
    /\ UNCHANGED <<release, creator>>

(* Step 2: the image has the digest of the metadata, read again. *)
SignCheckImage ==
    /\ signer.pc = "image"
    /\ IsWhole(release.meta)
    /\ release.image = release.meta.body
    /\ SignerGoes("canonical")
    /\ UNCHANGED <<release, creator>>

(* Step 3 *)
SignCanonical ==
    /\ signer.pc = "canonical"
    /\ IsWhole(release.meta)
    /\ signer' = [signer EXCEPT !.pc = "open_sig", !.canon = Canonical(release.meta)]
    /\ UNCHANGED <<release, creator>>

(* Step 4: openssl opens its output, then writes it. *)
SignOpenSignature ==
    /\ signer.pc = "open_sig"
    /\ release.exists
    /\ release' = [release EXCEPT !.sig = Nothing]
    /\ signer' = [signer EXCEPT !.pc = "write_sig", !.linked = TRUE]
    /\ UNCHANGED creator

SignWriteSignature ==
    /\ signer.pc = "write_sig"
    /\ release' = [release EXCEPT !.sig =
           IF signer.linked THEN [over |-> signer.canon, by |-> signer.key] ELSE @]
    /\ SignerGoes("field")
    /\ UNCHANGED creator

(* Mutant: a signature file that has gone is not noticed. *)
SignReadFieldBlindly ==
    /\ signer.pc = "field"
    /\ signer' = [signer EXCEPT !.pc = "load", !.field = release.sig]
    /\ UNCHANGED <<release, creator>>

(* Step 5: base64 of the file, which is empty if the file has gone; then   *)
(* python loads metadata.json, opens it for writing and dumps it.          *)
SignReadField ==
    /\ signer.pc = "field"
    /\ signer' = [signer EXCEPT !.pc = "load",
           !.field = IF release.sig = NoFile THEN Nothing ELSE release.sig]
    /\ UNCHANGED <<release, creator>>

SignLoadMetadata ==
    /\ signer.pc = "load"
    /\ IsWhole(release.meta)
    /\ signer' = [signer EXCEPT !.pc = "open_meta", !.held = release.meta]
    /\ UNCHANGED <<release, creator>>

SignOpenMetadata ==
    /\ signer.pc = "open_meta"
    /\ release.exists
    /\ release' = [release EXCEPT !.meta = Nothing]
    /\ signer' = [signer EXCEPT !.pc = "write_meta", !.linked = TRUE]
    /\ UNCHANGED creator

SignWriteMetadata ==
    /\ signer.pc = "write_meta"
    /\ \E meta \in IF signer.linked
                   THEN Overwrite(release.meta, [signer.held EXCEPT !.field = signer.field])
                   ELSE {release.meta} :
           release' = [release EXCEPT !.meta = meta]
    /\ signer' = [signer EXCEPT !.pc = "verify", !.field = Nothing, !.held = Nothing,
                                !.linked = FALSE]
    /\ UNCHANGED creator

(* Step 6: the signature file verifies against the canonical data. *)
VerifiesOwn == release.sig = [over |-> signer.canon, by |-> signer.key]

SignDone ==
    /\ signer.pc = "verify"
    /\ VerifiesOwn
    /\ signer' = SignerIdle
    /\ UNCHANGED <<release, creator>>

(* A step that fails, or a kill. *)
SignerStops ==
    /\ signer.pc # "idle"
    /\ signer' = SignerIdle
    /\ UNCHANGED <<release, creator>>

Sign ==
    \/ \E key \in SigningKeys : SignStart(key)
    \/ /\ \/ SignCheckImage \/ SignCanonical \/ SignOpenSignature \/ SignWriteSignature
          \/ SignReadField \/ SignLoadMetadata \/ SignOpenMetadata \/ SignWriteMetadata
          \/ SignDone \/ SignerStops
       /\ UNCHANGED calls

-----------------------------------------------------------------------------

ReleaseTypeOK ==
    /\ release \in [exists : BOOLEAN, image : Bodies \cup {NoFile},
                    meta : Metadata, sig : Signatures]
    /\ creator.body \in Bodies \cup {Nothing}
    /\ creator.listed \subseteq Files
    /\ calls \in [create : 0 .. MaxCreations, sign : 0 .. MaxSignings]
    /\ creator.pc \in {"idle", "remove", "make", "image", "open_meta", "write_meta"}
    /\ signer.pc \in {"idle", "image", "canonical", "open_sig", "write_sig", "field",
                      "load", "open_meta", "write_meta", "verify"}
    /\ signer.key \in SigningKeys \cup {Nothing}
    /\ signer.canon \in Bodies \cup {Nothing}
    /\ signer.field \in Fields
    /\ signer.held \in Whole \cup {Nothing}
    /\ signer.linked \in BOOLEAN

(* Metadata and signature file go together. *)
Consistent ==
    /\ IsWhole(release.meta)
    /\ release.sig \notin {NoFile, Nothing}
    /\ release.sig.over = Canonical(release.meta)
=============================================================================
