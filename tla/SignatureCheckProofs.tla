------------------------ MODULE SignatureCheckProofs ------------------------
(***************************************************************************)
(* Proofs about SignatureCheck and the release directory it reads, for any *)
(* number of commands, of releases, of keys and of calls.                  *)
(***************************************************************************)
EXTENDS SignatureCheck, TLAPS

CreatorRecord == [pc : {"idle", "remove", "make", "image", "open_meta", "write_meta"},
                  body : Bodies \cup {Nothing}, listed : SUBSET Files]

SignerRecord == [pc : {"idle", "image", "canonical", "open_sig", "write_sig", "field",
                       "load", "open_meta", "write_meta", "verify"},
                 key : SigningKeys \cup {Nothing}, canon : Bodies \cup {Nothing},
                 field : Fields, held : Whole \cup {Nothing}, linked : BOOLEAN]

ReleaseRecord == [exists : BOOLEAN, image : Bodies \cup {NoFile},
                  meta : Metadata, sig : Signatures]

CommandRecord == [pc : {"idle", "signature", "open", "write", "python", "unlink", "report"},
                  here : BOOLEAN, meta : Whole \cup {Garbled, Nothing}, sig : Fields,
                  data : Bodies \cup {Nothing}, linked : BOOLEAN]

ReleaseTyped ==
    /\ release \in ReleaseRecord
    /\ creator \in CreatorRecord
    /\ signer \in SignerRecord
    /\ calls \in [create : 0 .. MaxCreations, sign : 0 .. MaxSignings]
    /\ creator.pc # "idle" => creator.body \in Bodies
    /\ signer.pc # "idle" => signer.key \in SigningKeys
    /\ signer.pc \in {"open_sig", "write_sig"} => signer.canon \in Bodies
    /\ signer.pc \in {"open_meta", "write_meta"} => signer.held \in Whole

CommandsTyped ==
    /\ temp \in Metadata
    /\ started \in 0 .. MaxCommands
    /\ command \in [Commands -> CommandRecord]
    /\ together \in [Commands -> SUBSET Signature]
    /\ {alone, disturbed, steady} \subseteq [Commands -> BOOLEAN]
    /\ {signed, mixed} \subseteq BOOLEAN

(* A directory that is not there holds no file, and no writer has one open.   *)
DirectoryInv ==
    /\ ~release.exists => \A file \in Files : release[file] = NoFile
    /\ creator.pc = "make" => ~release.exists
    /\ creator.pc \in {"remove", "image", "open_meta", "write_meta"} => release.exists
    /\ signer.pc = "write_sig" /\ signer.linked => release.sig # NoFile
    /\ signer.pc = "write_meta" /\ signer.linked => release.meta # NoFile

(* What sign-release finds and leaves in a directory it has to itself.        *)
SigningAlone ==
    /\ signer.pc \in {"image", "canonical", "open_sig", "write_sig", "field", "load",
                      "open_meta", "verify"} => IsWhole(release.meta)
    /\ signer.pc \in {"open_sig", "write_sig", "field", "load", "open_meta", "verify"}
          => release.meta.body = signer.canon
    /\ signer.pc = "write_sig" => release.sig = Nothing /\ signer.linked
    /\ signer.pc \in {"field", "load", "open_meta", "write_meta", "verify"}
          => release.sig = [over |-> signer.canon, by |-> signer.key]
    /\ signer.pc \in {"open_meta", "write_meta"} => signer.held.body = signer.canon
    /\ signer.pc = "write_meta" => release.meta = Nothing /\ signer.linked

(* Without a signing that ran into a replacement, a signature lies beside no  *)
(* metadata but its own, and beside none while a release is created.          *)
UnmixedInv ==
    ~mixed =>
        /\ ~Overlap
        /\ release.meta # Garbled
        /\ release.sig \in Signature /\ IsWhole(release.meta)
              => release.sig.over = release.meta.body
        /\ creator.pc \in {"image", "open_meta", "write_meta"} => release.sig = NoFile
        /\ creator.pc \in {"image", "open_meta"} => release.meta = NoFile
        /\ creator.pc = "write_meta" => release.meta = Nothing
        /\ SigningAlone

SignedInv == signed => Consistent

(* The signature that lies here, and the one a command has read here, went    *)
(* with the metadata beside it at a moment of the command.                    *)
JustifiedInv ==
    \A c \in Commands :
        /\ command[c].pc \in {"idle", "signature"} => command[c].sig = Nothing
        /\ command[c].here => Running(c)
        /\ ~command[c].here => command[c].sig = Nothing
        /\ command[c].here /\ ~disturbed[c] =>
              /\ ~mixed
              /\ {release.sig, command[c].sig} \cap Signature \subseteq together[c]

(* A command that has the temporary file to itself finds in it what it wrote. *)
AloneInv ==
    \A c \in Commands :
        alone[c] =>
            /\ command[c].pc \in {"write", "python", "unlink", "report"}
            /\ UsesTemp(c) => \A d \in Commands \ {c} : ~UsesTemp(d)
            /\ command[c].pc = "write" => command[c].linked /\ temp = Nothing
            /\ command[c].pc = "python" => temp = command[c].meta
            /\ command[c].pc \in {"unlink", "report"} =>
                  command[c].data = CanonicalOutput(command[c].meta)

SteadyInv ==
    \A c \in Commands :
        steady[c] =>
            /\ signed /\ Running(c) /\ command[c].here
            /\ command[c].meta = release.meta
            /\ command[c].pc # "signature" => command[c].sig = release.sig

SignatureInv ==
    /\ ReleaseTyped /\ CommandsTyped
    /\ DirectoryInv /\ UnmixedInv /\ SignedInv
    /\ JustifiedInv /\ AloneInv /\ SteadyInv


-----------------------------------------------------------------------------
(* The files of the directory, by their names. *)

LEMMA FileNames ==
    ASSUME ReleaseTyped
    PROVE  /\ (\A file \in Files : release[file] = NoFile)
                 <=> release.image = NoFile /\ release.meta = NoFile /\ release.sig = NoFile
           /\ {file \in Files : release[file] # NoFile} \subseteq Files
  BY DEF Files

(* rmtree removes one file, and whoever has it open goes on without its name. *)
LEMMA RemoveFileFacts ==
    ASSUME ReleaseTyped, NEW file \in Files, RemoveFile(file)
    PROVE  /\ release' \in ReleaseRecord /\ creator' \in CreatorRecord /\ signer' \in SignerRecord
           /\ release'.exists = release.exists
           /\ release'.image \in {release.image, NoFile}
           /\ release'.meta \in {release.meta, NoFile}
           /\ release'.sig \in {release.sig, NoFile}
           /\ creator.pc = "remove" /\ creator'.pc = "remove" /\ creator'.body = creator.body
           /\ signer'.pc = signer.pc /\ signer'.key = signer.key /\ signer'.canon = signer.canon
           /\ signer'.field = signer.field /\ signer'.held = signer.held
           /\ signer'.linked => signer.linked
           /\ signer.pc = "write_sig" /\ signer'.linked => release'.sig = release.sig
           /\ signer.pc = "write_meta" /\ signer'.linked => release'.meta = release.meta
  <1>1. creator.pc = "remove" /\ creator' = [creator EXCEPT !.listed = @ \ {file}]
    BY DEF RemoveFile
  <1>2. creator' \in CreatorRecord /\ creator'.pc = "remove" /\ creator'.body = creator.body
    BY <1>1 DEF ReleaseTyped, CreatorRecord
  <1>3. PICK linked \in BOOLEAN :
          /\ linked = (signer.linked /\ ~(file = "sig"  /\ signer.pc = "write_sig")
                                     /\ ~(file = "meta" /\ signer.pc = "write_meta"))
          /\ signer' = [signer EXCEPT !.linked = linked]
    <2>1. (signer.linked /\ ~(file = "sig"  /\ signer.pc = "write_sig")
                         /\ ~(file = "meta" /\ signer.pc = "write_meta")) \in BOOLEAN
      BY DEF ReleaseTyped, SignerRecord
    <2>2. QED
      BY <2>1 DEF RemoveFile
  <1>4. signer' \in SignerRecord /\ signer'.linked = linked
        /\ signer'.pc = signer.pc /\ signer'.key = signer.key /\ signer'.canon = signer.canon
        /\ signer'.field = signer.field /\ signer'.held = signer.held
    BY <1>3 DEF ReleaseTyped, SignerRecord
  <1>5. CASE file = "image"
    <2>1. release' = [release EXCEPT !.image = NoFile]
      BY <1>5 DEF RemoveFile
    <2>2. QED
      BY <1>1, <1>2, <1>3, <1>4, <1>5, <2>1 DEF ReleaseTyped, ReleaseRecord
  <1>6. CASE file = "meta"
    <2>1. release' = [release EXCEPT !.meta = NoFile]
      BY <1>6 DEF RemoveFile
    <2>2. QED
      BY <1>1, <1>2, <1>3, <1>4, <1>6, <2>1 DEF ReleaseTyped, ReleaseRecord, Metadata
  <1>7. CASE file = "sig"
    <2>1. release' = [release EXCEPT !.sig = NoFile]
      BY <1>7 DEF RemoveFile
    <2>2. QED
      BY <1>1, <1>2, <1>3, <1>4, <1>7, <2>1 DEF ReleaseTyped, ReleaseRecord, Signatures
  <1>8. QED
    BY <1>5, <1>6, <1>7 DEF Files


LEMMA OverwriteFacts ==
    ASSUME NEW old, NEW new
    PROVE  /\ Overwrite(old, new) \subseteq {new, Garbled}
           /\ old = Nothing => Overwrite(old, new) = {new}
  BY DEF Overwrite

LEMMA WholeFacts ==
    ASSUME NEW meta \in Metadata, IsWhole(meta)
    PROVE  meta \in Whole /\ Canonical(meta) = meta.body /\ Canonical(meta) \in Bodies
  BY DEF Metadata, IsWhole, Whole, Canonical

-----------------------------------------------------------------------------
(* Types, and the directory as a place. *)

LEMMA CreateKeepsTypes ==
    ASSUME ReleaseTyped, Create
    PROVE  ReleaseTyped'
  <1> USE DEF ReleaseTyped
  <1>1. ASSUME NEW body \in Bodies, CreateStart(body)
        PROVE  ReleaseTyped'
    <2>1. /\ creator' \in CreatorRecord /\ creator'.body = body
      <3>1. PICK listed \in SUBSET Files : listed = {file \in Files : release[file] # NoFile}
        BY FileNames
      <3>2. creator' = [pc |-> IF release.exists THEN "remove" ELSE "make", body |-> body,
                        listed |-> listed]
        BY <1>1, <3>1 DEF CreateStart
      <3>3. QED
        BY <3>2 DEF CreatorRecord
    <2>2. calls' \in [create : 0 .. MaxCreations, sign : 0 .. MaxSignings]
      BY <1>1, CallsAssumption DEF CreateStart
    <2>3. QED
      BY <1>1, <2>1, <2>2 DEF CreateStart
  <1>2. ASSUME UNCHANGED calls, NEW file \in Files, RemoveFile(file)
        PROVE  ReleaseTyped'
    BY <1>2, RemoveFileFacts
  <1>3. CASE UNCHANGED calls /\ RemoveDirectory
    BY <1>3 DEF RemoveDirectory, CreatorGoes, CreatorRecord, ReleaseRecord
  <1>4. CASE UNCHANGED calls /\ MakeDirectory
    BY <1>4 DEF MakeDirectory, CreatorGoes, CreatorRecord, ReleaseRecord
  <1>5. CASE UNCHANGED calls /\ CopyImage
    BY <1>5 DEF CopyImage, CreatorGoes, CreatorRecord, ReleaseRecord
  <1>6. CASE UNCHANGED calls /\ OpenMetadata
    BY <1>6 DEF OpenMetadata, CreatorGoes, CreatorRecord, ReleaseRecord, Metadata
  <1>7. CASE UNCHANGED calls /\ WriteMetadata
    <2>1. PICK meta \in Overwrite(release.meta, [body |-> creator.body, field |-> Nothing]) :
              release' = [release EXCEPT !.meta = meta]
      BY <1>7 DEF WriteMetadata
    <2>2. creator.body \in Bodies
      BY <1>7 DEF WriteMetadata
    <2>3. meta \in Metadata
      BY <2>1, <2>2, OverwriteFacts DEF Metadata, Whole, Fields
    <2>4. release' \in ReleaseRecord
      BY <2>1, <2>3 DEF ReleaseRecord
    <2>5. creator' = CreatorIdle /\ UNCHANGED signer
      BY <1>7 DEF WriteMetadata
    <2>6. QED
      BY <1>7, <2>4, <2>5 DEF CreatorIdle, CreatorRecord
  <1>8. CASE UNCHANGED calls /\ CreatorStops
    BY <1>8 DEF CreatorStops, CreatorIdle, CreatorRecord
  <1>9. QED
    BY <1>1, <1>2, <1>3, <1>4, <1>5, <1>6, <1>7, <1>8 DEF Create

LEMMA SignKeepsTypes ==
    ASSUME ReleaseTyped, Sign
    PROVE  ReleaseTyped'
  <1> USE DEF ReleaseTyped
  <1>1. ASSUME NEW key \in SigningKeys, SignStart(key)
        PROVE  ReleaseTyped'
    <2>1. calls' \in [create : 0 .. MaxCreations, sign : 0 .. MaxSignings]
      BY <1>1, CallsAssumption DEF SignStart
    <2>2. signer' \in SignerRecord /\ signer'.pc = "image" /\ signer'.key = key
      BY <1>1 DEF SignStart, SignerIdle, SignerRecord, Fields
    <2>3. QED
      BY <1>1, <2>1, <2>2 DEF SignStart
  <1>2. CASE UNCHANGED calls /\ SignCheckImage
    BY <1>2 DEF SignCheckImage, SignerGoes, SignerRecord
  <1>3. CASE UNCHANGED calls /\ SignCanonical
    <2>1. PICK canon \in Bodies : signer' = [signer EXCEPT !.pc = "open_sig", !.canon = canon]
      BY <1>3, WholeFacts DEF SignCanonical, ReleaseRecord
    <2>2. QED
      BY <1>3, <2>1 DEF SignCanonical, SignerRecord
  <1>4. CASE UNCHANGED calls /\ SignOpenSignature
    <2>1. release' \in ReleaseRecord
      BY <1>4 DEF SignOpenSignature, ReleaseRecord, Signatures
    <2>2. signer' \in SignerRecord /\ signer'.pc = "write_sig" /\ signer'.canon = signer.canon
          /\ signer'.key = signer.key
      BY <1>4 DEF SignOpenSignature, SignerRecord
    <2>3. QED
      BY <1>4, <2>1, <2>2 DEF SignOpenSignature
  <1>5. CASE UNCHANGED calls /\ SignWriteSignature
    <2>1. [over |-> signer.canon, by |-> signer.key] \in Signatures
      BY <1>5 DEF SignWriteSignature, Signature, Signatures
    <2>2. release' \in ReleaseRecord
      BY <1>5, <2>1 DEF SignWriteSignature, ReleaseRecord
    <2>3. signer' \in SignerRecord /\ signer'.pc = "field" /\ signer'.key = signer.key
      BY <1>5 DEF SignWriteSignature, SignerGoes, SignerRecord
    <2>4. QED
      BY <1>5, <2>2, <2>3 DEF SignWriteSignature
  <1>6. CASE UNCHANGED calls /\ SignReadField
    <2>1. PICK field \in Fields : signer' = [signer EXCEPT !.pc = "load", !.field = field]
      BY <1>6 DEF SignReadField, ReleaseRecord, Signatures, Fields
    <2>2. QED
      BY <1>6, <2>1 DEF SignReadField, SignerRecord
  <1>7. CASE UNCHANGED calls /\ SignLoadMetadata
    <2>1. release.meta \in Whole
      BY <1>7, WholeFacts DEF SignLoadMetadata, ReleaseRecord
    <2>2. QED
      BY <1>7, <2>1 DEF SignLoadMetadata, SignerRecord
  <1>8. CASE UNCHANGED calls /\ SignOpenMetadata
    <2>1. release' \in ReleaseRecord
      BY <1>8 DEF SignOpenMetadata, ReleaseRecord, Metadata
    <2>2. signer' \in SignerRecord /\ signer'.pc = "write_meta" /\ signer'.held = signer.held
          /\ signer'.key = signer.key
      BY <1>8 DEF SignOpenMetadata, SignerRecord
    <2>3. QED
      BY <1>8, <2>1, <2>2 DEF SignOpenMetadata
  <1>9. CASE UNCHANGED calls /\ SignWriteMetadata
    <2>1. [signer.held EXCEPT !.field = signer.field] \in Whole
      BY <1>9 DEF SignWriteMetadata, Whole, SignerRecord
    <2>2. PICK meta \in Metadata : release' = [release EXCEPT !.meta = meta]
      BY <1>9, <2>1, OverwriteFacts DEF SignWriteMetadata, Metadata, ReleaseRecord
    <2>3. release' \in ReleaseRecord
      BY <2>2 DEF ReleaseRecord
    <2>4. signer' \in SignerRecord /\ signer'.pc = "verify" /\ signer'.key = signer.key
      BY <1>9 DEF SignWriteMetadata, SignerRecord, Fields
    <2>5. QED
      BY <1>9, <2>3, <2>4 DEF SignWriteMetadata
  <1>10. CASE UNCHANGED calls /\ (SignDone \/ SignerStops)
    <2>1. signer' = SignerIdle /\ UNCHANGED <<release, creator, calls>>
      BY <1>10 DEF SignDone, SignerStops
    <2>2. SignerIdle \in SignerRecord /\ SignerIdle.pc = "idle"
      BY DEF SignerIdle, SignerRecord, Fields
    <2>3. QED
      BY <2>1, <2>2
  <1>11. QED
    BY <1>1, <1>2, <1>3, <1>4, <1>5, <1>6, <1>7, <1>8, <1>9, <1>10 DEF Sign


\* A name that is written to is one of a directory that is there.
LEMMA DirectoryIsKept ==
    ASSUME ReleaseTyped, DirectoryInv, Create \/ Sign
    PROVE  DirectoryInv'
  <1>1. release \in ReleaseRecord /\ creator \in CreatorRecord /\ signer \in SignerRecord
    BY DEF ReleaseTyped
  <1>2. DirectoryInv <=>
          /\ ~release.exists =>
                release.image = NoFile /\ release.meta = NoFile /\ release.sig = NoFile
          /\ creator.pc = "make" => ~release.exists
          /\ creator.pc \in {"remove", "image", "open_meta", "write_meta"} => release.exists
          /\ signer.pc = "write_sig" /\ signer.linked => release.sig # NoFile
          /\ signer.pc = "write_meta" /\ signer.linked => release.meta # NoFile
    BY FileNames DEF DirectoryInv
  <1>3. ReleaseTyped'
    BY CreateKeepsTypes, SignKeepsTypes
  <1>4. DirectoryInv' <=>
          /\ ~release'.exists =>
                release'.image = NoFile /\ release'.meta = NoFile /\ release'.sig = NoFile
          /\ creator'.pc = "make" => ~release'.exists
          /\ creator'.pc \in {"remove", "image", "open_meta", "write_meta"} => release'.exists
          /\ signer'.pc = "write_sig" /\ signer'.linked => release'.sig # NoFile
          /\ signer'.pc = "write_meta" /\ signer'.linked => release'.meta # NoFile
    BY <1>3, FileNames DEF DirectoryInv, ReleaseTyped, ReleaseRecord, Files
  <1> DEFINE Empty == release.image = NoFile /\ release.meta = NoFile /\ release.sig = NoFile
  <1>5. ASSUME NEW body \in Bodies, CreateStart(body)
        PROVE  DirectoryInv'
    <2>1. creator'.pc = (IF release.exists THEN "remove" ELSE "make")
          /\ UNCHANGED <<release, signer>>
      BY <1>5 DEF CreateStart
    <2>2. QED
      BY <1>2, <1>4, <2>1
  <1>6. ASSUME NEW file \in Files, RemoveFile(file)
        PROVE  DirectoryInv'
    BY <1>2, <1>4, <1>6, RemoveFileFacts
  <1>7. CASE RemoveDirectory
    <2>1. creator'.pc = "make" /\ Empty /\ signer' = signer
          /\ release' = [release EXCEPT !.exists = FALSE]
      BY <1>1, <1>7 DEF RemoveDirectory, CreatorGoes, CreatorRecord, Files
    <2>2. ~release'.exists /\ release'.image = NoFile /\ release'.meta = NoFile
          /\ release'.sig = NoFile
      BY <1>1, <2>1 DEF ReleaseRecord
    <2>3. QED
      BY <1>2, <1>4, <2>1, <2>2
  <1>8. CASE MakeDirectory \/ CopyImage \/ OpenMetadata
    <2>1. /\ release'.exists /\ creator'.pc \in {"image", "open_meta", "write_meta"}
          /\ release'.sig = release.sig /\ release'.meta \in {release.meta, Nothing}
          /\ signer' = signer
      BY <1>1, <1>2, <1>8
         DEF MakeDirectory, CopyImage, OpenMetadata, CreatorGoes, CreatorRecord, ReleaseRecord
    <2>2. QED
      BY <1>2, <1>4, <2>1, BodiesAssumption
  <1>9. CASE WriteMetadata
    <2>1. PICK meta \in Overwrite(release.meta, [body |-> creator.body, field |-> Nothing]) :
              release' = [release EXCEPT !.meta = meta]
      BY <1>9 DEF WriteMetadata
    <2>2. [body |-> creator.body, field |-> Nothing] \in Whole
      BY <1>9 DEF WriteMetadata, ReleaseTyped, Whole, Fields
    <2>3. meta # NoFile
      BY <2>1, <2>2, OverwriteFacts, BodiesAssumption
    <2>4. release'.exists = release.exists /\ release'.sig = release.sig
          /\ release'.meta = meta /\ release.exists
      BY <1>1, <1>2, <1>9, <2>1 DEF ReleaseRecord, WriteMetadata
    <2>5. creator'.pc = "idle" /\ signer' = signer
      BY <1>9 DEF WriteMetadata, CreatorIdle
    <2>6. QED
      BY <1>2, <1>4, <2>3, <2>4, <2>5
  <1>10. CASE CreatorStops
    <2>1. creator'.pc = "idle" /\ UNCHANGED <<release, signer>>
      BY <1>10 DEF CreatorStops, CreatorIdle
    <2>2. QED
      BY <1>2, <1>4, <2>1
  <1>11. ASSUME release' = release, creator' = creator,
                signer'.pc \notin {"write_sig", "write_meta"}
         PROVE  DirectoryInv'
    BY <1>2, <1>4, <1>11
  <1>12. CASE (\E key \in SigningKeys : SignStart(key)) \/ SignCheckImage \/ SignCanonical
              \/ SignReadField \/ SignLoadMetadata \/ SignDone \/ SignerStops
    <2>1. release' = release /\ creator' = creator
      BY <1>12 DEF SignStart, SignCheckImage, SignCanonical, SignReadField,
              SignLoadMetadata, SignDone, SignerStops
    <2>2. signer'.pc \notin {"write_sig", "write_meta"}
      <3>1. ASSUME NEW key \in SigningKeys, SignStart(key)
            PROVE  signer'.pc = "image"
        BY <3>1 DEF SignStart, SignerIdle
      <3>2. CASE SignDone \/ SignerStops
        BY <3>2 DEF SignDone, SignerStops, SignerIdle
      <3>3. CASE SignCheckImage \/ SignCanonical \/ SignReadField \/ SignLoadMetadata
        BY <1>1, <3>3 DEF SignCheckImage, SignCanonical, SignReadField, SignLoadMetadata,
                          SignerGoes, SignerRecord
      <3>4. QED
        BY <1>12, <3>1, <3>2, <3>3
    <2>3. QED
      BY <1>11, <2>1, <2>2
  <1>13. CASE SignOpenSignature \/ SignOpenMetadata
    <2>1. /\ release.exists /\ release'.exists /\ creator' = creator
          /\ signer'.pc = "write_sig" => release'.sig = Nothing
          /\ signer'.pc = "write_meta" => release'.meta = Nothing
      BY <1>1, <1>13 DEF SignOpenSignature, SignOpenMetadata, SignerRecord, ReleaseRecord
    <2>2. QED
      BY <1>2, <1>4, <2>1, BodiesAssumption
  <1>14. CASE SignWriteSignature
    <2>1. creator' = creator /\ signer'.pc = "field"
      BY <1>1, <1>14 DEF SignWriteSignature, SignerGoes, SignerRecord
    <2>2. CASE signer.linked
      <3>1. release.sig # NoFile /\ release'.exists = release.exists
        BY <1>1, <1>2, <1>14, <2>2 DEF SignWriteSignature, ReleaseRecord
      <3>2. QED
        BY <1>2, <1>4, <2>1, <3>1
    <2>3. CASE ~signer.linked
      <3>1. release' = release
        BY <1>1, <1>14, <2>3 DEF SignWriteSignature, ReleaseRecord
      <3>2. QED
        BY <1>11, <2>1, <3>1
    <2>4. QED
      BY <2>2, <2>3
  <1>15. CASE SignWriteMetadata
    <2>1. creator' = creator /\ signer'.pc = "verify"
      BY <1>1, <1>15 DEF SignWriteMetadata, SignerRecord
    <2>2. CASE signer.linked
      <3>1. release.meta # NoFile /\ release'.exists = release.exists
        BY <1>1, <1>2, <1>15, <2>2 DEF SignWriteMetadata, ReleaseRecord
      <3>2. QED
        BY <1>2, <1>4, <2>1, <3>1
    <2>3. CASE ~signer.linked
      <3>1. release' = release
        BY <1>1, <1>15, <2>3 DEF SignWriteMetadata, ReleaseRecord
      <3>2. QED
        BY <1>11, <2>1, <3>1
    <2>4. QED
      BY <2>2, <2>3
  <1>16. QED
    BY <1>5, <1>6, <1>7, <1>8, <1>9, <1>10, <1>12, <1>13, <1>14, <1>15 DEF Create, Sign


-----------------------------------------------------------------------------
(* The directory while it has one writer at a time. *)

\* What UnmixedInv says of the files when no signing is under way.
Orderly ==
    /\ release.meta # Garbled
    /\ release.sig \in Signature /\ IsWhole(release.meta)
          => release.sig.over = release.meta.body
    /\ creator.pc \in {"image", "open_meta", "write_meta"} => release.sig = NoFile
    /\ creator.pc \in {"image", "open_meta"} => release.meta = NoFile
    /\ creator.pc = "write_meta" => release.meta = Nothing

LEMMA NoneFacts ==
    /\ NoFile \notin Signature /\ Nothing \notin Signature
    /\ ~IsWhole(NoFile) /\ ~IsWhole(Nothing) /\ ~IsWhole(Garbled)
    /\ \A meta \in Whole : IsWhole(meta)
  BY BodiesAssumption DEF IsWhole

LEMMA MakeDirectoryFacts ==
    ASSUME ReleaseTyped, DirectoryInv, MakeDirectory
    PROVE  /\ release'.meta = NoFile /\ release'.sig = NoFile
           /\ creator'.pc = "image" /\ signer' = signer
  <1>1. release.meta = NoFile /\ release.sig = NoFile
    BY FileNames DEF DirectoryInv, MakeDirectory
  <1>2. QED
    BY <1>1 DEF MakeDirectory, CreatorGoes, ReleaseTyped, CreatorRecord, ReleaseRecord

LEMMA CreateKeepsOrder ==
    ASSUME ReleaseTyped, DirectoryInv, Orderly, Create
    PROVE  Orderly'
  <1>1. release \in ReleaseRecord /\ creator \in CreatorRecord
    BY DEF ReleaseTyped
  <1>2. ASSUME NEW body \in Bodies, CreateStart(body)
        PROVE  Orderly'
    <2>1. creator'.pc \in {"remove", "make"} /\ release' = release
      BY <1>2 DEF CreateStart
    <2>2. QED
      BY <2>1 DEF Orderly
  <1>3. ASSUME NEW file \in Files, RemoveFile(file)
        PROVE  Orderly'
    <2>1. /\ release'.meta \in {release.meta, NoFile} /\ release'.sig \in {release.sig, NoFile}
          /\ creator'.pc = "remove"
      BY <1>3, RemoveFileFacts
    <2>2. QED
      BY <2>1, NoneFacts, BodiesAssumption DEF Orderly
  <1>4. CASE RemoveDirectory
    <2>1. release'.meta = release.meta /\ release'.sig = release.sig /\ creator'.pc = "make"
      BY <1>1, <1>4 DEF RemoveDirectory, CreatorGoes, CreatorRecord, ReleaseRecord
    <2>2. QED
      BY <2>1 DEF Orderly
  <1>5. CASE MakeDirectory
    BY <1>5, MakeDirectoryFacts, NoneFacts, BodiesAssumption DEF Orderly
  <1>6. CASE CopyImage
    <2>1. release'.meta = release.meta /\ release'.sig = release.sig
          /\ creator'.pc = "open_meta" /\ creator.pc = "image"
      BY <1>1, <1>6 DEF CopyImage, CreatorGoes, CreatorRecord, ReleaseRecord
    <2>2. QED
      BY <2>1 DEF Orderly
  <1>7. CASE OpenMetadata
    <2>1. release'.meta = Nothing /\ release'.sig = release.sig
          /\ creator'.pc = "write_meta" /\ creator.pc = "open_meta"
      BY <1>1, <1>7 DEF OpenMetadata, CreatorGoes, CreatorRecord, ReleaseRecord
    <2>2. QED
      BY <2>1, NoneFacts, BodiesAssumption DEF Orderly
  <1>8. CASE WriteMetadata
    <2>1. creator.pc = "write_meta" /\ release.meta = Nothing /\ release.sig = NoFile
      BY <1>8 DEF WriteMetadata, Orderly
    <2>2. [body |-> creator.body, field |-> Nothing] \in Whole
      BY <2>1 DEF ReleaseTyped, Whole, Fields
    <2>3. PICK meta \in Whole : release' = [release EXCEPT !.meta = meta]
      BY <1>8, <2>1, <2>2, OverwriteFacts DEF WriteMetadata
    <2>4. release'.meta # Garbled /\ release'.sig = NoFile /\ creator'.pc = "idle"
      BY <1>1, <1>8, <2>1, <2>3, BodiesAssumption DEF ReleaseRecord, WriteMetadata, CreatorIdle
    <2>5. QED
      BY <2>4, NoneFacts DEF Orderly
  <1>9. CASE CreatorStops
    <2>1. creator'.pc = "idle" /\ release' = release
      BY <1>9 DEF CreatorStops, CreatorIdle
    <2>2. QED
      BY <2>1 DEF Orderly
  <1>10. QED
    BY <1>2, <1>3, <1>4, <1>5, <1>6, <1>7, <1>8, <1>9 DEF Create

LEMMA CreateWho ==
    ASSUME Create
    PROVE  /\ creator.pc # "idle" \/ creator'.pc # "idle"
           /\ ReleaseTyped => signer'.pc = signer.pc
  <1>1. creator.pc # "idle" \/ creator'.pc # "idle"
    BY DEF Create, CreateStart, RemoveFile, RemoveDirectory, MakeDirectory, CopyImage,
           OpenMetadata, WriteMetadata, CreatorStops
  <1>2. ASSUME ReleaseTyped
        PROVE  signer'.pc = signer.pc
    <2>1. CASE \E file \in Files : RemoveFile(file)
      BY <1>2, <2>1, RemoveFileFacts
    <2>2. CASE ~ \E file \in Files : RemoveFile(file)
      BY <2>2 DEF Create, CreateStart, RemoveDirectory, MakeDirectory, CopyImage,
           OpenMetadata, WriteMetadata, CreatorStops
    <2>3. QED
      BY <2>1, <2>2
  <1>3. QED
    BY <1>1, <1>2

LEMMA SignWho ==
    ASSUME ReleaseTyped, Sign
    PROVE  creator' = creator /\ (signer.pc # "idle" \/ signer'.pc # "idle")
  BY DEF Sign, SignStart, SignCheckImage, SignCanonical, SignOpenSignature, SignWriteSignature,
         SignReadField, SignLoadMetadata, SignOpenMetadata, SignWriteMetadata, SignDone,
         SignerStops, SignerIdle

LEMMA SignKeepsOrder ==
    ASSUME ReleaseTyped, Orderly, SigningAlone, creator.pc = "idle", Sign
    PROVE  Orderly' /\ SigningAlone'
  <1>1. release \in ReleaseRecord /\ signer \in SignerRecord /\ creator' = creator
    BY SignWho DEF ReleaseTyped
  <1>2. ASSUME NEW key \in SigningKeys, SignStart(key)
        PROVE  Orderly' /\ SigningAlone'
    <2>1. signer'.pc = "image" /\ release' = release /\ IsWhole(release.meta)
      BY <1>2 DEF SignStart, SignerIdle
    <2>2. QED
      BY <1>1, <2>1 DEF Orderly, SigningAlone
  <1>3. CASE SignCheckImage
    <2>1. signer'.pc = "canonical" /\ release' = release /\ IsWhole(release.meta)
      BY <1>1, <1>3 DEF SignCheckImage, SignerGoes, SignerRecord
    <2>2. QED
      BY <1>1, <2>1 DEF Orderly, SigningAlone
  <1>4. CASE SignCanonical
    <2>1. signer'.pc = "open_sig" /\ release' = release /\ IsWhole(release.meta)
          /\ signer'.canon = release.meta.body
      BY <1>1, <1>4 DEF SignCanonical, SignerRecord, Canonical
    <2>2. QED
      BY <1>1, <2>1 DEF Orderly, SigningAlone
  <1>5. CASE SignOpenSignature
    <2>1. /\ signer.pc = "open_sig" /\ signer'.pc = "write_sig" /\ signer'.linked
          /\ signer'.canon = signer.canon
          /\ release'.meta = release.meta /\ release'.sig = Nothing
      BY <1>1, <1>5 DEF SignOpenSignature, SignerRecord, ReleaseRecord
    <2>2. QED
      BY <1>1, <2>1, NoneFacts DEF Orderly, SigningAlone
  <1>6. CASE SignWriteSignature
    <2>1. signer.pc = "write_sig" /\ signer.linked
      BY <1>6 DEF SignWriteSignature, SigningAlone
    <2>2. /\ signer'.pc = "field" /\ signer'.canon = signer.canon /\ signer'.key = signer.key
          /\ release'.meta = release.meta
          /\ release'.sig = [over |-> signer.canon, by |-> signer.key]
      BY <1>1, <1>6, <2>1 DEF SignWriteSignature, SignerGoes, SignerRecord, ReleaseRecord
    <2>3. QED
      BY <1>1, <2>1, <2>2 DEF Orderly, SigningAlone
  <1>7. CASE SignReadField
    <2>1. /\ signer.pc = "field" /\ signer'.pc = "load" /\ release' = release
          /\ signer'.canon = signer.canon /\ signer'.key = signer.key
      BY <1>1, <1>7 DEF SignReadField, SignerRecord
    <2>2. QED
      BY <1>1, <2>1 DEF Orderly, SigningAlone
  <1>8. CASE SignLoadMetadata
    <2>1. /\ signer.pc = "load" /\ signer'.pc = "open_meta" /\ release' = release
          /\ signer'.canon = signer.canon /\ signer'.key = signer.key
          /\ signer'.held = release.meta
      BY <1>1, <1>8 DEF SignLoadMetadata, SignerRecord
    <2>2. QED
      BY <1>1, <2>1 DEF Orderly, SigningAlone
  <1>9. CASE SignOpenMetadata
    <2>1. /\ signer.pc = "open_meta" /\ signer'.pc = "write_meta" /\ signer'.linked
          /\ signer'.canon = signer.canon /\ signer'.key = signer.key
          /\ signer'.held = signer.held
          /\ release'.meta = Nothing /\ release'.sig = release.sig
      BY <1>1, <1>9 DEF SignOpenMetadata, SignerRecord, ReleaseRecord
    <2>2. QED
      BY <1>1, <2>1, NoneFacts, BodiesAssumption DEF Orderly, SigningAlone
  <1>10. CASE SignWriteMetadata
    <2>1. /\ signer.pc = "write_meta" /\ signer.linked /\ release.meta = Nothing
          /\ signer.held \in Whole /\ signer.held.body = signer.canon
      BY <1>10 DEF SignWriteMetadata, SigningAlone, ReleaseTyped
    <2>2. PICK meta : meta = [signer.held EXCEPT !.field = signer.field]
      OBVIOUS
    <2>3. meta \in Whole /\ meta.body = signer.canon
      BY <1>1, <2>1, <2>2 DEF Whole, SignerRecord
    <2>4. release' = [release EXCEPT !.meta = meta]
      BY <1>10, <2>1, <2>2, OverwriteFacts DEF SignWriteMetadata
    <2>5. /\ signer'.pc = "verify" /\ signer'.canon = signer.canon /\ signer'.key = signer.key
          /\ release'.meta = meta /\ release'.sig = release.sig
      BY <1>1, <1>10, <2>4 DEF SignWriteMetadata, SignerRecord, ReleaseRecord
    <2>6. QED
      BY <1>1, <2>1, <2>3, <2>5, NoneFacts, BodiesAssumption DEF Orderly, SigningAlone
  <1>11. CASE SignDone \/ SignerStops
    <2>1. signer'.pc = "idle" /\ release' = release
      BY <1>11 DEF SignDone, SignerStops, SignerIdle
    <2>2. QED
      BY <1>1, <2>1 DEF Orderly, SigningAlone
  <1>12. QED
    BY <1>2, <1>3, <1>4, <1>5, <1>6, <1>7, <1>8, <1>9, <1>10, <1>11 DEF Sign


\* A signing that runs into a replacement is over when the directory is new.
LEMMA UnmixedIsKept ==
    ASSUME ReleaseTyped, DirectoryInv, UnmixedInv, Release
    PROVE  UnmixedInv'
  <1>1. ~mixed => ~Overlap /\ Orderly /\ SigningAlone
    BY DEF UnmixedInv, Orderly
  <1>2. SUFFICES ASSUME ~mixed'
                 PROVE  ~Overlap' /\ Orderly' /\ SigningAlone'
    BY DEF UnmixedInv, Orderly
  <1>3. ~Overlap' /\ (mixed => Replaced) /\ (Create \/ Sign)
    BY <1>2 DEF Release
  <1>4. CASE mixed
    <2>1. creator.pc = "make" /\ creator'.pc = "image" /\ signer.pc = "idle"
      BY <1>3, <1>4 DEF Replaced
    <2>2. MakeDirectory
      <3>1. Create
        BY <1>3, <2>1, SignWho
      <3>2. ~ \E body \in Bodies : CreateStart(body)
        BY <2>1 DEF CreateStart
      <3>3. ~ \E file \in Files : RemoveFile(file)
        BY <2>1 DEF RemoveFile
      <3>4. ~RemoveDirectory /\ ~CopyImage /\ ~OpenMetadata /\ ~WriteMetadata
        BY <2>1 DEF RemoveDirectory, CopyImage, OpenMetadata, WriteMetadata
      <3>5. ~CreatorStops
        BY <2>1 DEF CreatorStops, CreatorIdle
      <3>6. QED
        BY <3>1, <3>2, <3>3, <3>4, <3>5 DEF Create
    <2>3. /\ release'.meta = NoFile /\ release'.sig = NoFile
          /\ creator'.pc = "image" /\ signer' = signer
      BY <2>2, MakeDirectoryFacts
    <2>4. Orderly'
      BY <2>3, NoneFacts, BodiesAssumption DEF Orderly
    <2>5. SigningAlone'
      BY <2>1, <2>3 DEF SigningAlone
    <2>6. QED
      BY <1>3, <2>4, <2>5
  <1>5. CASE ~mixed
    <2>1. ~Overlap /\ Orderly /\ SigningAlone
      BY <1>1, <1>5
    <2>2. CASE Create
      <3>1. Orderly'
        BY <2>1, <2>2, CreateKeepsOrder
      <3>2. signer'.pc = "idle"
        BY <1>3, <2>1, <2>2, CreateWho DEF Overlap
      <3>3. SigningAlone'
        BY <3>2 DEF SigningAlone
      <3>4. QED
        BY <1>3, <3>1, <3>3
    <2>3. CASE Sign
      <3>1. creator.pc = "idle"
        BY <1>3, <2>1, <2>3, SignWho DEF Overlap
      <3>2. QED
        BY <1>3, <2>1, <2>3, <3>1, SignKeepsOrder
    <2>4. QED
      BY <1>3, <2>2, <2>3
  <1>6. QED
    BY <1>4, <1>5

\* Nothing but step 4 of sign-release makes a signature, and while nobody else
\* writes to the directory it is one of the metadata that lie there.
LEMMA NewSignature ==
    ASSUME ReleaseTyped, SigningAlone, Create \/ Sign,
           release'.sig # release.sig, release'.sig \in Signature
    PROVE  Consistent'
  <1>1. release \in ReleaseRecord /\ signer \in SignerRecord
    BY DEF ReleaseTyped
  <1>2. CASE Create
    <2>1. release'.sig \in {release.sig, NoFile}
      <3>1. CASE \E file \in Files : RemoveFile(file)
        BY <3>1, RemoveFileFacts
      <3>2. CASE ~ \E file \in Files : RemoveFile(file)
        BY <1>1, <1>2, <3>2 DEF Create, CreateStart, RemoveDirectory, MakeDirectory, CopyImage,
             OpenMetadata, WriteMetadata, CreatorStops, ReleaseRecord
      <3>3. QED
        BY <3>1, <3>2
    <2>2. QED
      BY <2>1, NoneFacts
  <1>3. CASE Sign /\ ~SignWriteSignature
    <2>1. release'.sig \in {release.sig, Nothing}
      BY <1>1, <1>3 DEF Sign, SignStart, SignCheckImage, SignCanonical, SignOpenSignature,
           SignReadField, SignLoadMetadata, SignOpenMetadata, SignWriteMetadata, SignDone,
           SignerStops, ReleaseRecord
    <2>2. QED
      BY <2>1, NoneFacts
  <1>4. CASE SignWriteSignature
    <2>1. signer.pc = "write_sig" /\ signer.linked /\ IsWhole(release.meta)
          /\ release.meta.body = signer.canon
      BY <1>4 DEF SignWriteSignature, SigningAlone
    <2>2. release'.sig = [over |-> signer.canon, by |-> signer.key]
          /\ release'.meta = release.meta
      BY <1>1, <1>4, <2>1 DEF SignWriteSignature, ReleaseRecord
    <2>3. QED
      BY <2>1, <2>2, NoneFacts DEF Consistent, Canonical
  <1>5. QED
    BY <1>2, <1>3, <1>4

LEMMA SignedIsKept ==
    ASSUME ReleaseTyped, UnmixedInv, SignedInv, Release
    PROVE  SignedInv'
  <1>1. CASE release' = release /\ signed
    BY <1>1 DEF SignedInv, Consistent
  <1>2. CASE release' = release /\ ~mixed /\ SignDone
    <2>1. /\ signer.pc = "verify" /\ IsWhole(release.meta) /\ release.meta.body = signer.canon
          /\ release.sig = [over |-> signer.canon, by |-> signer.key]
      BY <1>2 DEF SignDone, UnmixedInv, SigningAlone
    <2>2. release.meta.body \in Bodies /\ signer.key \in SigningKeys
      BY <2>1, WholeFacts DEF ReleaseTyped, ReleaseRecord, Canonical
    <2>3. release.sig \in Signature
      BY <2>1, <2>2 DEF Signature
    <2>4. QED
      BY <1>2, <2>1, <2>3, NoneFacts DEF SignedInv, Consistent, Canonical
  <1>3. QED
    BY <1>1, <1>2 DEF Release, SignedInv

-----------------------------------------------------------------------------
(* What the writers of the directory do to the invariant of the commands. *)

LEMMA TogetherIsTyped ==
    ASSUME ReleaseTyped
    PROVE  Together \subseteq Signature
  BY DEF Together, Consistent, ReleaseTyped, ReleaseRecord, Signatures

LEMMA ReleaseKeepsCommands ==
    ASSUME SignatureInv, Release
    PROVE  CommandsTyped' /\ JustifiedInv' /\ AloneInv' /\ SteadyInv'
  <1>1. /\ ReleaseTyped /\ CommandsTyped /\ UnmixedInv
        /\ JustifiedInv /\ AloneInv /\ SteadyInv
    BY DEF SignatureInv
  <1>2. /\ Create \/ Sign
        /\ mixed' = (Overlap' \/ (mixed /\ ~Replaced))
        /\ signed' = IF release' = release THEN signed \/ (~mixed /\ SignDone) ELSE FALSE
        /\ steady' = [d \in Commands |-> steady[d] /\ release' = release]
        /\ disturbed' = [d \in Commands |-> disturbed[d] \/ (command[d].here /\ mixed')]
        /\ together' = [d \in Commands |->
               IF command[d].here /\ ~disturbed'[d] THEN together[d] \cup Together' ELSE {}]
        /\ UNCHANGED <<temp, started, command, alone>>
    BY DEF Release
  <1>3. CommandsTyped'
    <2>1. PICK over \in BOOLEAN : over = Overlap'
      <3>1. Overlap' \in BOOLEAN
        BY DEF Overlap
      <3>2. QED
        BY <3>1
    <2>2. PICK replaced \in BOOLEAN : replaced = Replaced
      <3>1. Replaced \in BOOLEAN
        BY DEF Replaced
      <3>2. QED
        BY <3>1
    <2>3. PICK done \in BOOLEAN : done = SignDone
      <3>1. SignDone \in BOOLEAN
        BY DEF SignDone
      <3>2. QED
        BY <3>1
    <2>4. signed \in BOOLEAN /\ mixed \in BOOLEAN /\ disturbed \in [Commands -> BOOLEAN]
          /\ steady \in [Commands -> BOOLEAN] /\ together \in [Commands -> SUBSET Signature]
      BY <1>1 DEF CommandsTyped
    <2>5. signed' \in BOOLEAN
      BY <1>2, <2>3, <2>4
    <2>6. mixed' \in BOOLEAN
      BY <1>2, <2>1, <2>2, <2>4
    <2>7. steady' \in [Commands -> BOOLEAN]
      BY <1>2, <2>4
    <2>8. disturbed' \in [Commands -> BOOLEAN]
      <3>1. \A d \in Commands : (disturbed[d] \/ (command[d].here /\ mixed')) \in BOOLEAN
        OBVIOUS
      <3>2. QED
        BY <1>2, <3>1
    <2>10. together' \in [Commands -> SUBSET Signature]
      <3>1. Together' \subseteq Signature
        <4>1. ReleaseTyped'
          BY <1>1, <1>2, CreateKeepsTypes, SignKeepsTypes DEF SignatureInv
        <4>2. QED
          BY <4>1 DEF Together, Consistent, ReleaseTyped, ReleaseRecord, Signatures
      <3>2. QED
        BY <1>2, <2>4, <3>1
    <2>9. QED
      BY <1>1, <1>2, <2>5, <2>6, <2>7, <2>8, <2>10 DEF CommandsTyped
  <1>4. JustifiedInv'
    <2>1. ASSUME NEW c \in Commands, command[c].here, ~disturbed'[c]
          PROVE  ~mixed' /\ {release'.sig, command[c].sig} \cap Signature \subseteq together'[c]
      <3>1. ~disturbed[c] /\ ~mixed' /\ together'[c] = together[c] \cup Together'
        BY <1>2, <2>1
      <3>2. ~mixed /\ {release.sig, command[c].sig} \cap Signature \subseteq together[c]
        BY <1>1, <2>1, <3>1 DEF JustifiedInv
      <3>3. SigningAlone
        BY <1>1, <3>2 DEF UnmixedInv
      <3>4. release'.sig # release.sig /\ release'.sig \in Signature => Consistent'
        BY <1>1, <1>2, <3>3, NewSignature
      <3>5. Consistent' => release'.sig \in Together'
        BY <3>1 DEF Together
      <3>6. QED
        BY <3>1, <3>2, <3>4, <3>5
    <2>2. QED
      BY <1>1, <1>2, <2>1 DEF JustifiedInv, Running
  <1>5. AloneInv'
    BY <1>1, <1>2 DEF AloneInv, UsesTemp
  <1>6. SteadyInv'
    <2>1. ASSUME NEW c \in Commands, steady'[c]
          PROVE  steady[c] /\ release' = release /\ signed'
      <3>1. steady[c] /\ release' = release
        BY <1>2, <2>1
      <3>2. signed
        BY <1>1, <3>1 DEF SteadyInv
      <3>3. QED
        BY <1>2, <3>1, <3>2
    <2>2. QED
      BY <1>1, <1>2, <2>1 DEF SteadyInv, Running
  <1>7. QED
    BY <1>3, <1>4, <1>5, <1>6


-----------------------------------------------------------------------------
(* The steps of a command. *)

OthersKept(c) == \A d \in Commands \ {c} : command'[d] = command[d]

HereKept(c) == command'[c].here = command[c].here

LEMMA LoadMetadataStep ==
    ASSUME ReleaseTyped, CommandsTyped, NEW c \in Commands, LoadMetadata(c)
    PROVE  /\ command' \in [Commands -> CommandRecord] /\ OthersKept(c)
           /\ command[c].pc = "idle" /\ command'[c].pc = "signature"
           /\ command'[c].sig = command[c].sig
           /\ \/ /\ command'[c].here /\ command'[c].meta = release.meta
                 /\ release.meta \notin {NoFile, Nothing}
                 /\ together' = [together EXCEPT ![c] = Together]
                 /\ disturbed' = [disturbed EXCEPT ![c] = mixed]
                 /\ steady' = [steady EXCEPT ![c] = signed]
              \/ HereKept(c) /\ UNCHANGED <<together, disturbed, steady>>
           /\ started < MaxCommands /\ started' = started + 1
           /\ UNCHANGED <<temp, alone, signed, mixed>>
  <1>1. /\ command[c].pc = "idle" /\ started < MaxCommands /\ started' = started + 1
        /\ UNCHANGED <<temp, alone, signed, mixed>>
    BY DEF LoadMetadata
  <1>2. CASE UNCHANGED <<together, disturbed, steady>> /\ \E meta \in Elsewhere :
                command' = [command EXCEPT ![c].pc = "signature", ![c].meta = meta]
    <2>1. PICK meta \in Whole \cup {Garbled} :
             command' = [command EXCEPT ![c] = [@ EXCEPT !.pc = "signature", !.meta = meta]]
      BY <1>2, CommandsAssumption DEF CommandsTyped, CommandRecord
    <2>2. command' \in [Commands -> CommandRecord] /\ OthersKept(c) /\ HereKept(c)
          /\ command'[c].pc = "signature" /\ command'[c].sig = command[c].sig
      BY <2>1 DEF CommandsTyped, CommandRecord, OthersKept, HereKept
    <2>3. QED
      BY <1>1, <1>2, <2>2
  <1>3. CASE /\ release.meta \notin {NoFile, Nothing}
             /\ command' = [command EXCEPT ![c].pc = "signature", ![c].here = TRUE,
                                           ![c].meta = release.meta]
             /\ together' = [together EXCEPT ![c] = Together]
             /\ disturbed' = [disturbed EXCEPT ![c] = mixed]
             /\ steady' = [steady EXCEPT ![c] = signed]
    <2>1. release.meta \in Whole \cup {Garbled}
      BY <1>3 DEF ReleaseTyped, ReleaseRecord, Metadata
    <2>2. command' = [command EXCEPT ![c] = [@ EXCEPT !.pc = "signature", !.here = TRUE,
                                                      !.meta = release.meta]]
      BY <1>3 DEF CommandsTyped, CommandRecord
    <2>3. command' \in [Commands -> CommandRecord] /\ OthersKept(c)
          /\ command'[c].pc = "signature" /\ command'[c].here
          /\ command'[c].meta = release.meta /\ command'[c].sig = command[c].sig
      BY <2>1, <2>2 DEF CommandsTyped, CommandRecord, OthersKept
    <2>4. QED
      BY <1>1, <1>3, <2>3
  <1>4. QED
    BY <1>2, <1>3 DEF LoadMetadata

LEMMA LoadSignatureStep ==
    ASSUME ReleaseTyped, CommandsTyped, NEW c \in Commands, LoadSignature(c)
    PROVE  /\ command' \in [Commands -> CommandRecord] /\ OthersKept(c) /\ HereKept(c)
           /\ command[c].pc = "signature" /\ command'[c].pc = "open"
           /\ command'[c].meta = command[c].meta
           /\ command'[c].sig = IF command[c].here THEN release.sig ELSE command[c].sig
           /\ UNCHANGED <<temp, observers>>
  <1>1. CASE /\ command[c].here /\ release.sig # NoFile
             /\ command' = [command EXCEPT ![c].pc = "open", ![c].sig = release.sig]
    <2>1. release.sig \in Fields
      BY <1>1 DEF ReleaseTyped, ReleaseRecord, Signatures, Fields
    <2>2. command' = [command EXCEPT ![c] = [@ EXCEPT !.pc = "open", !.sig = release.sig]]
      BY <1>1 DEF CommandsTyped, CommandRecord
    <2>3. command' \in [Commands -> CommandRecord] /\ OthersKept(c) /\ HereKept(c)
          /\ command'[c].pc = "open" /\ command'[c].meta = command[c].meta
          /\ command'[c].sig = release.sig
      BY <2>1, <2>2 DEF CommandsTyped, CommandRecord, OthersKept, HereKept
    <2>4. QED
      BY <1>1, <2>3 DEF LoadSignature
  <1>2. CASE ~command[c].here /\ command' = [command EXCEPT ![c].pc = "open"]
    <2>1. command' = [command EXCEPT ![c] = [@ EXCEPT !.pc = "open"]]
      BY <1>2 DEF CommandsTyped, CommandRecord
    <2>2. QED
      BY <1>2, <2>1 DEF LoadSignature, CommandsTyped, CommandRecord, OthersKept, HereKept
  <1>3. QED
    BY <1>1, <1>2 DEF LoadSignature

LEMMA OpenTempStep ==
    ASSUME CommandsTyped, NEW c \in Commands, OpenTemp(c)
    PROVE  /\ command' \in [Commands -> CommandRecord] /\ OthersKept(c) /\ HereKept(c)
           /\ command[c].pc = "open" /\ command'[c].pc = "write" /\ command'[c].linked
           /\ command'[c].meta = command[c].meta /\ command'[c].sig = command[c].sig
           /\ temp' = Nothing
           /\ alone' = [d \in Commands |->
                  IF d = c THEN \A e \in Commands \ {c} : ~UsesTemp(e)
                           ELSE alone[d] /\ ~UsesTemp(d)]
           /\ UNCHANGED <<together, disturbed, steady, signed, mixed>>
  <1>1. command' = [command EXCEPT ![c] = [@ EXCEPT !.pc = "write", !.linked = TRUE]]
    BY DEF OpenTemp, CommandsTyped, CommandRecord
  <1>2. command' \in [Commands -> CommandRecord] /\ OthersKept(c) /\ HereKept(c)
        /\ command'[c].pc = "write" /\ command'[c].linked
        /\ command'[c].meta = command[c].meta /\ command'[c].sig = command[c].sig
    BY <1>1 DEF CommandsTyped, CommandRecord, OthersKept, HereKept
  <1>3. QED
    BY <1>2 DEF OpenTemp

LEMMA WriteTempStep ==
    ASSUME CommandsTyped, NEW c \in Commands, WriteTemp(c)
    PROVE  /\ command' \in [Commands -> CommandRecord] /\ OthersKept(c) /\ HereKept(c)
           /\ command[c].pc = "write" /\ command'[c].pc = "python"
           /\ command'[c].meta = command[c].meta /\ command'[c].sig = command[c].sig
           /\ temp' \in {temp, command[c].meta, Garbled} \cap Metadata
           /\ command[c].linked /\ temp = Nothing => temp' = command[c].meta
           /\ UNCHANGED observers
  <1>1. /\ command[c].pc = "write" /\ UNCHANGED observers
        /\ command' = [command EXCEPT ![c] = [@ EXCEPT !.pc = "python"]]
        /\ temp' \in IF command[c].linked THEN Overwrite(temp, command[c].meta) ELSE {temp}
    BY DEF WriteTemp, CommandsTyped, CommandRecord
  <1>2. temp \in Metadata /\ command[c].meta \in Metadata /\ Garbled \in Metadata
    BY DEF CommandsTyped, CommandRecord, Metadata
  <1>3. temp' \in {temp, command[c].meta, Garbled}
        /\ (command[c].linked /\ temp = Nothing => temp' = command[c].meta)
    BY <1>1, OverwriteFacts
  <1>4. command' \in [Commands -> CommandRecord] /\ OthersKept(c) /\ HereKept(c)
        /\ command'[c].pc = "python"
        /\ command'[c].meta = command[c].meta /\ command'[c].sig = command[c].sig
    BY <1>1 DEF CommandsTyped, CommandRecord, OthersKept, HereKept
  <1>5. QED
    BY <1>1, <1>2, <1>3, <1>4

LEMMA RunPythonStep ==
    ASSUME CommandsTyped, NEW c \in Commands, RunPython(c)
    PROVE  /\ command' \in [Commands -> CommandRecord] /\ OthersKept(c) /\ HereKept(c)
           /\ command[c].pc = "python" /\ command'[c].pc = "unlink"
           /\ command'[c].meta = command[c].meta /\ command'[c].sig = command[c].sig
           /\ command'[c].data = CanonicalOutput(temp)
           /\ UNCHANGED <<temp, observers>>
  <1>1. CanonicalOutput(temp) \in Bodies \cup {Nothing}
    BY WholeFacts DEF CanonicalOutput, CommandsTyped
  <1>2. command' = [command EXCEPT ![c] = [@ EXCEPT !.pc = "unlink",
                                                    !.data = CanonicalOutput(temp)]]
    BY DEF RunPython, CommandsTyped, CommandRecord
  <1>3. QED
    BY <1>1, <1>2 DEF RunPython, CommandsTyped, CommandRecord, OthersKept, HereKept

LEMMA CanonicalizeFailsStep ==
    ASSUME CommandsTyped, NEW c \in Commands, CanonicalizeFails(c)
    PROVE  /\ command' \in [Commands -> CommandRecord] /\ OthersKept(c) /\ HereKept(c)
           /\ command[c].pc \in {"open", "python"} /\ command'[c].pc \in {"report", "unlink"}
           /\ command'[c].pc = "unlink" => command[c].pc = "python"
           /\ command'[c].meta = command[c].meta /\ command'[c].sig = command[c].sig
           /\ alone' = [alone EXCEPT ![c] = FALSE]
           /\ UNCHANGED <<temp, together, disturbed, steady, signed, mixed>>
  <1>1. PICK pc \in {"report", "unlink"} :
          /\ pc = "unlink" => command[c].pc = "python"
          /\ command' = [command EXCEPT ![c] = [@ EXCEPT !.pc = pc]]
    BY DEF CanonicalizeFails, CommandsTyped, CommandRecord
  <1>2. QED
    BY SMTT(60), <1>1 DEF CanonicalizeFails, CommandsTyped, CommandRecord, OthersKept, HereKept

LEMMA UnlinkTempStep ==
    ASSUME CommandsTyped, NEW c \in Commands, UnlinkTemp(c)
    PROVE  /\ command' \in [Commands -> CommandRecord]
           /\ command[c].pc = "unlink" /\ command'[c].pc = "report"
           /\ \A d \in Commands : /\ HereKept(d) /\ command'[d].meta = command[d].meta
                                  /\ command'[d].sig = command[d].sig
                                  /\ command'[d].data = command[d].data
           /\ \A d \in Commands \ {c} : command'[d].pc = command[d].pc
           /\ temp' = NoFile
           /\ UNCHANGED observers
  <1>1. /\ command[c].pc = "unlink" /\ temp' = NoFile /\ UNCHANGED observers
        /\ command' = [d \in Commands |->
               [command[d] EXCEPT !.linked = FALSE, !.pc = IF d = c THEN "report" ELSE @]]
    BY DEF UnlinkTemp
  <1>2. ASSUME NEW d \in Commands
        PROVE  /\ command'[d] \in CommandRecord
               /\ command'[d].pc = IF d = c THEN "report" ELSE command[d].pc
               /\ command'[d].meta = command[d].meta /\ command'[d].sig = command[d].sig
               /\ command'[d].data = command[d].data /\ HereKept(d)
    BY <1>1 DEF CommandsTyped, CommandRecord, HereKept
  <1>3. QED
    BY <1>1, <1>2

LEMMA CommandEndsStep ==
    ASSUME CommandsTyped, NEW c \in Commands, CommandEnds(c)
    PROVE  /\ command' \in [Commands -> CommandRecord] /\ OthersKept(c)
           /\ Running(c) /\ command'[c].pc = "idle" /\ command'[c].sig = Nothing
           /\ ~command'[c].here
           /\ alone' = [alone EXCEPT ![c] = FALSE]
           /\ together' = [together EXCEPT ![c] = {}]
           /\ disturbed' = [disturbed EXCEPT ![c] = FALSE]
           /\ steady' = [steady EXCEPT ![c] = FALSE]
           /\ UNCHANGED <<temp, signed, mixed>>
  <1>1. CommandIdle \in CommandRecord /\ CommandIdle.pc = "idle" /\ CommandIdle.sig = Nothing
        /\ ~CommandIdle.here
    BY DEF CommandIdle, CommandRecord, Fields
  <1>2. QED
    BY <1>1 DEF CommandEnds, CommandsTyped, OthersKept


-----------------------------------------------------------------------------
(* What a command does to the invariant. *)

LEMMA CheckKeepsTypes ==
    ASSUME ReleaseTyped, CommandsTyped, NEW c \in Commands, Check(c)
    PROVE  CommandsTyped'
  <1>1. command[c].meta \in Metadata /\ temp \in Metadata
    BY DEF CommandsTyped, CommandRecord, Metadata
  <1>2. alone \in [Commands -> BOOLEAN] /\ disturbed \in [Commands -> BOOLEAN]
        /\ together \in [Commands -> SUBSET Signature]
        /\ steady \in [Commands -> BOOLEAN] /\ signed \in BOOLEAN /\ mixed \in BOOLEAN
    BY DEF CommandsTyped
  <1>3. CASE LoadMetadata(c)
    <2>1. Together \subseteq Signature
      BY TogetherIsTyped
    <2>2. /\ together' \in [Commands -> SUBSET Signature]
          /\ disturbed' \in [Commands -> BOOLEAN] /\ steady' \in [Commands -> BOOLEAN]
      BY <1>2, <1>3, <2>1, LoadMetadataStep
    <2>3. started' \in 0 .. MaxCommands
      BY <1>3, LoadMetadataStep, CommandsAssumption DEF CommandsTyped
    <2>4. QED
      BY <1>3, <2>2, <2>3, LoadMetadataStep DEF CommandsTyped
  <1>4. CASE UNCHANGED started /\ LoadSignature(c)
    BY <1>4, LoadSignatureStep DEF CommandsTyped, observers
  <1>5. CASE UNCHANGED started /\ OpenTemp(c)
    <2>1. PICK free \in BOOLEAN : free = \A e \in Commands \ {c} : ~UsesTemp(e)
      <3>1. (\A e \in Commands \ {c} : ~UsesTemp(e)) \in BOOLEAN
        OBVIOUS
      <3>2. QED
        BY <3>1
    <2>2. \A d \in Commands : (alone[d] /\ ~UsesTemp(d)) \in BOOLEAN
      OBVIOUS
    <2>3. alone' = [d \in Commands |-> IF d = c THEN free ELSE alone[d] /\ ~UsesTemp(d)]
      BY ZenonT(60), <1>5, <2>1, OpenTempStep
    <2>4. alone' \in [Commands -> BOOLEAN]
      BY <2>2, <2>3
    <2>5. /\ command' \in [Commands -> CommandRecord] /\ temp' = Nothing /\ started' = started
          /\ UNCHANGED <<together, disturbed, steady, signed, mixed>>
      BY <1>5, OpenTempStep
    <2>6. QED
      BY <2>4, <2>5 DEF CommandsTyped, Metadata
  <1>6. CASE UNCHANGED started /\ WriteTemp(c)
    BY <1>6, WriteTempStep DEF CommandsTyped, observers
  <1>7. CASE UNCHANGED started /\ RunPython(c)
    BY <1>7, RunPythonStep DEF CommandsTyped, observers
  <1>8. CASE UNCHANGED started /\ CanonicalizeFails(c)
    <2>1. alone' \in [Commands -> BOOLEAN]
      BY <1>2, <1>8, CanonicalizeFailsStep
    <2>2. QED
      BY <1>8, <2>1, CanonicalizeFailsStep DEF CommandsTyped
  <1>9. CASE UNCHANGED started /\ UnlinkTemp(c)
    BY <1>9, UnlinkTempStep DEF CommandsTyped, observers, Metadata
  <1>10. CASE UNCHANGED started /\ CommandEnds(c)
    <2>1. /\ alone' \in [Commands -> BOOLEAN] /\ disturbed' \in [Commands -> BOOLEAN]
          /\ together' \in [Commands -> SUBSET Signature] /\ steady' \in [Commands -> BOOLEAN]
      BY <1>2, <1>10, CommandEndsStep
    <2>2. QED
      BY <1>10, <2>1, CommandEndsStep DEF CommandsTyped
  <1>11. QED
    BY <1>3, <1>4, <1>5, <1>6, <1>7, <1>8, <1>9, <1>10 DEF Check

LEMMA CheckKeepsJustified ==
    ASSUME ReleaseTyped, CommandsTyped, UnmixedInv, JustifiedInv, NEW c \in Commands, Check(c)
    PROVE  JustifiedInv'
  <1>1. release' = release /\ disturbed \in [Commands -> BOOLEAN]
        /\ together \in [Commands -> SUBSET Signature]
    BY DEF Check, release_vars, CommandsTyped
  <1>2. ASSUME OthersKept(c), HereKept(c), UNCHANGED <<together, disturbed, mixed>>,
               command[c].pc \notin {"idle", "signature"},
               command'[c].pc \notin {"idle", "signature"}, command'[c].sig = command[c].sig
        PROVE  JustifiedInv'
    BY <1>1, <1>2 DEF JustifiedInv, OthersKept, HereKept, Running
  <1>3. CASE LoadMetadata(c)
    <2>1. /\ OthersKept(c) /\ command[c].pc = "idle" /\ command'[c].pc = "signature"
          /\ command'[c].sig = command[c].sig /\ mixed' = mixed
      BY <1>3, LoadMetadataStep
    <2>2. command'[c].sig = Nothing /\ Nothing \notin Signature /\ ~command[c].here
      BY <2>1, BodiesAssumption DEF JustifiedInv, Running
    <2>3. CASE /\ command'[c].here /\ release.meta \notin {NoFile, Nothing}
               /\ together' = [together EXCEPT ![c] = Together]
               /\ disturbed' = [disturbed EXCEPT ![c] = mixed]
      <3>1. /\ together'[c] = Together /\ disturbed'[c] = mixed
            /\ \A d \in Commands \ {c} : together'[d] = together[d] /\ disturbed'[d] = disturbed[d]
        BY <1>1, <2>3
      <3>2. ASSUME ~mixed, release.sig \in Signature
            PROVE  release.sig \in Together
        <4>1. release.meta # Garbled
              /\ (IsWhole(release.meta) => release.sig.over = release.meta.body)
          BY <3>2 DEF UnmixedInv
        <4>2. IsWhole(release.meta)
          BY <2>3, <4>1 DEF IsWhole
        <4>3. QED
          BY <3>2, <4>1, <4>2, NoneFacts DEF Together, Consistent, Canonical
      <3>3. QED
        BY <1>1, <2>1, <2>2, <2>3, <3>1, <3>2 DEF JustifiedInv, OthersKept, Running
    <2>4. CASE HereKept(c) /\ UNCHANGED <<together, disturbed>>
      BY <1>1, <2>1, <2>2, <2>4 DEF JustifiedInv, OthersKept, HereKept, Running
    <2>5. QED
      BY <1>3, <2>3, <2>4, LoadMetadataStep
  <1>4. CASE LoadSignature(c)
    <2>1. /\ OthersKept(c) /\ HereKept(c) /\ command[c].pc = "signature" /\ command'[c].pc = "open"
          /\ command'[c].sig = IF command[c].here THEN release.sig ELSE command[c].sig
          /\ UNCHANGED <<together, disturbed, mixed>>
      BY <1>4, LoadSignatureStep DEF observers
    <2>2. QED
      BY <1>1, <2>1 DEF JustifiedInv, OthersKept, HereKept, Running
  <1>5. CASE OpenTemp(c) \/ WriteTemp(c) \/ RunPython(c) \/ CanonicalizeFails(c)
    <2>1. CASE OpenTemp(c)
      BY <1>2, <2>1, OpenTempStep
    <2>2. CASE WriteTemp(c)
      BY <1>2, <2>2, WriteTempStep DEF observers
    <2>3. CASE RunPython(c)
      BY <1>2, <2>3, RunPythonStep DEF observers
    <2>4. CASE CanonicalizeFails(c)
      BY <1>2, <2>4, CanonicalizeFailsStep
    <2>5. QED
      BY <1>5, <2>1, <2>2, <2>3, <2>4
  <1>6. CASE UnlinkTemp(c)
    BY <1>1, <1>6, UnlinkTempStep DEF JustifiedInv, HereKept, Running, observers
  <1>7. CASE CommandEnds(c)
    <2>1. /\ OthersKept(c) /\ command'[c].pc = "idle" /\ command'[c].sig = Nothing
          /\ ~command'[c].here /\ mixed' = mixed
          /\ together' = [together EXCEPT ![c] = {}]
          /\ disturbed' = [disturbed EXCEPT ![c] = FALSE]
      BY <1>7, CommandEndsStep
    <2>2. \A d \in Commands \ {c} : together'[d] = together[d] /\ disturbed'[d] = disturbed[d]
      BY <1>1, <2>1
    <2>3. QED
      BY <1>1, <2>1, <2>2 DEF JustifiedInv, OthersKept, Running
  <1>8. QED
    BY <1>3, <1>4, <1>5, <1>6, <1>7 DEF Check


\* Who has the temporary file to itself loses it by the open of another only.
LEMMA CheckKeepsAlone ==
    ASSUME ReleaseTyped, CommandsTyped, AloneInv, NEW c \in Commands, Check(c)
    PROVE  AloneInv'
  <1>1. alone \in [Commands -> BOOLEAN]
    BY DEF CommandsTyped
  <1>2. ASSUME OthersKept(c), command[c].pc \in {"idle", "signature", "open"} \/ alone'[c] = FALSE,
               UsesTemp(c)' => UsesTemp(c), temp' = temp,
               \A d \in Commands : alone'[d] => alone[d]
        PROVE  AloneInv'
    <2>1. ASSUME NEW d \in Commands, alone'[d]
          PROVE  d # c /\ alone[d]
      BY <1>2, <2>1 DEF AloneInv
    <2>2. QED
      BY <1>2, <2>1 DEF AloneInv, OthersKept, UsesTemp
  <1>3. CASE LoadMetadata(c)
    BY <1>2, <1>3, LoadMetadataStep DEF UsesTemp
  <1>4. CASE LoadSignature(c)
    BY <1>2, <1>4, LoadSignatureStep DEF UsesTemp, observers
  <1>5. CASE OpenTemp(c)
    <2>1. /\ OthersKept(c) /\ command[c].pc = "open" /\ command'[c].pc = "write"
          /\ command'[c].linked /\ temp' = Nothing
          /\ alone' = [d \in Commands |->
                  IF d = c THEN \A e \in Commands \ {c} : ~UsesTemp(e)
                           ELSE alone[d] /\ ~UsesTemp(d)]
      BY <1>5, OpenTempStep
    <2>2. ASSUME NEW d \in Commands \ {c}, alone'[d]
          PROVE  alone[d] /\ ~UsesTemp(d) /\ command'[d] = command[d]
      BY <2>1, <2>2 DEF OthersKept
    <2>3. ASSUME alone'[c]
          PROVE  \A e \in Commands \ {c} : ~UsesTemp(e) /\ command'[e] = command[e]
      BY <2>1, <2>3 DEF OthersKept
    <2>4. ASSUME NEW d \in Commands, alone'[d]
          PROVE  /\ command'[d].pc \in {"write", "python", "unlink", "report"}
                 /\ UsesTemp(d)' => \A e \in Commands \ {d} : ~UsesTemp(e)'
                 /\ command'[d].pc = "write" => command'[d].linked /\ temp' = Nothing
                 /\ command'[d].pc = "python" => temp' = command'[d].meta
                 /\ command'[d].pc \in {"unlink", "report"} =>
                      command'[d].data = CanonicalOutput(command'[d].meta)
      <3>1. CASE d = c
        BY <2>1, <2>3, <2>4, <3>1 DEF UsesTemp
      <3>2. CASE d # c
        BY <2>2, <2>4, <3>2 DEF UsesTemp, AloneInv
      <3>3. QED
        BY <3>1, <3>2
    <2>5. QED
      BY <2>4 DEF AloneInv
  <1>6. CASE WriteTemp(c)
    <2>1. /\ OthersKept(c) /\ command[c].pc = "write" /\ command'[c].pc = "python"
          /\ command'[c].meta = command[c].meta /\ alone' = alone
          /\ command[c].linked /\ temp = Nothing => temp' = command[c].meta
      BY <1>6, WriteTempStep DEF observers
    <2>2. \A d \in Commands \ {c} : alone[d] => ~UsesTemp(d) /\ command'[d] = command[d]
      BY <2>1 DEF AloneInv, UsesTemp, OthersKept
    <2>3. QED
      BY <2>1, <2>2 DEF AloneInv, UsesTemp, OthersKept
  <1>7. CASE RunPython(c)
    <2>1. /\ OthersKept(c) /\ command[c].pc = "python" /\ command'[c].pc = "unlink"
          /\ command'[c].meta = command[c].meta
          /\ command'[c].data = CanonicalOutput(temp) /\ temp' = temp /\ alone' = alone
      BY <1>7, RunPythonStep DEF observers
    <2>2. \A d \in Commands \ {c} : alone[d] => ~UsesTemp(d) /\ command'[d] = command[d]
      BY <2>1 DEF AloneInv, UsesTemp, OthersKept
    <2>3. QED
      BY <2>1, <2>2 DEF AloneInv, UsesTemp, OthersKept
  <1>8. CASE CanonicalizeFails(c)
    <2>1. /\ OthersKept(c) /\ command[c].pc \in {"open", "python"}
          /\ command'[c].pc \in {"report", "unlink"}
          /\ command'[c].pc = "unlink" => command[c].pc = "python"
          /\ alone' = [alone EXCEPT ![c] = FALSE] /\ temp' = temp
      BY <1>8, CanonicalizeFailsStep
    <2>2. alone'[c] = FALSE /\ \A d \in Commands : alone'[d] => alone[d]
      BY <1>1, <2>1
    <2>3. UsesTemp(c)' => UsesTemp(c)
      BY <2>1 DEF UsesTemp
    <2>4. QED
      BY <1>2, <2>1, <2>2, <2>3
  <1>9. CASE UnlinkTemp(c)
    <2>1. /\ command[c].pc = "unlink" /\ command'[c].pc = "report" /\ alone' = alone
          /\ \A d \in Commands : /\ command'[d].meta = command[d].meta
                                 /\ command'[d].data = command[d].data
          /\ \A d \in Commands \ {c} : command'[d].pc = command[d].pc
      BY <1>9, UnlinkTempStep DEF observers
    <2>2. \A d \in Commands \ {c} : alone[d] => command[d].pc = "report"
      BY <2>1 DEF AloneInv, UsesTemp
    <2>3. QED
      BY <2>1, <2>2 DEF AloneInv, UsesTemp
  <1>10. CASE CommandEnds(c)
    <2>1. /\ OthersKept(c) /\ command'[c].pc = "idle" /\ temp' = temp
          /\ alone' = [alone EXCEPT ![c] = FALSE]
      BY <1>10, CommandEndsStep
    <2>2. alone'[c] = FALSE /\ \A d \in Commands : alone'[d] => alone[d]
      BY <1>1, <2>1
    <2>3. QED
      BY <1>2, <2>1, <2>2 DEF UsesTemp
  <1>11. QED
    BY <1>3, <1>4, <1>5, <1>6, <1>7, <1>8, <1>9, <1>10 DEF Check

LEMMA CheckKeepsSteady ==
    ASSUME ReleaseTyped, CommandsTyped, SteadyInv, NEW c \in Commands, Check(c)
    PROVE  SteadyInv'
  <1>1. release' = release /\ steady \in [Commands -> BOOLEAN]
    BY DEF Check, release_vars, CommandsTyped
  <1>2. ASSUME steady' = steady, signed' = signed, command[c].pc # "idle",
               command'[c].pc \notin {"idle", "signature"},
               \A d \in Commands : command'[d].meta = command[d].meta /\ HereKept(d),
               \A d \in Commands \ {c} : command'[d].pc = command[d].pc
                                      /\ command'[d].sig = command[d].sig,
               (command[c].here /\ command'[c].sig = release.sig)
                   \/ (command[c].pc = "signature" /\ ~command[c].here)
                   \/ (command[c].pc # "signature" /\ command'[c].sig = command[c].sig)
        PROVE  SteadyInv'
    BY <1>1, <1>2 DEF SteadyInv, HereKept, Running
  <1>3. CASE LoadMetadata(c)
    <2>1. OthersKept(c) /\ command[c].pc = "idle" /\ command'[c].pc = "signature"
          /\ signed' = signed
      BY <1>3, LoadMetadataStep
    <2>2. CASE /\ command'[c].here /\ command'[c].meta = release.meta
               /\ steady' = [steady EXCEPT ![c] = signed]
      <3>1. steady'[c] = signed /\ \A d \in Commands \ {c} : steady'[d] = steady[d]
        BY <1>1, <2>2
      <3>2. QED
        BY <1>1, <2>1, <2>2, <3>1 DEF SteadyInv, Running, OthersKept
    <2>3. CASE steady' = steady
      BY <1>1, <2>1, <2>3 DEF SteadyInv, Running, OthersKept
    <2>4. QED
      BY <1>3, <2>2, <2>3, LoadMetadataStep
  <1>4. CASE LoadSignature(c)
    BY <1>2, <1>4, LoadSignatureStep DEF OthersKept, HereKept, observers
  <1>5. CASE OpenTemp(c)
    BY <1>2, <1>5, OpenTempStep DEF OthersKept, HereKept
  <1>6. CASE WriteTemp(c)
    BY <1>2, <1>6, WriteTempStep DEF OthersKept, HereKept, observers
  <1>7. CASE RunPython(c)
    BY <1>2, <1>7, RunPythonStep DEF OthersKept, HereKept, observers
  <1>8. CASE CanonicalizeFails(c)
    BY <1>2, <1>8, CanonicalizeFailsStep DEF OthersKept, HereKept
  <1>9. CASE UnlinkTemp(c)
    BY <1>2, <1>9, UnlinkTempStep DEF observers
  <1>10. CASE CommandEnds(c)
    <2>1. /\ OthersKept(c) /\ steady' = [steady EXCEPT ![c] = FALSE] /\ signed' = signed
      BY <1>10, CommandEndsStep
    <2>2. ~steady'[c] /\ \A d \in Commands \ {c} : steady'[d] = steady[d]
      BY <1>1, <2>1
    <2>3. QED
      BY <1>1, <2>1, <2>2 DEF SteadyInv, Running, OthersKept
  <1>11. QED
    BY <1>3, <1>4, <1>5, <1>6, <1>7, <1>8, <1>9, <1>10 DEF Check


-----------------------------------------------------------------------------
(* Theorems. *)

LEMMA SignatureInvInit ==
    ASSUME Init
    PROVE  SignatureInv
  <1>1. release = [exists |-> FALSE, image |-> NoFile, meta |-> NoFile, sig |-> NoFile]
        /\ creator = CreatorIdle /\ signer = SignerIdle /\ calls = [create |-> 0, sign |-> 0]
    BY DEF Init, InitRelease
  <1>2. /\ CreatorIdle \in CreatorRecord /\ CreatorIdle.pc = "idle"
        /\ SignerIdle \in SignerRecord /\ SignerIdle.pc = "idle"
        /\ CommandIdle \in CommandRecord /\ CommandIdle.pc = "idle" /\ CommandIdle.sig = Nothing
        /\ ~CommandIdle.here
    BY DEF CreatorIdle, CreatorRecord, SignerIdle, SignerRecord, CommandIdle, CommandRecord, Fields
  <1>3. ReleaseTyped
    BY <1>1, <1>2, CallsAssumption DEF ReleaseTyped, ReleaseRecord, Metadata, Signatures
  <1>4. CommandsTyped
    <2>1. command \in [Commands -> CommandRecord] /\ started \in 0 .. MaxCommands
      BY <1>2, CommandsAssumption DEF Init
    <2>2. {alone, disturbed, steady} \subseteq [Commands -> BOOLEAN]
          /\ together \in [Commands -> SUBSET Signature]
      BY DEF Init
    <2>3. temp \in Metadata /\ {signed, mixed} \subseteq BOOLEAN
      BY DEF Init, Metadata
    <2>4. QED
      BY <2>1, <2>2, <2>3 DEF CommandsTyped
  <1>5. DirectoryInv
    BY <1>1, <1>2, <1>3, FileNames DEF DirectoryInv
  <1>6. UnmixedInv
    BY <1>1, <1>2, NoneFacts, BodiesAssumption DEF UnmixedInv, Overlap, SigningAlone
  <1>7. SignedInv /\ JustifiedInv /\ AloneInv /\ SteadyInv
    BY <1>2 DEF Init, SignedInv, JustifiedInv, AloneInv, SteadyInv, Running
  <1>8. QED
    BY <1>3, <1>4, <1>5, <1>6, <1>7 DEF SignatureInv

LEMMA SignatureInvStep ==
    ASSUME SignatureInv, [Next]_vars
    PROVE  SignatureInv'
  <1>1. /\ ReleaseTyped /\ CommandsTyped /\ DirectoryInv /\ UnmixedInv /\ SignedInv
        /\ JustifiedInv /\ AloneInv /\ SteadyInv
    BY DEF SignatureInv
  <1>2. CASE Release
    <2>1. ReleaseTyped' /\ DirectoryInv'
      BY <1>1, <1>2, CreateKeepsTypes, SignKeepsTypes, DirectoryIsKept DEF Release
    <2>2. UnmixedInv' /\ SignedInv'
      BY <1>1, <1>2, UnmixedIsKept, SignedIsKept
    <2>3. CommandsTyped' /\ JustifiedInv' /\ AloneInv' /\ SteadyInv'
      BY <1>2, ReleaseKeepsCommands
    <2>4. QED
      BY <2>1, <2>2, <2>3 DEF SignatureInv
  <1>3. ASSUME NEW c \in Commands, Check(c)
        PROVE  SignatureInv'
    <2>1. UNCHANGED <<release, creator, signer, calls, signed, mixed>>
      BY <1>3 DEF Check, release_vars, observers, LoadMetadata, LoadSignature, OpenTemp,
              WriteTemp, RunPython, CanonicalizeFails, UnlinkTemp, CommandEnds
    <2>2. ReleaseTyped' /\ DirectoryInv' /\ SignedInv'
      BY <1>1, <2>1 DEF ReleaseTyped, DirectoryInv, SignedInv, Consistent
    <2>3. UnmixedInv'
      BY <1>1, <2>1 DEF UnmixedInv, Overlap, SigningAlone
    <2>4. CommandsTyped' /\ JustifiedInv' /\ AloneInv' /\ SteadyInv'
      BY <1>1, <1>3, CheckKeepsTypes, CheckKeepsJustified, CheckKeepsAlone, CheckKeepsSteady
    <2>5. QED
      BY <2>2, <2>3, <2>4 DEF SignatureInv
  <1>4. CASE UNCHANGED vars
    <2>1. UNCHANGED <<release, creator, signer, calls, temp, started, command, alone, together,
                      disturbed, steady, signed, mixed>>
      BY <1>4 DEF vars, release_vars, observers
    <2>2. ReleaseTyped' /\ DirectoryInv' /\ SignedInv' /\ CommandsTyped'
      BY <1>1, <2>1 DEF ReleaseTyped, DirectoryInv, SignedInv, Consistent, CommandsTyped
    <2>3. UnmixedInv' /\ JustifiedInv' /\ AloneInv' /\ SteadyInv'
      BY <1>1, <2>1 DEF UnmixedInv, Overlap, SigningAlone, JustifiedInv, AloneInv, SteadyInv,
                        Running, UsesTemp
    <2>4. QED
      BY <2>2, <2>3 DEF SignatureInv
  <1>5. QED
    BY <1>2, <1>3, <1>4 DEF Next

(* The invariant that the theorems below rest on, in every behaviour: the     *)
(* directory with one writer at a time, and what each command has seen of it. *)
THEOREM SignatureInvariant == Spec => []SignatureInv
  <1>1. SignatureInv /\ [Next]_vars => SignatureInv'
    BY SignatureInvStep
  <1>2. QED
    BY <1>1, SignatureInvInit, PTL DEF Spec

(* However a release is created, signed and checked at the same time, and     *)
(* whoever is killed, every variable keeps its type.                          *)
THEOREM TypeCorrect == Spec => []TypeOK
  <1>1. SignatureInv => TypeOK
    <2>1. ASSUME ReleaseTyped
          PROVE  ReleaseTypeOK
      BY <2>1 DEF ReleaseTyped, ReleaseTypeOK, ReleaseRecord, CreatorRecord, SignerRecord
    <2>2. QED
      BY <2>1 DEF SignatureInv, CommandsTyped, CommandRecord, TypeOK
  <1>2. QED
    BY <1>1, SignatureInvariant, PTL

(* verify-signature, with /tmp/ota_canonical_metadata.json to itself, says    *)
(* SIGNATURE_VALID only of metadata and a signature that it read and that go  *)
(* together, whatever earlier commands left in that file.                     *)
THEOREM VerdictIsOfWhatWasRead == Spec => []ValidForWhatWasRead
  <1>1. SignatureInv => ValidForWhatWasRead
    <2>1. SUFFICES ASSUME SignatureInv, NEW c \in Commands, NEW key \in KeyFiles,
                          Reports(c, key, "SIGNATURE_VALID"), alone[c]
                   PROVE  /\ IsWhole(command[c].meta)
                          /\ command[c].sig = [over |-> command[c].meta.body, by |-> key]
      BY DEF ValidForWhatWasRead
    <2>2. /\ command[c].pc = "report" /\ command[c].data # Nothing
          /\ command[c].sig = [over |-> command[c].data, by |-> key]
      BY <2>1 DEF Reports, Verdict, verify_signature
    <2>3. command[c].data = CanonicalOutput(command[c].meta)
      BY <2>1, <2>2 DEF SignatureInv, AloneInv
    <2>4. QED
      BY <2>2, <2>3 DEF CanonicalOutput, Canonical
  <1>2. QED
    BY <1>1, SignatureInvariant, PTL

(* Of any number of commands that read and remove each other's temporary      *)
(* file, on this directory and on others, none accepts a signature but one by *)
(* the key it was given that went with the metadata beside it at a moment of  *)
(* the command.  The exception is a command during which the directory was    *)
(* mixed by a signing that ran into a replacement.                            *)
THEOREM AcceptedWasSigned == Spec => []ValidWasSigned
  <1>1. SignatureInv => ValidWasSigned
    <2>1. SUFFICES ASSUME SignatureInv, NEW c \in Commands, NEW key \in KeyFiles,
                          Reports(c, key, "SIGNATURE_VALID"), ~disturbed[c]
                   PROVE  [over |-> command[c].data, by |-> key] \in together[c]
      BY DEF ValidWasSigned
    <2>2. command[c].sig = [over |-> command[c].data, by |-> key] /\ command[c].sig # Nothing
      BY <2>1 DEF Reports, Verdict, verify_signature
    <2>3. command[c].here /\ command[c].sig \in Signature
      BY <2>1, <2>2 DEF SignatureInv, JustifiedInv, CommandsTyped, CommandRecord, Fields
    <2>4. QED
      BY <2>1, <2>2, <2>3 DEF SignatureInv, JustifiedInv
  <1>2. QED
    BY <1>1, SignatureInvariant, PTL

(* What sign-release has signed to the end goes together, whatever a killed   *)
(* run left there before, and is accepted by an undisturbed command with the  *)
(* key that signed it.                                                        *)
THEOREM SignedWillBeAccepted == Spec => []SignedIsAccepted
  <1>1. SignatureInv => SignedIsAccepted
    <2>1. SUFFICES ASSUME SignatureInv
                   PROVE  SignedIsAccepted
      OBVIOUS
    <2>2. signed => Consistent
      BY <2>1 DEF SignatureInv, SignedInv
    <2>3. ASSUME NEW c \in Commands, command[c].pc = "report", alone[c], steady[c]
          PROVE  Verdict(c, release.sig.by) = "SIGNATURE_VALID"
      <3>1. /\ Consistent /\ command[c].meta = release.meta /\ command[c].sig = release.sig
            /\ command[c].data = CanonicalOutput(command[c].meta)
        BY <2>1, <2>2, <2>3 DEF SignatureInv, SteadyInv, AloneInv
      <3>2. /\ release.sig \in Signature /\ release.meta \in Whole
            /\ release.sig.over = release.meta.body /\ IsWhole(release.meta)
        BY <2>1, <3>1 DEF SignatureInv, ReleaseTyped, ReleaseRecord, Signatures, Metadata,
                    Consistent, IsWhole, Canonical
      <3>3. PICK over \in Bodies, by \in SigningKeys :
                release.sig = [over |-> over, by |-> by]
        BY <3>2 DEF Signature
      <3>4. command[c].data = over /\ over # Nothing /\ release.sig # Nothing
            /\ release.sig.by = by /\ by # "missing" /\ by # "unloadable"
        BY <3>1, <3>2, <3>3, BodiesAssumption, CommandsAssumption
           DEF CanonicalOutput, Canonical
      <3>5. QED
        BY <3>1, <3>3, <3>4 DEF Verdict, verify_signature
    <2>4. QED
      BY <2>2, <2>3 DEF SignedIsAccepted
  <1>2. QED
    BY <1>1, SignatureInvariant, PTL
=============================================================================
