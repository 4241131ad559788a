---------------------------- MODULE ReleaseServer ----------------------------
(* The OTA server and the script that puts releases into its directory.  The   *)
(* server reads the metadata of every release once, when it starts, and an     *)
(* image each time one is asked for; the script replaces a release in place    *)
(* while the server runs.  An image is a sequence of blocks, a block named     *)
(* after the image it belongs to; its digest is the sequence itself.           *)
EXTENDS Integers, Sequences, FiniteSets, Versions

CONSTANTS
    Images,          \* the images, model values
    Publications,    \* what create_release may be run with
    Size,            \* Size[i] is the number of blocks of image i
    MaxReleases,     \* bound: how many releases are made
    Missing          \* a model value: no such file, no such entry

ASSUME ServerAssumption ==
    /\ Size \in [Images -> Nat]
    /\ \A p \in Publications : p.version \in Version /\ p.image \in Images
    /\ MaxReleases \in Nat
    /\ Missing \notin Images \cup Publications

VARIABLES
    directory,       \* the releases directory: image.bin and metadata.json
    releases,        \* OTAServer.releases: what load_releases kept
    loading,         \* load_releases under way, or NotLoading
    publishing,      \* the run of create_release under way, or Missing
    removing,        \* that run is in rmtree
    published        \* the releases that were completed, each one's metadata

serverVars == <<directory, releases, loading, publishing, removing, published>>

Releasable == {p.version : p \in Publications}
Hardware == {p.hardware_version : p \in Publications}

Whole(i) == [b \in 1..Size[i] |-> i]
Prefixes(i) == {[b \in 1..n |-> i] : n \in 0..Size[i]}

Metadata ==
    [version : Releasable, hardware_version : Hardware,
     size : Nat, sha256 : {Whole(i) : i \in Images}]

(* The releases that load_releases listed and has still to look at, and the    *)
(* one it looks at with the last file it found there.                          *)
NotLoading == [listed |-> {}, version |-> Missing, found |-> "none"]

ServerTypeOK ==
    /\ directory \in
         [Releasable -> [image : (UNION {Prefixes(i) : i \in Images}) \cup {Missing},
                         metadata : Metadata \cup {Missing}]]
    /\ releases \in [Releasable -> Metadata \cup {Missing}]
    /\ loading \in [listed : SUBSET Releasable, version : Releasable \cup {Missing},
                    found : {"none", "metadata", "image"}]
    /\ publishing \in Publications \cup {Missing}
    /\ removing \in BOOLEAN
    /\ published \subseteq Metadata

ServerInit ==
    /\ directory = [v \in Releasable |-> [image |-> Missing, metadata |-> Missing]]
    /\ releases = [v \in Releasable |-> Missing]
    /\ loading = NotLoading
    /\ publishing = Missing
    /\ removing = FALSE
    /\ published = {}

-------------------------------------------------------------------------------
(* create_release.py *)

(* Mutant: only the image is removed. *)
only_the_image(release) == {name \in {"image"} : release[name] # Missing}

(* What rmtree has still to remove of a release. *)
leftovers(release) == {name \in {"image", "metadata"} : release[name] # Missing}

create_release(p) ==
    /\ publishing = Missing
    /\ Cardinality(published) < MaxReleases
    /\ publishing' = p
    /\ removing' = (leftovers(directory[p.version]) # {})
    /\ UNCHANGED <<directory, releases, loading, published>>

(* shutil.rmtree removes one file after the other, in the order in which the   *)
(* directory lists them; makedirs makes the directory anew.                    *)
remove_file ==
    /\ removing
    /\ \E name \in leftovers(directory[publishing.version]) :
         LET rest == [directory[publishing.version] EXCEPT ![name] = Missing]
         IN  /\ directory' = [directory EXCEPT ![publishing.version] = rest]
             /\ removing' = (leftovers(rest) # {})
    /\ UNCHANGED <<releases, loading, publishing, published>>

(* shutil.copy2: the file appears empty and grows. *)
copy_image ==
    /\ publishing # Missing /\ ~ removing
    /\ LET v == publishing.version
           i == publishing.image
           image == directory[v].image
       IN  /\ image # Whole(i)
           /\ directory' = [directory EXCEPT ![v].image =
                IF image \in Prefixes(i) THEN Append(image, i) ELSE << >>]
    /\ UNCHANGED <<releases, loading, publishing, removing, published>>

(* The metadata describes the copy that was made; it is written last.  A file  *)
(* that is cut short is no JSON: to the server it is as good as none.          *)
write_metadata ==
    /\ publishing # Missing /\ ~ removing
    /\ LET v == publishing.version
           copy == directory[v].image
           metadata == [version |-> v,
                        hardware_version |-> publishing.hardware_version,
                        size |-> Len(copy), sha256 |-> copy]
       IN  /\ copy = Whole(publishing.image)
           /\ directory' = [directory EXCEPT ![v].metadata = metadata]
           /\ published' = published \cup {metadata}
    /\ publishing' = Missing
    /\ UNCHANGED <<releases, loading, removing>>

(* The script is stopped between two steps. *)
stop_publishing ==
    /\ publishing # Missing
    /\ publishing' = Missing
    /\ removing' = FALSE
    /\ UNCHANGED <<directory, releases, loading, published>>

-------------------------------------------------------------------------------
(* ota_server.py *)

(* A size of 0 counts as a missing field. *)
validate_metadata(metadata) == metadata.size # 0

(* The server is started anew: nothing it knew survives, and it lists the      *)
(* releases directory, where there may be empty directories too.               *)
start_server ==
    /\ releases' = [v \in Releasable |-> Missing]
    /\ \E listed \in SUBSET Releasable :
         /\ \A v \in Releasable \ listed : leftovers(directory[v]) = {}
         /\ loading' = [NotLoading EXCEPT !.listed = listed]
    /\ UNCHANGED <<directory, publishing, removing, published>>

(* os.path.exists, of metadata.json and then of image.bin: a release that      *)
(* lacks one is passed over.                                                   *)
find_metadata(v) ==
    /\ loading.version = Missing /\ v \in loading.listed
    /\ LET rest == [NotLoading EXCEPT !.listed = loading.listed \ {v}]
       IN  loading' = IF directory[v].metadata = Missing THEN rest
                      ELSE [rest EXCEPT !.version = v, !.found = "metadata"]
    /\ UNCHANGED <<directory, releases, publishing, removing, published>>

find_image ==
    /\ loading.found = "metadata"
    /\ loading' = IF directory[loading.version].image = Missing
                  THEN [NotLoading EXCEPT !.listed = loading.listed]
                  ELSE [loading EXCEPT !.found = "image"]
    /\ UNCHANGED <<directory, releases, publishing, removing, published>>

(* The metadata is opened and read as it is by then, if it is still there, and *)
(* kept if it is complete.                                                     *)
load_release ==
    /\ loading.found = "image"
    /\ LET v == loading.version
           metadata == directory[v].metadata
       IN  releases' = IF metadata # Missing /\ validate_metadata(metadata)
                       THEN [releases EXCEPT ![v] = metadata] ELSE releases
    /\ loading' = [NotLoading EXCEPT !.listed = loading.listed]
    /\ UNCHANGED <<directory, publishing, removing, published>>

(* It listens only when all releases are loaded. *)
Serving == loading = NotLoading

Candidates(hardware_version, current_version) ==
    {m \in {releases[v] : v \in Releasable} \ {Missing} :
        /\ m.hardware_version = hardware_version
        /\ is_newer_version(m.version, current_version)}

(* The answer to a request for an update: the newest candidate, or Missing.    *)
(* (The set of what may be answered; it has one element, as the server keeps   *)
(* one release of each version.)                                               *)
find_update(hardware_version, current_version) ==
    LET candidates == Candidates(hardware_version, current_version)
    IN  IF candidates = {} THEN {Missing}
        ELSE {m \in candidates : \A other \in candidates :
                ~ is_newer_version(other.version, m.version)}

(* The answer to a request for an image: what image.bin holds at that moment.  *)
handle_image_download(v) ==
    IF releases[v] = Missing THEN [status |-> 404, body |-> <<Missing>>]
    ELSE IF directory[v].image = Missing THEN [status |-> 500, body |-> <<Missing>>]
    ELSE [status |-> 200, body |-> directory[v].image]

ServerNext ==
    \/ \E p \in Publications : create_release(p)
    \/ remove_file
    \/ copy_image
    \/ write_metadata
    \/ stop_publishing
    \/ start_server
    \/ \E v \in Releasable : find_metadata(v)
    \/ find_image
    \/ load_release

-------------------------------------------------------------------------------
(* A server that starts while a release is being replaced, and looks at its    *)
(* files one after the other, advertises an image that is there as described,  *)
(* or one that is just being removed: never the old metadata for the new image *)
(* or for a part of it.  For create_release removes all that was there, in any *)
(* order, before it copies the new image, and writes the metadata last.        *)
LoadedIsConsistent ==
    [][\A v \in Releasable : releases'[v] \notin {Missing, releases[v]} =>
            directory[v].image \in {Missing, releases'[v].sha256}]_releases

================================================================================
