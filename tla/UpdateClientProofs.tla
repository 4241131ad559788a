-------------------------- MODULE UpdateClientProofs --------------------------
(* Proofs about UpdateClient and Versions, for every number of commands,       *)
(* images, releases and attempts.                                              *)
EXTENDS UpdateClient, TLAPS

(* The versions whose parts the client can read. *)
Readable == {v \in Version : \A i \in 1..3 : v[i] <= IntMax}

(* On the versions it can read the client has the order of the server.         *)
THEOREM OrdersAgree ==
    ASSUME NEW v \in Readable, NEW w \in Readable
    PROVE  compare_versions(v, w) <=> is_newer_version(w, v)
  <1>1. parse(v) = v /\ parse(w) = w
    <2>1. /\ ~ (v[1] > IntMax) /\ ~ (v[2] > IntMax) /\ ~ (v[3] > IntMax)
          /\ ~ (w[1] > IntMax) /\ ~ (w[2] > IntMax) /\ ~ (w[3] > IntMax)
      BY IntMaxAssumption, SMT DEF Readable, Version
    <2> QED BY <2>1 DEF parse
  <1> QED BY <1>1 DEF compare_versions, is_newer_version

(* The order of the server is a strict and total order of the versions.        *)
THEOREM StrictOrder ==
    ASSUME NEW u \in Version, NEW v \in Version, NEW w \in Version
    PROVE  /\ ~ Precedes(u, u)
           /\ Precedes(u, v) /\ Precedes(v, w) => Precedes(u, w)
           /\ u = v \/ Precedes(u, v) \/ Precedes(v, u)
  <1>1. ~ Precedes(u, u)
    BY SMT DEF Version, Precedes
  <1>2. Precedes(u, v) /\ Precedes(v, w) => Precedes(u, w)
    BY SMT DEF Version, Precedes
  <1>3. u = v \/ Precedes(u, v) \/ Precedes(v, u)
    BY SMT DEF Version, Precedes
  <1> QED BY <1>1, <1>2, <1>3

-------------------------------------------------------------------------------
(* The inductive invariant.  What the server knows, and every offer a command  *)
(* works on, is a release that was completed, for the device and newer than    *)
(* its version; a command that has ended with success has hashed that release. *)
(* AcceptedWasReleased alone says nothing of a command that still runs.        *)

OfferedFrom(releasesMade, m) ==
    /\ m \in releasesMade
    /\ m.hardware_version = hardware_version
    /\ Precedes(software_version, m.version)

Fields == {"step", "info", "attempt", "status", "body", "written", "linked",
           "read", "result"}
Shape(p) == p = [f \in Fields |-> p[f]]

Good(releasesMade, p) ==
    /\ Shape(p)
    /\ p.step \notin {"idle", "check"} => OfferedFrom(releasesMade, p.info)
    /\ p.step # "idle" => p.result = "none"
    /\ p.result = "accepted" => /\ OfferedFrom(releasesMade, p.info)
                                /\ p.read = p.info.sha256

ServerKnows ==
    /\ directory = [v \in Releasable |-> directory[v]]
    /\ releases = [v \in Releasable |-> releases[v]]
    /\ \A v \in Releasable :
         directory[v] = [f \in {"image", "metadata"} |-> directory[v][f]]
    /\ \A v \in Releasable : directory[v].metadata \in published \cup {Missing}
    /\ \A v \in Releasable : releases[v] \in published \cup {Missing}

CommandsGood ==
    /\ command = [c \in Commands |-> command[c]]
    /\ \A c \in Commands : Good(published, command[c])

Inv == ServerKnows /\ CommandsGood

LEMMA ExitedGood ==
    ASSUME NEW S, NEW r \in {"none", "error", "no_update", "incompatible",
                             "failed", "rejected"}
    PROVE  Good(S, Exited(r))
  BY DEF Good, Exited, Shape, Fields

(* A process that is good stays so when other releases are made.               *)
LEMMA GoodIsMonotone ==
    ASSUME NEW S, NEW T, S \subseteq T, NEW p, Good(S, p)
    PROVE  Good(T, p)
  BY DEF Good, OfferedFrom

(* Losing the name of its file changes nothing else of a process.              *)
LEMMA UnlinkedGood ==
    ASSUME NEW S, NEW q, Good(S, q)
    PROVE  Good(S, [q EXCEPT !.linked = FALSE])
  BY DEF Good, Shape, Fields

(* A step of one process that ends in a good state keeps the invariant.        *)
LEMMA BecomeKeepsInv ==
    ASSUME Inv, UNCHANGED serverVars, NEW c \in Commands, NEW p,
           Good(published, p), Become(c, p)
    PROVE  Inv'
  <1>1. ServerKnows'
    BY DEF Inv, ServerKnows, serverVars
  <1>2. CommandsGood'
    BY DEF Inv, CommandsGood, serverVars, Become
  <1> QED BY <1>1, <1>2 DEF Inv

(* The same with the file of the version removed, which unlinks the others.    *)
LEMMA RemoveKeepsInv ==
    ASSUME Inv, UNCHANGED serverVars, NEW c \in Commands, NEW p,
           Good(published, p), RemoveAndBecome(c, p)
    PROVE  Inv'
  <1>1. ServerKnows'
    BY DEF Inv, ServerKnows, serverVars
  <1>2. \A d \in Commands : Good(published, [command[d] EXCEPT !.linked = FALSE])
    BY UnlinkedGood DEF Inv, CommandsGood
  <1>3. \A d \in Commands : Good(published, Unlinked(version(c))[d])
    BY <1>2 DEF Inv, CommandsGood, Unlinked
  <1>4. command' = [d \in Commands |-> IF d = c THEN p ELSE Unlinked(version(c))[d]]
    BY DEF RemoveAndBecome, Unlinked
  <1>5. CommandsGood'
    BY <1>3, <1>4 DEF CommandsGood, serverVars
  <1> QED BY <1>1, <1>5 DEF Inv

-------------------------------------------------------------------------------
LEMMA InitInv == Init => Inv
  <1> SUFFICES ASSUME Init PROVE Inv
    OBVIOUS
  <1>1. ServerKnows
    BY DEF Init, ServerInit, ServerKnows
  <1>2. CommandsGood
    BY ExitedGood DEF Init, CommandsGood
  <1> QED BY <1>1, <1>2 DEF Inv

(* What the steps of load_releases do: the directory stays as it is, and the   *)
(* server forgets all or takes up the metadata of one release as they are.     *)
Loads == \/ start_server
         \/ \E v \in Releasable : find_metadata(v)
         \/ find_image
         \/ load_release

LEMMA LoadFacts ==
    ASSUME Loads
    PROVE  /\ UNCHANGED <<directory, publishing, removing, published>>
           /\ \/ releases' = releases
              \/ releases' = [v \in Releasable |-> Missing]
              \/ \E v \in {loading.version} :
                    /\ directory[v].metadata # Missing /\ directory[v].metadata.size # 0
                    /\ releases' = [releases EXCEPT ![v] = directory[v].metadata]
  <1>1. CASE load_release
    BY <1>1 DEF load_release, validate_metadata
  <1>2. CASE ~ load_release
    BY <1>2 DEF Loads, start_server, find_metadata, find_image
  <1> QED BY <1>1, <1>2

LEMMA RemoveFacts ==
    ASSUME remove_file
    PROVE  /\ UNCHANGED <<releases, loading, publishing, published>> /\ removing
           /\ \/ directory' = [directory EXCEPT ![publishing.version].image = Missing]
              \/ directory' = [directory EXCEPT ![publishing.version].metadata = Missing]
           /\ removing' \in BOOLEAN
  <1>1. PICK name \in {"image", "metadata"} :
          LET rest == [directory[publishing.version] EXCEPT ![name] = Missing]
          IN  /\ directory' = [directory EXCEPT ![publishing.version] = rest]
              /\ removing' = (leftovers(rest) # {})
    BY DEF remove_file, leftovers
  <1>2. CASE name = "image"
    BY <1>1, <1>2 DEF remove_file
  <1>3. CASE name = "metadata"
    BY <1>1, <1>3 DEF remove_file
  <1> QED BY <1>2, <1>3

(* rmtree ends only when nothing is left. *)
LEMMA RemovedAll ==
    ASSUME ServerKnows, remove_file, ~ removing', publishing.version \in Releasable
    PROVE  directory'[publishing.version].metadata = Missing
  <1>1. PICK name \in {"image", "metadata"} :
          LET rest == [directory[publishing.version] EXCEPT ![name] = Missing]
          IN  /\ directory' = [directory EXCEPT ![publishing.version] = rest]
              /\ removing' = (leftovers(rest) # {})
    BY DEF remove_file, leftovers
  <1> DEFINE rest == [directory[publishing.version] EXCEPT ![name] = Missing]
  <1>2. leftovers(rest) = {}
    BY <1>1
  <1>3. rest["metadata"] = Missing
    BY <1>2 DEF leftovers
  <1>4. directory'[publishing.version] = rest
    BY <1>1 DEF ServerKnows
  <1> HIDE DEF rest
  <1> QED BY <1>3, <1>4

(* A step of the server or of the script: what it knows stays a release that   *)
(* was completed, and no release is ever taken back.                           *)
LEMMA ServerKeepsInv ==
    ASSUME Inv, ServerNext, UNCHANGED clientVars
    PROVE  Inv'
  <1>1. ServerKnows' /\ published \subseteq published'
    <2>1. ASSUME NEW p \in Publications, create_release(p)
          PROVE  ServerKnows' /\ published \subseteq published'
      BY <2>1 DEF create_release, Inv, ServerKnows
    <2>2. CASE copy_image
      <3>1. PICK content : /\ directory' = [directory EXCEPT ![publishing.version].image = content]
                           /\ published' = published /\ releases' = releases
        BY <2>2 DEF copy_image
      <3> QED BY ZenonT(90), <3>1 DEF Inv, ServerKnows
    <2>3. CASE write_metadata
      <3> DEFINE v == publishing.version
                 m == [version |-> v, hardware_version |-> publishing.hardware_version,
                       size |-> Len(directory[v].image), sha256 |-> directory[v].image]
      <3>1. /\ directory' = [directory EXCEPT ![v].metadata = m]
            /\ published' = published \cup {m}
            /\ releases' = releases
        BY <2>3 DEF write_metadata
      <3> HIDE DEF m
      <3> QED BY ZenonT(90), <3>1 DEF Inv, ServerKnows
    <2>4. CASE stop_publishing
      BY <2>4 DEF stop_publishing, Inv, ServerKnows
    <2>5. CASE remove_file
      <3>1. /\ UNCHANGED <<releases, published>>
            /\ \/ directory' = [directory EXCEPT ![publishing.version].image = Missing]
               \/ directory' = [directory EXCEPT ![publishing.version].metadata = Missing]
        BY <2>5, RemoveFacts
      <3>2. CASE directory' = [directory EXCEPT ![publishing.version].image = Missing]
        BY ZenonT(90), <3>1, <3>2 DEF Inv, ServerKnows
      <3>3. CASE directory' = [directory EXCEPT ![publishing.version].metadata = Missing]
        <4>1. ServerKnows
          BY DEF Inv
        <4>2. directory' = [v \in Releasable |-> directory'[v]]
          BY <3>3, <4>1 DEF ServerKnows
        <4>3. ASSUME NEW v \in Releasable
              PROVE  /\ directory'[v] = [f \in {"image", "metadata"} |-> directory'[v][f]]
                     /\ directory'[v].metadata \in published \cup {Missing}
          BY <3>3, <4>1 DEF ServerKnows
        <4> QED BY <3>1, <4>1, <4>2, <4>3 DEF ServerKnows
      <3> QED BY <3>1, <3>2, <3>3
    <2>6. CASE Loads
      <3>1. /\ UNCHANGED <<directory, published>>
            /\ \/ releases' = releases
               \/ releases' = [v \in Releasable |-> Missing]
               \/ \E v \in {loading.version} :
                     releases' = [releases EXCEPT ![v] = directory[v].metadata]
        BY <2>6, LoadFacts
      <3>2. ServerKnows
        BY DEF Inv
      <3>3. /\ releases' = [v \in Releasable |-> releases'[v]]
            /\ \A v \in Releasable : releases'[v] \in {releases[v], Missing, directory[v].metadata}
        BY <3>1, <3>2 DEF ServerKnows
      <3>4. \A v \in Releasable : releases'[v] \in published \cup {Missing}
        BY <3>2, <3>3 DEF ServerKnows
      <3> QED BY <3>1, <3>2, <3>3, <3>4 DEF ServerKnows
    <2> QED BY <2>1, <2>2, <2>3, <2>4, <2>5, <2>6 DEF ServerNext, Loads
  <1>2. CommandsGood'
    BY <1>1, GoodIsMonotone DEF Inv, CommandsGood, clientVars
  <1> QED BY <1>1, <1>2 DEF Inv

(* What the server offers a device is an update for it, completely released.   *)
LEMMA AnswerIsOffered ==
    ASSUME Inv, NEW m \in find_update(hardware_version, software_version), m # Missing
    PROVE  OfferedFrom(published, m)
  BY DEF find_update, Candidates, is_newer_version, OfferedFrom, Inv, ServerKnows

LEMMA CheckedGood ==
    ASSUME Inv, NEW m \in find_update(hardware_version, software_version)
    PROVE  Good(published, checked(m))
  <1>1. CASE checked(m) = [Exited("none") EXCEPT !.step = "prepare", !.info = m] /\ m # Missing
    BY <1>1, AnswerIsOffered DEF Exited, Good, Shape, Fields
  <1> QED BY <1>1, ExitedGood DEF checked

(* The next round, or the end, of a download.                                 *)
LEMMA RetryGood ==
    ASSUME NEW S, NEW p, Good(S, p), p.step \notin {"idle", "check"}
    PROVE  Good(S, retry(p))
  <1>1. CASE retry(p) = [Closed(p, "open") EXCEPT !.attempt = @ + 1]
    BY <1>1 DEF Closed, Good, Shape, Fields
  <1> QED BY <1>1, ExitedGood DEF retry

(* A step of a command, action by action.                                      *)
LEMMA CommandKeepsInv ==
    ASSUME Inv, NEW c \in Commands, start(c) \/ Proceed(c) \/ kill(c)
    PROVE  Inv'
  <1> USE DEF serverVars
  <1> DEFINE p == command[c]
  <1>0. Good(published, p)
    BY DEF Inv, CommandsGood
  <1>1. CASE start(c)
    <2>1. Good(published, [Exited("none") EXCEPT !.step = "check"])
      BY DEF Good, Exited, Shape, Fields
    <2> QED BY <1>1, <2>1, BecomeKeepsInv DEF start
  <1>2. CASE check_for_update(c)
    BY <1>2, CheckedGood, BecomeKeepsInv DEF check_for_update
  <1>3. CASE check_fails(c)
    <2>1. CASE p.attempt < retry_count
      <3>1. Good(published, [p EXCEPT !.attempt = @ + 1])
        BY <1>0, <1>3 DEF check_fails, Good, Shape, Fields
      <3> QED BY <1>3, <2>1, <3>1, BecomeKeepsInv DEF check_fails
    <2>2. CASE ~ (p.attempt < retry_count)
      BY <1>3, <2>2, ExitedGood, BecomeKeepsInv DEF check_fails
    <2> QED BY <2>1, <2>2
  <1>4. CASE prepare(c)
    <2>1. Good(published, [p EXCEPT !.step = "open", !.attempt = 0])
      BY <1>0, <1>4 DEF prepare, Good, Shape, Fields
    <2> QED BY <1>4, <2>1, RemoveKeepsInv DEF prepare
  <1>5. CASE no_directory(c)
    BY <1>5, ExitedGood, BecomeKeepsInv DEF no_directory
  <1>6. CASE open_file(c)
    <2>1. Good(published, [p EXCEPT !.step = "request", !.linked = TRUE, !.written = 0])
      BY <1>0, <1>6 DEF open_file, Good, Shape, Fields
    <2> QED BY <1>6, <2>1, BecomeKeepsInv DEF open_file
  <1>7. CASE open_fails(c)
    BY <1>7, ExitedGood, RemoveKeepsInv DEF open_fails
  <1>8. CASE request_image(c)
    <2> DEFINE answer == handle_image_download(version(c))
               q == [p EXCEPT !.step = "receive", !.status = answer.status,
                              !.body = answer.body]
    <2>1. p.step = "request" /\ Become(c, q) /\ UNCHANGED serverVars
      BY <1>8 DEF request_image
    <2> HIDE DEF answer
    <2>2. Good(published, q)
      BY <1>0, <2>1 DEF Good, Shape, Fields
    <2> HIDE DEF q
    <2> QED BY <2>1, <2>2, BecomeKeepsInv
  <1>9. CASE receive(c)
    <2>1. Good(published, [p EXCEPT !.written = p.written + 1])
      BY <1>0, <1>9 DEF receive, Good, Shape, Fields
    <2> QED BY <1>9, <2>1, BecomeKeepsInv DEF receive
  <1>10. CASE lose_tail(c)
    <2>1. Good(published, [p EXCEPT !.written = @ + 1])
      BY <1>0, <1>10 DEF lose_tail, Good, Shape, Fields
    <2> QED BY <1>10, <2>1, BecomeKeepsInv DEF lose_tail
  <1>11. CASE transfer_breaks(c)
    <2>1. Good(published, retry(p))
      BY <1>0, <1>11, RetryGood DEF transfer_breaks
    <2> QED BY <1>11, <2>1, RemoveKeepsInv DEF transfer_breaks
  <1>12. CASE transfer_refused(c)
    <2>1. Good(published, retry(p))
      BY <1>0, <1>12, RetryGood DEF transfer_refused
    <2>2. CASE p.status \in {400, 404}
      BY <1>12, <2>2, ExitedGood, RemoveKeepsInv DEF transfer_refused
    <2>3. CASE p.status \notin {400, 404}
      BY <1>12, <2>1, <2>3, RemoveKeepsInv DEF transfer_refused
    <2> QED BY <2>2, <2>3
  <1>13. CASE transfer_ends(c)
    <2>1. Good(published, Closed(p, "measure"))
      BY <1>0, <1>13 DEF transfer_ends, Closed, Good, Shape, Fields
    <2> QED BY <1>13, <2>1, BecomeKeepsInv DEF transfer_ends
  <1>14. CASE measure(c)
    <2>1. Good(published, [p EXCEPT !.step = "validate_size"])
      BY <1>0, <1>14 DEF measure, Good, Shape, Fields
    <2>2. CASE file(c) \in {Missing, << >>}
      BY <1>14, <2>2, ExitedGood, RemoveKeepsInv DEF measure
    <2>3. CASE file(c) \notin {Missing, << >>}
      BY <1>14, <2>1, <2>3, BecomeKeepsInv DEF measure, Goto
    <2> QED BY <2>2, <2>3
  <1>15. CASE validate_size(c)
    <2>1. Good(published, [p EXCEPT !.step = "validate_hash"])
      BY <1>0, <1>15 DEF validate_size, Good, Shape, Fields
    <2>2. CASE size_matches(file(c), p.info)
      BY <1>15, <2>1, <2>2, BecomeKeepsInv DEF validate_size, Goto
    <2>3. CASE ~ size_matches(file(c), p.info)
      BY <1>15, <2>3, ExitedGood, BecomeKeepsInv DEF validate_size, Reject
    <2> QED BY <2>2, <2>3
  <1>16. CASE validate_hash(c)
    <2>1. CASE hash_matches(file(c), p.info)
      <3> DEFINE q == [Exited("accepted") EXCEPT !.info = p.info, !.read = file(c)]
      <3>1. Good(published, q)
        BY <1>0, <1>16, <2>1 DEF validate_hash, hash_matches, Exited, Good, Shape, Fields
      <3>2. Become(c, q) /\ UNCHANGED serverVars
        BY <1>16, <2>1 DEF validate_hash
      <3> HIDE DEF q
      <3> QED BY <3>1, <3>2, BecomeKeepsInv
    <2>2. CASE ~ hash_matches(file(c), p.info)
      BY <1>16, <2>2, ExitedGood, BecomeKeepsInv DEF validate_hash, Reject
    <2> QED BY <2>1, <2>2
  <1>17. CASE kill(c)
    BY <1>17, ExitedGood, BecomeKeepsInv DEF kill
  <1> QED
    BY <1>1, <1>2, <1>3, <1>4, <1>5, <1>6, <1>7, <1>8, <1>9, <1>10, <1>11, <1>12,
       <1>13, <1>14, <1>15, <1>16, <1>17 DEF Proceed

THEOREM Invariance == Spec => []Inv
  <1>1. Inv /\ [Next]_vars => Inv'
    <2> SUFFICES ASSUME Inv, [Next]_vars PROVE Inv'
      OBVIOUS
    <2>1. CASE ServerNext /\ UNCHANGED clientVars
      BY <2>1, ServerKeepsInv
    <2>2. CASE \E c \in Commands : start(c) \/ Proceed(c) \/ kill(c)
      BY <2>2, CommandKeepsInv
    <2>3. CASE UNCHANGED vars
      BY <2>3 DEF vars, serverVars, clientVars, Inv, ServerKnows, CommandsGood
    <2> QED BY <2>1, <2>2, <2>3 DEF Next
  <1> QED BY <1>1, InitInv, PTL DEF Spec

(* A success is only ever reported for an image that was released completely,  *)
(* for the hardware of the device, under a version newer than its own.         *)
THEOREM AcceptedAreReleased == Spec => []AcceptedWasReleased
  <1>1. Inv => AcceptedWasReleased
    BY DEF Inv, CommandsGood, Good, OfferedFrom, AcceptedWasReleased
  <1> QED BY <1>1, Invariance, PTL

-------------------------------------------------------------------------------
(* What a server may load at any moment.  The metadata that is there describes *)
(* the image that is there, if it has not been removed: because once rmtree is *)
(* done and while the new image is copied there is none.  That is the second   *)
(* part, without which the first is not inductive.                             *)
DirectoryInv ==
    /\ ServerKnows
    /\ \A v \in Releasable : directory[v].metadata # Missing =>
          directory[v].image \in {Missing, directory[v].metadata.sha256}
    /\ publishing # Missing => publishing \in Publications
    /\ removing => publishing # Missing
    /\ publishing # Missing /\ ~ removing =>
          directory[publishing.version].metadata = Missing

LEMMA ServerKeepsDirectoryInv ==
    ASSUME DirectoryInv, Inv', ServerNext
    PROVE  DirectoryInv'
  <1>0. ServerKnows'
    BY DEF Inv
  <1>1. ASSUME NEW p \in Publications, create_release(p)
        PROVE  DirectoryInv'
    <2>1. /\ publishing' = p /\ UNCHANGED <<directory, releases, published>>
          /\ removing' = (leftovers(directory[p.version]) # {})
      BY <1>1 DEF create_release
    <2>2. p # Missing
      BY ServerAssumption, <1>1 DEF create_release
    <2>3. ~ removing' => directory[p.version]["metadata"] = Missing
      BY <2>1 DEF leftovers
    <2> QED BY <1>0, <2>1, <2>2, <2>3 DEF DirectoryInv
  <1>6. CASE remove_file
    <2>1. /\ UNCHANGED <<releases, publishing, published>> /\ removing
          /\ \/ directory' = [directory EXCEPT ![publishing.version].image = Missing]
             \/ directory' = [directory EXCEPT ![publishing.version].metadata = Missing]
      BY <1>6, RemoveFacts
    <2>2. publishing # Missing /\ publishing \in Publications /\ publishing.version \in Releasable
      BY <2>1 DEF DirectoryInv, Releasable
    <2>3. ~ removing' => directory'[publishing.version].metadata = Missing
      BY <1>6, <2>2, RemovedAll DEF DirectoryInv
    <2>4. \A v \in Releasable : directory'[v].metadata # Missing =>
            directory'[v].image \in {Missing, directory'[v].metadata.sha256}
      <3>1. CASE directory' = [directory EXCEPT ![publishing.version].image = Missing]
        BY <3>1 DEF DirectoryInv, ServerKnows
      <3>2. CASE directory' = [directory EXCEPT ![publishing.version].metadata = Missing]
        BY <3>2 DEF DirectoryInv, ServerKnows
      <3> QED BY <2>1, <3>1, <3>2
    <2> QED BY <1>0, <2>1, <2>2, <2>3, <2>4 DEF DirectoryInv
  <1>2. CASE copy_image
    <2>1. PICK content :
            /\ directory' = [directory EXCEPT ![publishing.version].image = content]
            /\ publishing' = publishing /\ publishing # Missing
            /\ removing' = removing /\ ~ removing
      BY <1>2 DEF copy_image
    <2>2. publishing.version \in Releasable
      BY <2>1 DEF DirectoryInv, Releasable
    <2>3. \A v \in Releasable :
            /\ directory'[v].metadata = directory[v].metadata
            /\ v # publishing.version => directory'[v].image = directory[v].image
      BY <2>1 DEF DirectoryInv, ServerKnows
    <2> QED BY <1>0, <2>1, <2>2, <2>3 DEF DirectoryInv
  <1>3. CASE write_metadata
    <2> DEFINE v == publishing.version
               m == [version |-> v, hardware_version |-> publishing.hardware_version,
                     size |-> Len(directory[v].image), sha256 |-> directory[v].image]
    <2>1. /\ directory' = [directory EXCEPT ![v].metadata = m]
          /\ publishing' = Missing /\ ~ removing /\ removing' = removing
      BY <1>3 DEF write_metadata
    <2>2. m.sha256 = directory[v].image
      OBVIOUS
    <2> HIDE DEF m
    <2>3. \A w \in Releasable :
            /\ directory'[w].image = directory[w].image
            /\ directory'[w].metadata = IF w = v THEN m ELSE directory[w].metadata
      BY <2>1 DEF DirectoryInv, ServerKnows
    <2> QED BY <1>0, <2>1, <2>2, <2>3 DEF DirectoryInv
  <1>4. CASE stop_publishing
    BY <1>0, <1>4 DEF stop_publishing, DirectoryInv
  <1>5. CASE Loads
    BY <1>0, <1>5, LoadFacts DEF DirectoryInv
  <1> QED BY <1>1, <1>2, <1>3, <1>4, <1>5, <1>6 DEF ServerNext, Loads

LEMMA CommandsLeaveServer ==
    ASSUME NEW c \in Commands, start(c) \/ Proceed(c) \/ kill(c)
    PROVE  UNCHANGED serverVars
  BY DEF start, kill, Proceed, check_for_update, check_fails, prepare, no_directory,
         open_file, open_fails, request_image, receive, lose_tail, transfer_breaks,
         transfer_refused, transfer_ends, measure, validate_size, validate_hash

THEOREM DirectoryInvariance == Spec => []DirectoryInv
  <1>1. Init => DirectoryInv
    BY InitInv DEF Init, ServerInit, DirectoryInv, Inv
  <1>2. DirectoryInv /\ Inv' /\ [Next]_vars => DirectoryInv'
    <2> SUFFICES ASSUME DirectoryInv, Inv', [Next]_vars PROVE DirectoryInv'
      OBVIOUS
    <2>1. CASE ServerNext
      BY <2>1, ServerKeepsDirectoryInv
    <2>2. CASE UNCHANGED serverVars
      BY <2>2 DEF serverVars, DirectoryInv, ServerKnows
    <2>3. CASE UNCHANGED vars
      BY <2>2, <2>3 DEF vars
    <2> QED BY <2>1, <2>2, <2>3, CommandsLeaveServer DEF Next
  <1> QED BY <1>1, <1>2, Invariance, PTL DEF Spec

(* However the reads of a starting server fall between the steps of            *)
(* create_release, it takes up no metadata for another image or part of one.   *)
THEOREM LoadsAreConsistent == Spec => LoadedIsConsistent
  <1>1. DirectoryInv /\ [Next]_vars =>
          [\A v \in Releasable : releases'[v] \notin {Missing, releases[v]} =>
                directory[v].image \in {Missing, releases'[v].sha256}]_releases
    <2> SUFFICES ASSUME DirectoryInv, [Next]_vars, releases' # releases,
                        NEW v \in Releasable, releases'[v] \notin {Missing, releases[v]}
                 PROVE  directory[v].image \in {Missing, releases'[v].sha256}
      OBVIOUS
    <2>1. Loads
      BY CommandsLeaveServer DEF Next, vars, serverVars, clientVars, ServerNext, Loads,
         create_release, remove_file, copy_image, write_metadata, stop_publishing
    <2>2. \E w \in {loading.version} :
            /\ directory[w].metadata # Missing
            /\ releases' = [releases EXCEPT ![w] = directory[w].metadata]
      BY <2>1, LoadFacts
    <2>3. directory[v].metadata # Missing /\ releases'[v] = directory[v].metadata
      BY <2>2 DEF DirectoryInv, ServerKnows
    <2> QED BY <2>3 DEF DirectoryInv
  <1> QED BY <1>1, DirectoryInvariance, PTL DEF Spec, LoadedIsConsistent

-------------------------------------------------------------------------------
(* When the client can read every version there is, what the server offers is  *)
(* always taken, and it is the newest.                                         *)
AllReadable ==
    /\ software_version \in Readable
    /\ Releasable \subseteq Readable

(* The metadata of what was released has a version and a size; the server      *)
(* offers none of size 0.                                                      *)
MetadataInv ==
    /\ DirectoryInv
    /\ \A m \in published : m.version \in Releasable /\ m.size \in Nat
    /\ \A v \in Releasable : releases[v] # Missing => releases[v].size # 0

LEMMA ServerKeepsMetadataInv ==
    ASSUME MetadataInv, DirectoryInv', Inv, ServerNext
    PROVE  MetadataInv'
  <1>1. CASE write_metadata
    <2> DEFINE v == publishing.version
               m == [version |-> v, hardware_version |-> publishing.hardware_version,
                     size |-> Len(directory[v].image), sha256 |-> directory[v].image]
    <2>1. /\ published' = published \cup {m} /\ releases' = releases
          /\ publishing # Missing
          /\ directory[v].image = Whole(publishing.image)
      BY <1>1 DEF write_metadata
    <2>2. publishing \in Publications
      BY <2>1 DEF MetadataInv, DirectoryInv
    <2>3. v \in Releasable /\ Size[publishing.image] \in Nat
      BY <2>2, ServerAssumption DEF Releasable
    <2>4. Len(Whole(publishing.image)) \in Nat
      BY <2>3 DEF Whole
    <2>5. m.version \in Releasable /\ m.size \in Nat
      BY <2>1, <2>3, <2>4
    <2> HIDE DEF m, v
    <2> QED BY <2>1, <2>5 DEF MetadataInv
  <1>2. CASE Loads
    <2>1. /\ published' = published
          /\ \/ releases' = releases
             \/ releases' = [v \in Releasable |-> Missing]
             \/ \E v \in {loading.version} :
                   /\ directory[v].metadata.size # 0
                   /\ releases' = [releases EXCEPT ![v] = directory[v].metadata]
      BY <1>2, LoadFacts
    <2> QED BY <2>1 DEF MetadataInv, DirectoryInv, ServerKnows
  <1>3. ASSUME UNCHANGED <<published, releases>>
        PROVE  MetadataInv'
    BY <1>3 DEF MetadataInv
  <1> QED
    BY <1>1, <1>2, <1>3
       DEF ServerNext, Loads, create_release, remove_file, copy_image, stop_publishing

(* What becomes of an answer: an offer is readable, newer and compatible.       *)
LEMMA OfferIsTaken ==
    ASSUME AllReadable, Inv, MetadataInv,
           NEW m \in find_update(hardware_version, software_version), m # Missing
    PROVE  checked(m) = [Exited("none") EXCEPT !.step = "prepare", !.info = m]
  <1>1. /\ m \in Candidates(hardware_version, software_version)
        /\ is_newer_version(m.version, software_version)
        /\ m.hardware_version = hardware_version
    BY DEF find_update, Candidates
  <1>2. PICK v \in Releasable : m = releases[v]
    BY <1>1 DEF Candidates
  <1>3. m \in published /\ m.version \in Releasable /\ m.size \in Nat /\ m.size # 0
    BY <1>2 DEF Inv, ServerKnows, MetadataInv
  <1>4. ~ get_validation_error(m)
    BY <1>3 DEF get_validation_error
  <1>5. compare_versions(software_version, m.version)
    BY <1>1, <1>3, OrdersAgree DEF AllReadable
  <1> QED BY <1>1, <1>4, <1>5 DEF checked, is_compatible

(* Only check_for_update answers a check.                                      *)
LEMMA AnsweredByCheck ==
    ASSUME Inv, NEW c \in Commands, Answered(c),
           NEW d \in Commands, start(d) \/ Proceed(d) \/ kill(d)
    PROVE  c = d /\ check_for_update(d)
  <1>1. Good(published, command[c]) /\ command[c].result = "none"
    BY DEF Inv, CommandsGood, Good, Answered
  <1>2. CASE c # d
    <2>1. ASSUME NEW p, Become(d, p)
          PROVE  FALSE
      BY <1>1, <1>2, <2>1 DEF Become, Answered, Inv, CommandsGood
    <2>2. ASSUME NEW p, RemoveAndBecome(d, p)
          PROVE  FALSE
      <3>1. command'[c] = Unlinked(version(d))[c]
        BY <1>2, <2>2 DEF RemoveAndBecome, Unlinked
      <3>2. command'[c].step = command[c].step /\ command'[c].result = command[c].result
        BY <1>1, <3>1 DEF Unlinked, Good, Shape, Fields
      <3> QED BY <1>1, <3>2 DEF Answered
    <2> QED
      BY <2>1, <2>2 DEF start, kill, Proceed, check_for_update, check_fails, prepare,
           no_directory, open_file, open_fails, request_image, receive, lose_tail,
           transfer_breaks, transfer_refused, transfer_ends, measure, validate_size,
           validate_hash, Goto, Reject
  <1>3. CASE c = d
    <2>1. command[d].step = "check"
      BY <1>3 DEF Answered
    <2>2. ~ start(d) /\ ~ prepare(d) /\ ~ no_directory(d) /\ ~ open_file(d)
          /\ ~ open_fails(d) /\ ~ request_image(d) /\ ~ receive(d) /\ ~ lose_tail(d)
          /\ ~ transfer_breaks(d) /\ ~ transfer_refused(d) /\ ~ transfer_ends(d)
          /\ ~ measure(d) /\ ~ validate_size(d) /\ ~ validate_hash(d)
      BY <2>1 DEF start, prepare, no_directory, open_file, open_fails, request_image,
           receive, lose_tail, transfer_breaks, transfer_refused, transfer_ends,
           measure, validate_size, validate_hash
    <2>3. ~ kill(d)
      BY <1>3 DEF kill, Become, Answered, Exited, Inv, CommandsGood
    <2>4. ~ check_fails(d)
      BY <1>1, <1>3 DEF check_fails, Become, Answered, Exited, Inv, CommandsGood,
                        Good, Shape, Fields
    <2> QED BY <1>3, <2>2, <2>3, <2>4 DEF Proceed
  <1> QED BY <1>2, <1>3

(* Server and client agree on what an update is, if no version has a part      *)
(* greater than IntMax.                                                        *)
THEOREM OffersAreNewest ==
    ASSUME AllReadable
    PROVE  Spec => OfferIsNewest
  <1>1. Init => MetadataInv
    BY InitInv DEF Init, ServerInit, MetadataInv, DirectoryInv, Inv
  <1>2. MetadataInv /\ DirectoryInv' /\ Inv /\ [Next]_vars => MetadataInv'
    <2> SUFFICES ASSUME MetadataInv, DirectoryInv', Inv, [Next]_vars PROVE MetadataInv'
      OBVIOUS
    <2>1. CASE ServerNext
      BY <2>1, ServerKeepsMetadataInv
    <2>2. CASE UNCHANGED serverVars
      BY <2>2 DEF serverVars, MetadataInv
    <2>3. CASE UNCHANGED vars
      BY <2>2, <2>3 DEF vars
    <2> QED BY <2>1, <2>2, <2>3, CommandsLeaveServer DEF Next
  <1>3. Inv /\ MetadataInv /\ [Next]_vars =>
          [\A c \in Commands : Answered(c) =>
             LET candidates == Candidates(hardware_version, software_version)
             IN  IF candidates = {} THEN command'[c].result = "no_update"
                 ELSE /\ command'[c].step = "prepare"
                      /\ \A m \in candidates :
                           ~ Precedes(command'[c].info.version, m.version)]_command
    <2> SUFFICES ASSUME Inv, MetadataInv, [Next]_vars, command' # command,
                        NEW c \in Commands, Answered(c)
                 PROVE  LET candidates == Candidates(hardware_version, software_version)
                        IN  IF candidates = {} THEN command'[c].result = "no_update"
                            ELSE /\ command'[c].step = "prepare"
                                 /\ \A m \in candidates :
                                      ~ Precedes(command'[c].info.version, m.version)
      OBVIOUS
    <2> DEFINE candidates == Candidates(hardware_version, software_version)
    <2>1. check_for_update(c)
      BY AnsweredByCheck DEF Next, vars, clientVars
    <2>2. PICK m \in find_update(hardware_version, software_version) :
            command'[c] = checked(m)
      BY <2>1 DEF check_for_update, Become, Inv, CommandsGood
    <2>3. CASE m = Missing
      <3>1. candidates = {}
        BY <2>2, <2>3 DEF find_update, Candidates
      <3>2. command'[c].result = "no_update"
        BY <2>2, <2>3 DEF checked, Exited
      <3> QED BY <3>1, <3>2
    <2>4. CASE m # Missing
      <3>1. /\ candidates # {}
            /\ \A other \in candidates : ~ Precedes(m.version, other.version)
        BY <2>2, <2>4 DEF find_update, is_newer_version
      <3>2. command'[c] = [Exited("none") EXCEPT !.step = "prepare", !.info = m]
        BY <2>2, <2>4, OfferIsTaken
      <3>3. command'[c].step = "prepare" /\ command'[c].info = m
        BY <3>2 DEF Exited
      <3> HIDE DEF candidates
      <3> QED BY <3>1, <3>3 DEF candidates
    <2> QED BY <2>3, <2>4
  <1> QED
    BY <1>1, <1>2, <1>3, Invariance, DirectoryInvariance, PTL DEF Spec, OfferIsNewest

-------------------------------------------------------------------------------
(* The files.  A step of a command c on the file of version w either ends with *)
(* c at work on it, or suspect of it, or with the file gone or whole, or did   *)
(* not concern it; this is enough, whatever the other commands are doing.      *)
Clean(v) == download_dir[v] \in {Missing} \cup {m.sha256 : m \in published}

FilesInv ==
    /\ download_dir = [v \in Releasable |-> download_dir[v]]
    /\ NothingHalfLeft

LEMMA OneFileAtATime ==
    ASSUME FilesInv, published' = published, NEW c \in Commands, NEW w,
           download_dir' = [v \in Releasable |-> download_dir'[v]],
           \A d \in Commands \ {c} : \A v \in Releasable : WorksOn(d, v)' <=> WorksOn(d, v),
           \A v \in Releasable \ {w} : /\ download_dir'[v] = download_dir[v]
                                       /\ v \in suspect => v \in suspect'
                                       /\ WorksOn(c, v) => WorksOn(c, v)',
           w \in Releasable =>
             \/ WorksOn(c, w)' \/ w \in suspect' \/ Clean(w)'
             \/ /\ ~ WorksOn(c, w) /\ download_dir'[w] = download_dir[w]
                /\ w \in suspect => w \in suspect'
    PROVE  FilesInv'
  <1> SUFFICES ASSUME NEW v \in Releasable \ suspect',
                      \A d \in Commands : ~ WorksOn(d, v)'
               PROVE  Clean(v)'
    BY DEF FilesInv, NothingHalfLeft, Clean
  <1>1. CASE v = w /\ Clean(w)'
    BY <1>1
  <1>2. CASE ~ (v = w /\ Clean(w)')
    <2>1. /\ download_dir'[v] = download_dir[v] /\ v \notin suspect
          /\ \A d \in Commands : ~ WorksOn(d, v)
      BY <1>2
    <2> QED BY <2>1 DEF FilesInv, NothingHalfLeft, Clean
  <1> QED BY <1>1, <1>2

(* What the two ways of ending a step do to everyone's work.                   *)
LEMMA BecomeWork ==
    ASSUME Inv, NEW c \in Commands, NEW p, Become(c, p)
    PROVE  /\ command'[c] = p
           /\ \A d \in Commands \ {c} : \A v \in Releasable : WorksOn(d, v)' <=> WorksOn(d, v)
  BY DEF Become, Inv, CommandsGood, WorksOn

LEMMA RemoveWork ==
    ASSUME Inv, FilesInv, NEW c \in Commands, NEW p, RemoveAndBecome(c, p)
    PROVE  /\ command'[c] = p
           /\ \A d \in Commands \ {c} : \A v \in Releasable : WorksOn(d, v)' <=> WorksOn(d, v)
           /\ \A v \in Releasable : download_dir'[v] = IF v = version(c) THEN Missing
                                                         ELSE download_dir[v]
           /\ download_dir' = [v \in Releasable |-> download_dir'[v]]
           /\ suspect' = suspect \ {version(c)}
  <1>1. \A d \in Commands \ {c} : command'[d] = Unlinked(version(c))[d]
    BY DEF RemoveAndBecome, Unlinked
  <1>2. \A d \in Commands : Shape(command[d])
    BY DEF Inv, CommandsGood, Good
  <1>3. \A d \in Commands \ {c} : /\ command'[d].step = command[d].step
                                  /\ command'[d].info = command[d].info
    BY <1>1, <1>2 DEF Unlinked, Shape, Fields
  <1>4. command'[c] = p
    BY DEF RemoveAndBecome, Unlinked
  <1>5. /\ \A v \in Releasable : download_dir'[v] = IF v = version(c) THEN Missing
                                                       ELSE download_dir[v]
        /\ download_dir' = [v \in Releasable |-> download_dir'[v]]
        /\ suspect' = suspect \ {version(c)}
    BY DEF RemoveAndBecome, FilesInv
  <1> QED BY <1>3, <1>4, <1>5 DEF WorksOn

(* A step that removes the file and ends without an offer, or with the same.   *)
LEMMA RemoveKeepsFiles ==
    ASSUME Inv, FilesInv, UNCHANGED serverVars, NEW c \in Commands, NEW p,
           RemoveAndBecome(c, p), \A v \in Releasable \ {version(c)} : ~ WorksOn(c, v)
    PROVE  FilesInv'
  <1>1. PICK w : w = version(c)
    OBVIOUS
  <1>2. /\ \A v \in Releasable : download_dir'[v] = IF v = w THEN Missing
                                                       ELSE download_dir[v]
        /\ suspect' = suspect \ {w}
        /\ download_dir' = [v \in Releasable |-> download_dir'[v]]
        /\ \A d \in Commands \ {c} : \A v \in Releasable : WorksOn(d, v)' <=> WorksOn(d, v)
    BY <1>1, RemoveWork
  <1>3. w \in Releasable => Clean(w)'
    BY <1>2 DEF Clean
  <1> QED BY <1>1, <1>2, <1>3, OneFileAtATime DEF serverVars

(* A command works on the file of its offer only.                              *)
LEMMA WorksOnOne ==
    ASSUME NEW c
    PROVE  \A v \in Releasable \ {version(c)} : ~ WorksOn(c, v)
  BY DEF WorksOn, version

(* A step that keeps the name of the file.                                     *)
LEMMA BecomeKeepsFiles ==
    ASSUME Inv, FilesInv, UNCHANGED serverVars, NEW c \in Commands, NEW p, Become(c, p),
           NEW w, w = version(c),
           download_dir' = [v \in Releasable |-> download_dir'[v]],
           \A v \in Releasable \ {w} : download_dir'[v] = download_dir[v],
           suspect \subseteq suspect',
           \/ p.step \notin {"idle", "check", "prepare"} /\ p.info.version = w
           \/ w \in suspect'
           \/ w \in Releasable => Clean(w)'
           \/ ~ WorksOn(c, w) /\ download_dir' = download_dir
    PROVE  FilesInv'
  <1>1. /\ command'[c] = p
        /\ \A d \in Commands \ {c} : \A v \in Releasable : WorksOn(d, v)' <=> WorksOn(d, v)
    BY BecomeWork
  <1>2. \A v \in Releasable \ {w} : ~ WorksOn(c, v)
    BY WorksOnOne
  <1>3. p.step \notin {"idle", "check", "prepare"} /\ p.info.version = w => WorksOn(c, w)'
    BY <1>1 DEF WorksOn
  <1> QED BY <1>1, <1>2, <1>3, OneFileAtATime DEF serverVars

LEMMA CommandKeepsFiles ==
    ASSUME Inv, FilesInv, NEW c \in Commands, start(c) \/ Proceed(c) \/ kill(c)
    PROVE  FilesInv'
  <1> DEFINE p == command[c]
  <1>a. UNCHANGED serverVars
    BY CommandsLeaveServer
  <1>b. PICK w : w = version(c)
    OBVIOUS
  <1>c. \A v \in Releasable \ {version(c)} : ~ WorksOn(c, v)
    BY WorksOnOne
  <1>d. Good(published, p)
    BY DEF Inv, CommandsGood
  <1>1. CASE start(c) \/ check_for_update(c) \/ check_fails(c) \/ no_directory(c)
    <2>1. PICK q : Become(c, q)
      BY <1>1 DEF start, check_for_update, check_fails, no_directory
    <2>2. UNCHANGED <<download_dir, suspect>> /\ ~ WorksOn(c, w)
      BY <1>1 DEF start, check_for_update, check_fails, no_directory, WorksOn
    <2> QED BY <1>a, <1>b, <2>1, <2>2, BecomeKeepsFiles DEF FilesInv
  <1>2. CASE prepare(c) \/ open_fails(c) \/ transfer_breaks(c) \/ transfer_refused(c)
             \/ (measure(c) /\ file(c) \in {Missing, << >>})
    <2>1. PICK q : RemoveAndBecome(c, q)
      BY <1>2 DEF prepare, open_fails, transfer_breaks, transfer_refused, measure
    <2> QED BY <1>a, <1>c, <2>1, RemoveKeepsFiles
  <1>3. CASE open_file(c)
    <2> DEFINE q == [p EXCEPT !.step = "request", !.linked = TRUE, !.written = 0]
    <2>1. q.step = "request" /\ q.info.version = w
      BY <1>b, <1>d, <1>3 DEF Good, Shape, Fields, version
    <2>2. Become(c, q) /\ suspect' = suspect
          /\ download_dir' = [download_dir EXCEPT ![w] = << >>]
      BY <1>b, <1>3 DEF open_file
    <2> HIDE DEF q
    <2>3. \A v \in Releasable \ {w} : download_dir'[v] = download_dir[v]
      BY <2>2 DEF FilesInv
    <2>4. download_dir' = [v \in Releasable |-> download_dir'[v]]
      BY <2>2 DEF FilesInv
    <2> QED BY <1>a, <1>b, <2>1, <2>2, <2>3, <2>4, BecomeKeepsFiles
  <1>4. CASE receive(c)
    <2> DEFINE q == [p EXCEPT !.written = p.written + 1]
    <2>1. q.step = "receive" /\ q.info.version = w
      BY <1>b, <1>d, <1>4 DEF receive, Good, Shape, Fields, version
    <2>2. Become(c, q) /\ suspect' = suspect
      BY <1>4 DEF receive
    <2>3. PICK f : download_dir' = [download_dir EXCEPT ![w] = f] \/ download_dir' = download_dir
      BY <1>b, <1>4 DEF receive
    <2> HIDE DEF q
    <2>4. \A v \in Releasable \ {w} : download_dir'[v] = download_dir[v]
      BY <2>3 DEF FilesInv
    <2>5. download_dir' = [v \in Releasable |-> download_dir'[v]]
      BY <2>3 DEF FilesInv
    <2> QED BY <1>a, <1>b, <2>1, <2>2, <2>4, <2>5, BecomeKeepsFiles
  <1>5. CASE request_image(c) \/ lose_tail(c) \/ transfer_ends(c)
             \/ (measure(c) /\ file(c) \notin {Missing, << >>})
             \/ (validate_size(c) /\ size_matches(file(c), p.info))
    <2>1. PICK q : /\ Become(c, q) /\ UNCHANGED <<download_dir, suspect>>
                   /\ q.step \notin {"idle", "check", "prepare"} /\ q.info = p.info
      <3>1. CASE request_image(c)
        <4> DEFINE answer == handle_image_download(version(c))
                   q == [p EXCEPT !.step = "receive", !.status = answer.status,
                                  !.body = answer.body]
        <4>1. Become(c, q) /\ UNCHANGED <<download_dir, suspect>>
          BY <3>1 DEF request_image
        <4> HIDE DEF answer
        <4>2. q.step \notin {"idle", "check", "prepare"} /\ q.info = p.info
          BY <1>d, <3>1 DEF request_image, Good, Shape, Fields
        <4> HIDE DEF q
        <4> QED BY <4>1, <4>2
      <3>2. CASE lose_tail(c)
        <4> DEFINE q == [p EXCEPT !.written = @ + 1]
        <4>1. q.step \notin {"idle", "check", "prepare"} /\ q.info = p.info
          BY <1>d, <3>2 DEF lose_tail, Good, Shape, Fields
        <4>2. Become(c, q) /\ UNCHANGED <<download_dir, suspect>>
          BY <3>2 DEF lose_tail
        <4> HIDE DEF q
        <4> QED BY <4>1, <4>2
      <3>3. CASE transfer_ends(c)
        <4> DEFINE q == Closed(p, "measure")
        <4>1. q.step \notin {"idle", "check", "prepare"} /\ q.info = p.info
          BY <1>d, <3>3 DEF transfer_ends, Closed, Good, Shape, Fields
        <4>2. Become(c, q) /\ UNCHANGED <<download_dir, suspect>>
          BY <3>3 DEF transfer_ends
        <4> HIDE DEF q
        <4> QED BY <4>1, <4>2
      <3>4. CASE measure(c) /\ file(c) \notin {Missing, << >>}
        <4> DEFINE q == [p EXCEPT !.step = "validate_size"]
        <4>1. q.step \notin {"idle", "check", "prepare"} /\ q.info = p.info
          BY <1>d, <3>4 DEF measure, Good, Shape, Fields
        <4>2. Become(c, q) /\ UNCHANGED <<download_dir, suspect>>
          BY <3>4 DEF measure, Goto
        <4> HIDE DEF q
        <4> QED BY <4>1, <4>2
      <3>5. CASE validate_size(c) /\ size_matches(file(c), p.info)
        BY <1>d, <3>5 DEF validate_size, Goto, Good, Shape, Fields
      <3> QED BY <1>5, <3>1, <3>2, <3>3, <3>4, <3>5
    <2>2. q.info.version = w
      BY <1>b, <2>1 DEF version
    <2> QED BY <1>a, <1>b, <2>1, <2>2, BecomeKeepsFiles DEF FilesInv
  <1>6. CASE validate_hash(c) /\ hash_matches(file(c), p.info)
    <2>1. PICK q : Become(c, q)
      BY <1>6 DEF validate_hash
    <2>2. UNCHANGED <<download_dir, suspect>>
      BY <1>6 DEF validate_hash
    <2>3. p.info \in published /\ download_dir[w] = p.info.sha256
      BY <1>b, <1>d, <1>6 DEF validate_hash, hash_matches, file, Good, OfferedFrom
    <2>4. Clean(w)'
      BY <1>a, <2>2, <2>3 DEF Clean, serverVars
    <2> QED BY <1>a, <1>b, <2>1, <2>2, <2>4, BecomeKeepsFiles DEF FilesInv
  <1>7. CASE (validate_size(c) /\ ~ size_matches(file(c), p.info))
             \/ (validate_hash(c) /\ ~ hash_matches(file(c), p.info))
    <2>1. /\ Become(c, Exited("rejected")) /\ suspect' = suspect \cup {w}
          /\ download_dir' = download_dir
      BY <1>b, <1>7 DEF validate_size, validate_hash, Reject
    <2> QED BY <1>a, <1>b, <2>1, BecomeKeepsFiles DEF FilesInv
  <1>8. CASE kill(c)
    <2>1. /\ Become(c, Exited("none")) /\ download_dir' = download_dir
          /\ suspect' = suspect \cup {v \in Releasable : WorksOn(c, v)}
      BY <1>8 DEF kill
    <2>2. w \in Releasable => w \in suspect' \/ ~ WorksOn(c, w)
      BY <2>1
    <2> QED BY <1>a, <1>b, <2>1, <2>2, BecomeKeepsFiles DEF FilesInv
  <1> QED
    BY <1>1, <1>2, <1>3, <1>4, <1>5, <1>6, <1>7, <1>8 DEF Proceed

(* No failure leaves part of an image behind, with any number of commands at   *)
(* work on the same path.                                                      *)
THEOREM NothingIsHalfLeft == Spec => []NothingHalfLeft
  <1>1. Init => FilesInv
    BY DEF Init, FilesInv, NothingHalfLeft
  <1>2. Inv /\ Inv' /\ FilesInv /\ [Next]_vars => FilesInv'
    <2> SUFFICES ASSUME Inv, FilesInv, [Next]_vars PROVE FilesInv'
      OBVIOUS
    <2>1. CASE ServerNext /\ UNCHANGED clientVars
      <3>1. published \subseteq published'
        BY <2>1, LoadFacts DEF ServerNext, Loads, create_release, remove_file, copy_image,
                    write_metadata, stop_publishing
      <3> QED BY <2>1, <3>1 DEF clientVars, FilesInv, NothingHalfLeft, WorksOn
    <2>2. CASE \E c \in Commands : start(c) \/ Proceed(c) \/ kill(c)
      BY <2>2, CommandKeepsFiles
    <2>3. CASE UNCHANGED vars
      BY <2>3 DEF vars, serverVars, clientVars, FilesInv, NothingHalfLeft, WorksOn
    <2> QED BY <2>1, <2>2, <2>3 DEF Next
  <1>3. FilesInv => NothingHalfLeft
    BY DEF FilesInv
  <1> QED BY <1>1, <1>2, <1>3, Invariance, PTL DEF Spec

-------------------------------------------------------------------------------
(* Types.  A block is only ever written to a file that is there: whoever       *)
(* removes a file takes it from the processes that have it open.               *)
OpenFilesAreThere ==
    \A c \in Commands : command[c].linked =>
        /\ command[c].step \in {"request", "receive"}
        /\ download_dir[version(c)] # Missing

TypedInv == TypeOK /\ OpenFilesAreThere

LEMMA PrefixesAreFiles ==
    ASSUME NEW i \in Images
    PROVE  /\ << >> \in Prefixes(i)
           /\ \A s \in Prefixes(i) : s \in File /\ (s # Whole(i) => Append(s, i) \in Prefixes(i))
  <1>1. Size[i] \in Nat
    BY ServerAssumption
  <1>2. << >> \in Prefixes(i)
    <2>1. [b \in 1..0 |-> i] = << >>
      OBVIOUS
    <2> QED BY <1>1, <2>1 DEF Prefixes
  <1>3. ASSUME NEW s \in Prefixes(i)
        PROVE  s \in File /\ (s # Whole(i) => Append(s, i) \in Prefixes(i))
    <2>1. PICK n \in 0..Size[i] : s = [b \in 1..n |-> i]
      BY DEF Prefixes
    <2>2. n \in Nat /\ n <= Size[i]
      BY <1>1
    <2>3. s \in Seq({i}) /\ Len(s) = n
      BY <2>1, <2>2
    <2>4. s \in File
      BY <2>1, <2>2 DEF File, Block
    <2>5. Append(s, i) = [b \in 1..(n + 1) |-> i]
      BY <2>1, <2>2, <2>3
    <2>6. s # Whole(i) => n + 1 \in 0..Size[i]
      BY <1>1, <2>1, <2>2 DEF Whole
    <2> QED BY <2>4, <2>5, <2>6 DEF Prefixes
  <1> QED BY <1>2, <1>3

LoadRecord == [listed : SUBSET Releasable, version : Releasable \cup {Missing},
               found : {"none", "metadata", "image"}]

LEMMA LoadingIsTyped ==
    ASSUME loading \in LoadRecord, Loads
    PROVE  loading' \in LoadRecord
  <1>1. CASE start_server
    BY <1>1 DEF start_server, NotLoading, LoadRecord
  <1>2. ASSUME NEW v \in Releasable, find_metadata(v)
        PROVE  loading' \in LoadRecord
    BY <1>2 DEF find_metadata, NotLoading, LoadRecord
  <1>3. CASE find_image
    BY <1>3 DEF find_image, NotLoading, LoadRecord
  <1>4. CASE load_release
    BY <1>4 DEF load_release, NotLoading, LoadRecord
  <1> QED BY <1>1, <1>2, <1>3, <1>4 DEF Loads

LEMMA ServerKeepsTypes ==
    ASSUME ServerTypeOK, ServerNext
    PROVE  ServerTypeOK'
  <1> DEFINE Image == (UNION {Prefixes(i) : i \in Images}) \cup {Missing}
             Entry == [image : Image, metadata : Metadata \cup {Missing}]
  <1>0. /\ directory \in [Releasable -> Entry]
        /\ releases \in [Releasable -> Metadata \cup {Missing}]
        /\ publishing \in Publications \cup {Missing}
        /\ published \subseteq Metadata
    BY DEF ServerTypeOK
  <1>a. publishing # Missing => /\ publishing.version \in Releasable
                                /\ publishing.hardware_version \in Hardware
                                /\ publishing.image \in Images
    BY <1>0, ServerAssumption DEF Releasable, Hardware
  <1>b. ASSUME directory' \in [Releasable -> Entry], loading' \in LoadRecord,
               releases' \in [Releasable -> Metadata \cup {Missing}], removing' \in BOOLEAN,
               publishing' \in Publications \cup {Missing}, published' \subseteq Metadata
        PROVE  ServerTypeOK'
    BY <1>b DEF ServerTypeOK, LoadRecord
  <1>c. Missing \in Image
    BY Zenon
  <1>d. loading \in LoadRecord /\ removing \in BOOLEAN
    BY DEF ServerTypeOK, LoadRecord
  <1>1. ASSUME NEW p \in Publications, create_release(p) PROVE ServerTypeOK'
    <2> HIDE DEF Entry
    <2>1. removing' \in BOOLEAN
      BY <1>1 DEF create_release
    <2> QED BY <1>0, <1>1, <1>b, <1>d, <2>1 DEF create_release
  <1>6. CASE remove_file
    <2> DEFINE v == publishing.version
    <2>1. /\ UNCHANGED <<releases, loading, publishing, published>> /\ removing' \in BOOLEAN
          /\ \/ directory' = [directory EXCEPT ![v].image = Missing]
             \/ directory' = [directory EXCEPT ![v].metadata = Missing]
      BY <1>6, RemoveFacts
    <2> HIDE DEF Image
    <2>2. directory' \in [Releasable -> Entry]
      BY <1>0, <1>c, <2>1
    <2> HIDE DEF Entry
    <2> QED BY <1>0, <1>b, <1>d, <2>1, <2>2
  <1>2. CASE copy_image
    <2> DEFINE v == publishing.version
               i == publishing.image
               image == directory[v].image
               new == IF image \in Prefixes(i) THEN Append(image, i) ELSE << >>
    <2>1. /\ publishing # Missing /\ image # Whole(i)
          /\ directory' = [directory EXCEPT ![v].image = new]
          /\ UNCHANGED <<releases, loading, publishing, removing, published>>
      BY <1>2 DEF copy_image
    <2>2. new \in Image
      <3>1. i \in Images
        BY <1>a, <2>1
      <3>2. new \in Prefixes(i)
        BY <2>1, <3>1, PrefixesAreFiles
      <3> QED BY <3>1, <3>2
    <2>3. directory[v] \in Entry
      BY <1>0, <1>a, <2>1
    <2>4. [directory[v] EXCEPT !.image = new] \in Entry
      <3> HIDE DEF new, Image
      <3> QED BY <2>2, <2>3
    <2>5. directory' = [directory EXCEPT ![v] = [directory[v] EXCEPT !.image = new]]
      <3> HIDE DEF new
      <3> QED BY <2>1
    <2> HIDE DEF new, Entry
    <2> QED BY <1>0, <1>b, <1>d, <2>1, <2>4, <2>5
  <1>3. CASE write_metadata
    <2> DEFINE v == publishing.version
               copy == directory[v].image
               m == [version |-> v, hardware_version |-> publishing.hardware_version,
                     size |-> Len(copy), sha256 |-> copy]
    <2>1. /\ publishing # Missing /\ copy = Whole(publishing.image)
          /\ directory' = [directory EXCEPT ![v].metadata = m]
          /\ published' = published \cup {m}
          /\ publishing' = Missing /\ UNCHANGED <<releases, loading, removing>>
      BY <1>3 DEF write_metadata
    <2>2. m \in Metadata
      <3>1. publishing.image \in Images /\ Size[publishing.image] \in Nat
        BY <1>a, <2>1, ServerAssumption
      <3>2. Len(copy) \in Nat
        BY <2>1, <3>1 DEF Whole
      <3>3. copy \in {Whole(i) : i \in Images}
        BY <2>1, <3>1
      <3> HIDE DEF copy
      <3> QED BY <1>a, <2>1, <3>2, <3>3 DEF Metadata
    <2>3. directory[v] \in Entry
      BY <1>0, <1>a, <2>1
    <2> HIDE DEF m, Image
    <2>4. [directory[v] EXCEPT !.metadata = m] \in Entry
      BY <2>2, <2>3
    <2>5. directory' = [directory EXCEPT ![v] = [directory[v] EXCEPT !.metadata = m]]
      BY <2>1
    <2>6. published' \subseteq Metadata
      BY <1>0, <2>1, <2>2
    <2> HIDE DEF Entry
    <2> QED BY <1>0, <1>b, <1>d, <2>1, <2>4, <2>5, <2>6
  <1>4. CASE stop_publishing
    <2> HIDE DEF Entry
    <2> QED BY <1>0, <1>4, <1>b, <1>d DEF stop_publishing
  <1>5. CASE Loads
    <2>1. \A v \in Releasable : directory[v].metadata \in Metadata \cup {Missing}
      BY <1>0
    <2>2. /\ UNCHANGED <<directory, publishing, removing, published>>
          /\ \/ releases' = releases
             \/ releases' = [v \in Releasable |-> Missing]
             \/ \E v \in {loading.version} :
                   releases' = [releases EXCEPT ![v] = directory[v].metadata]
      BY <1>5, LoadFacts
    <2>3. releases' \in [Releasable -> Metadata \cup {Missing}]
      BY <1>0, <2>1, <2>2
    <2>4. loading' \in LoadRecord
      BY <1>5, <1>d, LoadingIsTyped
    <2> HIDE DEF Entry
    <2> QED BY <1>0, <1>b, <1>d, <2>2, <2>3, <2>4
  <1> QED BY <1>1, <1>2, <1>3, <1>4, <1>5, <1>6 DEF ServerNext, Loads

-------------------------------------------------------------------------------
(* What a step makes of one process. *)

LEMMA BecomeKeepsTypes ==
    ASSUME TypedInv, UNCHANGED serverVars, NEW c \in Commands, NEW p \in Process, Become(c, p),
           suspect' \subseteq Releasable,
           download_dir' \in [Releasable -> File \cup {Missing}],
           \A v \in Releasable : download_dir'[v] = Missing => download_dir[v] = Missing,
           \A d \in Commands : command[d].linked => version(d) \in Releasable,
           p.linked => /\ p.step \in {"request", "receive"}
                       /\ download_dir'[p.info.version] # Missing
    PROVE  TypedInv'
  <1>1. command \in [Commands -> Process] /\ command' = [command EXCEPT ![c] = p]
    BY DEF TypedInv, TypeOK, Become
  <1>2. command' \in [Commands -> Process]
    BY <1>1
  <1>3. TypeOK'
    BY <1>2 DEF TypedInv, TypeOK, ServerTypeOK, serverVars
  <1>4. ASSUME NEW d \in Commands, command'[d].linked
        PROVE  command'[d].step \in {"request", "receive"} /\ download_dir'[version(d)'] # Missing
    <2>1. CASE d = c
      BY <1>1, <1>4, <2>1 DEF version
    <2>2. CASE d # c
      BY <1>1, <1>4, <2>2 DEF version, TypedInv, OpenFilesAreThere
    <2> QED BY <2>1, <2>2
  <1> QED BY <1>3, <1>4 DEF TypedInv, OpenFilesAreThere

LEMMA RemoveKeepsTypes ==
    ASSUME TypedInv, UNCHANGED serverVars, NEW c \in Commands, NEW p \in Process,
           ~ p.linked, RemoveAndBecome(c, p),
           \A d \in Commands : command[d].linked => version(d) \in Releasable
    PROVE  TypedInv'
  <1> DEFINE w == version(c)
  <1>1. command \in [Commands -> Process]
    BY DEF TypedInv, TypeOK
  <1>2. ASSUME NEW d \in Commands
        PROVE  /\ Unlinked(w)[d] \in Process
               /\ Unlinked(w)[d].step = command[d].step /\ Unlinked(w)[d].info = command[d].info
               /\ Unlinked(w)[d].linked => command[d].linked /\ command[d].info.version # w
    <2>1. command[d] \in Process
      BY <1>1
    <2> DEFINE q == [command[d] EXCEPT !.linked = FALSE]
    <2>2. q \in Process
      BY ZenonT(90), <2>1 DEF Process
    <2>3. q.step = command[d].step /\ q.info = command[d].info /\ ~ q.linked
      BY <2>1 DEF Process
    <2>4. Unlinked(w)[d] = IF command[d].linked /\ command[d].info.version = w
                           THEN q ELSE command[d]
      BY DEF Unlinked
    <2> HIDE DEF q
    <2> QED BY <2>1, <2>2, <2>3, <2>4
  <1>3. command' = [d \in Commands |-> IF d = c THEN p ELSE Unlinked(w)[d]]
    BY DEF RemoveAndBecome, Unlinked
  <1>4. command' \in [Commands -> Process]
    BY <1>2, <1>3
  <1>5. /\ download_dir' = [download_dir EXCEPT ![w] = Missing]
        /\ suspect' \subseteq Releasable
        /\ download_dir \in [Releasable -> File \cup {Missing}]
    BY DEF RemoveAndBecome, TypedInv, TypeOK
  <1>6. TypeOK'
    BY <1>4, <1>5 DEF TypedInv, TypeOK, ServerTypeOK, serverVars
  <1>7. ASSUME NEW d \in Commands, command'[d].linked
        PROVE  command'[d].step \in {"request", "receive"} /\ download_dir'[version(d)'] # Missing
    <2>1. d # c /\ command[d].linked /\ version(d) # w
          /\ command'[d].step = command[d].step /\ command'[d].info = command[d].info
      BY <1>2, <1>3, <1>7 DEF version
    <2>2. version(d)' = version(d)
      BY <2>1 DEF version
    <2> QED BY <1>5, <2>1, <2>2 DEF TypedInv, OpenFilesAreThere
  <1> QED BY <1>6, <1>7 DEF TypedInv, OpenFilesAreThere

LEMMA ExitedTyped ==
    ASSUME NEW r \in Results
    PROVE  Exited(r) \in Process /\ ~ Exited(r).linked
  <1>1. << >> \in File /\ 0 \in 0..retry_count
    BY ClientAssumption DEF File
  <1> QED BY <1>1 DEF Exited, Process, Steps

LEMMA ClosedTyped ==
    ASSUME NEW p \in Process, NEW s \in Steps
    PROVE  /\ Closed(p, s) \in Process /\ ~ Closed(p, s).linked
           /\ Closed(p, s).attempt = p.attempt
  <1>1. << >> \in File
    BY DEF File
  <1> QED BY ZenonT(90), <1>1 DEF Closed, Process

LEMMA RetryTyped ==
    ASSUME NEW p \in Process
    PROVE  retry(p) \in Process /\ ~ retry(p).linked
  <1> DEFINE q == Closed(p, "open")
  <1>1. q \in Process /\ ~ q.linked /\ q.attempt = p.attempt
    BY ClosedTyped DEF Steps
  <1>2. p.attempt \in 0..retry_count
    BY DEF Process
  <1> HIDE DEF q
  <1>3. CASE p.attempt < retry_count
    <2>1. q.attempt + 1 \in 0..retry_count
      BY <1>1, <1>2, <1>3, ClientAssumption
    <2>2. [q EXCEPT !.attempt = @ + 1] \in Process /\ ~ [q EXCEPT !.attempt = @ + 1].linked
      BY <1>1, <2>1 DEF Process
    <2> QED BY <1>3, <2>2 DEF retry, q
  <1>4. CASE ~ (p.attempt < retry_count)
    BY <1>4, ExitedTyped DEF retry, Results
  <1> QED BY <1>3, <1>4

(* What the server sends is a sequence of blocks.                              *)
LEMMA AnswerTyped ==
    ASSUME ServerTypeOK, NEW v \in Releasable
    PROVE  /\ handle_image_download(v).status \in {0, 200, 404, 500}
           /\ handle_image_download(v).body \in File
  <1>1. <<Missing>> \in File
    BY DEF File, Block
  <1>2. directory[v].image # Missing => directory[v].image \in File
    <2>1. directory[v].image \in (UNION {Prefixes(i) : i \in Images}) \cup {Missing}
      BY DEF ServerTypeOK
    <2>2. directory[v].image # Missing => \E i \in Images : directory[v].image \in Prefixes(i)
      BY <2>1, Zenon
    <2> QED BY <2>2, PrefixesAreFiles
  <1> QED BY <1>1, <1>2 DEF handle_image_download

LEMMA PutTyped ==
    ASSUME NEW f \in File, NEW n \in Nat \ {0}, NEW block \in Block
    PROVE  Put(f, n, block) \in File
  <1> DEFINE k == IF n > Len(f) THEN n ELSE Len(f)
  <1>1. f \in Seq(Block) /\ Hole \in Block
    BY DEF File, Block
  <1>2. k \in Nat
    BY <1>1
  <1>3. \A b \in 1..k : (IF b = n THEN block ELSE IF b <= Len(f) THEN f[b] ELSE Hole) \in Block
    BY <1>1, <1>2
  <1>4. Put(f, n, block) = [b \in 1..k |-> IF b = n THEN block
                                           ELSE IF b <= Len(f) THEN f[b] ELSE Hole]
    BY DEF Put
  <1> HIDE DEF k
  <1>5. Put(f, n, block) \in [1..k -> Block]
    BY <1>3, <1>4
  <1> QED BY <1>2, <1>5 DEF File

(* A command that works on an offer works on one that can be released.         *)
LEMMA OffersAreReleasable ==
    ASSUME TypedInv, Inv, NEW c \in Commands, command[c].step \notin {"idle", "check"}
    PROVE  command[c].info \in Metadata /\ version(c) \in Releasable
  <1>1. command[c].info \in published
    BY DEF Inv, CommandsGood, Good, OfferedFrom
  <1>2. command[c].info \in Metadata
    BY <1>1 DEF TypedInv, TypeOK, ServerTypeOK
  <1> QED BY <1>2 DEF Metadata, version

LEMMA OpenIsReleasable ==
    ASSUME TypedInv, Inv
    PROVE  \A d \in Commands : command[d].linked => version(d) \in Releasable
  BY OffersAreReleasable DEF TypedInv, OpenFilesAreThere

(* A step that neither writes nor removes a file.                              *)
LEMMA QuietKeepsTypes ==
    ASSUME TypedInv, Inv, UNCHANGED <<serverVars, download_dir>>, NEW c \in Commands,
           NEW p \in Process, Become(c, p), suspect' \subseteq Releasable,
           p.linked => /\ p.step \in {"request", "receive"} /\ command[c].linked
                       /\ p.info = command[c].info
    PROVE  TypedInv'
  <1>1. p.linked => p.step \in {"request", "receive"} /\ download_dir'[p.info.version] # Missing
    BY DEF TypedInv, OpenFilesAreThere, version
  <1>2. download_dir' \in [Releasable -> File \cup {Missing}]
    BY DEF TypedInv, TypeOK
  <1>3. \A v \in Releasable : download_dir'[v] = Missing => download_dir[v] = Missing
    OBVIOUS
  <1>4. \A d \in Commands : command[d].linked => version(d) \in Releasable
    BY OpenIsReleasable
  <1>5. UNCHANGED serverVars
    OBVIOUS
  <1> QED BY <1>1, <1>2, <1>3, <1>4, <1>5, BecomeKeepsTypes

LEMMA CheckedTyped ==
    ASSUME TypedInv, Inv, NEW m \in find_update(hardware_version, software_version)
    PROVE  checked(m) \in Process /\ ~ checked(m).linked
  <1>1. \A r \in Results : Exited(r) \in Process /\ ~ Exited(r).linked
    BY ExitedTyped
  <1>2. ASSUME m # Missing
        PROVE  /\ [Exited("none") EXCEPT !.step = "prepare", !.info = m] \in Process
               /\ ~ [Exited("none") EXCEPT !.step = "prepare", !.info = m].linked
    <2>1. m \in Metadata
      BY <1>2, AnswerIsOffered DEF OfferedFrom, TypedInv, TypeOK, ServerTypeOK
    <2>2. Exited("none") \in Process /\ ~ Exited("none").linked
      BY <1>1 DEF Results
    <2> QED BY ZenonT(90), <2>1, <2>2 DEF Process, Steps
  <1> QED BY <1>1, <1>2 DEF checked, Results

LEMMA CommandKeepsTypes ==
    ASSUME TypedInv, Inv, NEW c \in Commands, start(c) \/ Proceed(c) \/ kill(c)
    PROVE  TypedInv'
  <1> DEFINE p == command[c]
             w == version(c)
  <1>a. UNCHANGED serverVars
    BY CommandsLeaveServer
  <1>b. /\ p \in Process /\ suspect \subseteq Releasable
        /\ download_dir \in [Releasable -> File \cup {Missing}]
    BY DEF TypedInv, TypeOK
  <1>c. p.step \notin {"idle", "check"} => w \in Releasable
    BY OffersAreReleasable
  <1>d. p.linked => p.step \in {"request", "receive"} /\ download_dir[w] # Missing
    BY DEF TypedInv, OpenFilesAreThere
  <1>e. \A d \in Commands : command[d].linked => version(d) \in Releasable
    BY OpenIsReleasable
  <1>f. ASSUME NEW q \in Process, ~ q.linked, Become(c, q), UNCHANGED download_dir,
               suspect' \subseteq Releasable
        PROVE  TypedInv'
    BY <1>a, <1>f, QuietKeepsTypes
  <1>g. ASSUME NEW q \in Process, ~ q.linked, RemoveAndBecome(c, q)
        PROVE  TypedInv'
    BY <1>a, <1>e, <1>g, RemoveKeepsTypes
  <1>h. \A r \in Results : Exited(r) \in Process /\ ~ Exited(r).linked
    BY ExitedTyped
  <1>1. CASE start(c)
    <2>1. [Exited("none") EXCEPT !.step = "check"] \in Process
          /\ ~ [Exited("none") EXCEPT !.step = "check"].linked
      <3>1. Exited("none") \in Process /\ ~ Exited("none").linked
        BY <1>h DEF Results
      <3> QED BY <3>1 DEF Process, Steps
    <2> QED BY <1>1, <1>b, <1>f, <2>1 DEF start
  <1>2. CASE check_for_update(c)
    <2>1. PICK m \in find_update(hardware_version, software_version) : Become(c, checked(m))
      BY <1>2 DEF check_for_update
    <2> QED BY <1>2, <1>b, <1>f, <2>1, CheckedTyped DEF check_for_update
  <1>3. CASE check_fails(c)
    <2>1. CASE p.attempt < retry_count
      <3>1. p.attempt + 1 \in 0..retry_count
        BY <1>b, <2>1, ClientAssumption DEF Process
      <3>2. [p EXCEPT !.attempt = @ + 1] \in Process /\ ~ [p EXCEPT !.attempt = @ + 1].linked
        BY <1>3, <1>b, <1>d, <3>1 DEF check_fails, Process
      <3> QED BY <1>3, <1>b, <1>f, <2>1, <3>2 DEF check_fails
    <2>2. CASE ~ (p.attempt < retry_count)
      BY <1>3, <1>b, <1>f, <1>h, <2>2 DEF check_fails, Results
    <2> QED BY <2>1, <2>2
  <1>4. CASE prepare(c)
    <2>1. 0 \in 0..retry_count
      BY ClientAssumption
    <2>2. [p EXCEPT !.step = "open", !.attempt = 0] \in Process
          /\ ~ [p EXCEPT !.step = "open", !.attempt = 0].linked
      BY ZenonT(90), <1>4, <1>b, <1>d, <2>1 DEF prepare, Process, Steps
    <2> QED BY <1>4, <1>g, <2>2 DEF prepare
  <1>5. CASE no_directory(c)
    BY <1>5, <1>b, <1>f, <1>h DEF no_directory, Results
  <1>6. CASE open_file(c)
    <2> DEFINE q == [p EXCEPT !.step = "request", !.linked = TRUE, !.written = 0]
    <2>1. q \in Process /\ q.step = "request" /\ q.info.version = w
      BY ZenonT(90), <1>b DEF Process, Steps, version
    <2>2. /\ Become(c, q) /\ suspect' = suspect /\ w \in Releasable
          /\ download_dir' = [download_dir EXCEPT ![w] = << >>]
      BY <1>6, <1>c DEF open_file
    <2>3. << >> \in File /\ << >> # Missing
      <3>1. << >> \in File
        BY DEF File
      <3> QED BY <3>1, FilesAssumption
    <2> HIDE DEF q
    <2>4. /\ download_dir' \in [Releasable -> File \cup {Missing}]
          /\ \A v \in Releasable : download_dir'[v] = Missing => download_dir[v] = Missing
          /\ download_dir'[q.info.version] # Missing
      BY <1>b, <2>1, <2>2, <2>3
    <2>5. suspect' \subseteq Releasable
      BY <1>b, <2>2
    <2> QED BY <1>a, <1>e, <2>1, <2>2, <2>4, <2>5, BecomeKeepsTypes
  <1>7. CASE open_fails(c)
    BY <1>7, <1>g, <1>h DEF open_fails, Results
  <1>8. CASE request_image(c)
    <2> DEFINE answer == handle_image_download(w)
               q == [p EXCEPT !.step = "receive", !.status = answer.status, !.body = answer.body]
    <2>1. /\ p.step = "request" /\ Become(c, q) /\ UNCHANGED <<serverVars, download_dir>>
          /\ suspect' \subseteq Releasable
      BY <1>8, <1>b DEF request_image
    <2>2. answer.status \in {0, 200, 404, 500} /\ answer.body \in File
      BY <1>c, <2>1, AnswerTyped DEF TypedInv, TypeOK
    <2> HIDE DEF answer
    <2>3. /\ q \in Process /\ q.step = "receive" /\ q.info = p.info /\ q.linked = p.linked
      BY ZenonT(90), <1>b, <2>2 DEF Process, Steps
    <2> HIDE DEF q
    <2> QED BY <2>1, <2>3, QuietKeepsTypes
  <1>9. CASE receive(c)
    <2> DEFINE n == p.written + 1
               q == [p EXCEPT !.written = n]
    <2>1. /\ p.step = "receive" /\ p.written < Len(p.body) /\ Become(c, q) /\ suspect' = suspect
          /\ download_dir' = IF ~ p.linked THEN download_dir
               ELSE [download_dir EXCEPT ![w] = Put(download_dir[w], n, p.body[n])]
      BY <1>9 DEF receive
    <2>2. p.written \in Nat /\ p.body \in File
      BY <1>b DEF Process
    <2>3. n \in Nat \ {0} /\ p.body[n] \in Block
      BY <2>1, <2>2 DEF File
    <2>4. /\ q \in Process /\ q.step = "receive" /\ q.info = p.info /\ q.linked = p.linked
      BY <1>b, <2>1, <2>3 DEF Process
    <2>5. CASE ~ p.linked
      BY <1>b, <1>f, <2>1, <2>4, <2>5
    <2>6. CASE p.linked
      <3>1. w \in Releasable /\ download_dir[w] \in File
        BY <1>b, <1>c, <1>d, <2>6
      <3> DEFINE new == Put(download_dir[w], n, p.body[n])
      <3>2. new \in File /\ new # Missing
        BY <2>3, <3>1, PutTyped, FilesAssumption
      <3>3. download_dir' = [download_dir EXCEPT ![w] = new]
        BY <2>1, <2>6
      <3> HIDE DEF new, q
      <3>4. /\ download_dir' \in [Releasable -> File \cup {Missing}]
            /\ \A v \in Releasable : download_dir'[v] = Missing => download_dir[v] = Missing
            /\ download_dir'[q.info.version] # Missing
        BY <1>b, <2>4, <3>1, <3>2, <3>3 DEF version
      <3>5. suspect' \subseteq Releasable
        BY <1>b, <2>1
      <3> QED BY <1>a, <1>e, <2>1, <2>4, <3>4, <3>5, BecomeKeepsTypes
    <2> QED BY <2>5, <2>6
  <1>10. CASE lose_tail(c)
    <2> DEFINE q == [p EXCEPT !.written = @ + 1]
    <2>1. /\ p.step = "receive" /\ Become(c, q) /\ UNCHANGED <<serverVars, download_dir>>
          /\ suspect' \subseteq Releasable
      BY <1>10, <1>b DEF lose_tail
    <2>2. /\ q \in Process /\ q.step = "receive" /\ q.info = p.info /\ q.linked = p.linked
      BY <1>b, <2>1 DEF Process
    <2> HIDE DEF q
    <2> QED BY <2>1, <2>2, QuietKeepsTypes
  <1>11. CASE transfer_breaks(c)
    BY <1>11, <1>b, <1>g, RetryTyped DEF transfer_breaks
  <1>12. CASE transfer_refused(c)
    <2>1. CASE p.status \in {400, 404}
      BY <1>12, <1>g, <1>h, <2>1 DEF transfer_refused, Results
    <2>2. CASE p.status \notin {400, 404}
      BY <1>12, <1>b, <1>g, <2>2, RetryTyped DEF transfer_refused
    <2> QED BY <2>1, <2>2
  <1>13. CASE transfer_ends(c)
    BY <1>13, <1>b, <1>f, ClosedTyped DEF transfer_ends, Steps
  <1>14. CASE measure(c)
    <2>1. CASE file(c) \in {Missing, << >>}
      BY <1>14, <1>g, <1>h, <2>1 DEF measure, Results
    <2>2. CASE file(c) \notin {Missing, << >>}
      <3>1. [p EXCEPT !.step = "validate_size"] \in Process
            /\ ~ [p EXCEPT !.step = "validate_size"].linked
        BY <1>14, <1>b, <1>d DEF measure, Process, Steps
      <3> QED BY <1>14, <1>b, <1>f, <2>2, <3>1 DEF measure, Goto
    <2> QED BY <2>1, <2>2
  <1>15. ASSUME Reject(c), UNCHANGED download_dir, w \in Releasable
         PROVE  TypedInv'
    BY <1>15, <1>b, <1>f, <1>h DEF Reject, Results
  <1>16. CASE validate_size(c)
    <2>1. CASE size_matches(file(c), p.info)
      <3>1. [p EXCEPT !.step = "validate_hash"] \in Process
            /\ ~ [p EXCEPT !.step = "validate_hash"].linked
        BY <1>16, <1>b, <1>d DEF validate_size, Process, Steps
      <3> QED BY <1>16, <1>b, <1>f, <2>1, <3>1 DEF validate_size, Goto
    <2>2. CASE ~ size_matches(file(c), p.info)
      BY <1>15, <1>16, <1>c, <2>2 DEF validate_size
    <2> QED BY <2>1, <2>2
  <1>17. CASE validate_hash(c)
    <2>1. CASE hash_matches(file(c), p.info)
      <3> DEFINE q == [Exited("accepted") EXCEPT !.info = p.info, !.read = file(c)]
      <3>1. file(c) \in File
        BY <1>17, <1>b, <1>c, <2>1 DEF validate_hash, hash_matches, file
      <3>2. Exited("accepted") \in Process /\ ~ Exited("accepted").linked
        BY <1>h DEF Results
      <3>3. q \in Process /\ ~ q.linked
        BY ZenonT(90), <1>b, <3>1, <3>2 DEF Process
      <3>4. Become(c, q) /\ UNCHANGED download_dir /\ suspect' \subseteq Releasable
        BY <1>17, <1>b, <2>1 DEF validate_hash
      <3> HIDE DEF q
      <3> QED BY <1>f, <3>3, <3>4
    <2>2. CASE ~ hash_matches(file(c), p.info)
      BY <1>15, <1>17, <1>c, <2>2 DEF validate_hash
    <2> QED BY <2>1, <2>2
  <1>18. CASE kill(c)
    <2>1. suspect' \subseteq Releasable
      BY <1>18, <1>b DEF kill
    <2> QED BY <1>18, <1>f, <1>h, <2>1 DEF kill, Results
  <1> QED
    BY <1>1, <1>2, <1>3, <1>4, <1>5, <1>6, <1>7, <1>8, <1>9, <1>10, <1>11, <1>12,
       <1>13, <1>14, <1>16, <1>17, <1>18 DEF Proceed

LEMMA TypedInitially == Init => TypedInv
  <1> SUFFICES ASSUME Init PROVE TypedInv
    OBVIOUS
  <1>1. Exited("none") \in Process /\ ~ Exited("none").linked
    BY ExitedTyped DEF Results
  <1>2. command \in [Commands -> Process] /\ \A c \in Commands : ~ command[c].linked
    BY <1>1 DEF Init
  <1>3. ServerTypeOK
    <2> DEFINE Image == (UNION {Prefixes(i) : i \in Images}) \cup {Missing}
    <2>1. Missing \in Image
      BY Zenon
    <2> HIDE DEF Image
    <2>2. directory \in [Releasable -> [image : Image, metadata : Metadata \cup {Missing}]]
      BY <2>1 DEF Init, ServerInit
    <2>3. /\ releases \in [Releasable -> Metadata \cup {Missing}]
          /\ publishing \in Publications \cup {Missing} /\ published \subseteq Metadata
          /\ removing \in BOOLEAN
          /\ loading \in [listed : SUBSET Releasable, version : Releasable \cup {Missing},
                          found : {"none", "metadata", "image"}]
      BY DEF Init, ServerInit, NotLoading
    <2> QED BY <2>2, <2>3 DEF ServerTypeOK, Image
  <1> QED BY <1>2, <1>3 DEF Init, TypedInv, TypeOK, OpenFilesAreThere

LEMMA TypedStep == Inv /\ TypedInv /\ [Next]_vars => TypedInv'
  <1> SUFFICES ASSUME Inv, TypedInv, [Next]_vars PROVE TypedInv'
    OBVIOUS
  <1>1. CASE ServerNext /\ UNCHANGED clientVars
    <2>1. ServerTypeOK'
      BY <1>1, ServerKeepsTypes DEF TypedInv, TypeOK
    <2> QED BY <1>1, <2>1 DEF clientVars, TypedInv, TypeOK, OpenFilesAreThere, version
  <1>2. CASE \E c \in Commands : start(c) \/ Proceed(c) \/ kill(c)
    BY <1>2, CommandKeepsTypes
  <1>3. CASE UNCHANGED vars
    BY <1>3 DEF vars, serverVars, clientVars, TypedInv, TypeOK, ServerTypeOK,
                OpenFilesAreThere, version
  <1> QED BY <1>1, <1>2, <1>3 DEF Next

(* Every variable keeps its type, whatever the network, the server and the     *)
(* other commands do; no block is ever written to a file that is not there.    *)
THEOREM TypeCorrect == Spec => []TypeOK
  <1>1. TypedInv => TypeOK
    BY DEF TypedInv
  <1> QED BY <1>1, TypedInitially, TypedStep, Invariance, PTL DEF Spec

-------------------------------------------------------------------------------
(* Why a command ends: every step of its own brings it nearer to its end, in   *)
(* the lexicographic order of four numbers, and no step of anybody else takes  *)
(* it back.  (That it goes on taking steps is the fairness of Spec.)           *)

Phase(p) ==
    CASE p.step = "check" -> 4
      [] p.step = "prepare" -> 3
      [] p.step \in {"open", "request", "receive"} -> 2
      [] p.step \in {"measure", "validate_size", "validate_hash"} -> 1
      [] OTHER -> 0

AttemptsLeft(p) == retry_count - p.attempt

StepsLeft(p) ==
    CASE p.step \in {"open", "measure"} -> 2
      [] p.step \in {"request", "validate_size"} -> 1
      [] OTHER -> 0

BlocksLeft(p) == IF p.step = "receive" THEN Len(p.body) - p.written ELSE 0

Nearer(q, p) ==
    \/ Phase(q) < Phase(p)
    \/ /\ Phase(q) = Phase(p)
       /\ \/ AttemptsLeft(q) < AttemptsLeft(p)
          \/ /\ AttemptsLeft(q) = AttemptsLeft(p)
             /\ \/ StepsLeft(q) < StepsLeft(p)
                \/ StepsLeft(q) = StepsLeft(p) /\ BlocksLeft(q) < BlocksLeft(p)

AsNear(q, p) ==
    /\ Phase(q) = Phase(p) /\ AttemptsLeft(q) = AttemptsLeft(p)
    /\ StepsLeft(q) = StepsLeft(p) /\ BlocksLeft(q) = BlocksLeft(p)

(* The four numbers cannot decrease for ever.                                  *)
Bounded ==
    \A c \in Commands : /\ Phase(command[c]) \in 0..4
                        /\ AttemptsLeft(command[c]) \in 0..retry_count
                        /\ StepsLeft(command[c]) \in 0..2
                        /\ BlocksLeft(command[c]) \in Nat

(* No command has received more than what was sent, and none before it asked.  *)
WithinBody(p) ==
    /\ p.step = "request" => p.written = 0
    /\ p.step = "receive" => p.written <= Len(p.body)

MeasureInv == \A c \in Commands : WithinBody(command[c])

LEMMA MeasureTyped ==
    ASSUME TypedInv, MeasureInv
    PROVE  Bounded
  <1> SUFFICES ASSUME NEW c \in Commands
               PROVE  /\ Phase(command[c]) \in 0..4
                      /\ AttemptsLeft(command[c]) \in 0..retry_count
                      /\ StepsLeft(command[c]) \in 0..2
                      /\ BlocksLeft(command[c]) \in Nat
    BY DEF Bounded
  <1> DEFINE p == command[c]
  <1>1. /\ p.attempt \in 0..retry_count /\ p.written \in Nat /\ p.body \in File
    BY DEF TypedInv, TypeOK, Process
  <1>2. Len(p.body) \in Nat
    BY <1>1 DEF File
  <1>3. p.step = "receive" => p.written <= Len(p.body)
    BY DEF MeasureInv, WithinBody
  <1> HIDE DEF p
  <1>4. Phase(p) \in 0..4 /\ StepsLeft(p) \in 0..2
    BY DEF Phase, StepsLeft
  <1>5. AttemptsLeft(p) \in 0..retry_count
    BY <1>1, ClientAssumption DEF AttemptsLeft
  <1>6. BlocksLeft(p) \in Nat
    BY <1>1, <1>2, <1>3 DEF BlocksLeft
  <1> QED BY <1>4, <1>5, <1>6 DEF p

(* To exit is to be at the end.                                                *)
LEMMA ExitedIsNearer ==
    ASSUME NEW p, p.step \in Steps \ {"idle"}, NEW r
    PROVE  Nearer(Exited(r), p) /\ WithinBody(Exited(r))
  BY DEF Exited, Nearer, Phase, Steps, WithinBody

(* Another attempt is one of those that were left.                             *)
LEMMA RetryIsNearer ==
    ASSUME NEW p \in Process, p.step \in {"request", "receive"}
    PROVE  Nearer(retry(p), p) /\ WithinBody(retry(p))
  <1> DEFINE q == Closed(p, "open")
  <1>1. p.attempt \in 0..retry_count /\ p.attempt \in Nat /\ p.step \in Steps
    BY ClientAssumption DEF Process
  <1>2. q \in Process /\ q.attempt = p.attempt
    BY ClosedTyped DEF Steps
  <1>5. q.step = "open"
    BY DEF Closed, Process
  <1> HIDE DEF q
  <1>3. CASE p.attempt < retry_count
    <2> DEFINE n == [q EXCEPT !.attempt = @ + 1]
    <2>1. n.attempt = p.attempt + 1 /\ n.step = "open"
      BY <1>2, <1>5 DEF Process
    <2>2. retry(p) = n
      BY <1>3 DEF retry, q
    <2> HIDE DEF n
    <2>3. Phase(n) = Phase(p)
      BY <2>1 DEF Phase
    <2>4. AttemptsLeft(n) < AttemptsLeft(p)
      BY <1>1, <2>1, ClientAssumption DEF AttemptsLeft
    <2> QED BY <2>1, <2>2, <2>3, <2>4 DEF Nearer, WithinBody
  <1>4. CASE ~ (p.attempt < retry_count)
    <2>1. p.step \in Steps \ {"idle"} /\ retry(p) = Exited("failed")
      BY <1>1, <1>4 DEF retry
    <2> QED BY <2>1, ExitedIsNearer
  <1> QED BY <1>3, <1>4

(* What the ends of a step make of the command itself, and of the others.      *)
LEMMA OwnStep ==
    ASSUME TypedInv, NEW c \in Commands, NEW q, Become(c, q) \/ RemoveAndBecome(c, q)
    PROVE  /\ command'[c] = q
           /\ \A d \in Commands \ {c} : /\ AsNear(command'[d], command[d])
                                        /\ command'[d].step = command[d].step
                                        /\ command'[d].written = command[d].written
                                        /\ command'[d].body = command[d].body
  <1>1. command \in [Commands -> Process]
    BY DEF TypedInv, TypeOK
  <1>2. command'[c] = q
    BY <1>1 DEF Become, RemoveAndBecome, Unlinked
  <1>3. ASSUME NEW d \in Commands \ {c}
        PROVE  command'[d] \in {command[d], [command[d] EXCEPT !.linked = FALSE]}
    BY <1>1 DEF Become, RemoveAndBecome, Unlinked
  <1>4. ASSUME NEW p \in Process
        PROVE  LET n == [p EXCEPT !.linked = FALSE]
               IN  n.step = p.step /\ n.attempt = p.attempt /\ n.written = p.written /\ n.body = p.body
    BY DEF Process
  <1>5. ASSUME NEW d \in Commands \ {c}
        PROVE  /\ command'[d].step = command[d].step /\ command'[d].attempt = command[d].attempt
               /\ command'[d].written = command[d].written /\ command'[d].body = command[d].body
    BY <1>1, <1>3, <1>4
  <1>6. ASSUME NEW d \in Commands \ {c}
        PROVE  AsNear(command'[d], command[d])
    BY <1>5 DEF AsNear, Phase, AttemptsLeft, StepsLeft, BlocksLeft
  <1> QED BY <1>2, <1>5, <1>6

LEMMA ProceedIsNearer ==
    ASSUME TypedInv, Inv, MeasureInv, NEW c \in Commands, Proceed(c)
    PROVE  \E q : /\ Become(c, q) \/ RemoveAndBecome(c, q)
                  /\ Nearer(q, command[c])
                  /\ WithinBody(q)
  <1> DEFINE p == command[c]
  <1>1. /\ p \in Process /\ p.step \in Steps
        /\ p.attempt \in 0..retry_count /\ p.attempt \in Nat
        /\ p.written \in Nat /\ p.body \in File
    BY ClientAssumption DEF TypedInv, TypeOK, Process
  <1>2. Len(p.body) \in Nat
    BY <1>1 DEF File
  <1>e. ASSUME NEW r, Become(c, Exited(r)) \/ RemoveAndBecome(c, Exited(r)), p.step # "idle"
        PROVE  \E q : /\ Become(c, q) \/ RemoveAndBecome(c, q)
                      /\ Nearer(q, p)
                      /\ WithinBody(q)
    BY <1>1, <1>e, ExitedIsNearer
  <1>3. CASE check_for_update(c)
    <2>1. PICK m \in find_update(hardware_version, software_version) : Become(c, checked(m))
      BY <1>3 DEF check_for_update
    <2>2. CASE checked(m) = [Exited("none") EXCEPT !.step = "prepare", !.info = m]
      <3>1. checked(m).step = "prepare"
        BY <2>2 DEF Exited
      <3>2. Nearer(checked(m), p)
        BY <1>3, <3>1 DEF check_for_update, Nearer, Phase
      <3>3. WithinBody(checked(m))
        BY <3>1 DEF WithinBody
      <3> QED BY <2>1, <3>2, <3>3
    <2>3. CASE \E r : checked(m) = Exited(r)
      BY <1>3, <1>e, <2>1, <2>3 DEF check_for_update
    <2> QED BY <2>2, <2>3 DEF checked
  <1>4. CASE check_fails(c)
    <2>1. CASE p.attempt < retry_count
      <3> DEFINE q == [p EXCEPT !.attempt = @ + 1]
      <3>1. q.attempt = p.attempt + 1 /\ q.step = "check" /\ p.step = "check"
        BY <1>1, <1>4 DEF check_fails, Process
      <3>2. Become(c, q)
        BY <1>4, <2>1 DEF check_fails
      <3> HIDE DEF q
      <3>3. AttemptsLeft(q) < AttemptsLeft(p) /\ Phase(q) = Phase(p)
        BY <1>1, <3>1, ClientAssumption DEF AttemptsLeft, Phase
      <3> QED BY <3>1, <3>2, <3>3 DEF Nearer, WithinBody
    <2>2. CASE ~ (p.attempt < retry_count)
      BY <1>4, <1>e, <2>2 DEF check_fails
    <2> QED BY <2>1, <2>2
  <1>5. CASE prepare(c)
    <2> DEFINE q == [p EXCEPT !.step = "open", !.attempt = 0]
    <2>1. q.step = "open" /\ p.step = "prepare" /\ RemoveAndBecome(c, q)
      BY <1>1, <1>5 DEF prepare, Process
    <2> HIDE DEF q
    <2>2. Nearer(q, p)
      BY <2>1 DEF Nearer, Phase
    <2> QED BY <2>1, <2>2 DEF WithinBody
  <1>6. CASE no_directory(c) \/ open_fails(c)
    BY <1>6, <1>e DEF no_directory, open_fails
  <1>7. CASE open_file(c)
    <2> DEFINE q == [p EXCEPT !.step = "request", !.linked = TRUE, !.written = 0]
    <2>1. q.step = "request" /\ q.written = 0 /\ p.step = "open" /\ q.attempt = p.attempt /\ Become(c, q)
      BY <1>1, <1>7 DEF open_file, Process
    <2> HIDE DEF q
    <2>2. Nearer(q, p)
      BY <2>1 DEF Nearer, Phase, AttemptsLeft, StepsLeft
    <2> QED BY <2>1, <2>2 DEF WithinBody
  <1>8. CASE request_image(c)
    <2> DEFINE answer == handle_image_download(version(c))
               q == [p EXCEPT !.step = "receive", !.status = answer.status, !.body = answer.body]
    <2>1. Become(c, q) /\ p.step = "request"
      BY <1>8 DEF request_image
    <2>2. answer.body \in File
      BY <2>1, AnswerTyped, OffersAreReleasable DEF TypedInv, TypeOK
    <2>3. p.written = 0
      BY <2>1 DEF MeasureInv, WithinBody
    <2> HIDE DEF answer
    <2>4. q.step = "receive" /\ q.attempt = p.attempt /\ q.written = 0 /\ q.body = answer.body
      BY <1>1, <2>3 DEF Process
    <2> HIDE DEF q
    <2>5. Nearer(q, p)
      BY <2>1, <2>4 DEF Nearer, Phase, AttemptsLeft, StepsLeft
    <2>6. WithinBody(q)
      BY <2>2, <2>4 DEF File, WithinBody
    <2> QED BY <2>1, <2>5, <2>6
  <1>9. CASE receive(c) \/ lose_tail(c)
    <2> DEFINE q == [p EXCEPT !.written = p.written + 1]
    <2>1. p.step = "receive" /\ p.written < Len(p.body) /\ Become(c, q)
      BY <1>1, <1>2, <1>9 DEF receive, lose_tail
    <2>2. /\ q.step = "receive" /\ q.attempt = p.attempt
          /\ q.written = p.written + 1 /\ q.body = p.body
      BY <1>1, <2>1 DEF Process
    <2> HIDE DEF q
    <2>3. BlocksLeft(q) < BlocksLeft(p)
      BY <1>1, <1>2, <2>1, <2>2 DEF BlocksLeft
    <2>4. Nearer(q, p)
      BY <2>1, <2>2, <2>3 DEF Nearer, Phase, AttemptsLeft, StepsLeft
    <2>5. WithinBody(q)
      BY <1>1, <1>2, <2>1, <2>2 DEF WithinBody
    <2> QED BY <2>1, <2>4, <2>5
  <1>10. CASE transfer_breaks(c)
    BY <1>1, <1>10, RetryIsNearer DEF transfer_breaks
  <1>11. CASE transfer_refused(c)
    <2>1. CASE p.status \in {400, 404}
      BY <1>11, <1>e, <2>1 DEF transfer_refused
    <2>2. CASE p.status \notin {400, 404}
      BY <1>1, <1>11, <2>2, RetryIsNearer DEF transfer_refused
    <2> QED BY <2>1, <2>2
  <1>12. CASE transfer_ends(c)
    <2> DEFINE q == Closed(p, "measure")
    <2>1. Become(c, q) /\ p.step = "receive"
      BY <1>12 DEF transfer_ends
    <2>2. q.step = "measure"
      BY <1>1 DEF Closed, Process
    <2> HIDE DEF q
    <2>3. Nearer(q, p)
      BY <2>1, <2>2 DEF Nearer, Phase
    <2> QED BY <2>1, <2>2, <2>3 DEF WithinBody
  <1>13. ASSUME NEW s \in {"validate_size", "validate_hash"}, Goto(c, s),
                s = "validate_size" => p.step = "measure",
                s = "validate_hash" => p.step = "validate_size"
         PROVE  \E q : /\ Become(c, q) \/ RemoveAndBecome(c, q)
                       /\ Nearer(q, p)
                       /\ WithinBody(q)
    <2> DEFINE q == [p EXCEPT !.step = s]
    <2>1. Become(c, q) /\ q.step = s /\ q.attempt = p.attempt
      BY <1>1, <1>13 DEF Goto, Process
    <2> HIDE DEF q
    <2>2. Nearer(q, p)
      BY <1>13, <2>1 DEF Nearer, Phase, AttemptsLeft, StepsLeft
    <2> QED BY <1>13, <2>1, <2>2 DEF WithinBody
  <1>14. CASE measure(c)
    BY <1>13, <1>14, <1>e DEF measure
  <1>15. CASE validate_size(c)
    BY <1>13, <1>15, <1>e DEF validate_size, Reject
  <1>16. CASE validate_hash(c)
    <2>1. CASE hash_matches(file(c), p.info)
      <3> DEFINE q == [Exited("accepted") EXCEPT !.info = p.info, !.read = file(c)]
      <3>1. Become(c, q) /\ p.step = "validate_hash"
        BY <1>16, <2>1 DEF validate_hash
      <3>2. q.step = "idle"
        BY DEF Exited
      <3> HIDE DEF q
      <3>3. Nearer(q, p)
        BY <3>1, <3>2 DEF Nearer, Phase
      <3> QED BY <3>1, <3>2, <3>3 DEF WithinBody
    <2>2. CASE ~ hash_matches(file(c), p.info)
      BY <1>16, <1>e, <2>2 DEF validate_hash, Reject
    <2> QED BY <2>1, <2>2
  <1> QED
    BY <1>3, <1>4, <1>5, <1>6, <1>7, <1>8, <1>9, <1>10, <1>11, <1>12, <1>14, <1>15,
       <1>16 DEF Proceed

Runs(c) ==
    /\ Proceed(c) => Nearer(command'[c], command[c])
    /\ command[c].step # "idle" =>
         Nearer(command'[c], command[c]) \/ AsNear(command'[c], command[c])

(* Only the command itself changes what counts, and every step it takes runs   *)
(* one of the numbers down, in their order.                                    *)
LEMMA StepRunsDown ==
    ASSUME TypedInv, Inv, MeasureInv, [Next]_vars
    PROVE  MeasureInv' /\ \A c \in Commands : Runs(c)
  <1>1. ASSUME NEW c \in Commands, Proceed(c)
        PROVE  Nearer(command'[c], command[c])
    BY <1>1, ProceedIsNearer, OwnStep
  <1>2. ASSUME NEW c \in Commands, NEW q, Become(c, q) \/ RemoveAndBecome(c, q), WithinBody(q),
               command[c].step # "idle" => Nearer(q, command[c])
        PROVE  MeasureInv' /\ \A d \in Commands : Runs(d)
    <2>1. /\ command'[c] = q
          /\ \A d \in Commands \ {c} : /\ AsNear(command'[d], command[d])
                                       /\ command'[d].step = command[d].step
                                       /\ command'[d].written = command[d].written
                                       /\ command'[d].body = command[d].body
      BY <1>2, OwnStep
    <2>2. \A d \in Commands : WithinBody(command'[d])
      BY <1>2, <2>1 DEF MeasureInv, WithinBody
    <2> QED BY <1>1, <1>2, <2>1, <2>2 DEF MeasureInv, Runs
  <1>3. CASE (ServerNext /\ UNCHANGED clientVars) \/ UNCHANGED vars
    <2>1. command' = command
      BY <1>3 DEF clientVars, vars
    <2>2. \A d \in Commands : AsNear(command'[d], command[d])
      BY <2>1 DEF AsNear
    <2> QED BY <1>1, <2>1, <2>2 DEF MeasureInv, Runs
  <1>4. ASSUME NEW c \in Commands, start(c) PROVE MeasureInv' /\ \A d \in Commands : Runs(d)
    <2> DEFINE q == [Exited("none") EXCEPT !.step = "check"]
    <2>1. Become(c, q) /\ command[c].step = "idle"
      BY <1>4 DEF start
    <2>2. WithinBody(q)
      BY DEF Exited, WithinBody
    <2> HIDE DEF q
    <2> QED BY <1>2, <2>1, <2>2
  <1>5. ASSUME NEW c \in Commands, kill(c) PROVE MeasureInv' /\ \A d \in Commands : Runs(d)
    <2>1. Become(c, Exited("none")) /\ command[c].step \in Steps \ {"idle"}
      BY <1>5 DEF kill, TypedInv, TypeOK, Process
    <2> QED BY <1>2, <2>1, ExitedIsNearer
  <1>6. ASSUME NEW c \in Commands, Proceed(c) PROVE MeasureInv' /\ \A d \in Commands : Runs(d)
    BY <1>2, <1>6, ProceedIsNearer
  <1> QED BY <1>3, <1>4, <1>5, <1>6 DEF Next

(* A command comes nearer to its end with every step it takes, by numbers that *)
(* are natural and bounded but for the blocks of one answer, and nothing that  *)
(* the server, the network or other commands do takes it back: no mixture of   *)
(* failures makes it start over for ever.                                      *)
THEOREM CommandsRunDown ==
    Spec => []Bounded /\ [][\A c \in Commands : Runs(c)]_vars
  <1>1. Init => MeasureInv
    BY DEF Init, MeasureInv, WithinBody, Exited
  <1>2. Inv /\ TypedInv /\ [Next]_vars => TypedInv'
    BY TypedStep
  <1>3. Inv /\ TypedInv /\ MeasureInv /\ [Next]_vars => MeasureInv' /\ \A c \in Commands : Runs(c)
    BY StepRunsDown
  <1>4. TypedInv /\ MeasureInv => Bounded
    BY MeasureTyped
  <1>5. Inv /\ TypedInv /\ MeasureInv /\ [Next]_vars => [\A c \in Commands : Runs(c)]_vars
    BY <1>3
  <1> QED BY <1>1, <1>2, <1>3, <1>4, <1>5, TypedInitially, Invariance, PTL DEF Spec
================================================================================
