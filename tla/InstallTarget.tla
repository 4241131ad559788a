---------------------------- MODULE InstallTarget ----------------------------
(***************************************************************************)
(* What InstallManager promises of one installed version: the image under  *)
(* the install target appears and is replaced as a whole, and the record   *)
(* installation_<version>.json only ever names the image that is there.    *)
(***************************************************************************)
CONSTANTS
    Release,   \* <<version, payload>> pairs that callers ask for
    Version,
    NoPayload  \* no image, no record

VARIABLES image, record

Init ==
    /\ image = [v \in Version |-> NoPayload]
    /\ record = [v \in Version |-> NoPayload]

\* finalize_installation
Replace(v) ==
    /\ \E r \in Release : r[1] = v /\ image' = [image EXCEPT ![v] = r[2]]
    /\ UNCHANGED record

\* save_installation_state, and its truncation of the record before
Record(v) ==
    /\ image[v] # NoPayload
    /\ record' = [record EXCEPT ![v] = image[v]]
    /\ UNCHANGED image

Forget(v) ==
    /\ record' = [record EXCEPT ![v] = NoPayload]
    /\ UNCHANGED image

\* cleanup_install_target
Remove(v) ==
    /\ image' = [image EXCEPT ![v] = NoPayload]
    /\ UNCHANGED record

Next == \E v \in Version : Replace(v) \/ Record(v) \/ Forget(v) \/ Remove(v)

Spec == Init /\ [][Next]_<<image, record>>
=============================================================================
