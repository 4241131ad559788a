-------------------------- MODULE MCSignatureCheck --------------------------
(* Values for model checking: commands and releases are interchangeable. *)
EXTENDS SignatureCheck, TLC

CONSTANTS b1, b2, release_key

MCBodies   == {b1, b2}
MCKeyFiles == {release_key, "other", "missing", "unloadable"}
MCElsewhere == {[body |-> b, field |-> Nothing] : b \in MCBodies}
Symmetry   == Permutations(Commands) \cup Permutations(MCBodies)
=============================================================================
