------------------------------- MODULE Versions -------------------------------
(* Versions MAJOR.MINOR.PATCH as the server and the client order them.  The    *)
(* server compares Python integers (ota_server.py, version_tuple); the client  *)
(* reads each part into an int (update_manager.cpp, compare_versions).         *)
EXTENDS Integers

CONSTANT IntMax                  \* the largest int of the client

ASSUME IntMaxAssumption == IntMax \in Nat \ {0}

Version == Nat \X Nat \X Nat

Precedes(v, w) ==
    \/ v[1] < w[1]
    \/ v[1] = w[1] /\ v[2] < w[2]
    \/ v[1] = w[1] /\ v[2] = w[2] /\ v[3] < w[3]

(* version1 is newer than version2, for the server. *)
is_newer_version(version1, version2) == Precedes(version2, version1)

(* What the extractions ss >> major >> dot >> minor >> dot >> patch leave      *)
(* behind: a part too large is read as IntMax, and every part after it stays 0.*)
parse(v) ==
    IF v[1] > IntMax THEN <<IntMax, 0, 0>>
    ELSE IF v[2] > IntMax THEN <<v[1], IntMax, 0>>
    ELSE IF v[3] > IntMax THEN <<v[1], v[2], IntMax>>
    ELSE v

(* Mutant: every part is compared on its own. *)
compare_each_part(v1, v2) ==
    v1 # v2 /\ \A i \in 1..3 : parse(v1)[i] <= parse(v2)[i]

compare_versions(v1, v2) == Precedes(parse(v1), parse(v2))
================================================================================
