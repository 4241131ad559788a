----------------------------- MODULE MCInstaller -----------------------------
(* Instances of Installer for TLC. *)
EXTENDS Installer, TLC

CONSTANTS v1, v2, a, b

\* Version v1 is released twice, with different images; of v2, one image.
RereleasedVersion == {<<v1, a>>, <<v1, b>>, <<v2, a>>}

\* Two versions with the same image.
SameImage == {<<v1, a>>, <<v2, a>>}

\* One version and one image.
OneVersionOneImage == {<<v1, a>>}

\* No definition tells inodes or processes apart, properties included.
Symmetry == Permutations(Inode) \cup Permutations(Process)
=============================================================================
