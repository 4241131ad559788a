---------------------------- MODULE MCBootCommands ----------------------------
(* Values for model checking: the processes are interchangeable. *)
EXTENDS BootCommands, TLC

Symmetry == Permutations(Commands)
=============================================================================
