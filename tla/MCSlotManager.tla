---------------------------- MODULE MCSlotManager ----------------------------
(* Instances of SlotManager for TLC. *)
EXTENDS SlotManager

CONSTANT v1
=============================================================================
