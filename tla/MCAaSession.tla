---------------------------- MODULE MCAaSession ----------------------------
(* Instances of AaSession for TLC. *)
EXTENDS AaSession

MCBudget == [talk |-> 4, cmds |-> 2]
=============================================================================
