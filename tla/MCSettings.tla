----------------------------- MODULE MCSettings -----------------------------
(* Instances of Settings for TLC. *)
EXTENDS Settings

MCBudget == [asks |-> 2, crashes |-> 1, losses |-> 1, visits |-> 2, exits |-> 2]
=============================================================================
