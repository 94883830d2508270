---------------------------- MODULE MCCpHandover ----------------------------
(* An iPhone with a session over the air, one over the cable and one that   *)
(* early metadata opens.                                                    *)
EXTENDS CpHandover

MCPhoneOf == [l \in CpLinks |-> "iPhone"]
=============================================================================
