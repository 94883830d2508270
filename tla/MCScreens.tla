----------------------------- MODULE MCScreens -----------------------------
(* One iPhone and one Android phone: the smallest number of phones that can *)
(* take the front from each other.                                          *)
EXTENDS Screens
=============================================================================
