-------------------------- MODULE MCWindowButtons ---------------------------
(***************************************************************************)
(* WindowButtons with two of the three launchers, which are alike.         *)
(***************************************************************************)
EXTENDS WindowButtons
=============================================================================
