---------------------------- MODULE MCResultBoard ---------------------------
(***************************************************************************)
(* ResultBoard on three rows: a patient one, one that may be pressed while *)
(* it runs, and EMMC; two threads, so that runs of a row overlap.          *)
(***************************************************************************)
EXTENDS ResultBoard

MCStrays == Result \cup {Garbage}
=============================================================================
