----------------------------- MODULE MCCpuUsage -----------------------------
(***************************************************************************)
(* CpuUsage with two CPUs and counters of a few ticks.                     *)
(***************************************************************************)
EXTENDS CpuUsage

\* Left out of the view: what the window shows is never read again.
View == <<stat, time, ran>>
=============================================================================
