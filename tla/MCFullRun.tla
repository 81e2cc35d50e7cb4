------------------------------ MODULE MCFullRun -----------------------------
(***************************************************************************)
(* FullRun with the two tests that differ (testEmmc's thread writes to its *)
(* caller's frame, testGPIO's does not), called in the code's order.       *)
(***************************************************************************)
EXTENDS FullRun, TLC

MCOrder == <<"emmc", "gpio">>
MCStrays == Verdicts

\* Left out of the view: what no guard reads, and no invariant but for its type
\* (the last words of a thread that is over, an older verdict, `success`).
View ==
  <<stage, job, queue, row, taskVars, sumVars, copyVars, fresh,
    [t \in Threads |-> IF stage[t] = "idle" THEN Unchecked ELSE said[t]],
    [x \in fresh |-> last[x]]>>

Symmetry == Permutations(Threads)
=============================================================================
