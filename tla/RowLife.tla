------------------------------- MODULE RowLife ------------------------------
(***************************************************************************)
(* What a row of the test window promises the user who waits for an answer *)
(* before pressing its button again: the row says Progress from the press  *)
(* until the run's verdict replaces it, and it never says Progress when    *)
(* nothing of the test is left to come.                                    *)
(***************************************************************************)
EXTENDS TestResult

CONSTANT Rows

VARIABLES shown,        \* the value each row displays
          busy          \* whether a run of the row is not yet answered

rowVars == <<shown, busy>>

RowInit ==
  /\ shown = [x \in Rows |-> Unchecked]
  /\ busy = [x \in Rows |-> FALSE]

Press(x) ==
  /\ ~busy[x]
  /\ shown' = [shown EXCEPT ![x] = "Progress"]
  /\ busy' = [busy EXCEPT ![x] = TRUE]

Answer(x) ==
  /\ busy[x]
  /\ shown[x] = "Progress"
  /\ \E v \in Verdicts : shown' = [shown EXCEPT ![x] = v]
  /\ busy' = [busy EXCEPT ![x] = FALSE]

RowNext == \E x \in Rows : Press(x) \/ Answer(x)

RowSpec == RowInit /\ [][RowNext]_rowVars

\* Every press is answered.
RowFairSpec == RowSpec /\ \A x \in Rows : WF_rowVars(Answer(x))
=============================================================================
