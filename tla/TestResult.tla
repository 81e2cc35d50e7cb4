----------------------------- MODULE TestResult -----------------------------
(***************************************************************************)
(* The vocabulary every part of the tester shares: the result codes of     *)
(* tester.h and the only function that turns a test's outcome into one.    *)
(***************************************************************************)

\* enum Tester::Result.
Result == {"Success", "Failed", "Error", "Progress", "NotTested", "Manual"}

\* The text of a row nobody has run yet, "Не проверено" of ExpoRow.
Unchecked == "Unchecked"

\* Tester::SetResAddedLogs: a test's boolean outcome as a result code; the
\* log line it also writes is left out.
SetResAddedLogs(ok) == IF ok THEN "Success" ELSE "Failed"

\* The codes a test can end with.
Verdicts == {SetResAddedLogs(ok) : ok \in BOOLEAN}
=============================================================================
