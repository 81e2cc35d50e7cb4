----------------------------- MODULE TestThread -----------------------------
(***************************************************************************)
(* What every Q_INVOKABLE test promises, whatever it tests: the call       *)
(* starts a detached thread and returns; the thread announces Progress     *)
(* and later exactly one verdict, then ends, unless the program ends       *)
(* first.  testNvme and testWlan, whose body is one external script, are   *)
(* exactly this; the modules of the other tests refine it, and ResultBoard *)
(* composes it with the user interface.                                    *)
(***************************************************************************)
EXTENDS TestResult

CONSTANT Threads        \* the threads that can be alive at once

VARIABLES stage,        \* how far each thread is; "idle": no such thread
          said          \* the last value its run passed to singleTestResult

threadVars == <<stage, said>>

Stages == {"idle", "created", "running"}

ThreadTypeOK ==
  /\ stage \in [Threads -> Stages]
  /\ said \in [Threads -> Result]

ThreadInit ==
  /\ stage = [t \in Threads |-> "idle"]
  /\ said = [t \in Threads |-> "NotTested"]

Start(t) ==
  /\ stage[t] = "idle"
  /\ stage' = [stage EXCEPT ![t] = "created"]
  /\ said' = [said EXCEPT ![t] = "NotTested"]

SayProgress(t) ==
  /\ stage[t] = "created"
  /\ stage' = [stage EXCEPT ![t] = "running"]
  /\ said' = [said EXCEPT ![t] = "Progress"]

\* The external command has ended with one status or the other.
SayVerdict(t) ==
  /\ stage[t] = "running"
  /\ stage' = [stage EXCEPT ![t] = "idle"]
  /\ \E ok \in BOOLEAN : said' = [said EXCEPT ![t] = SetResAddedLogs(ok)]

\* The window is closed: main returns, every thread ends wherever it is, and
\* the program may be started again.
Quit ==
  /\ stage' = [t \in Threads |-> "idle"]
  /\ said' = [t \in Threads |-> "NotTested"]

ThreadNext ==
  Quit \/ \E t \in Threads : Start(t) \/ SayProgress(t) \/ SayVerdict(t)

ThreadSpec == ThreadInit /\ [][ThreadNext]_threadVars

\* The operating system runs a started thread, and the command it waits for
\* comes to an end.
ThreadFairSpec ==
  ThreadSpec /\ \A t \in Threads : WF_threadVars(SayProgress(t) \/ SayVerdict(t))
=============================================================================
