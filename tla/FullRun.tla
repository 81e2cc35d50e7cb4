------------------------------- MODULE FullRun ------------------------------
(***************************************************************************)
(* runTest("all"): Tester::test() on a thread of the Qt pool, which calls  *)
(* every test in turn, keeps what the calls return in `results`, counts    *)
(* them and emits testFinished.  The calls return while the tests they     *)
(* started still run, and their own singleTestFinished events share the    *)
(* GUI queue with testFinished.  printResults and receiveAction, the other *)
(* invokables that touch `results`, run on the GUI thread, where signals   *)
(* are delivered at once.                                                  *)
(*                                                                         *)
(* serializeResults clears the counters, copies the results and counts     *)
(* them in the shared counters, and reads these again: three steps on a    *)
(* pool thread, which others may interrupt.  printResults does the same on *)
(* the GUI thread in one step, and no increment of two loops at once is    *)
(* lost.  The keys of the summary that no code ever sets (lsd, pci2, pci3, *)
(* sound) stay NotTested and are left out; "date" holds the text of an     *)
(* invalid date, which toInt turns into 0, the code of Success.            *)
(***************************************************************************)
EXTENDS ResultBoard, FiniteSets

CONSTANTS Order,        \* the order in which test() calls the tests
          Pool          \* pool threads that may execute test()

VARIABLES at,           \* where each pool thread is in test()
          next,         \* index in Order of the call it is at
          ret,          \* the value that call returns when it does
          frame,        \* pool thread whose call of testEmmc t's result is in
          results,      \* Tester::results, its Result fields
          counts,       \* results.success, results.failed, results.error
          copy,         \* the copy of `results` each pool thread counts
          alone,        \* history: nobody else cleared or counted meanwhile
          success,      \* the window's verdict on the whole board
          fresh         \* history: tests that concluded after the last summary,
                        \* and that receiveAction has not spoken for since

taskVars == <<at, next, ret, frame>>
sumVars == <<results, counts>>
copyVars == <<copy, alone>>
fullVars == <<vars, taskVars, sumVars, copyVars, success, fresh>>

Touch == "touchscreen"
Touched == "touched"
Fields == Tests \cup {Touch}
Finished == "testFinished"

ASSUME FullRunAssumption ==
  /\ Order \in Seq(Tests) \ {<<>>}
  /\ NoTest \notin Pool
  /\ IsFiniteSet(Tests) /\ Touch \notin Tests /\ Finished \notin Tests

Counts == [success : Nat, failed : Nat, error : Nat]
Untested == [f \in Fields |-> "NotTested"]
Nought == [success |-> 0, failed |-> 0, error |-> 0]
Summary == [name : {Finished}, map : [Fields -> Result], counts : Counts]

FullTypeOK ==
  /\ ThreadTypeOK
  /\ at \in [Pool -> {"idle", "call", "return", "clear", "count", "emit"}]
  /\ next \in [Pool -> 1..Len(Order)]
  /\ ret \in [Pool -> Result]
  /\ frame \in [Threads -> Pool \cup {NoTest}]
  /\ results \in [Fields -> Result]
  /\ counts \in Counts
  /\ copy \in [Pool -> [Fields -> Result]] /\ alone \in [Pool -> BOOLEAN]
  /\ success \in BOOLEAN
  /\ row \in [Tests -> Result \cup {Unchecked}]
  /\ \A i \in DOMAIN queue : queue[i] \in Event \cup Summary

\* Slip: microsd's inner `Result res`, and every other, is the caller's variable.
CapturesAll(x) == TRUE

\* Tests whose thread stores its verdict in a local variable of the call.
Captures(x) == x = Emmc

Having(map, v) == Cardinality({f \in Fields : map[f] = v})

\* The counting loop of serializeResults, over every value of the map.
Tally(c, map) == [success |-> c.success + 1 + Having(map, "Success"),
                  failed |-> c.failed + Having(map, "Failed"),
                  error |-> c.error + Having(map, "Error")]

\* Slip: the counters go on from the summary before.
BaseKept(c) == c

\* serializeResults clears the three counters before it counts.
Base(c) == Nought

\* fillTestResults's `success` (allow_error is never cleared).
OverallSuccess(c) == c.failed = 0 \/ (c.error = 0 /\ c.failed # 0)
-----------------------------------------------------------------------------
FullInit ==
  /\ Init
  /\ at = [r \in Pool |-> "idle"]
  /\ next = [r \in Pool |-> 1]
  /\ ret = [r \in Pool |-> "Progress"]
  /\ frame = [t \in Threads |-> NoTest]
  /\ results = Untested /\ counts = Nought
  /\ copy = [r \in Pool |-> Untested] /\ alone = [r \in Pool |-> TRUE]
  /\ success = FALSE
  /\ fresh = {}

\* runTest("all") hands test() to the pool.
RunTest(r) ==
  /\ at[r] = "idle"
  /\ Len(queue) < MaxEvents
  /\ at' = [at EXCEPT ![r] = "call"]
  /\ UNCHANGED <<vars, next, ret, frame, sumVars, copyVars, success, fresh>>

\* The next call of test() starts its thread ...
Call(r, t) ==
  /\ at[r] = "call"
  /\ Start(t)
  /\ job' = [job EXCEPT ![t] = Order[next[r]]]
  /\ frame' = [frame EXCEPT ![t] = IF Captures(Order[next[r]]) THEN r ELSE NoTest]
  /\ at' = [at EXCEPT ![r] = "return"]
  /\ UNCHANGED <<queue, row, last, next, ret, sumVars, copyVars, success, fresh>>

\* The call is the last of test().
Done(r) == next[r] = Len(Order)

\* ... and returns; the thread's captured variable is gone from here on.
Return(r) ==
  /\ at[r] = "return"
  /\ results' = [results EXCEPT ![Order[next[r]]] = ret[r]]
  /\ ret' = [ret EXCEPT ![r] = "Progress"]
  /\ frame' = [t \in Threads |-> IF frame[t] = r THEN NoTest ELSE frame[t]]
  /\ IF Done(r)
     THEN /\ next' = [next EXCEPT ![r] = 1]
          /\ at' = [at EXCEPT ![r] = "clear"]
     ELSE /\ next' = [next EXCEPT ![r] = @ + 1]
          /\ at' = [at EXCEPT ![r] = "call"]
  /\ UNCHANGED <<vars, counts, copyVars, success, fresh>>

\* Those that are between clearing the counters and reading them.
Counting == {r \in Pool : at[r] \in {"count", "emit"}}

\* The end of test(): serializeResults ...
Clear(r) ==
  /\ at[r] = "clear"
  /\ counts' = Base(counts)
  /\ alone' = [q \in Pool |-> IF q = r THEN Counting = {} ELSE alone[q] /\ q \notin Counting]
  /\ at' = [at EXCEPT ![r] = "count"]
  /\ UNCHANGED <<vars, next, ret, frame, results, copy, success, fresh>>

Count(r) ==
  /\ at[r] = "count"
  /\ copy' = [copy EXCEPT ![r] = results]
  /\ counts' = Tally(counts, results)
  /\ at' = [at EXCEPT ![r] = "emit"]
  /\ UNCHANGED <<vars, next, ret, frame, results, alone, success, fresh>>

\* ... and testFinished.
EmitFinished(r) ==
  /\ at[r] = "emit"
  /\ queue' = Append(queue, [name |-> Finished, map |-> copy[r], counts |-> counts])
  /\ copy' = [copy EXCEPT ![r] = Untested] /\ alone' = [alone EXCEPT ![r] = TRUE]
  /\ fresh' = {}
  /\ at' = [at EXCEPT ![r] = "idle"]
  /\ UNCHANGED <<stage, said, job, row, last, next, ret, frame, sumVars, success>>

\* Conclude of ResultBoard, with what it does to a call that has not returned.
ConcludeInRun(t) ==
  /\ Conclude(t)
  /\ ret' = [r \in Pool |-> IF frame[t] = r THEN said'[t] ELSE ret[r]]
  /\ frame' = [frame EXCEPT ![t] = NoTest]
  /\ fresh' = fresh \cup ({job[t]} \ {Emmc})
  /\ UNCHANGED <<at, next, sumVars, copyVars, success>>

\* fillTestResults: every row takes its value from the summary.
Fill(map, c) ==
  /\ row' = [x \in Tests |-> map[x]]
  /\ success' = OverallSuccess(c)

DeliverFinished ==
  /\ queue # <<>>
  /\ Head(queue).name = Finished
  /\ Fill(Head(queue).map, Head(queue).counts)
  /\ queue' = Tail(queue)
  /\ UNCHANGED <<stage, said, job, last, taskVars, sumVars, copyVars, fresh>>

\* printResults, on the GUI thread: the summary fills the rows at once.
PrintResults ==
  /\ Len(queue) < MaxEvents
  /\ counts' = Tally(Base(counts), results)
  /\ Fill(results, counts')
  /\ alone' = [r \in Pool |-> alone[r] /\ r \notin Counting]
  /\ fresh' = {}
  /\ UNCHANGED <<stage, said, job, queue, last, taskVars, results, copy>>

\* receiveAction, on the GUI thread: its event is delivered at once, and a row of
\* that name says Success.  Only a name that contains "touched", which is no row's,
\* changes `results`.
ReceiveAction(info) ==
  /\ Len(queue) < MaxEvents
  /\ results' = IF info = Touched THEN [results EXCEPT ![Touch] = "Success"] ELSE results
  /\ row' = IF info \in Tests THEN SetValue(info, "Success") ELSE row
  /\ fresh' = fresh \ {info}
  /\ UNCHANGED <<stage, said, job, queue, last, taskVars, counts, copyVars, success>>

BoardStep ==
  /\ \/ \E t \in Threads : Announce(t) \/ \E x \in Tests : Click(t, x)
     \/ Deliver
  /\ UNCHANGED <<taskVars, sumVars, copyVars, success, fresh>>

FullNext ==
  \/ BoardStep
  \/ \E t \in Threads : ConcludeInRun(t)
  \/ \E r \in Pool :
        \/ RunTest(r)
        \/ \E t \in Threads : Call(r, t)
        \/ Return(r) \/ Clear(r) \/ Count(r)
        \/ EmitFinished(r)
  \/ DeliverFinished
  \/ PrintResults
  \/ \E info \in Tests \cup {Touched} : ReceiveAction(info)

FullSpec == FullInit /\ [][FullNext]_fullVars
-----------------------------------------------------------------------------
Summaries == {queue[i] : i \in {j \in DOMAIN queue : queue[j].name = Finished}}

\* The counters of a summary are those of its own fields, plus one success for
\* the date, however many summaries were made before and whatever test thread or
\* event got between: unless another summary was being made at the same time.
SummaryCountsItsFields ==
  \A r \in Pool : at[r] = "emit" /\ alone[r] => counts = Tally(Nought, copy[r])

\* A summary holds no verdict: every call of test() returns before the test it
\* started is over, except that testEmmc may be overtaken by its own thread.
SummaryHoldsNoVerdict ==
  \A s \in Summaries : \A x \in Judged : s.map[x] \in {"NotTested", "Progress"}

\* A verdict reached after the last summary was made is not overwritten by it (nor
\* by anything but receiveAction with the test's name, which says Success itself).
LateVerdictsSurvive ==
  \A x \in fresh : ~Busy(x) => row[x] = last[x]
=============================================================================
