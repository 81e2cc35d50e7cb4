----------------------------- MODULE ResultBoard ----------------------------
(***************************************************************************)
(* The test window: the rows of ExpoMain.qml, the threads their buttons    *)
(* start, and the queue that carries singleTestFinished from those threads *)
(* to the GUI thread.  A signal emitted on a foreign thread is posted to   *)
(* the one event queue of the GUI thread, which handles events in order    *)
(* and runs each handler to its end; so a click, and the delivery of an    *)
(* event, are one step each, while threads emit in between.                *)
(*                                                                         *)
(* testEmmc's thread keeps its verdict in a local variable of the function *)
(* that started it, captured by reference.  By the time the thread writes  *)
(* and re-reads it the function has returned: what it emits may be         *)
(* anything that has meanwhile been stored there.                          *)
(***************************************************************************)
EXTENDS Naturals, Sequences, TestThread

CONSTANTS Tests,        \* the rows, by the name their events carry
          PatientRows,  \* rows pressed again only once they are answered
          Strays,       \* what a read of testEmmc's dangling variable may yield
          MaxEvents     \* no row is pressed while this many events wait

VARIABLES job,          \* the test each thread runs
          queue,        \* singleTestFinished events not yet delivered
          row,          \* the value each row displays
          last          \* history: the last verdict reached for each Judged test

boardVars == <<job, queue, row, last>>
vars == <<stage, said, job, queue, row, last>>

Emmc == "emmc"
NoTest == "no test"
Garbage == "garbage"    \* an integer that is no Result

ASSUME BoardAssumption ==
  /\ NoTest \notin Tests
  /\ PatientRows \subseteq Tests \ {Emmc}
  /\ Strays \subseteq Result \cup {Garbage}
  /\ MaxEvents \in Nat

\* The tests that report what they found; testEmmc may report anything.
Judged == Tests \ {Emmc}

Event == [name : Tests, value : Result \cup {Garbage}]

TypeOK ==
  /\ ThreadTypeOK
  /\ job \in [Threads -> Tests \cup {NoTest}]
  /\ queue \in Seq(Event)
  /\ row \in [Tests -> Result \cup {Unchecked}]
  /\ last \in [Judged -> Verdicts \cup {Unchecked}]

Live(x) == \E t \in Threads : job[t] = x
Pending(x) == \E i \in DOMAIN queue : queue[i].name = x
Busy(x) == Live(x) \/ Pending(x)

\* Slips the runs must notice are defined before what they would replace; here,
\* a row that displays whatever it is given.
SetValueUnchecked(x, v) == [row EXCEPT ![x] = v]

\* ExpoRow.setValue: a value that is no Result leaves the text as it was.
SetValue(x, v) == IF v \in Result THEN [row EXCEPT ![x] = v] ELSE row

\* Slip: every emission repeats the value the call returned.
CarriedReturned(x, v) == {"Progress"}

\* What an emission of v by the thread of test x may carry.
Carried(x, v) == IF x = Emmc THEN Strays ELSE {v}

\* Slips: an event that overtakes the others, and one that is dropped while
\* another of its row waits.
SingleTestResultPrepended(x, v) == queue' = <<[name |-> x, value |-> v]>> \o queue
SingleTestResultCoalesced(x, v) ==
  queue' = IF Pending(x) THEN queue ELSE Append(queue, [name |-> x, value |-> v])

\* Tester::singleTestResult on a test's thread: the signal is queued.
SingleTestResult(x, v) == queue' = Append(queue, [name |-> x, value |-> v])
-----------------------------------------------------------------------------
Init ==
  /\ ThreadInit
  /\ job = [t \in Threads |-> NoTest]
  /\ queue = <<>>
  /\ row = [x \in Tests |-> Unchecked]
  /\ last = [x \in Judged |-> Unchecked]

\* Slip: every row's handler is like that of the EMMC row.
ClickLikeEmmc(t, x) ==
  /\ Len(queue) < MaxEvents
  /\ x \in PatientRows => ~Busy(x)
  /\ Start(t)
  /\ job' = [job EXCEPT ![t] = x]
  /\ UNCHANGED <<queue, row, last>>

\* A row's restart button: the test is started, and the Progress the call
\* returns is shown at once, except by the handler of the EMMC row.
Click(t, x) ==
  /\ Len(queue) < MaxEvents
  /\ x \in PatientRows => ~Busy(x)
  /\ Start(t)
  /\ job' = [job EXCEPT ![t] = x]
  /\ row' = IF x = Emmc THEN row ELSE SetValue(x, "Progress")
  /\ UNCHANGED <<queue, last>>

Announce(t) ==
  /\ SayProgress(t)
  /\ SingleTestResult(job[t], "Progress")
  /\ UNCHANGED <<job, row, last>>

Conclude(t) ==
  /\ SayVerdict(t)
  /\ \E v \in Carried(job[t], said'[t]) : SingleTestResult(job[t], v)
  /\ last' = IF job[t] = Emmc THEN last ELSE [last EXCEPT ![job[t]] = said'[t]]
  /\ job' = [job EXCEPT ![t] = NoTest]
  /\ UNCHANGED row

\* parseSingleTest, for an event that names a row.
Deliver ==
  /\ queue # <<>>
  /\ Head(queue).name \in Tests
  /\ row' = SetValue(Head(queue).name, Head(queue).value)
  /\ queue' = Tail(queue)
  /\ UNCHANGED <<stage, said, job, last>>

Next ==
  \/ \E t \in Threads :
        \/ \E x \in Tests : Click(t, x)
        \/ Announce(t)
        \/ Conclude(t)
  \/ Deliver

Spec == Init /\ [][Next]_vars

\* The operating system runs every thread and the commands they wait for end;
\* the GUI thread's event loop handles what is posted to it.
FairSpec ==
  /\ Spec
  /\ \A t \in Threads : WF_vars(Announce(t)) /\ WF_vars(Conclude(t))
  /\ WF_vars(Deliver)
-----------------------------------------------------------------------------
\* A row whose tests are all over and all reported shows the verdict of the
\* run that ended last, however many runs of it overlapped: no later answer
\* is overwritten by an earlier one.
SettledRowShowsLastVerdict ==
  \A x \in Judged : ~Busy(x) => row[x] = last[x]

\* "Выполняется" on a row means something of that test is still to come: a
\* live thread, or a verdict already in the queue.
ProgressIsJustified ==
  \A x \in Judged :
    row[x] = "Progress" =>
      \/ Live(x)
      \/ \E i \in DOMAIN queue : queue[i].name = x /\ queue[i].value \in Verdicts

\* Every started test is eventually answered on its row.
EveryRunIsAnswered ==
  \A x \in Judged : Live(x) ~> row[x] \in Verdicts

\* To a user who waits for the answer before pressing again, a row behaves as
\* RowLife promises.
Patient == INSTANCE RowLife
             WITH Rows <- PatientRows,
                  shown <- [x \in PatientRows |-> row[x]],
                  busy <- [x \in PatientRows |-> Busy(x)]
RowsKeepPromise == Patient!RowFairSpec
=============================================================================
