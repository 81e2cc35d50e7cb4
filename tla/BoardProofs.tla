-------------------------- MODULE BoardProofs --------------------------------
(***************************************************************************)
(* Theorems about the test window, ResultBoard, and the full run on top of *)
(* it, FullRun: for any rows, any number of threads and pool threads, any  *)
(* order of the tests and any queue.  A row ends at the last verdict of    *)
(* its test and keeps RowLife's promise; a summary counts its own fields,  *)
(* holds no verdict and overwrites none that comes after it.               *)
(***************************************************************************)
EXTENDS FullRun, SequenceTheorems, FiniteSetTheorems, TLAPS

\* A thread has a test exactly while it lives.
JobsMatchThreads == \A t \in Threads : stage[t] = "idle" <=> job[t] = NoTest

BoardInv == TypeOK /\ JobsMatchThreads

\* The two things that ever happen to the queue.
LEMMA Appending ==
  ASSUME NEW S, NEW q \in Seq(S), NEW e \in S, NEW r, r = Append(q, e)
  PROVE  /\ r \in Seq(S)
         /\ DOMAIN q = 1..Len(q) /\ DOMAIN r = 1..(Len(q) + 1) /\ Len(q) \in Nat
         /\ \A i \in DOMAIN q : i \in DOMAIN r /\ i < Len(q) + 1 /\ r[i] = q[i]
         /\ r[Len(q) + 1] = e
  OBVIOUS

LEMMA Removing ==
  ASSUME NEW S, NEW q \in Seq(S), q # <<>>, NEW r, r = Tail(q)
  PROVE  /\ r \in Seq(S)
         /\ Head(q) = q[1] /\ q[1] \in S /\ 1 \in DOMAIN q
         /\ DOMAIN q \subseteq Int /\ DOMAIN r \subseteq Int
         /\ \A i \in DOMAIN r : i + 1 \in DOMAIN q /\ i + 1 > 1 /\ r[i] = q[i + 1]
         /\ \A i \in DOMAIN q : i # 1 => i - 1 \in DOMAIN r /\ r[i - 1] = q[i]
<1>1. r \in Seq(S) /\ Len(r) = Len(q) - 1 /\ \A i \in 1..Len(r) : r[i] = q[i + 1]
  BY HeadTailProperties
<1>2. Len(q) \in Nat \ {0} /\ DOMAIN q = 1..Len(q) /\ DOMAIN r = 1..Len(r)
  BY <1>1, EmptySeq, LenProperties
<1>3. q[1] \in S
  BY <1>2, ElementOfSeq
<1> QED
  BY <1>1, <1>2, <1>3

\* What an event carries is a result, Garbage at worst; one of a Judged test
\* carries what its thread said.
LEMMA CarriedType ==
  ASSUME NEW x \in Tests, NEW v \in Result, NEW w \in Carried(x, v)
  PROVE  [name |-> x, value |-> w] \in Event /\ (x \in Judged => w = v)
  BY BoardAssumption DEF Carried, Event, Judged

LEMMA VerdictTypes ==
  Verdicts \subseteq Result /\ "Progress" \in Result /\ "Progress" \notin Verdicts
  BY DEF Verdicts, SetResAddedLogs, Result

\* Every variable keeps its type, and threads and their tests stay matched.
THEOREM BoardInvariance == Spec => []BoardInv
<1>1. Init => BoardInv
  BY BoardAssumption, VerdictTypes, EmptySeq
  DEF Init, BoardInv, TypeOK, JobsMatchThreads, ThreadInit, ThreadTypeOK, Stages, Result
<1>2. BoardInv /\ [Next]_vars => BoardInv'
  <2> SUFFICES ASSUME BoardInv, [Next]_vars PROVE BoardInv'
    OBVIOUS
  <2> USE DEF BoardInv
  <2>1. ASSUME NEW t \in Threads, NEW x \in Tests, Click(t, x) PROVE BoardInv'
    BY <2>1, BoardAssumption, VerdictTypes
    DEF Click, Start, TypeOK, ThreadTypeOK, JobsMatchThreads, Stages, SetValue, Result
  <2>2. ASSUME NEW t \in Threads, Announce(t) PROVE BoardInv'
    <3>1. job[t] \in Tests
      BY <2>2 DEF Announce, SayProgress, TypeOK, JobsMatchThreads
    <3>2. [name |-> job[t], value |-> "Progress"] \in Event
      BY <3>1, VerdictTypes DEF Event
    <3>3. queue' \in Seq(Event)
      BY <2>2, <3>2, Appending DEF Announce, SingleTestResult, TypeOK
    <3> QED
      BY <2>2, <3>3 DEF Announce, SayProgress, TypeOK, ThreadTypeOK, JobsMatchThreads, Stages,
                        Result
  <2>3. ASSUME NEW t \in Threads, Conclude(t) PROVE BoardInv'
    <3>1. job[t] \in Tests
      BY <2>3 DEF Conclude, SayVerdict, TypeOK, JobsMatchThreads
    <3>2. said'[t] \in Verdicts /\ said' \in [Threads -> Result]
      BY <2>3, VerdictTypes DEF Conclude, SayVerdict, TypeOK, ThreadTypeOK, Verdicts
    <3>3. queue' \in Seq(Event)
      BY <2>3, <3>1, <3>2, VerdictTypes, CarriedType, Appending
      DEF Conclude, SingleTestResult, TypeOK
    <3>4. last' \in [Judged -> Verdicts \cup {Unchecked}]
      BY <2>3, <3>1, <3>2 DEF Conclude, TypeOK
    <3> QED
      BY <2>3, <3>2, <3>3, <3>4
      DEF Conclude, SayVerdict, TypeOK, ThreadTypeOK, JobsMatchThreads, Stages
  <2>4. CASE Deliver
    <3>1. Tail(queue) \in Seq(Event)
      BY <2>4, Removing DEF Deliver, TypeOK
    <3> QED
      BY <2>4, <3>1
      DEF Deliver, SetValue, TypeOK, ThreadTypeOK, JobsMatchThreads
  <2>5. CASE UNCHANGED vars
    BY <2>5 DEF vars, TypeOK, ThreadTypeOK, JobsMatchThreads
  <2> QED
    BY <2>1, <2>2, <2>3, <2>4, <2>5 DEF Next
<1> QED
  BY <1>1, <1>2, PTL DEF Spec
-----------------------------------------------------------------------------
\* The type invariant: every variable keeps the type the code gives it.
THEOREM TypeCorrect == Spec => []TypeOK
  BY BoardInvariance, PTL DEF BoardInv
-----------------------------------------------------------------------------
(***************************************************************************)
(* SettledRowShowsLastVerdict.  It is not inductive: nothing in it says    *)
(* what a queued event carries.  Once no thread of a test is alive, the    *)
(* last queued event of it carries the verdict reached last, and when none *)
(* is queued the row shows that verdict already.                           *)
(***************************************************************************)
LastWord(x) ==
  \A i \in DOMAIN queue :
    /\ queue[i].name = x
    /\ \A j \in DOMAIN queue : j > i => queue[j].name # x
    => queue[i].value = last[x]

Settling(x) ==
  ~Live(x) => LastWord(x) /\ (~Pending(x) => row[x] = last[x])

SettlingInv == \A x \in Judged : Settling(x)

\* What the two things that happen to the queue do to the last word of a test.
LEMMA OthersAppended ==
  ASSUME NEW S, NEW e \in S, NEW x, queue \in Seq(S), queue' = Append(queue, e),
         e.name # x, last'[x] = last[x]
  PROVE  (Pending(x)' <=> Pending(x)) /\ (LastWord(x) => LastWord(x)')
<1>1. /\ DOMAIN queue' = DOMAIN queue \cup {Len(queue) + 1}
      /\ \A i \in DOMAIN queue : i < Len(queue) + 1 /\ queue'[i] = queue[i]
      /\ queue'[Len(queue) + 1].name # x
  BY Appending
<1>2. Pending(x)' <=> Pending(x)
  BY <1>1 DEF Pending
<1>3. LastWord(x) => LastWord(x)'
  BY <1>1 DEF LastWord
<1> QED
  BY <1>2, <1>3

LEMMA OwnAppended ==
  ASSUME NEW S, NEW e \in S, NEW x, queue \in Seq(S), queue' = Append(queue, e),
         e.name = x, e.value = last'[x]
  PROVE  Pending(x)' /\ LastWord(x)'
<1>1. Pending(x)'
  BY Appending DEF Pending
<1>2. LastWord(x)'
  BY Appending DEF LastWord
<1> QED
  BY <1>1, <1>2

LEMMA HeadRemoved ==
  ASSUME NEW S, NEW x, queue \in Seq(S), queue # <<>>, queue' = Tail(queue),
         last' = last, LastWord(x)
  PROVE  /\ LastWord(x)'
         /\ ~Pending(x)' =>
              IF queue[1].name = x THEN queue[1].value = last[x] ELSE ~Pending(x)
<1>1. LastWord(x)'
  <2> SUFFICES ASSUME NEW i \in DOMAIN queue', queue'[i].name = x,
                      \A j \in DOMAIN queue' : j > i => queue'[j].name # x
               PROVE  queue'[i].value = last'[x]
    BY DEF LastWord
  <2>1. /\ i + 1 \in DOMAIN queue /\ i + 1 > 1 /\ i \in Int
        /\ queue[i + 1].name = x /\ queue'[i] = queue[i + 1]
    BY Removing
  <2>2. ASSUME NEW j \in DOMAIN queue, j > i + 1 PROVE queue[j].name # x
    <3>1. j \in Int /\ j # 1 /\ j - 1 > i
      BY <2>1, <2>2, Removing
    <3>2. j - 1 \in DOMAIN queue' /\ queue'[j - 1] = queue[j]
      BY <3>1, Removing
    <3> QED
      BY <3>1, <3>2
  <2> QED
    BY <2>1, <2>2 DEF LastWord
<1>2. ASSUME ~Pending(x)', NEW i \in DOMAIN queue, i # 1 PROVE queue[i].name # x
  <2>1. i - 1 \in DOMAIN queue' /\ queue'[i - 1] = queue[i]
    BY <1>2, Removing
  <2> QED
    BY <1>2, <2>1 DEF Pending
<1>3. ASSUME ~Pending(x)', queue[1].name = x PROVE queue[1].value = last[x]
  <2>1. 1 \in DOMAIN queue /\ \A j \in DOMAIN queue : j > 1 => queue[j].name # x
    BY <1>2, <1>3, Removing
  <2> QED
    BY <1>3, <2>1 DEF LastWord
<1> QED
  BY <1>1, <1>2, <1>3 DEF Pending

LEMMA SettlingStep == BoardInv /\ BoardInv' /\ SettlingInv /\ [Next]_vars => SettlingInv'
<1> SUFFICES ASSUME BoardInv, BoardInv', SettlingInv, [Next]_vars, NEW x \in Judged
             PROVE  Settling(x)'
  BY DEF SettlingInv, Judged
<1> x \in Tests /\ x # Emmc /\ x # NoTest
  BY BoardAssumption DEF Judged
<1>1. ASSUME NEW t \in Threads, NEW y \in Tests, Click(t, y) PROVE Settling(x)'
  <2>1. x # y => (Live(x)' <=> Live(x))
    BY <1>1 DEF Click, Start, Live, BoardInv, TypeOK, JobsMatchThreads
  <2>2. x = y => Live(x)'
    BY <1>1 DEF Click, Live, BoardInv, TypeOK
  <2>3. x # y => row'[x] = row[x]
    BY <1>1 DEF Click, SetValue, BoardInv, TypeOK
  <2> QED
    BY <1>1, <2>1, <2>2, <2>3 DEF SettlingInv, Settling, LastWord, Pending, Click
<1>2. ASSUME NEW t \in Threads, Announce(t) PROVE Settling(x)'
  <2>1. Live(x)' <=> Live(x)
    BY <1>2 DEF Announce, Live
  <2>2. job[t] \in Tests
    BY <1>2 DEF Announce, SayProgress, BoardInv, TypeOK, JobsMatchThreads
  <2>3. CASE x = job[t]
    BY <2>1, <2>3 DEF Live, Settling
  <2>4. CASE x # job[t]
    <3> DEFINE e == [name |-> job[t], value |-> "Progress"]
    <3>1. e \in Event /\ e.name # x
      BY <2>2, <2>4, VerdictTypes DEF Event
    <3>2. queue \in Seq(Event) /\ queue' = Append(queue, e)
      BY <1>2 DEF Announce, SingleTestResult, BoardInv, TypeOK
    <3> HIDE DEF e
    <3>3. (Pending(x)' <=> Pending(x)) /\ (LastWord(x) => LastWord(x)')
      BY <1>2, <3>1, <3>2, OthersAppended DEF Announce
    <3> QED
      BY <1>2, <2>1, <3>3 DEF SettlingInv, Settling, Announce
  <2> QED
    BY <2>3, <2>4
<1>3. ASSUME NEW t \in Threads, Conclude(t) PROVE Settling(x)'
  <2>1. job[t] \in Tests /\ said'[t] \in Result
    BY <1>3 DEF Conclude, SayVerdict, BoardInv, TypeOK, ThreadTypeOK, JobsMatchThreads
  <2>2. PICK v \in Carried(job[t], said'[t]) :
          queue' = Append(queue, [name |-> job[t], value |-> v])
    BY <1>3 DEF Conclude, SingleTestResult
  <2> DEFINE e == [name |-> job[t], value |-> v]
  <2>3. e \in Event /\ e.name = job[t] /\ (job[t] = x => e.value = said'[t])
    BY <2>1, CarriedType
  <2>4. queue \in Seq(Event) /\ queue' = Append(queue, e)
    BY <2>2 DEF BoardInv, TypeOK
  <2> HIDE DEF e
  <2>5. row' = row
    BY <1>3 DEF Conclude
  <2>6. CASE x = job[t]
    <3>1. last'[x] = said'[t]
      BY <1>3, <2>6 DEF Conclude, BoardInv, TypeOK
    <3>2. Pending(x)' /\ LastWord(x)'
      BY <2>3, <2>4, <2>6, <3>1, OwnAppended
    <3> QED
      BY <3>2 DEF Settling
  <2>7. CASE x # job[t]
    <3>1. last'[x] = last[x]
      BY <1>3, <2>7 DEF Conclude, BoardInv, TypeOK
    <3>2. Live(x)' <=> Live(x)
      BY <1>3, <2>7 DEF Conclude, Live, BoardInv, TypeOK
    <3>3. (Pending(x)' <=> Pending(x)) /\ (LastWord(x) => LastWord(x)')
      BY <2>3, <2>4, <2>7, <3>1, OthersAppended
    <3> QED
      BY <2>5, <3>1, <3>2, <3>3 DEF SettlingInv, Settling
  <2> QED
    BY <2>6, <2>7
<1>4. CASE Deliver
  <2>1. queue \in Seq(Event) /\ queue # <<>> /\ queue' = Tail(queue)
    BY <1>4 DEF Deliver, BoardInv, TypeOK
  <2>2. last' = last /\ row' = SetValue(queue[1].name, queue[1].value)
    BY <1>4, <2>1, Removing DEF Deliver
  <2>3. Live(x)' <=> Live(x)
    BY <1>4 DEF Deliver, Live
  <2> SUFFICES ASSUME ~Live(x), LastWord(x), ~Pending(x) => row[x] = last[x]
               PROVE  LastWord(x)' /\ (~Pending(x)' => row'[x] = last[x])
    BY <2>2, <2>3 DEF SettlingInv, Settling
  <2>4. LastWord(x)'
    BY <2>1, <2>2, HeadRemoved
  <2>5. ASSUME ~Pending(x)' PROVE row'[x] = last[x]
    <3>1. CASE queue[1].name = x
      <4>1. queue[1].value = last[x]
        BY <2>1, <2>2, <2>5, <3>1, HeadRemoved
      <4>2. queue[1] \in Event
        BY <2>1, Removing
      <4>3. queue[1].value \in Result
        BY <4>1, <4>2, VerdictTypes
        DEF BoardInv, TypeOK, Event, Unchecked, Garbage
      <4> QED
        BY <2>2, <3>1, <4>1, <4>3 DEF SetValue, BoardInv, TypeOK
    <3>2. CASE queue[1].name # x
      <4>1. ~Pending(x)
        BY <2>1, <2>2, <2>5, <3>2, HeadRemoved
      <4> QED
        BY <2>2, <3>2, <4>1 DEF SetValue, BoardInv, TypeOK
    <3> QED
      BY <3>1, <3>2
  <2> QED
    BY <2>4, <2>5
<1>5. CASE UNCHANGED vars
  BY <1>5 DEF vars, SettlingInv, Settling, LastWord, Live, Pending
<1> QED
  BY <1>1, <1>2, <1>3, <1>4, <1>5 DEF Next

\* A row whose tests are all over and all reported shows the verdict of the
\* run that ended last, in whatever order clicks and threads interleave.
THEOREM SettledRows == Spec => []SettledRowShowsLastVerdict
<1>1. Init => SettlingInv
  BY DEF Init, SettlingInv, Settling, LastWord, Pending, Judged
<1>2. SettlingInv => SettledRowShowsLastVerdict
  BY DEF SettlingInv, Settling, SettledRowShowsLastVerdict, Busy
<1> QED
  BY <1>1, <1>2, SettlingStep, BoardInvariance, PTL DEF Spec
-----------------------------------------------------------------------------
(***************************************************************************)
(* ProgressIsJustified.  What justifies Progress on a row is a live thread *)
(* or a queued verdict; and a Progress still queued must be justified by   *)
(* what comes after it, or its delivery would leave the row waiting.       *)
(***************************************************************************)
Answered(x, i) ==
  \/ Live(x)
  \/ \E j \in DOMAIN queue :
        j > i /\ queue[j].name = x /\ queue[j].value \in Verdicts

Justified(x) ==
  /\ row[x] = "Progress" => Answered(x, 0)
  /\ \A i \in DOMAIN queue :
        queue[i].name = x =>
          /\ queue[i].value \in Verdicts \cup {"Progress"}
          /\ queue[i].value = "Progress" => Answered(x, i)

JustifiedInv == \A x \in Judged : Justified(x)

LEMMA JustifiedStep == BoardInv /\ BoardInv' /\ JustifiedInv /\ [Next]_vars => JustifiedInv'
<1> SUFFICES ASSUME BoardInv, BoardInv', JustifiedInv, [Next]_vars, NEW x \in Judged
             PROVE  Justified(x)'
  BY DEF JustifiedInv, Judged
<1> x \in Tests /\ x # Emmc /\ x # NoTest /\ Justified(x)
  BY BoardAssumption DEF Judged, JustifiedInv
<1>1. ASSUME NEW t \in Threads, NEW y \in Tests, Click(t, y) PROVE Justified(x)'
  <2>1. Live(x) => Live(x)'
    BY <1>1 DEF Click, Start, Live, BoardInv, TypeOK, JobsMatchThreads
  <2>2. x = y => Live(x)'
    BY <1>1 DEF Click, Live, BoardInv, TypeOK
  <2>3. x # y => row'[x] = row[x]
    BY <1>1 DEF Click, SetValue, BoardInv, TypeOK
  <2>4. queue' = queue
    BY <1>1 DEF Click
  <2> QED
    BY <2>1, <2>2, <2>3, <2>4 DEF Justified, Answered
<1>2. ASSUME NEW t \in Threads, Announce(t) PROVE Justified(x)'
  <2>1. job[t] \in Tests
    BY <1>2 DEF Announce, SayProgress, BoardInv, TypeOK, JobsMatchThreads
  <2> DEFINE e == [name |-> job[t], value |-> "Progress"]
  <2>2. e \in Event /\ e.name = job[t] /\ e.value = "Progress"
    BY <2>1, VerdictTypes DEF Event
  <2>3. queue \in Seq(Event) /\ queue' = Append(queue, e)
    BY <1>2 DEF Announce, SingleTestResult, BoardInv, TypeOK
  <2>4. (Live(x)' <=> Live(x)) /\ (job[t] = x => Live(x)') /\ row' = row
    BY <1>2 DEF Announce, Live
  <2> HIDE DEF e
  <2>5. \A i \in Int : Answered(x, i) => Answered(x, i)'
    BY <2>3, <2>4, Appending, <2>2 DEF Answered
  <2>6. \A i \in DOMAIN queue' : i \in DOMAIN queue \/ i = Len(queue) + 1
    BY <2>2, <2>3, Appending
  <2> QED
    BY <2>2, <2>3, <2>4, <2>5, <2>6, Appending DEF Justified, Answered
<1>3. ASSUME NEW t \in Threads, Conclude(t) PROVE Justified(x)'
  <2>1. job[t] \in Tests /\ said'[t] \in Verdicts /\ said'[t] \in Result
    BY <1>3, VerdictTypes
    DEF Conclude, SayVerdict, BoardInv, TypeOK, ThreadTypeOK, JobsMatchThreads, Verdicts
  <2>2. PICK v \in Carried(job[t], said'[t]) :
          queue' = Append(queue, [name |-> job[t], value |-> v])
    BY <1>3 DEF Conclude, SingleTestResult
  <2> DEFINE e == [name |-> job[t], value |-> v]
  <2>3. e \in Event /\ e.name = job[t] /\ (job[t] = x => e.value \in Verdicts)
    BY <2>1, CarriedType
  <2>4. queue \in Seq(Event) /\ queue' = Append(queue, e)
    BY <2>2 DEF BoardInv, TypeOK
  <2>5. row' = row
    BY <1>3 DEF Conclude
  <2> HIDE DEF e
  <2>6. \A i \in DOMAIN queue' : i \in DOMAIN queue \/ i = Len(queue) + 1
    BY <2>3, <2>4, Appending
  <2>7. CASE x = job[t]
    <3>1. \A i \in 0..Len(queue) : Answered(x, i)'
      BY <2>3, <2>4, <2>7, Appending DEF Answered
    <3> QED
      BY <2>3, <2>4, <2>5, <2>6, <2>7, <3>1, Appending, VerdictTypes DEF Justified
  <2>8. CASE x # job[t]
    <3>1. Live(x)' <=> Live(x)
      BY <1>3, <2>8 DEF Conclude, Live, BoardInv, TypeOK
    <3>2. \A i \in Int : Answered(x, i) => Answered(x, i)'
      BY <2>3, <2>4, <3>1, Appending DEF Answered
    <3> QED
      BY <2>3, <2>4, <2>5, <2>6, <2>8, <3>2, Appending DEF Justified
  <2> QED
    BY <2>7, <2>8
<1>4. CASE Deliver
  <2>1. queue \in Seq(Event) /\ queue # <<>> /\ queue' = Tail(queue)
    BY <1>4 DEF Deliver, BoardInv, TypeOK
  <2>2. row' = SetValue(queue[1].name, queue[1].value)
    BY <1>4, <2>1, Removing DEF Deliver
  <2>3. Live(x)' <=> Live(x)
    BY <1>4 DEF Deliver, Live
  <2>4. ASSUME NEW i \in Int, i > 0, Answered(x, i) PROVE Answered(x, i - 1)'
    <3>1. CASE Live(x)
      BY <2>3, <3>1 DEF Answered
    <3>2. CASE ~Live(x)
      <4>1. PICK j \in DOMAIN queue :
              j > i /\ queue[j].name = x /\ queue[j].value \in Verdicts
        BY <2>4, <3>2 DEF Answered
      <4>2. j \in Int /\ j # 1 /\ j - 1 > i - 1
        BY <2>1, <2>4, <4>1, Removing
      <4>3. j - 1 \in DOMAIN queue' /\ queue'[j - 1] = queue[j]
        BY <2>1, <4>2, Removing
      <4> QED
        BY <4>1, <4>2, <4>3 DEF Answered
    <3> QED
      BY <3>1, <3>2
  <2>5. ASSUME NEW i \in DOMAIN queue', queue'[i].name = x
        PROVE  /\ queue'[i].value \in Verdicts \cup {"Progress"}
               /\ queue'[i].value = "Progress" => Answered(x, i)'
    <3>1. i + 1 \in DOMAIN queue /\ i + 1 > 1 /\ i \in Int /\ queue'[i] = queue[i + 1]
      BY <2>1, Removing
    <3>2. queue'[i].value = "Progress" => Answered(x, i + 1)
      BY <2>5, <3>1 DEF Justified
    <3>3. Answered(x, i + 1) => Answered(x, i)'
      BY <2>4, <3>1
    <3> QED
      BY <2>5, <3>1, <3>2, <3>3 DEF Justified
  <2>6. ASSUME row'[x] = "Progress" PROVE Answered(x, 0)'
    <3>1. CASE queue[1].name = x
      <4>1. queue[1].value \in Verdicts \cup {"Progress"}
        BY <2>1, <3>1, Removing DEF Justified
      <4>2. row'[x] = queue[1].value
        BY <2>2, <3>1, <4>1, VerdictTypes DEF SetValue, BoardInv, TypeOK
      <4>3. Answered(x, 1)
        BY <2>1, <2>6, <3>1, <4>2, Removing DEF Justified
      <4> QED
        BY <2>4, <4>3
    <3>2. CASE queue[1].name # x
      <4>1. row[x] = "Progress"
        BY <2>2, <2>6, <3>2 DEF SetValue, BoardInv, TypeOK
      <4>2. Answered(x, 0)
        BY <4>1 DEF Justified
      <4>3. Answered(x, 1)
        BY <2>1, <3>2, <4>2, Removing DEF Answered
      <4> QED
        BY <2>4, <4>3
    <3> QED
      BY <3>1, <3>2
  <2> QED
    BY <2>5, <2>6 DEF Justified
<1>5. CASE UNCHANGED vars
  BY <1>5 DEF vars, Justified, Answered, Live
<1> QED
  BY <1>1, <1>2, <1>3, <1>4, <1>5 DEF Next

\* A row never says Progress when nothing of its test is left to come.
THEOREM ProgressJustified == Spec => []ProgressIsJustified
<1>1. Init => JustifiedInv
  BY DEF Init, JustifiedInv, Justified, Judged, Unchecked
<1>2. BoardInv /\ JustifiedInv => ProgressIsJustified
  BY DEF JustifiedInv, Justified, Answered, ProgressIsJustified, BoardInv, TypeOK
<1> QED
  BY <1>1, <1>2, JustifiedStep, BoardInvariance, PTL DEF Spec
-----------------------------------------------------------------------------
(***************************************************************************)
(* The window implements RowLife for the rows that are pressed again only  *)
(* once they are answered.  Such a row has one thread at most, a verdict   *)
(* in the queue is the last that will come of it, and all the time it is   *)
(* busy it says Progress: so a press finds it at rest, the delivery of the *)
(* verdict is the answer, and every other step changes nothing.            *)
(***************************************************************************)
OneThread(x) == \A s, t \in Threads : job[s] = x /\ job[t] = x => s = t

VerdictIsLast(x) ==
  \A i \in DOMAIN queue :
    queue[i].name = x /\ queue[i].value \in Verdicts =>
      /\ ~Live(x)
      /\ \A j \in DOMAIN queue : j > i => queue[j].name # x

PatientRow(x) ==
  OneThread(x) /\ VerdictIsLast(x) /\ (Busy(x) => row[x] = "Progress")

PatientInv == \A x \in PatientRows : PatientRow(x)

\* A step that changes neither what a patient row shows nor whether it is busy
\* is no step of RowLife.
LEMMA RowStutter ==
  ASSUME \A x \in PatientRows : row'[x] = row[x] /\ (Busy(x)' <=> Busy(x))
  PROVE  UNCHANGED Patient!rowVars
<1>1. [x \in PatientRows |-> row[x]]' = [x \in PatientRows |-> row[x]]
  OBVIOUS
<1>2. \A x \in PatientRows : Busy(x)' = Busy(x)
  BY Zenon DEF Busy, Live, Pending
<1>3. [x \in PatientRows |-> Busy(x)]' = [x \in PatientRows |-> Busy(x)]
  BY <1>2, Zenon
<1> QED
  BY <1>1, <1>3 DEF Patient!rowVars

\* What a press, and what the delivery of a verdict, is to RowLife.
LEMMA RowPress ==
  ASSUME NEW y \in PatientRows, ~Busy(y), Busy(y)', row'[y] = "Progress",
         \A x \in PatientRows : x # y => row'[x] = row[x] /\ (Busy(x)' <=> Busy(x))
  PROVE  Patient!Press(y)
<1>1. [x \in PatientRows |-> row[x]]'
        = [[x \in PatientRows |-> row[x]] EXCEPT ![y] = "Progress"]
  OBVIOUS
<1>2. /\ Busy(y)' = TRUE /\ Busy(y) = FALSE
      /\ \A x \in PatientRows : x # y => Busy(x)' = Busy(x)
  BY Zenon DEF Busy, Live, Pending
<1>3. [x \in PatientRows |-> Busy(x)]'
        = [[x \in PatientRows |-> Busy(x)] EXCEPT ![y] = TRUE]
  BY <1>2, Zenon
<1>4. ~[x \in PatientRows |-> Busy(x)][y]
  BY Zenon
<1> QED
  BY <1>1, <1>3, <1>4 DEF Patient!Press

LEMMA RowAnswer ==
  ASSUME NEW y \in PatientRows, Busy(y), ~Busy(y)', row[y] = "Progress", row'[y] \in Verdicts,
         \A x \in PatientRows : x # y => row'[x] = row[x] /\ (Busy(x)' <=> Busy(x))
  PROVE  Patient!Answer(y)
<1>1. [x \in PatientRows |-> row[x]]'
        = [[x \in PatientRows |-> row[x]] EXCEPT ![y] = row'[y]]
  OBVIOUS
<1>2. /\ Busy(y)' = FALSE
      /\ \A x \in PatientRows : x # y => Busy(x)' = Busy(x)
  BY Zenon DEF Busy, Live, Pending
<1>3. [x \in PatientRows |-> Busy(x)]'
        = [[x \in PatientRows |-> Busy(x)] EXCEPT ![y] = FALSE]
  BY <1>2, Zenon
<1>4. [x \in PatientRows |-> Busy(x)][y]
  BY Zenon
<1>5. [x \in PatientRows |-> row[x]][y] = "Progress"
  OBVIOUS
<1>6. Patient!Verdicts = Verdicts
  BY DEF Patient!Verdicts, Verdicts, Patient!SetResAddedLogs, SetResAddedLogs
<1> QED
  BY <1>1, <1>3, <1>4, <1>5, <1>6 DEF Patient!Answer

RowStep == Patient!RowNext \/ UNCHANGED Patient!rowVars

\* Both at once: the invariant is kept, and the step is one RowLife allows.
LEMMA PatientStep ==
  ASSUME BoardInv, BoardInv', JustifiedInv, JustifiedInv', PatientInv, [Next]_vars
  PROVE  PatientInv' /\ RowStep
<1>1. \A x \in PatientRows : x \in Judged /\ x \in Tests /\ x # Emmc /\ x # NoTest
  BY BoardAssumption DEF Judged
<1>2. ASSUME NEW t \in Threads, NEW y \in Tests, Click(t, y)
      PROVE  PatientInv' /\ RowStep
  <2>1. job[t] = NoTest
    BY <1>2 DEF Click, Start, BoardInv, JobsMatchThreads
  <2>2. ASSUME NEW x \in PatientRows, x # y
        PROVE  (Live(x)' <=> Live(x)) /\ row'[x] = row[x] /\ (Busy(x)' <=> Busy(x))
    BY <1>1, <1>2, <2>1, <2>2 DEF Click, Live, Pending, Busy, SetValue, BoardInv, TypeOK
  <2>3. ASSUME NEW x \in PatientRows, x # y PROVE PatientRow(x)'
    <3>1. OneThread(x)'
      BY <1>1, <1>2, <2>1, <2>3 DEF Click, PatientInv, PatientRow, OneThread, BoardInv, TypeOK
    <3> QED
      BY <1>2, <2>2, <2>3, <3>1 DEF Click, PatientInv, PatientRow, VerdictIsLast
  <2>4. ASSUME y \in PatientRows
        PROVE  PatientRow(y)' /\ ~Busy(y) /\ Busy(y)' /\ row'[y] = "Progress"
    <3>1. ~Busy(y) /\ queue' = queue /\ job' = [job EXCEPT ![t] = y]
      BY <1>2, <2>4 DEF Click
    <3>2. OneThread(y)' /\ Live(y)'
      BY <1>1, <3>1 DEF OneThread, Busy, Live, BoardInv, TypeOK
    <3>3. VerdictIsLast(y)'
      BY <3>1 DEF Busy, Pending, VerdictIsLast
    <3>4. row'[y] = "Progress"
      BY <1>1, <1>2, <2>4, VerdictTypes DEF Click, SetValue, BoardInv, TypeOK
    <3> QED
      BY <3>1, <3>2, <3>3, <3>4 DEF PatientRow, Busy
  <2>5. PatientInv'
    BY <2>3, <2>4 DEF PatientInv
  <2>6. CASE y \in PatientRows
    <3>1. Patient!Press(y)
      BY <2>2, <2>4, <2>6, RowPress
    <3> QED
      BY <2>5, <2>6, <3>1 DEF RowStep, Patient!RowNext
  <2>7. CASE y \notin PatientRows
    <3>1. UNCHANGED Patient!rowVars
      BY <2>2, <2>7, RowStutter
    <3> QED
      BY <2>5, <3>1 DEF RowStep
  <2> QED
    BY <2>6, <2>7
<1>3. ASSUME NEW t \in Threads, Announce(t)
      PROVE  PatientInv' /\ RowStep
  <2>1. job[t] \in Tests /\ job' = job /\ row' = row
    BY <1>3 DEF Announce, SayProgress, BoardInv, TypeOK, JobsMatchThreads
  <2> DEFINE e == [name |-> job[t], value |-> "Progress"]
  <2>2. e \in Event /\ e.name = job[t] /\ e.value \notin Verdicts
    BY <2>1, VerdictTypes DEF Event
  <2>3. queue \in Seq(Event) /\ queue' = Append(queue, e)
    BY <1>3 DEF Announce, SingleTestResult, BoardInv, TypeOK
  <2> HIDE DEF e
  <2>4. /\ DOMAIN queue' = DOMAIN queue \cup {Len(queue) + 1}
        /\ \A i \in DOMAIN queue : i < Len(queue) + 1 /\ queue'[i] = queue[i]
        /\ queue'[Len(queue) + 1] = e
    BY <2>2, <2>3, Appending
  <2>5. ASSUME NEW x \in PatientRows PROVE Busy(x)' <=> Busy(x)
    BY <2>1, <2>2, <2>4 DEF Busy, Live, Pending
  <2>6. ASSUME NEW x \in PatientRows PROVE VerdictIsLast(x)'
    BY <2>1, <2>2, <2>4 DEF PatientInv, PatientRow, VerdictIsLast, Live
  <2>7. PatientInv'
    BY <2>1, <2>5, <2>6 DEF PatientInv, PatientRow, OneThread
  <2>8. UNCHANGED Patient!rowVars
    BY <2>1, <2>5, RowStutter
  <2> QED
    BY <2>7, <2>8 DEF RowStep
<1>4. ASSUME NEW t \in Threads, Conclude(t)
      PROVE  PatientInv' /\ RowStep
  <2>1. /\ job[t] \in Tests /\ said'[t] \in Result
        /\ job' = [job EXCEPT ![t] = NoTest] /\ row' = row
    BY <1>4, VerdictTypes
    DEF Conclude, SayVerdict, BoardInv, TypeOK, ThreadTypeOK, JobsMatchThreads, Verdicts
  <2>2. PICK v \in Carried(job[t], said'[t]) :
          queue' = Append(queue, [name |-> job[t], value |-> v])
    BY <1>4 DEF Conclude, SingleTestResult
  <2> DEFINE e == [name |-> job[t], value |-> v]
  <2>3. e \in Event /\ e.name = job[t]
    BY <2>1, CarriedType
  <2>4. queue \in Seq(Event) /\ queue' = Append(queue, e)
    BY <2>2 DEF BoardInv, TypeOK
  <2> HIDE DEF e
  <2>5. /\ DOMAIN queue' = DOMAIN queue \cup {Len(queue) + 1}
        /\ \A i \in DOMAIN queue : i < Len(queue) + 1 /\ queue'[i] = queue[i]
        /\ queue'[Len(queue) + 1] = e /\ DOMAIN queue \subseteq Int /\ Len(queue) \in Nat
    BY <2>3, <2>4, Appending
  <2>6. ASSUME NEW x \in PatientRows, x # job[t] PROVE Live(x)' <=> Live(x)
    BY <1>1, <2>1, <2>6 DEF Live, BoardInv, TypeOK
  <2>7. ASSUME NEW x \in PatientRows, x = job[t] PROVE ~Live(x)'
    BY <1>1, <2>1, <2>7 DEF Live, PatientInv, PatientRow, OneThread, BoardInv, TypeOK
  <2>8. ASSUME NEW x \in PatientRows PROVE Busy(x)' <=> Busy(x)
    <3>1. CASE x = job[t]
      BY <2>3, <2>5, <3>1 DEF Busy, Live, Pending
    <3>2. CASE x # job[t]
      BY <2>3, <2>5, <2>6, <3>2 DEF Busy, Pending
    <3> QED
      BY <3>1, <3>2
  <2>9. ASSUME NEW x \in PatientRows PROVE VerdictIsLast(x)'
    <3>1. CASE x = job[t]
      <4>1. \A i \in DOMAIN queue : queue[i].name = x => queue[i].value \notin Verdicts
        BY <3>1 DEF PatientInv, PatientRow, VerdictIsLast, Live
      <4> QED
        BY <2>5, <2>7, <3>1, <4>1 DEF VerdictIsLast
    <3>2. CASE x # job[t]
      BY <2>3, <2>5, <2>6, <3>2 DEF PatientInv, PatientRow, VerdictIsLast
    <3> QED
      BY <3>1, <3>2
  <2>10. ASSUME NEW x \in PatientRows PROVE OneThread(x)'
    BY <1>1, <2>1 DEF PatientInv, PatientRow, OneThread, BoardInv, TypeOK
  <2>11. PatientInv'
    BY <2>1, <2>8, <2>9, <2>10 DEF PatientInv, PatientRow
  <2>12. UNCHANGED Patient!rowVars
    BY <2>1, <2>8, RowStutter
  <2> QED
    BY <2>11, <2>12 DEF RowStep
<1>5. CASE Deliver
  <2>1. queue \in Seq(Event) /\ queue # <<>> /\ queue' = Tail(queue) /\ job' = job
    BY <1>5 DEF Deliver, BoardInv, TypeOK
  <2>2. PICK y \in Tests, v \in Result \cup {Garbage} :
          row' = SetValue(y, v) /\ queue[1].name = y /\ queue[1].value = v
    <3>1. queue[1] \in Event /\ Head(queue) = queue[1]
      BY <2>1, Removing
    <3> QED
      BY <1>5, <3>1 DEF Deliver, Event
  <2>3. /\ 1 \in DOMAIN queue /\ DOMAIN queue \subseteq Int /\ DOMAIN queue' \subseteq Int
        /\ \A i \in DOMAIN queue' : i + 1 \in DOMAIN queue /\ i + 1 > 1 /\ queue'[i] = queue[i + 1]
        /\ \A i \in DOMAIN queue : i # 1 => i - 1 \in DOMAIN queue' /\ queue'[i - 1] = queue[i]
    BY <2>1, Removing
  <2>4. \A x \in PatientRows : Live(x)' <=> Live(x)
    BY <2>1 DEF Live
  <2>5. ASSUME NEW x \in PatientRows PROVE VerdictIsLast(x)'
    <3> SUFFICES ASSUME NEW i \in DOMAIN queue', queue'[i].name = x,
                        queue'[i].value \in Verdicts
                 PROVE  ~Live(x) /\ \A j \in DOMAIN queue' : j > i => queue'[j].name # x
      BY <2>4 DEF VerdictIsLast
    <3>1. ~Live(x) /\ \A k \in DOMAIN queue : k > i + 1 => queue[k].name # x
      BY <2>3 DEF PatientInv, PatientRow, VerdictIsLast
    <3> QED
      BY <2>3, <3>1
  <2>6. ASSUME NEW x \in PatientRows, x # y PROVE row'[x] = row[x] /\ (Busy(x)' <=> Busy(x))
    <3>1. Pending(x)' <=> Pending(x)
      BY <2>2, <2>3, <2>6 DEF Pending
    <3> QED
      BY <2>2, <2>4, <2>6, <3>1 DEF Busy, SetValue, BoardInv, TypeOK
  <2>7. ASSUME y \in PatientRows
        PROVE  Busy(y) /\ row[y] = "Progress" /\ v \in Verdicts \cup {"Progress"}
    <3>1. Busy(y)
      BY <2>2, <2>3 DEF Busy, Pending
    <3>2. v \in Verdicts \cup {"Progress"}
      BY <1>1, <2>2, <2>3, <2>7 DEF JustifiedInv, Justified
    <3> QED
      BY <2>7, <3>1, <3>2 DEF PatientInv, PatientRow
  <2>8. ASSUME y \in PatientRows PROVE row'[y] = v
    BY <1>1, <2>2, <2>7, <2>8, VerdictTypes DEF SetValue, BoardInv, TypeOK
  <2>9. ASSUME y \in PatientRows, v \in Verdicts PROVE ~Busy(y)'
    <3>1. ~Live(y) /\ \A j \in DOMAIN queue : j > 1 => queue[j].name # y
      BY <2>2, <2>3, <2>9 DEF PatientInv, PatientRow, VerdictIsLast
    <3>2. ~Pending(y)'
      BY <2>3, <3>1 DEF Pending
    <3> QED
      BY <2>4, <2>9, <3>1, <3>2 DEF Busy
  <2>10. ASSUME y \in PatientRows, v = "Progress" PROVE Busy(y)' /\ row'[y] = "Progress"
    <3>1. row'[y] = "Progress"
      BY <2>8, <2>10
    <3>2. Answered(y, 0)'
      BY <1>1, <2>10, <3>1 DEF JustifiedInv, Justified
    <3> QED
      BY <3>1, <3>2 DEF Answered, Busy, Pending
  <2>11. PatientInv'
    <3> SUFFICES ASSUME NEW x \in PatientRows PROVE (Busy(x) => row[x] = "Progress")'
      BY <2>1, <2>5 DEF PatientInv, PatientRow, OneThread
    <3>1. CASE x # y
      BY <2>6, <3>1 DEF PatientInv, PatientRow
    <3>2. CASE x = y
      BY <2>7, <2>9, <2>10, <3>2
    <3> QED
      BY <3>1, <3>2
  <2>12. CASE y \in PatientRows /\ v \in Verdicts
    <3>1. Patient!Answer(y)
      BY <2>6, <2>7, <2>8, <2>9, <2>12, RowAnswer
    <3> QED
      BY <2>11, <2>12, <3>1 DEF RowStep, Patient!RowNext
  <2>13. CASE ~(y \in PatientRows /\ v \in Verdicts)
    <3>1. \A x \in PatientRows : row'[x] = row[x] /\ (Busy(x)' <=> Busy(x))
      BY <2>6, <2>7, <2>10, <2>13
    <3> QED
      BY <2>11, <3>1, RowStutter DEF RowStep
  <2> QED
    BY <2>12, <2>13
<1>6. CASE UNCHANGED vars
  <2>1. UNCHANGED Patient!rowVars
    BY <1>6, RowStutter DEF vars, Busy, Live, Pending
  <2> QED
    BY <1>6, <2>1
    DEF RowStep, vars, PatientInv, PatientRow, OneThread, VerdictIsLast, Busy, Live, Pending
<1> QED
  BY <1>2, <1>3, <1>4, <1>5, <1>6 DEF Next

\* To a user who waits for the answer before pressing a row again, the row is
\* what RowLife says: Progress from the press until the one verdict, which
\* replaces it (the safety part of RowsKeepPromise).
THEOREM RowsKept == Spec => Patient!RowSpec
<1>1. Init => PatientInv /\ Patient!RowInit
  <2> SUFFICES ASSUME Init PROVE PatientInv /\ Patient!RowInit
    OBVIOUS
  <2>1. \A x \in PatientRows : x \in Tests /\ x # NoTest
    BY BoardAssumption
  <2>2. \A x \in PatientRows : ~Live(x) /\ ~Pending(x)
    BY <2>1 DEF Init, Live, Pending
  <2>3. [x \in PatientRows |-> row[x]] = [x \in PatientRows |-> Unchecked]
    BY <2>1 DEF Init
  <2>4. \A x \in PatientRows : Busy(x) = FALSE
    BY <2>2, Zenon DEF Busy
  <2>5. [x \in PatientRows |-> Busy(x)] = [x \in PatientRows |-> FALSE]
    BY <2>4, Zenon
  <2>6. PatientInv
    BY <2>1, <2>2 DEF Init, PatientInv, PatientRow, OneThread, VerdictIsLast, Busy, Live, Pending
  <2> QED
    BY <2>3, <2>5, <2>6 DEF Patient!RowInit, Patient!Unchecked, Unchecked
<1>2. Init => JustifiedInv
  BY DEF Init, JustifiedInv, Justified, Judged, Unchecked
<1> QED
  BY <1>1, <1>2, PatientStep, JustifiedStep, BoardInvariance, PTL DEF Spec, RowStep, Patient!RowSpec
-----------------------------------------------------------------------------
(***************************************************************************)
(* The full run.  Its type invariant needs that threads and their tests    *)
(* stay matched, as they do in ResultBoard.                                *)
(***************************************************************************)
QueueTypeOK == queue \in Seq(Event \cup Summary)

FullTypes ==
  /\ FullTypeOK /\ JobsMatchThreads /\ QueueTypeOK
  /\ job \in [Threads -> Tests \cup {NoTest}]
  /\ last \in [Judged -> Verdicts \cup {Unchecked}]
  /\ fresh \subseteq Judged

LEMMA OrderType == Len(Order) \in Nat \ {0} /\ \A i \in 1..Len(Order) : Order[i] \in Tests
  BY FullRunAssumption, EmptySeq, LenProperties, ElementOfSeq

LEMMA TallyType ==
  ASSUME NEW c \in Counts, NEW map \in [Fields -> Result]
  PROVE  Tally(c, map) \in Counts
<1>1. IsFiniteSet(Fields)
  BY FullRunAssumption, FS_AddElement DEF Fields
<1>2. ASSUME NEW v PROVE Having(map, v) \in Nat
  BY <1>1, FS_Subset, FS_CardinalityType DEF Having
<1> QED
  BY <1>2 DEF Tally, Counts

\* What every step does to the queue, as far as types go.
LEMMA QueueTyped ==
  ASSUME queue' \in Seq(Event \cup Summary)
  PROVE  QueueTypeOK' /\ \A i \in DOMAIN queue' : queue'[i] \in Event \cup Summary
  BY LenProperties, ElementOfSeq DEF QueueTypeOK

\* Events name rows, summaries do not.
LEMMA HeadTypes ==
  ASSUME QueueTypeOK, queue # <<>>
  PROVE  /\ Tail(queue) \in Seq(Event \cup Summary)
         /\ Head(queue) = queue[1] /\ 1 \in DOMAIN queue
         /\ Head(queue).name = Finished => Head(queue) \in Summary
         /\ Head(queue).name \in Tests => Head(queue) \in Event
<1>1. /\ Tail(queue) \in Seq(Event \cup Summary)
      /\ Head(queue) = queue[1] /\ 1 \in DOMAIN queue /\ queue[1] \in Event \cup Summary
  BY Removing DEF QueueTypeOK
<1> QED
  BY <1>1, FullRunAssumption DEF Event, Summary

LEMMA FullTypesStep == FullTypes /\ [FullNext]_fullVars => FullTypes'
<1> SUFFICES ASSUME FullTypes, [FullNext]_fullVars PROVE FullTypes'
  OBVIOUS
<1> USE DEF FullTypes
<1>1. ASSUME NEW t \in Threads, Announce(t),
             UNCHANGED <<taskVars, sumVars, copyVars, success, fresh>>
      PROVE  FullTypes'
  <2>1. job[t] \in Tests
    BY <1>1 DEF Announce, SayProgress, JobsMatchThreads
  <2>2. [name |-> job[t], value |-> "Progress"] \in Event \cup Summary
    BY <2>1, VerdictTypes DEF Event
  <2>3. queue' \in Seq(Event \cup Summary)
    BY <1>1, <2>2, Appending DEF Announce, SingleTestResult, QueueTypeOK
  <2> QED
    BY <1>1, <2>3, QueueTyped
    DEF Announce, SayProgress, FullTypeOK, ThreadTypeOK, JobsMatchThreads, Stages, Result,
        taskVars, sumVars, copyVars
<1>2. ASSUME NEW t \in Threads, NEW x \in Tests, Click(t, x),
             UNCHANGED <<taskVars, sumVars, copyVars, success, fresh>>
      PROVE  FullTypes'
  BY <1>2, BoardAssumption, VerdictTypes
  DEF Click, Start, SetValue, FullTypeOK, ThreadTypeOK, JobsMatchThreads, Stages, Result,
      QueueTypeOK, taskVars, sumVars, copyVars
<1>3. CASE Deliver /\ UNCHANGED <<taskVars, sumVars, copyVars, success, fresh>>
  <2>1. Tail(queue) \in Seq(Event \cup Summary)
    BY <1>3, HeadTypes DEF Deliver
  <2> QED
    BY <1>3, <2>1, QueueTyped
    DEF Deliver, SetValue, FullTypeOK, ThreadTypeOK, JobsMatchThreads, taskVars, sumVars, copyVars
<1>4. ASSUME NEW t \in Threads, ConcludeInRun(t) PROVE FullTypes'
  <2>1. job[t] \in Tests
    BY <1>4 DEF ConcludeInRun, Conclude, SayVerdict, JobsMatchThreads
  <2>2. said'[t] \in Verdicts /\ said'[t] \in Result /\ said' \in [Threads -> Result]
    BY <1>4, VerdictTypes
    DEF ConcludeInRun, Conclude, SayVerdict, FullTypeOK, ThreadTypeOK, Verdicts
  <2>3. queue' \in Seq(Event \cup Summary)
    BY <1>4, <2>1, <2>2, CarriedType, Appending
    DEF ConcludeInRun, Conclude, SingleTestResult, QueueTypeOK
  <2>4. last' \in [Judged -> Verdicts \cup {Unchecked}]
    BY <1>4, <2>1, <2>2 DEF ConcludeInRun, Conclude
  <2>5. stage' \in [Threads -> Stages] /\ job' \in [Threads -> Tests \cup {NoTest}]
    BY <1>4, <2>2
    DEF ConcludeInRun, Conclude, SayVerdict, FullTypeOK, ThreadTypeOK, Stages
  <2>6. JobsMatchThreads'
    BY <1>4 DEF ConcludeInRun, Conclude, SayVerdict, FullTypeOK, ThreadTypeOK, JobsMatchThreads
  <2>7. fresh' \subseteq Judged
    BY <1>4, <2>1 DEF ConcludeInRun, Judged
  <2>8. ret' \in [Pool -> Result] /\ frame' \in [Threads -> Pool \cup {NoTest}]
    BY <1>4, <2>2 DEF ConcludeInRun, FullTypeOK
  <2> QED
    BY <1>4, <2>2, <2>3, <2>4, <2>5, <2>6, <2>7, <2>8, QueueTyped
    DEF ConcludeInRun, Conclude, FullTypeOK, ThreadTypeOK, sumVars, copyVars
<1>5. ASSUME NEW r \in Pool, RunTest(r) PROVE FullTypes'
  BY <1>5 DEF RunTest, vars, FullTypeOK, ThreadTypeOK, JobsMatchThreads, QueueTypeOK, sumVars,
              copyVars
<1>6. ASSUME NEW r \in Pool, NEW t \in Threads, Call(r, t) PROVE FullTypes'
  <2>1. Order[next[r]] \in Tests
    BY OrderType DEF FullTypeOK
  <2> QED
    BY <1>6, <2>1, BoardAssumption, VerdictTypes
    DEF Call, Start, FullTypeOK, ThreadTypeOK, JobsMatchThreads, Stages, Result,
        QueueTypeOK, sumVars, copyVars
<1>7. ASSUME NEW r \in Pool, Return(r) PROVE FullTypes'
  <2>1. Order[next[r]] \in Fields
    BY OrderType DEF FullTypeOK, Fields
  <2>2. results' \in [Fields -> Result] /\ ret' \in [Pool -> Result]
    BY <1>7, <2>1, VerdictTypes DEF Return, FullTypeOK
  <2>3. next' \in [Pool -> 1..Len(Order)]
    <3>1. 1 \in 1..Len(Order) /\ (~Done(r) => next[r] + 1 \in 1..Len(Order))
      BY OrderType DEF Done, FullTypeOK
    <3> QED
      BY <1>7, <3>1 DEF Return, FullTypeOK
  <2>4. at' \in [Pool -> {"idle", "call", "return", "clear", "count", "emit"}]
    BY <1>7 DEF Return, FullTypeOK
  <2>5. frame' \in [Threads -> Pool \cup {NoTest}]
    BY <1>7 DEF Return, FullTypeOK
  <2> QED
    BY <1>7, <2>2, <2>3, <2>4, <2>5
    DEF Return, vars, FullTypeOK, ThreadTypeOK, JobsMatchThreads, QueueTypeOK, copyVars
<1>8. ASSUME NEW r \in Pool, Clear(r) PROVE FullTypes'
  <2>1. \A q \in Pool : alone[q] \in BOOLEAN
    BY DEF FullTypeOK
  <2>2. alone' \in [Pool -> BOOLEAN]
    BY <1>8, <2>1, Zenon DEF Clear
  <2>3. counts' \in Counts
    BY <1>8 DEF Clear, Base, Nought, Counts
  <2>4. at' \in [Pool -> {"idle", "call", "return", "clear", "count", "emit"}]
    BY <1>8 DEF Clear, FullTypeOK
  <2> QED
    BY <1>8, <2>2, <2>3, <2>4
    DEF Clear, vars, FullTypeOK, ThreadTypeOK, JobsMatchThreads, QueueTypeOK
<1>9. ASSUME NEW r \in Pool, Count(r) PROVE FullTypes'
  <2>1. counts' \in Counts
    BY <1>9, TallyType DEF Count, FullTypeOK
  <2> QED
    BY <1>9, <2>1
    DEF Count, vars, FullTypeOK, ThreadTypeOK, JobsMatchThreads, QueueTypeOK
<1>10. ASSUME NEW r \in Pool, EmitFinished(r) PROVE FullTypes'
  <2>1. [name |-> Finished, map |-> copy[r], counts |-> counts] \in Event \cup Summary
    BY DEF Summary, FullTypeOK
  <2>2. queue' \in Seq(Event \cup Summary)
    BY <1>10, <2>1, Appending DEF EmitFinished, QueueTypeOK
  <2>3. Untested \in [Fields -> Result]
    BY DEF Untested, Result
  <2>4. copy' \in [Pool -> [Fields -> Result]] /\ alone' \in [Pool -> BOOLEAN]
    BY <1>10, <2>3 DEF EmitFinished, FullTypeOK
  <2> QED
    BY <1>10, <2>2, <2>4, QueueTyped
    DEF EmitFinished, FullTypeOK, ThreadTypeOK, JobsMatchThreads, sumVars
<1>11. CASE DeliverFinished
  <2>1. Tail(queue) \in Seq(Event \cup Summary) /\ Head(queue) \in Summary
    BY <1>11, HeadTypes DEF DeliverFinished
  <2>2. row' \in [Tests -> Result \cup {Unchecked}]
    BY <1>11, <2>1 DEF DeliverFinished, Fill, Summary, Fields
  <2>3. Head(queue).counts \in Counts
    BY <2>1 DEF Summary
  <2>4. success' \in BOOLEAN
    BY <1>11, <2>3, Zenon DEF DeliverFinished, Fill, OverallSuccess
  <2> QED
    BY <1>11, <2>1, <2>2, <2>4, QueueTyped
    DEF DeliverFinished, FullTypeOK, ThreadTypeOK, JobsMatchThreads, taskVars, sumVars, copyVars
<1>12. CASE PrintResults
  <2>1. counts' \in Counts
    <3>1. Base(counts) \in Counts
      BY DEF Base, Nought, Counts
    <3> QED
      BY <1>12, <3>1, TallyType DEF PrintResults, FullTypeOK
  <2>2. row' \in [Tests -> Result \cup {Unchecked}]
    BY <1>12 DEF PrintResults, Fill, Fields, FullTypeOK
  <2>3. success' \in BOOLEAN
    BY <1>12, Zenon DEF PrintResults, Fill, OverallSuccess
  <2>4. \A q \in Pool : alone[q] \in BOOLEAN
    BY DEF FullTypeOK
  <2>5. alone' \in [Pool -> BOOLEAN]
    BY <1>12, <2>4, Zenon DEF PrintResults
  <2> QED
    BY <1>12, <2>1, <2>2, <2>3, <2>5
    DEF PrintResults, FullTypeOK, ThreadTypeOK, JobsMatchThreads, QueueTypeOK, taskVars
<1>13. ASSUME NEW info \in Tests \cup {Touched}, ReceiveAction(info)
       PROVE  FullTypes'
  <2>1. results' \in [Fields -> Result]
    BY <1>13 DEF ReceiveAction, FullTypeOK, Fields, Result
  <2>2. row' \in [Tests -> Result \cup {Unchecked}]
    BY <1>13 DEF ReceiveAction, SetValue, FullTypeOK, Result
  <2>3. fresh' \subseteq fresh
    BY <1>13 DEF ReceiveAction
  <2> QED
    BY <1>13, <2>1, <2>2, <2>3
    DEF ReceiveAction, FullTypeOK, ThreadTypeOK, JobsMatchThreads, QueueTypeOK, taskVars,
        copyVars
<1>14. CASE UNCHANGED fullVars
  BY <1>14
  DEF fullVars, vars, taskVars, sumVars, copyVars, FullTypeOK, ThreadTypeOK, JobsMatchThreads,
      QueueTypeOK
<1> QED
  BY <1>1, <1>2, <1>3, <1>4, <1>5, <1>6, <1>7, <1>8, <1>9, <1>10, <1>11, <1>12, <1>13, <1>14
  DEF FullNext, BoardStep

THEOREM FullTypesInvariance == FullSpec => []FullTypes
<1>1. FullInit => FullTypes
  <2> SUFFICES ASSUME FullInit PROVE FullTypes
    OBVIOUS
  <2>1. queue = <<>> /\ queue \in Seq(Event \cup Summary) /\ DOMAIN queue = {}
    BY EmptySeq DEF FullInit, Init
  <2>2. Untested \in [Fields -> Result] /\ Nought \in Counts
    BY DEF Untested, Result, Nought, Counts
  <2>3. stage \in [Threads -> Stages] /\ said \in [Threads -> Result] /\ JobsMatchThreads
    BY BoardAssumption
    DEF FullInit, Init, ThreadInit, Stages, Result, JobsMatchThreads
  <2>4. next \in [Pool -> 1..Len(Order)] /\ ret \in [Pool -> Result]
    BY OrderType, VerdictTypes DEF FullInit
  <2>5. row \in [Tests -> Result \cup {Unchecked}] /\ fresh \subseteq Judged
    BY DEF FullInit, Init
  <2>6. /\ job \in [Threads -> Tests \cup {NoTest}]
        /\ last \in [Judged -> Verdicts \cup {Unchecked}]
    BY DEF FullInit, Init
  <2>7. /\ at \in [Pool -> {"idle", "call", "return", "clear", "count", "emit"}]
        /\ frame \in [Threads -> Pool \cup {NoTest}]
        /\ alone \in [Pool -> BOOLEAN] /\ success \in BOOLEAN
    BY DEF FullInit
  <2>8. /\ results \in [Fields -> Result] /\ counts \in Counts
        /\ copy \in [Pool -> [Fields -> Result]]
    BY <2>2 DEF FullInit
  <2> QED
    BY <2>1, <2>3, <2>4, <2>5, <2>6, <2>7, <2>8
    DEF FullTypes, FullTypeOK, ThreadTypeOK, QueueTypeOK
<1> QED
  BY <1>1, FullTypesStep, PTL DEF FullSpec

\* The type invariant of the full run (FullTypeOK, which no run checks).
THEOREM FullTypeCorrect == FullSpec => []FullTypeOK
  BY FullTypesInvariance, PTL DEF FullTypes
-----------------------------------------------------------------------------
(***************************************************************************)
(* SummaryCountsItsFields.  A pool thread that nobody has disturbed is the *)
(* only one between clearing and reading the counters, and the counters    *)
(* are as it left them at each of its steps.                               *)
(***************************************************************************)
CountInv ==
  \A r \in Counting :
    alone[r] =>
      /\ Counting = {r}
      /\ counts = IF at[r] = "count" THEN Nought ELSE Tally(Nought, copy[r])

LEMMA CountStep == FullTypes /\ CountInv /\ [FullNext]_fullVars => CountInv'
<1> SUFFICES ASSUME FullTypes, CountInv, [FullNext]_fullVars PROVE CountInv'
  OBVIOUS
<1>1. at \in [Pool -> {"idle", "call", "return", "clear", "count", "emit"}]
  BY DEF FullTypes, FullTypeOK
<1>2. ASSUME UNCHANGED <<at, counts, copyVars>> PROVE CountInv'
  BY <1>2 DEF CountInv, Counting, copyVars
<1>3. ASSUME NEW r \in Pool, RunTest(r) PROVE CountInv'
  <2>1. Counting' = Counting /\ \A q \in Counting : at'[q] = at[q]
    BY <1>1, <1>3 DEF RunTest, Counting
  <2> QED
    BY <1>3, <2>1 DEF RunTest, CountInv, sumVars, copyVars
<1>4. ASSUME NEW r \in Pool, NEW t \in Threads, Call(r, t) PROVE CountInv'
  <2>1. Counting' = Counting /\ \A q \in Counting : at'[q] = at[q]
    BY <1>1, <1>4 DEF Call, Counting
  <2> QED
    BY <1>4, <2>1 DEF Call, CountInv, sumVars, copyVars
<1>5. ASSUME NEW r \in Pool, Return(r) PROVE CountInv'
  <2>1. Counting' = Counting /\ \A q \in Counting : at'[q] = at[q]
    BY <1>1, <1>5 DEF Return, Counting
  <2> QED
    BY <1>5, <2>1 DEF Return, CountInv, copyVars
<1>6. ASSUME NEW r \in Pool, Clear(r) PROVE CountInv'
  <2>1. Counting' = Counting \cup {r} /\ r \notin Counting /\ at'[r] = "count"
    BY <1>1, <1>6 DEF Clear, Counting
  <2>2. ASSUME NEW q \in Counting' PROVE alone'[q] => q = r /\ Counting = {}
    <3>1. q \in Pool
      BY DEF Counting
    <3>2. CASE q = r
      BY <1>6, <3>1, <3>2, Zenon DEF Clear
    <3>3. CASE q # r
      BY <1>6, <2>1, <3>1, <3>3, Zenon DEF Clear
    <3> QED
      BY <3>2, <3>3
  <2>3. counts' = Nought
    BY <1>6 DEF Clear, Base
  <2> QED
    BY <2>1, <2>2, <2>3 DEF CountInv
<1>7. ASSUME NEW r \in Pool, Count(r) PROVE CountInv'
  <2>1. Counting' = Counting /\ r \in Counting /\ at[r] = "count" /\ at'[r] = "emit"
    BY <1>1, <1>7 DEF Count, Counting
  <2>2. copy'[r] = results /\ alone' = alone /\ counts' = Tally(counts, results)
    BY <1>7 DEF Count, FullTypes, FullTypeOK
  <2>3. \A q \in Counting : alone[q] => q = r /\ Counting = {r} /\ counts = Nought
    BY <2>1 DEF CountInv
  <2> QED
    BY <2>1, <2>2, <2>3 DEF CountInv
<1>8. ASSUME NEW r \in Pool, EmitFinished(r) PROVE CountInv'
  <2>1. Counting' = Counting \ {r} /\ r \in Counting
    BY <1>1, <1>8 DEF EmitFinished, Counting
  <2>2. \A q \in Counting' : alone'[q] <=> alone[q]
    BY <1>8, <2>1, Zenon DEF EmitFinished, Counting, FullTypes, FullTypeOK
  <2>3. \A q \in Counting' : ~alone[q]
    BY <2>1 DEF CountInv
  <2> QED
    BY <2>2, <2>3 DEF CountInv
<1>9. CASE PrintResults
  <2>1. Counting' = Counting
    BY <1>9 DEF PrintResults, taskVars, Counting
  <2>2. \A q \in Counting : ~alone'[q]
    BY <1>9, Zenon DEF PrintResults, Counting
  <2> QED
    BY <2>1, <2>2 DEF CountInv
<1> QED
  BY <1>2, <1>3, <1>4, <1>5, <1>6, <1>7, <1>8, <1>9
  DEF FullNext, BoardStep, ConcludeInRun, DeliverFinished, ReceiveAction, fullVars, taskVars,
      sumVars, copyVars

\* The counters of a summary are those of its own fields, unless another
\* summary was being made at the same time.
THEOREM SummaryCounts == FullSpec => []SummaryCountsItsFields
<1>1. FullInit => CountInv
  BY DEF FullInit, CountInv, Counting
<1>2. CountInv => SummaryCountsItsFields
  BY DEF CountInv, Counting, SummaryCountsItsFields
<1> QED
  BY <1>1, <1>2, CountStep, FullTypesInvariance, PTL DEF FullSpec
-----------------------------------------------------------------------------
(***************************************************************************)
(* SummaryHoldsNoVerdict.  A verdict reaches the value of a call only      *)
(* through a frame that a thread of testEmmc still writes to, so only that *)
(* call can return one; every other result is Progress or untouched, in    *)
(* `results`, in a copy of them, and in a queued summary.                  *)
(***************************************************************************)
AtEmmc(r) == at[r] = "return" /\ Order[next[r]] = Emmc

FrameInv ==
  /\ \A t \in Threads : frame[t] # NoTest => AtEmmc(frame[t])
  /\ \A r \in Pool : ret[r] # "Progress" => AtEmmc(r)

NoVerdictIn(map) == \A x \in Judged : map[x] \in {"NotTested", "Progress"}

NoVerdictInv ==
  /\ FrameInv
  /\ NoVerdictIn(results) /\ \A r \in Pool : NoVerdictIn(copy[r])
  /\ \A i \in DOMAIN queue : queue[i].name = Finished => NoVerdictIn(queue[i].map)

LEMMA FrameStep == FullTypes /\ FrameInv /\ [FullNext]_fullVars => FrameInv'
<1> SUFFICES ASSUME FullTypes, FrameInv, [FullNext]_fullVars PROVE FrameInv'
  OBVIOUS
<1>1. /\ at \in [Pool -> {"idle", "call", "return", "clear", "count", "emit"}]
      /\ ret \in [Pool -> Result] /\ frame \in [Threads -> Pool \cup {NoTest}]
      /\ next \in [Pool -> 1..Len(Order)] /\ NoTest \notin Pool
  BY FullRunAssumption DEF FullTypes, FullTypeOK
<1>2. ASSUME UNCHANGED taskVars PROVE FrameInv'
  BY <1>2 DEF FrameInv, AtEmmc, taskVars
<1>3. ASSUME NEW r \in Pool, RunTest(r) \/ Clear(r) \/ Count(r) \/ EmitFinished(r) PROVE FrameInv'
  <2>1. \A q \in Pool : AtEmmc(q) => AtEmmc(q)'
    BY <1>1, <1>3 DEF RunTest, Clear, Count, EmitFinished, AtEmmc
  <2> QED
    BY <1>1, <1>3, <2>1 DEF FrameInv, RunTest, Clear, Count, EmitFinished
<1>4. ASSUME NEW r \in Pool, NEW t \in Threads, Call(r, t) PROVE FrameInv'
  <2>1. \A q \in Pool : AtEmmc(q) => AtEmmc(q)'
    BY <1>1, <1>4 DEF Call, AtEmmc
  <2>2. frame'[t] # NoTest => frame'[t] = r /\ AtEmmc(r)'
    BY <1>1, <1>4 DEF Call, Captures, AtEmmc
  <2>3. \A u \in Threads : u # t => frame'[u] = frame[u]
    BY <1>1, <1>4 DEF Call
  <2>4. ret' = ret
    BY <1>4 DEF Call
  <2> QED
    BY <1>1, <2>1, <2>2, <2>3, <2>4 DEF FrameInv
<1>5. ASSUME NEW r \in Pool, Return(r) PROVE FrameInv'
  <2>1. \A q \in Pool : q # r /\ AtEmmc(q) => AtEmmc(q)'
    BY <1>1, <1>5 DEF Return, AtEmmc
  <2>2. \A u \in Threads : frame'[u] # NoTest => frame'[u] = frame[u] /\ frame[u] # r
    BY <1>1, <1>5 DEF Return
  <2>3. \A q \in Pool : ret'[q] # "Progress" => q # r /\ ret'[q] = ret[q]
    BY <1>1, <1>5 DEF Return
  <2> QED
    BY <1>1, <2>1, <2>2, <2>3 DEF FrameInv
<1>6. ASSUME NEW t \in Threads, ConcludeInRun(t) PROVE FrameInv'
  <2>1. \A q \in Pool : AtEmmc(q)' <=> AtEmmc(q)
    BY <1>6 DEF ConcludeInRun, AtEmmc
  <2>2. \A u \in Threads : frame'[u] # NoTest => frame'[u] = frame[u]
    BY <1>1, <1>6 DEF ConcludeInRun
  <2>3. \A q \in Pool : ret'[q] = ret[q] \/ frame[t] = q
    BY <1>6 DEF ConcludeInRun
  <2> QED
    BY <1>1, <2>1, <2>2, <2>3 DEF FrameInv
<1> QED
  BY <1>2, <1>3, <1>4, <1>5, <1>6
  DEF FullNext, BoardStep, DeliverFinished, PrintResults, ReceiveAction, fullVars

LEMMA NoVerdictStep == FullTypes /\ NoVerdictInv /\ [FullNext]_fullVars => NoVerdictInv'
<1> SUFFICES ASSUME FullTypes, NoVerdictInv, [FullNext]_fullVars PROVE NoVerdictInv'
  OBVIOUS
<1>1. FrameInv'
  BY FrameStep DEF NoVerdictInv
<1>2. ASSUME results' = results, copy' = copy, queue' = queue PROVE NoVerdictInv'
  BY <1>1, <1>2 DEF NoVerdictInv, NoVerdictIn
<1>3. ASSUME NEW e \in Event, results' = results, copy' = copy, queue' = Append(queue, e)
      PROVE  NoVerdictInv'
  <2>1. e.name # Finished /\ e \in Event \cup Summary
    BY FullRunAssumption DEF Event
  <2>2. \A i \in DOMAIN queue' :
          queue'[i].name = Finished => i \in DOMAIN queue /\ queue'[i] = queue[i]
    BY <1>3, <2>1, Appending DEF FullTypes, QueueTypeOK
  <2> QED
    BY <1>1, <1>3, <2>2 DEF NoVerdictInv, NoVerdictIn
<1>4. ASSUME results' = results, copy' = copy, queue # <<>>, queue' = Tail(queue)
      PROVE  NoVerdictInv'
  <2>1. \A i \in DOMAIN queue' : i + 1 \in DOMAIN queue /\ queue'[i] = queue[i + 1]
    BY <1>4, Removing DEF FullTypes, QueueTypeOK
  <2> QED
    BY <1>1, <1>4, <2>1 DEF NoVerdictInv, NoVerdictIn
<1>5. ASSUME NEW t \in Threads, Announce(t),
             UNCHANGED <<taskVars, sumVars, copyVars, success, fresh>>
      PROVE  NoVerdictInv'
  <2>1. [name |-> job[t], value |-> "Progress"] \in Event
    BY <1>5, VerdictTypes DEF Announce, SayProgress, FullTypes, JobsMatchThreads, Event
  <2> QED
    BY <1>3, <1>5, <2>1 DEF Announce, SingleTestResult, sumVars, copyVars
<1>6. ASSUME NEW t \in Threads, ConcludeInRun(t) PROVE NoVerdictInv'
  <2>1. job[t] \in Tests
    BY <1>6 DEF ConcludeInRun, Conclude, SayVerdict, FullTypes, JobsMatchThreads
  <2>2. said'[t] \in Result
    BY <1>6, VerdictTypes
    DEF ConcludeInRun, Conclude, SayVerdict, FullTypes, FullTypeOK, ThreadTypeOK, Verdicts
  <2>3. PICK v \in Carried(job[t], said'[t]) :
          queue' = Append(queue, [name |-> job[t], value |-> v])
    BY <1>6 DEF ConcludeInRun, Conclude, SingleTestResult
  <2> QED
    BY <1>3, <1>6, <2>1, <2>2, <2>3, CarriedType DEF ConcludeInRun, sumVars, copyVars
<1>7. ASSUME NEW r \in Pool, Return(r) PROVE NoVerdictInv'
  <2>1. \A x \in Judged : results'[x] = results[x] \/ results'[x] = "Progress"
    <3> TAKE x \in Judged
    <3>1. /\ x \in Fields /\ results \in [Fields -> Result]
          /\ results' = [results EXCEPT ![Order[next[r]]] = ret[r]]
      BY <1>7 DEF Return, FullTypes, FullTypeOK, Judged, Fields
    <3>2. x = Order[next[r]] => ret[r] = "Progress"
      BY DEF NoVerdictInv, FrameInv, AtEmmc, Judged
    <3> QED
      BY <3>1, <3>2
  <2> QED
    BY <1>1, <1>7, <2>1 DEF NoVerdictInv, NoVerdictIn, Return, vars, copyVars
<1>8. ASSUME NEW r \in Pool, Count(r) PROVE NoVerdictInv'
  <2>1. \A q \in Pool : copy'[q] = copy[q] \/ copy'[q] = results
    BY <1>8 DEF Count, FullTypes, FullTypeOK
  <2> QED
    BY <1>1, <1>8, <2>1 DEF NoVerdictInv, NoVerdictIn, Count, vars
<1>9. ASSUME NEW r \in Pool, EmitFinished(r) PROVE NoVerdictInv'
  <2> DEFINE e == [name |-> Finished, map |-> copy[r], counts |-> counts]
  <2>1. e \in Event \cup Summary /\ e.map = copy[r]
    BY DEF Summary, FullTypes, FullTypeOK
  <2>2. queue' = Append(queue, e)
    BY <1>9 DEF EmitFinished
  <2> HIDE DEF e
  <2>3. \A i \in DOMAIN queue' :
         (i \in DOMAIN queue /\ queue'[i] = queue[i]) \/ queue'[i] = e
    BY <2>1, <2>2, Appending DEF FullTypes, QueueTypeOK
  <2>4. NoVerdictIn(Untested)
    BY DEF NoVerdictIn, Untested, Judged, Fields
  <2>5. \A q \in Pool : copy'[q] = copy[q] \/ copy'[q] = Untested
    BY <1>9 DEF EmitFinished, FullTypes, FullTypeOK
  <2>6. \A i \in DOMAIN queue' : queue'[i].name = Finished => NoVerdictIn(queue'[i].map)
    BY <2>1, <2>3 DEF NoVerdictInv
  <2>7. \A q \in Pool : NoVerdictIn(copy'[q])
    BY <2>4, <2>5 DEF NoVerdictInv
  <2>8. NoVerdictIn(results')
    BY <1>9 DEF EmitFinished, sumVars, NoVerdictInv
  <2> QED
    BY <1>1, <2>6, <2>7, <2>8 DEF NoVerdictInv, NoVerdictIn
<1>10. ASSUME NEW info \in Tests \cup {Touched}, ReceiveAction(info)
       PROVE  NoVerdictInv'
  <2>1. \A x \in Judged : results'[x] = results[x]
    BY <1>10, FullRunAssumption DEF ReceiveAction, FullTypes, FullTypeOK, Judged
  <2> QED
    BY <1>1, <1>10, <2>1 DEF NoVerdictInv, NoVerdictIn, ReceiveAction, copyVars
<1> QED
  BY <1>2, <1>4, <1>5, <1>6, <1>7, <1>8, <1>9, <1>10
  DEF FullNext, BoardStep, Click, Deliver, RunTest, Call, Clear, DeliverFinished, PrintResults,
      fullVars, vars, sumVars, copyVars

\* However the calls of test() and the threads they started interleave, no
\* summary, queued or being made, holds a verdict of a test but testEmmc.
THEOREM NoVerdictInSummary == FullSpec => []SummaryHoldsNoVerdict
<1>1. FullInit => NoVerdictInv
  BY DEF FullInit, Init, NoVerdictInv, FrameInv, NoVerdictIn, Untested, Judged, Fields
<1>2. NoVerdictInv => SummaryHoldsNoVerdict
  BY DEF NoVerdictInv, NoVerdictIn, Summaries, SummaryHoldsNoVerdict
<1> QED
  BY <1>1, <1>2, NoVerdictStep, FullTypesInvariance, PTL DEF FullSpec
-----------------------------------------------------------------------------
(***************************************************************************)
(* LateVerdictsSurvive.  It is not inductive: a summary that is still      *)
(* queued will overwrite every row.  But behind every queued summary there *)
(* is an event of each test that concluded after the last one was made,    *)
(* and the last such event carries the verdict, as in Settling.            *)
(***************************************************************************)
Overtaken(x) ==
  \A i \in DOMAIN queue :
    queue[i].name = Finished => \E j \in DOMAIN queue : j > i /\ queue[j].name = x

LateInv == \A x \in fresh : Settling(x) /\ Overtaken(x)

\* What the two things that happen to the queue do to Overtaken.
LEMMA OvertakenAppended ==
  ASSUME NEW S, NEW e \in S, NEW x, queue \in Seq(S), queue' = Append(queue, e)
  PROVE  /\ e.name = x /\ x # Finished => Overtaken(x)'
         /\ e.name # Finished /\ Overtaken(x) => Overtaken(x)'
<1>1. /\ DOMAIN queue' = DOMAIN queue \cup {Len(queue) + 1}
      /\ \A i \in DOMAIN queue : i < Len(queue) + 1 /\ queue'[i] = queue[i]
      /\ queue'[Len(queue) + 1] = e
  BY Appending
<1>2. ASSUME e.name = x, x # Finished PROVE Overtaken(x)'
  BY <1>1, <1>2 DEF Overtaken
<1>3. ASSUME e.name # Finished, Overtaken(x) PROVE Overtaken(x)'
  BY <1>1, <1>3 DEF Overtaken
<1> QED
  BY <1>2, <1>3

LEMMA OvertakenRemoved ==
  ASSUME NEW S, NEW x, queue \in Seq(S), queue # <<>>, queue' = Tail(queue), Overtaken(x)
  PROVE  Overtaken(x)' /\ (queue[1].name = Finished => Pending(x)')
<1>1. ASSUME NEW i \in DOMAIN queue, queue[i].name = Finished, i >= 1
      PROVE  \E j \in DOMAIN queue' : j > i - 1 /\ queue'[j].name = x
  <2>1. PICK j \in DOMAIN queue : j > i /\ queue[j].name = x
    BY <1>1 DEF Overtaken
  <2>2. j \in Int /\ i \in Int /\ j # 1 /\ j - 1 > i - 1
    BY <1>1, <2>1, Removing
  <2>3. j - 1 \in DOMAIN queue' /\ queue'[j - 1] = queue[j]
    BY <2>2, Removing
  <2> QED
    BY <2>1, <2>2, <2>3
<1>2. Overtaken(x)'
  <2> SUFFICES ASSUME NEW i \in DOMAIN queue', queue'[i].name = Finished
               PROVE  \E j \in DOMAIN queue' : j > i /\ queue'[j].name = x
    BY DEF Overtaken
  <2>1. /\ i + 1 \in DOMAIN queue /\ i + 1 > 1 /\ i \in Int
        /\ queue[i + 1].name = Finished
    BY Removing
  <2>2. \E j \in DOMAIN queue' : j > (i + 1) - 1 /\ queue'[j].name = x
    BY <1>1, <2>1
  <2> QED
    BY <2>1, <2>2
<1>3. ASSUME queue[1].name = Finished PROVE Pending(x)'
  <2>1. 1 \in DOMAIN queue
    BY Removing
  <2> QED
    BY <1>1, <1>3, <2>1 DEF Pending
<1> QED
  BY <1>2, <1>3

LEMMA LateStep == FullTypes /\ LateInv /\ [FullNext]_fullVars => LateInv'
<1> SUFFICES ASSUME FullTypes, LateInv, [FullNext]_fullVars PROVE LateInv'
  OBVIOUS
<1> DEFINE Late(x) == Settling(x) /\ Overtaken(x)
           Q == Event \cup Summary
<1>1. /\ job \in [Threads -> Tests \cup {NoTest}] /\ row \in [Tests -> Result \cup {Unchecked}]
      /\ last \in [Judged -> Verdicts \cup {Unchecked}] /\ queue \in Seq(Q)
      /\ fresh \subseteq Judged
  BY DEF FullTypes, FullTypeOK, QueueTypeOK
<1>2. \A x \in Judged : x \in Tests /\ x # Emmc /\ x # NoTest /\ x # Finished
  BY BoardAssumption, FullRunAssumption DEF Judged
<1>3. ASSUME UNCHANGED <<job, queue, row, last, fresh>> PROVE LateInv'
  BY <1>3 DEF LateInv, Settling, LastWord, Live, Pending, Overtaken
<1>4. ASSUME NEW t \in Threads, NEW y \in Tests, job[t] = NoTest, job' = [job EXCEPT ![t] = y],
             \A x \in Tests : x # y => row'[x] = row[x],
             queue' = queue, last' = last, fresh' = fresh
      PROVE  LateInv'
  <2> SUFFICES ASSUME NEW x \in fresh PROVE Late(x)'
    BY <1>4 DEF LateInv
  <2>1. Live(x)' <=> Live(x) \/ x = y
    BY <1>1, <1>2, <1>4 DEF Live
  <2> QED
    BY <1>1, <1>2, <1>4, <2>1 DEF LateInv, Settling, LastWord, Pending, Overtaken
<1>5. ASSUME NEW t \in Threads, Announce(t), fresh' = fresh PROVE LateInv'
  <2> SUFFICES ASSUME NEW x \in fresh PROVE Late(x)'
    BY <1>5 DEF LateInv
  <2>1. job[t] \in Tests
    BY <1>1, <1>5 DEF Announce, SayProgress, FullTypes, JobsMatchThreads
  <2> DEFINE e == [name |-> job[t], value |-> "Progress"]
  <2>2. e \in Q /\ e.name = job[t] /\ e.name # Finished /\ queue' = Append(queue, e)
    BY <1>5, <2>1, VerdictTypes, FullRunAssumption DEF Event, Announce, SingleTestResult
  <2> HIDE DEF e, Q
  <2>3. Live(x)' <=> Live(x)
    BY <1>5 DEF Announce, Live
  <2>4. row' = row /\ last' = last
    BY <1>5 DEF Announce
  <2>5. Overtaken(x)'
    BY <1>1, <2>2, OvertakenAppended DEF LateInv
  <2>6. CASE x = job[t]
    BY <1>5, <2>3, <2>5, <2>6 DEF Announce, Live, Settling
  <2>7. CASE x # job[t]
    <3>1. (Pending(x)' <=> Pending(x)) /\ (LastWord(x) => LastWord(x)')
      BY <1>1, <2>2, <2>4, <2>7, OthersAppended
    <3> QED
      BY <2>3, <2>4, <2>5, <3>1 DEF LateInv, Settling
  <2> QED
    BY <2>6, <2>7
<1>6. ASSUME NEW t \in Threads, ConcludeInRun(t) PROVE LateInv'
  <2>1. job[t] \in Tests /\ said'[t] \in Result
    BY <1>6, VerdictTypes
    DEF ConcludeInRun, Conclude, SayVerdict, FullTypes, FullTypeOK, ThreadTypeOK,
        JobsMatchThreads, Verdicts
  <2>2. PICK v \in Carried(job[t], said'[t]) :
          queue' = Append(queue, [name |-> job[t], value |-> v])
    BY <1>6 DEF ConcludeInRun, Conclude, SingleTestResult
  <2> DEFINE e == [name |-> job[t], value |-> v]
  <2>3. /\ e \in Q /\ e.name = job[t] /\ e.name # Finished /\ queue' = Append(queue, e)
        /\ \A x \in Judged : x = job[t] => e.value = said'[t]
    BY <2>1, <2>2, CarriedType, FullRunAssumption
  <2> HIDE DEF e, Q
  <2>4. SUFFICES ASSUME NEW x \in fresh', x \in Judged PROVE Late(x)'
    BY <1>1, <1>6, <2>1 DEF LateInv, ConcludeInRun, Judged
  <2>5. CASE x = job[t]
    <3>1. last'[x] = said'[t]
      BY <1>1, <1>2, <1>6, <2>4, <2>5 DEF ConcludeInRun, Conclude
    <3>2. Pending(x)' /\ LastWord(x)'
      BY <1>1, <2>3, <2>4, <2>5, <3>1, OwnAppended
    <3>3. Overtaken(x)'
      BY <1>1, <1>2, <2>3, <2>4, <2>5, OvertakenAppended
    <3> QED
      BY <3>2, <3>3 DEF Settling
  <2>6. CASE x # job[t]
    <3>1. Late(x)
      BY <1>6, <2>6 DEF ConcludeInRun, LateInv
    <3>2. last'[x] = last[x] /\ row' = row
      BY <1>1, <1>6, <2>4, <2>6 DEF ConcludeInRun, Conclude
    <3>3. Live(x)' <=> Live(x)
      BY <1>1, <1>2, <1>6, <2>4, <2>6 DEF ConcludeInRun, Conclude, Live
    <3>4. (Pending(x)' <=> Pending(x)) /\ (LastWord(x) => LastWord(x)')
      BY <1>1, <2>3, <2>6, <3>2, OthersAppended
    <3>5. Overtaken(x)'
      BY <1>1, <2>3, <3>1, OvertakenAppended
    <3> QED
      BY <3>1, <3>2, <3>3, <3>4, <3>5 DEF Settling
  <2> QED
    BY <2>5, <2>6
<1>7. ASSUME Deliver, fresh' = fresh PROVE LateInv'
  <2> SUFFICES ASSUME NEW x \in fresh PROVE Late(x)'
    BY <1>7 DEF LateInv
  <2>1. /\ queue # <<>> /\ queue' = Tail(queue) /\ last' = last
        /\ queue[1] \in Event /\ row' = SetValue(queue[1].name, queue[1].value)
    BY <1>7, HeadTypes DEF Deliver, FullTypes
  <2>2. Live(x)' <=> Live(x)
    BY <1>7 DEF Deliver, Live
  <2>3. Overtaken(x)'
    BY <1>1, <2>1, OvertakenRemoved DEF LateInv
  <2> SUFFICES ASSUME ~Live(x), LastWord(x), ~Pending(x) => row[x] = last[x]
               PROVE  LastWord(x)' /\ (~Pending(x)' => row'[x] = last[x])
    BY <2>1, <2>2, <2>3 DEF LateInv, Settling
  <2>4. LastWord(x)'
    BY <1>1, <2>1, HeadRemoved
  <2>5. ASSUME ~Pending(x)' PROVE row'[x] = last[x]
    <3>1. CASE queue[1].name = x
      <4>1. queue[1].value = last[x]
        BY <1>1, <2>1, <2>5, <3>1, HeadRemoved
      <4>2. queue[1].value \in Result
        BY <1>1, <2>1, <4>1, VerdictTypes DEF Event, Unchecked, Garbage
      <4> QED
        BY <1>1, <1>2, <2>1, <3>1, <4>1, <4>2 DEF SetValue
    <3>2. CASE queue[1].name # x
      <4>1. ~Pending(x)
        BY <1>1, <2>1, <2>5, <3>2, HeadRemoved
      <4> QED
        BY <1>1, <2>1, <3>2, <4>1 DEF SetValue
    <3> QED
      BY <3>1, <3>2
  <2> QED
    BY <2>4, <2>5
<1>8. CASE DeliverFinished
  <2> SUFFICES ASSUME NEW x \in fresh PROVE Late(x)'
    BY <1>8 DEF LateInv, DeliverFinished
  <2>1. /\ queue # <<>> /\ queue' = Tail(queue) /\ last' = last /\ job' = job
        /\ queue[1].name = Finished
    BY <1>8, HeadTypes DEF DeliverFinished, FullTypes
  <2>2. Overtaken(x)' /\ Pending(x)'
    BY <1>1, <2>1, OvertakenRemoved DEF LateInv
  <2>3. LastWord(x) => LastWord(x)'
    BY <1>1, <2>1, HeadRemoved
  <2> QED
    BY <2>1, <2>2, <2>3 DEF LateInv, Settling, Live
<1>9. ASSUME fresh' = {} PROVE LateInv'
  BY <1>9 DEF LateInv
<1>10. ASSUME NEW t \in Threads, NEW x \in Tests, Click(t, x), fresh' = fresh PROVE LateInv'
  <2>1. job[t] = NoTest
    BY <1>10 DEF Click, Start, FullTypes, JobsMatchThreads
  <2>2. \A y \in Tests : y # x => row'[y] = row[y]
    BY <1>1, <1>10 DEF Click, SetValue
  <2> QED
    BY <1>4, <1>10, <2>1, <2>2 DEF Click
<1>11. ASSUME NEW r \in Pool, NEW t \in Threads, Call(r, t) PROVE LateInv'
  <2>1. job[t] = NoTest /\ Order[next[r]] \in Tests
    BY <1>11, OrderType DEF Call, Start, FullTypes, JobsMatchThreads, FullTypeOK
  <2> QED
    BY <1>4, <1>11, <2>1 DEF Call
<1>12. ASSUME NEW info \in Tests \cup {Touched}, ReceiveAction(info) PROVE LateInv'
  <2> SUFFICES ASSUME NEW x \in fresh, x # info PROVE Late(x)'
    BY <1>12 DEF LateInv, ReceiveAction
  <2>1. row'[x] = row[x] /\ UNCHANGED <<job, queue, last>>
    BY <1>1, <1>2, <1>12 DEF ReceiveAction, SetValue
  <2> QED
    BY <2>1 DEF LateInv, Settling, LastWord, Live, Pending, Overtaken
<1> QED
  BY <1>3, <1>5, <1>6, <1>7, <1>8, <1>9, <1>10, <1>11, <1>12
  DEF FullNext, BoardStep, RunTest, Return, Clear, Count, EmitFinished, PrintResults,
      fullVars, vars

\* A verdict reached after the last summary was made is on its row once all is
\* delivered, wherever in the queue the summary is.
THEOREM LateVerdicts == FullSpec => []LateVerdictsSurvive
<1>1. FullInit => LateInv
  BY DEF FullInit, LateInv
<1>2. LateInv => LateVerdictsSurvive
  BY DEF LateInv, Settling, LateVerdictsSurvive, Busy
<1> QED
  BY <1>1, <1>2, LateStep, FullTypesInvariance, PTL DEF FullSpec
=============================================================================
