------------------------------ MODULE UartTest ------------------------------
(***************************************************************************)
(* testUart78 and testUart39: testUart(a, b) opens two serial ports, sends *)
(* a text from the first to the second and, if it arrives, one back.  The  *)
(* ports of a test are numbered 1 and 2.  A text is two halves, which the  *)
(* port may hand to the reader together or one after the other: Read waits *)
(* until something has come, and then reads once.                          *)
(*                                                                         *)
(* Uart::Read resizes its buffer to whatever read() returns.  When another *)
(* run has taken or flushed the bytes select() announced, that is -1: the  *)
(* resize throws on a thread nobody catches on, and the program is over.   *)
(* A Uart that was never opened closes an arbitrary descriptor.            *)
(*                                                                         *)
(* Assumed of the system: what is under way arrives before select's 50 ms  *)
(* are over; the last close of a port discards what it has received.       *)
(***************************************************************************)
EXTENDS Naturals, Sequences, TestResult

CONSTANTS Threads,
          Pairs,        \* the tests, each with a pair of ports
          Jobs,         \* which pair each thread may be testing, over and over
          Loose,        \* the wires the user may pull and plug in again
          Boards,       \* the sets of ports a board may have
          MaxLine       \* no run begins while so many halves are under way to its ports

VARIABLES solo,         \* whether the user runs one UART test at a time
          whole,        \* whether a port hands over a text in one piece
          present,      \* ports the board has
          wired,        \* ports that hear their peer; the user may replug
          job, pc, said, ok,
          open,         \* the ports whose descriptor the thread holds
          line,         \* halves on their way to a port
          rx,           \* halves a port has received
          aborted

local == <<job, pc, said, ok, open>>
vars == <<solo, whole, present, wired, local, line, rx, aborted>>

Port == Pairs \X {1, 2}

Text == <<"head", "tail">>
Half == {"head", "tail"}

ASSUME UartAssumption ==
  /\ Jobs \subseteq [Threads -> Pairs]
  /\ Boards \subseteq SUBSET Port /\ Loose \subseteq Port
  /\ MaxLine \in Nat

Label == {"idle", "created", "open1", "open2", "write2", "select2", "read2",
          "write1", "select1", "read1", "close", "verdict"}

TypeOK ==
  /\ solo \in BOOLEAN /\ whole \in BOOLEAN /\ aborted \in BOOLEAN
  /\ present \in SUBSET Port /\ wired \in SUBSET Port
  /\ job \in [Threads -> Pairs]
  /\ pc \in [Threads -> Label]
  /\ said \in [Threads -> Result]
  /\ ok \in [Threads -> BOOLEAN]
  /\ open \in [Threads -> SUBSET {1, 2}]
  /\ line \in [Port -> Seq(Half)]
  /\ rx \in [Port -> Seq(Half)]

Goto(t, l) == pc' = [pc EXCEPT ![t] = l]
Alive(x) == \E t \in Threads : pc[t] # "idle" /\ job[t] = x

\* Port d of the pair thread t tests.
Of(t, d) == <<job[t], d>>

\* Some thread holds a descriptor of port p.
Held(who, p) == \E t \in Threads : job[t] = p[1] /\ p[2] \in who[t]

\* What a port has received once the descriptors in `who` are all that is left.
Received(who) == [p \in Port |-> IF Held(who, p) THEN rx[p] ELSE <<>>]
-----------------------------------------------------------------------------
Init ==
  /\ solo \in BOOLEAN /\ whole \in BOOLEAN
  /\ present \in Boards
  /\ wired = Port
  /\ job \in Jobs
  /\ pc = [t \in Threads |-> "idle"]
  /\ said = [t \in Threads |-> "NotTested"]
  /\ ok = [t \in Threads |-> FALSE]
  /\ open = [t \in Threads |-> {}]
  /\ line = [p \in Port |-> <<>>]
  /\ rx = [p \in Port |-> <<>>]
  /\ aborted = FALSE

\* The user plugs or unplugs a wire of a pair that is not being tested.
Replug(p) ==
  /\ p \in Loose /\ ~Alive(p[1])
  /\ wired' = IF p \in wired THEN wired \ {p} ELSE wired \cup {p}
  /\ line' = [line EXCEPT ![p] = <<>>]
  /\ UNCHANGED <<solo, whole, present, local, rx, aborted>>

Begin(t) ==
  /\ pc[t] = "idle"
  /\ solo => \A u \in Threads : pc[u] = "idle"
  /\ \A d \in {1, 2} : Len(line[Of(t, d)]) < MaxLine
  /\ said' = [said EXCEPT ![t] = "NotTested"]
  /\ Goto(t, "created")
  /\ UNCHANGED <<solo, whole, present, wired, job, ok, open, line, rx, aborted>>

Announce(t) ==
  /\ pc[t] = "created"
  /\ said' = [said EXCEPT ![t] = "Progress"]
  /\ Goto(t, "open1")
  /\ UNCHANGED <<solo, whole, present, wired, job, ok, open, line, rx, aborted>>

\* Uart::Open on a port that is there flushes what has been received.
Open(t, d) ==
  /\ Of(t, d) \in present
  /\ open' = [open EXCEPT ![t] = @ \cup {d}]
  /\ rx' = [rx EXCEPT ![Of(t, d)] = <<>>]
  /\ UNCHANGED <<solo, whole, present, wired, job, said, ok, line, aborted>>

\* close() of what the uninitialised descriptor happens to be: nothing, or
\* another thread's port.
StrayClose(t) ==
  \/ UNCHANGED open
  \/ \E u \in Threads \ {t} : \E d \in open[u] : open' = [open EXCEPT ![u] = @ \ {d}]

OpenPorts(t) ==
  \/ pc[t] = "open1" /\ Open(t, 1) /\ Goto(t, "open2")
  \/ pc[t] = "open2" /\ Open(t, 2) /\ Goto(t, "write2")
  \/ /\ pc[t] = "open1" /\ Of(t, 1) \notin present
     /\ StrayClose(t)
     /\ rx' = Received(open')
     /\ Goto(t, "verdict")
     /\ UNCHANGED <<solo, whole, present, wired, job, said, ok, line, aborted>>
  \/ /\ pc[t] = "open2" /\ Of(t, 2) \notin present
     /\ Goto(t, "close")
     /\ UNCHANGED <<solo, whole, present, wired, job, said, ok, open, line, rx, aborted>>

\* Uart::Write to port d from its peer; a failure is not looked at.
Write(t, d) ==
  /\ line' = IF 3 - d \in open[t] /\ Of(t, d) \in wired
             THEN [line EXCEPT ![Of(t, d)] = @ \o Text] ELSE line
  /\ UNCHANGED <<solo, whole, present, wired, job, said, ok, open, rx, aborted>>

\* Slips: a Read that does not wait, a timeout shorter than a transmission, a
\* select without one.
ReadyAlways(t, d) == TRUE
SilentSoon(t, d) == d \in open[t] /\ rx[Of(t, d)] = <<>>
SilentNever(t, d) == FALSE

Ready(t, d) == d \in open[t] => rx[Of(t, d)] # <<>>
Silent(t, d) == d \in open[t] /\ rx[Of(t, d)] = <<>> /\ line[Of(t, d)] = <<>>

\* Uart::Read waits for something to come.  A descriptor closed under it makes
\* select fail with -1, which counts as ready.
Select(t, d) ==
  /\ Ready(t, d)
  /\ UNCHANGED <<solo, whole, present, wired, job, said, ok, open, line, rx, aborted>>

Timeout(t, d) ==
  /\ Silent(t, d)
  /\ Goto(t, "close")
  /\ UNCHANGED <<solo, whole, present, wired, job, said, ok, open, line, rx, aborted>>

\* Slip: the first text decides.
PassedEarly(d, equal) == equal

\* The answer, which comes in on port 1, decides.
Passed(d, equal) == equal /\ d = 1

\* The one read(); `then` is where the test goes if the whole text was there.
Read(t, d, then) ==
  /\ IF d \in open[t] /\ rx[Of(t, d)] # <<>>
     THEN LET equal == rx[Of(t, d)] = Text
          IN /\ Goto(t, IF equal THEN then ELSE "close")
             /\ ok' = [ok EXCEPT ![t] = Passed(d, equal)]
             /\ rx' = [rx EXCEPT ![Of(t, d)] = <<>>]
             /\ UNCHANGED aborted
     ELSE aborted' = TRUE /\ UNCHANGED <<pc, ok, rx>>
  /\ UNCHANGED <<solo, whole, present, wired, job, said, open, line>>

Exchange(t) ==
  \/ pc[t] = "write2" /\ Write(t, 2) /\ Goto(t, "select2")
  \/ pc[t] = "select2" /\ ((Select(t, 2) /\ Goto(t, "read2")) \/ Timeout(t, 2))
  \/ pc[t] = "read2" /\ Read(t, 2, "write1")
  \/ pc[t] = "write1" /\ Write(t, 1) /\ Goto(t, "select1")
  \/ pc[t] = "select1" /\ ((Select(t, 1) /\ Goto(t, "read1")) \/ Timeout(t, 1))
  \/ pc[t] = "read1" /\ Read(t, 1, "close")

\* The destructors of the two Uarts.
Close(t) ==
  /\ pc[t] = "close"
  /\ open' = [open EXCEPT ![t] = {}]
  /\ rx' = Received(open')
  /\ Goto(t, "verdict")
  /\ UNCHANGED <<solo, whole, present, wired, job, said, ok, line, aborted>>

Verdict(t) ==
  /\ pc[t] = "verdict"
  /\ said' = [said EXCEPT ![t] = SetResAddedLogs(ok[t])]
  /\ ok' = [ok EXCEPT ![t] = FALSE]
  /\ Goto(t, "idle")
  /\ UNCHANGED <<solo, whole, present, wired, job, open, line, rx, aborted>>

\* What is under way reaches its port, which drops it if nobody has it open.
Arrive(p) ==
  /\ line[p] # <<>>
  /\ LET n == IF whole THEN 2 ELSE 1
     IN /\ rx' = IF Held(open, p) THEN [rx EXCEPT ![p] = @ \o SubSeq(line[p], 1, n)] ELSE rx
        /\ line' = [line EXCEPT ![p] = SubSeq(@, n + 1, Len(@))]
  /\ UNCHANGED <<solo, whole, present, wired, local, aborted>>

Step(t) == Announce(t) \/ OpenPorts(t) \/ Exchange(t) \/ Close(t) \/ Verdict(t)

Next ==
  /\ ~aborted
  /\ \/ \E t \in Threads : Begin(t) \/ Step(t)
     \/ \E p \in Port : Arrive(p) \/ Replug(p)

Spec == Init /\ [][Next]_vars

\* Threads are scheduled, and what is under way arrives.
FairSpec ==
  /\ Spec
  /\ \A t \in Threads : WF_vars(~aborted /\ Step(t))
  /\ \A p \in Port : WF_vars(~aborted /\ Arrive(p))
-----------------------------------------------------------------------------
Healthy(x) == {x} \X {1, 2} \subseteq present \cap wired

\* However runs overlap, a pair passes only if both its wires are plugged in
\* during the run: no half of an earlier run's text completes a later one.
PassMeansWired ==
  \A t \in Threads : pc[t] = "verdict" /\ ok[t] => Healthy(job[t])

\* One test at a time never ends the program.
SoloNeverAborts == solo => ~aborted

\* ... and passes every sound pair, if its ports hand over a text in one piece.
SoloPassesGoodPair ==
  solo /\ whole => \A t \in Threads : pc[t] = "verdict" => (ok[t] <=> Healthy(job[t]))

\* ... and ends.
SoloEnds ==
  \A t \in Threads : solo /\ pc[t] # "idle" ~> pc[t] = "idle"
=============================================================================
