----------------------------- MODULE UartProofs -----------------------------
(***************************************************************************)
(* Three results about any number of UART tests on any pairs of ports.     *)
(* However they overlap, one passes only if its two ports are there and    *)
(* both hear their peer: whatever is on its way to a port, or waits in     *)
(* it, came over the wire that is plugged in now.  And tests that are run  *)
(* one at a time never end the program: what select() announced is still   *)
(* there when read() asks for it; and they pass every pair that is wired,  *)
(* as long as texts arrive in one piece: the text that was written is on   *)
(* its way, or waits, until it is read.                                    *)
(***************************************************************************)
EXTENDS UartTest, SequenceTheorems, TLAPS

\* A test that has opened nothing, or closed everything, holds nothing.
Outside == {"idle", "created", "open1", "verdict"}
HoldsInside ==
  \A t \in Threads :
    /\ pc[t] \in Outside => open[t] = {}
    /\ \A d \in open[t] : Of(t, d) \in present

\* Text under way, or received and kept by a test, came over the wire.
LineIsWired == \A p \in Port : line[p] # <<>> => p \in wired
RxIsWired == \A p \in Port : rx[p] # <<>> => p \in wired /\ Held(open, p)

\* A line that delivers texts whole carries whole texts.
WholeTexts == whole => \A p \in Port : Len(line[p]) % 2 = 0

\* A test that has got as far as answering has heard its second port.
HalfWay ==
  \A t \in Threads :
    pc[t] \in {"write1", "select1", "read1"} => Of(t, 2) \in present \cap wired

PassHealthy ==
  \A t \in Threads : ok[t] => pc[t] \in {"close", "verdict"} /\ Healthy(job[t])

WireInv ==
  TypeOK /\ WholeTexts /\ HoldsInside /\ LineIsWired /\ RxIsWired /\ HalfWay /\ PassHealthy

\* One test at a time holds what it has opened, and what it is about to read.
Both == {"write2", "select2", "read2", "write1", "select1", "read1"}
OneAlive ==
  solo => \A t, u \in Threads : pc[t] = "idle" \/ pc[u] = "idle" \/ t = u
SoloHolds ==
  solo => \A t \in Threads :
    /\ pc[t] = "open2" => open[t] = {1}
    /\ pc[t] \in Both => open[t] = {1, 2}
SoloWillRead ==
  solo => \A t \in Threads :
    /\ pc[t] = "read2" => rx[Of(t, 2)] # <<>>
    /\ pc[t] = "read1" => rx[Of(t, 1)] # <<>>

SoloInv == WireInv /\ OneAlive /\ SoloHolds /\ SoloWillRead /\ SoloNeverAborts
-----------------------------------------------------------------------------
\* What arrives are halves, and so is what stays behind.
LEMMA SomeHalves ==
  ASSUME NEW s \in Seq(Half), NEW n \in {1, 2}, s # <<>>, n = 2 => Len(s) % 2 = 0
  PROVE  /\ SubSeq(s, 1, n) \in Seq(Half)
         /\ SubSeq(s, n + 1, Len(s)) \in Seq(Half)
         /\ n = 2 => Len(SubSeq(s, n + 1, Len(s))) % 2 = 0
<1>1. Len(s) \in Nat \ {0} /\ n <= Len(s) /\ \A i \in 1..Len(s) : s[i] \in Half
  <2>1. Len(s) \in Nat /\ \A i \in 1..Len(s) : s[i] \in Half
    BY ElementOfSeq, LenProperties
  <2>2. Len(s) # 0
    BY EmptySeq
  <2> QED BY <2>1, <2>2
<1>2. SubSeq(s, 1, n) \in Seq(Half)
  <2>1. \A i \in 1..n : s[i] \in Half
    BY <1>1
  <2> QED BY <2>1, SubSeqProperties
<1>3. /\ SubSeq(s, n + 1, Len(s)) \in Seq(Half)
      /\ Len(SubSeq(s, n + 1, Len(s))) =
           IF n + 1 <= Len(s) THEN Len(s) - (n + 1) + 1 ELSE 0
  <2>1. \A i \in n + 1..Len(s) : s[i] \in Half
    BY <1>1
  <2>2. n + 1 \in Int /\ Len(s) \in Int
    BY <1>1
  <2> QED BY <2>1, <2>2, SubSeqProperties
<1>4. n = 2 => Len(SubSeq(s, n + 1, Len(s))) % 2 = 0
  <2>1. \A k \in Nat : k % 2 = 0 => (IF 3 <= k THEN k - 2 ELSE 0) % 2 = 0
    OBVIOUS
  <2>2. n = 2 => Len(SubSeq(s, n + 1, Len(s))) = IF 3 <= Len(s) THEN Len(s) - 2 ELSE 0
    BY <1>1, <1>3
  <2> QED BY <1>1, <2>1, <2>2
<1> QED BY <1>2, <1>3, <1>4

\* The text is two halves, and writing it leaves something under way.
LEMMA TextIsHalves ==
  /\ Text \in Seq(Half) /\ Len(Text) = 2
  /\ \A s \in Seq(Half) : /\ s \o Text \in Seq(Half) \ {<<>>}
                          /\ Len(s) % 2 = 0 => Len(s \o Text) % 2 = 0
<1>1. Text \in Seq(Half) /\ Len(Text) = 2
  BY DEF Text, Half
<1>2. ASSUME NEW s \in Seq(Half)
      PROVE  s \o Text \in Seq(Half) /\ Len(s \o Text) = Len(s) + 2 /\ Len(s) \in Nat
  <2>1. Text \in Seq(Half) /\ Len(s) \in Nat
    BY <1>1, LenProperties
  <2>2. s \o Text \in Seq(Half) /\ Len(s \o Text) = Len(s) + Len(Text)
    BY <2>1, ConcatProperties
  <2> QED BY <1>1, <2>1, <2>2
<1>3. ASSUME NEW s \in Seq(Half)
      PROVE  s \o Text # <<>> /\ (Len(s) % 2 = 0 => Len(s \o Text) % 2 = 0)
  <2>1. Len(s \o Text) # 0
    BY <1>2
  <2> QED BY <1>2, <2>1, EmptySeq
<1> QED BY <1>1, <1>2, <1>3

LEMMA InitOK == Init => SoloInv
<1> SUFFICES ASSUME Init
             PROVE  SoloInv
  OBVIOUS
<1>1. TypeOK
  <2>1. job \in [Threads -> Pairs] /\ present \in SUBSET Port
    BY UartAssumption DEF Init
  <2>2. <<>> \in Seq(Half)
    BY EmptySeq
  <2> QED BY <2>1, <2>2 DEF Init, TypeOK, Label, Result
<1>2. WholeTexts /\ HoldsInside /\ LineIsWired /\ RxIsWired /\ HalfWay /\ PassHealthy
  <2>1. Len(<<>>) = 0
    BY EmptySeq
  <2> QED
    BY <2>1 DEF Init, WholeTexts, HoldsInside, LineIsWired, RxIsWired, HalfWay, PassHealthy
<1>3. OneAlive /\ SoloHolds /\ SoloWillRead /\ SoloNeverAborts
  BY DEF Init, OneAlive, SoloHolds, Both, SoloWillRead, SoloNeverAborts
<1> QED BY <1>1, <1>2, <1>3 DEF SoloInv, WireInv
-----------------------------------------------------------------------------
\* Closing keeps what a port has received, or drops it.
LEMMA ReceivedHalves ==
  ASSUME TypeOK, NEW who
  PROVE  Received(who) \in [Port -> Seq(Half)]
BY EmptySeq DEF TypeOK, Received

LEMMA StrayCloseType ==
  ASSUME TypeOK, NEW t \in Threads, StrayClose(t)
  PROVE  open' \in [Threads -> SUBSET {1, 2}]
BY DEF TypeOK, StrayClose

LEMMA ArriveType ==
  ASSUME TypeOK, WholeTexts, NEW p \in Port, Arrive(p)
  PROVE  TypeOK' /\ WholeTexts'
<1> DEFINE n == IF whole THEN 2 ELSE 1
           came == SubSeq(line[p], 1, n)
           behind == SubSeq(line[p], n + 1, Len(line[p]))
<1>1. line[p] \in Seq(Half) /\ rx[p] \in Seq(Half) /\ line[p] # <<>>
  BY DEF TypeOK, Arrive
<1>2. n \in {1, 2} /\ (n = 2 <=> whole) /\ (n = 2 => Len(line[p]) % 2 = 0)
  BY DEF WholeTexts, TypeOK
<1>3. /\ came \in Seq(Half) /\ behind \in Seq(Half)
      /\ whole => Len(behind) % 2 = 0
  <2> HIDE DEF n
  <2> QED BY <1>1, <1>2, SomeHalves
<1>4. rx[p] \o came \in Seq(Half)
  <2> HIDE DEF came
  <2> QED BY <1>1, <1>3, ConcatProperties
<1>5. /\ rx' = IF Held(open, p) THEN [rx EXCEPT ![p] = rx[p] \o came] ELSE rx
      /\ line' = [line EXCEPT ![p] = behind]
      /\ UNCHANGED <<solo, whole, present, wired, local, aborted>>
  BY DEF Arrive, TypeOK
<1>6. /\ rx' \in [Port -> Seq(Half)] /\ line' \in [Port -> Seq(Half)]
      /\ whole => \A q \in Port : Len(line'[q]) % 2 = 0
  <2> HIDE DEF came, behind
  <2> QED BY <1>3, <1>4, <1>5 DEF TypeOK, WholeTexts
<1> QED BY <1>5, <1>6 DEF TypeOK, WholeTexts, local

LEMMA TypeStep == TypeOK /\ WholeTexts /\ [Next]_vars => TypeOK' /\ WholeTexts'
<1> SUFFICES ASSUME TypeOK, WholeTexts, [Next]_vars
             PROVE  TypeOK' /\ WholeTexts'
  OBVIOUS
<1>1. ASSUME NEW p \in Port, Replug(p)
      PROVE  TypeOK' /\ WholeTexts'
  <2>1. <<>> \in Seq(Half) /\ Len(<<>>) % 2 = 0
    <3>1. <<>> \in Seq(Half) /\ Len(<<>>) = 0
      BY EmptySeq
    <3> QED BY <3>1
  <2> QED BY <1>1, <2>1 DEF Replug, TypeOK, WholeTexts, local
<1>2. ASSUME NEW t \in Threads, Begin(t) \/ Announce(t) \/ Verdict(t)
      PROVE  TypeOK' /\ WholeTexts'
  <2>1. CASE Begin(t)
    BY <2>1 DEF Begin, Goto, Result, Label, TypeOK, WholeTexts
  <2>2. CASE Announce(t)
    BY <2>2 DEF Announce, Goto, Result, Label, TypeOK, WholeTexts
  <2>3. CASE Verdict(t)
    <3>1. SetResAddedLogs(ok[t]) \in Result
      BY DEF SetResAddedLogs, Result
    <3> QED BY <2>3, <3>1 DEF Verdict, Goto, Label, TypeOK, WholeTexts
  <2> QED BY <1>2, <2>1, <2>2, <2>3
<1>3. ASSUME NEW t \in Threads, NEW d \in {1, 2}, NEW l \in Label, Open(t, d), Goto(t, l)
      PROVE  TypeOK' /\ WholeTexts'
  <2>1. <<>> \in Seq(Half)
    BY EmptySeq
  <2> QED BY <1>3, <2>1 DEF Open, Goto, TypeOK, WholeTexts
<1>4. ASSUME NEW t \in Threads, StrayClose(t), rx' = Received(open'), Goto(t, "verdict"),
             UNCHANGED <<solo, whole, present, wired, job, said, ok, line, aborted>>
      PROVE  TypeOK' /\ WholeTexts'
  BY <1>4, ReceivedHalves, StrayCloseType DEF Goto, Label, TypeOK, WholeTexts
<1>5. ASSUME NEW t \in Threads, OpenPorts(t)
      PROVE  TypeOK' /\ WholeTexts'
  <2>1. CASE pc[t] = "open2" /\ Of(t, 2) \notin present
    <3>1. /\ Goto(t, "close")
          /\ UNCHANGED <<solo, whole, present, wired, job, said, ok, open, line, rx, aborted>>
      BY <1>5, <2>1 DEF OpenPorts, Open
    <3> QED BY <3>1 DEF Goto, Label, TypeOK, WholeTexts
  <2> QED BY <1>3, <1>4, <1>5, <2>1 DEF OpenPorts, Label
<1>6. ASSUME NEW t \in Threads, NEW d \in {1, 2}, NEW l \in Label, Write(t, d), Goto(t, l)
      PROVE  TypeOK' /\ WholeTexts'
  <2>1. Of(t, d) \in Port => line[Of(t, d)] \in Seq(Half)
    BY DEF TypeOK
  <2>2. line' \in [Port -> Seq(Half)]
    BY <1>6, <2>1, TextIsHalves DEF Write, TypeOK
  <2>3. whole => \A q \in Port : Len(line'[q]) % 2 = 0
    BY <1>6, <2>1, TextIsHalves DEF Write, TypeOK, WholeTexts
  <2> QED BY <1>6, <2>2, <2>3 DEF Write, Goto, TypeOK, WholeTexts
<1>7. ASSUME NEW t \in Threads, NEW d \in {1, 2}, NEW l \in Label,
             (Select(t, d) /\ Goto(t, l)) \/ Timeout(t, d)
      PROVE  TypeOK' /\ WholeTexts'
  <2>1. PICK m \in Label : Goto(t, m)
    BY <1>7 DEF Timeout, Label
  <2>2. UNCHANGED <<solo, whole, present, wired, job, said, ok, open, line, rx, aborted>>
    BY <1>7 DEF Select, Timeout
  <2> QED BY <2>1, <2>2 DEF Goto, TypeOK, WholeTexts
<1>8. ASSUME NEW t \in Threads, NEW d \in {1, 2}, NEW l \in Label, Read(t, d, l)
      PROVE  TypeOK' /\ WholeTexts'
  <2>1. <<>> \in Seq(Half)
    BY EmptySeq
  <2>2. CASE d \in open[t] /\ rx[Of(t, d)] # <<>>
    <3>1. PICK m \in Label : Goto(t, m)
      BY <1>8, <2>2 DEF Read, Label
    <3>2. PICK b \in BOOLEAN : ok' = [ok EXCEPT ![t] = b]
      BY <1>8, <2>2 DEF Read, Passed
    <3>3. /\ rx' = [rx EXCEPT ![Of(t, d)] = <<>>]
          /\ UNCHANGED <<solo, whole, present, wired, job, said, open, line, aborted>>
      BY <1>8, <2>2 DEF Read
    <3> QED BY <2>1, <3>1, <3>2, <3>3 DEF Goto, TypeOK, WholeTexts
  <2>3. CASE ~(d \in open[t] /\ rx[Of(t, d)] # <<>>)
    BY <1>8, <2>3 DEF Read, TypeOK, WholeTexts
  <2> QED BY <2>2, <2>3
<1>9. ASSUME NEW t \in Threads, Exchange(t)
      PROVE  TypeOK' /\ WholeTexts'
  BY <1>6, <1>7, <1>8, <1>9 DEF Exchange, Label
<1>10. ASSUME NEW t \in Threads, Close(t)
       PROVE  TypeOK' /\ WholeTexts'
  BY <1>10, ReceivedHalves DEF Close, Goto, Label, TypeOK, WholeTexts
<1>11. CASE UNCHANGED vars
  BY <1>11 DEF vars, local, TypeOK, WholeTexts
<1> QED BY <1>1, <1>2, <1>5, <1>9, <1>10, <1>11, ArriveType DEF Next, Step
-----------------------------------------------------------------------------
\* The ports of a test, and the test that holds one.
LEMMA PortsOfTest ==
  ASSUME TypeOK, NEW t \in Threads
  PROVE  /\ \A d \in {1, 2} : Of(t, d) \in Port /\ Of(t, d)[1] = job[t] /\ Of(t, d)[2] = d
         /\ Healthy(job[t]) <=> {Of(t, 1), Of(t, 2)} \subseteq present \cap wired
<1>1. job[t] \in Pairs
  BY DEF TypeOK
<1>2. \A d \in {1, 2} : Of(t, d) \in Port /\ Of(t, d)[1] = job[t] /\ Of(t, d)[2] = d
  BY <1>1 DEF Of, Port
<1>3. {job[t]} \X {1, 2} = {<<job[t], 1>>, <<job[t], 2>>}
  OBVIOUS
<1>4. Healthy(job[t]) <=> {Of(t, 1), Of(t, 2)} \subseteq present \cap wired
  BY <1>3 DEF Healthy, Of
<1> QED BY <1>2, <1>4

LEMMA HeldIsAlive ==
  ASSUME TypeOK, HoldsInside, NEW p \in Port, Held(open, p)
  PROVE  Alive(p[1])
BY DEF TypeOK, HoldsInside, Outside, Held, Alive

\* What select() found was sent over the wire to a port that is there.
LEMMA HeardIsSound ==
  ASSUME WireInv, NEW t \in Threads, NEW d \in {1, 2}, d \in open[t], rx[Of(t, d)] # <<>>
  PROVE  Of(t, d) \in present \cap wired
BY PortsOfTest DEF WireInv, HoldsInside, RxIsWired

LEMMA HoldsStep == WireInv /\ [Next]_vars => HoldsInside'
<1> SUFFICES ASSUME WireInv, [Next]_vars
             PROVE  HoldsInside'
  OBVIOUS
<1> USE DEF WireInv, TypeOK, HoldsInside, Outside, Goto
<1>1. ASSUME NEW t \in Threads, Begin(t) \/ Announce(t) \/ Verdict(t)
      PROVE  HoldsInside'
  BY <1>1 DEF Begin, Announce, Verdict, Of
<1>2. ASSUME NEW t \in Threads, OpenPorts(t)
      PROVE  HoldsInside'
  <2>1. ASSUME NEW d \in {1, 2}, NEW l \in {"open2", "write2"}, Open(t, d), Goto(t, l)
        PROVE  HoldsInside'
    BY <2>1 DEF Open, Of
  <2>2. ASSUME pc[t] = "open1", StrayClose(t), Goto(t, "verdict"), UNCHANGED <<present, job>>
        PROVE  HoldsInside'
    <3>1. \A u \in Threads : open'[u] \subseteq open[u]
      BY <2>2 DEF StrayClose
    <3> QED BY <2>2, <3>1 DEF Of
  <2>3. ASSUME pc[t] = "open2", Goto(t, "close"), UNCHANGED <<present, job, open>>
        PROVE  HoldsInside'
    BY <2>3 DEF Of
  <2> QED BY <1>2, <2>1, <2>2, <2>3 DEF OpenPorts
<1>3. ASSUME NEW t \in Threads, Exchange(t)
      PROVE  HoldsInside'
  <2>1. UNCHANGED <<present, job, open>>
    BY <1>3 DEF Exchange, Write, Select, Timeout, Read
  <2>2. \/ pc' = pc
        \/ \E l \in {"select2", "read2", "write1", "select1", "read1", "close"} : Goto(t, l)
    BY <1>3 DEF Exchange, Timeout, Read
  <2> QED BY <2>1, <2>2 DEF Of
<1>4. ASSUME NEW t \in Threads, Close(t)
      PROVE  HoldsInside'
  BY <1>4 DEF Close, Of
<1>5. ASSUME UNCHANGED <<present, pc, job, open>>
      PROVE  HoldsInside'
  BY <1>5 DEF Of
<1> QED
  BY <1>1, <1>2, <1>3, <1>4, <1>5 DEF Next, Step, Arrive, Replug, vars, local

LEMMA LineStep == WireInv /\ [Next]_vars => LineIsWired'
<1> SUFFICES ASSUME WireInv, [Next]_vars
             PROVE  LineIsWired'
  OBVIOUS
<1> USE DEF WireInv, TypeOK, LineIsWired
<1>1. ASSUME NEW p \in Port, Replug(p)
      PROVE  LineIsWired'
  BY <1>1 DEF Replug
<1>2. ASSUME NEW p \in Port, Arrive(p)
      PROVE  LineIsWired'
  BY <1>2 DEF Arrive
<1>3. ASSUME NEW t \in Threads, NEW d \in {1, 2}, Write(t, d)
      PROVE  LineIsWired'
  BY <1>3 DEF Write
<1>4. ASSUME UNCHANGED <<wired, line>>
      PROVE  LineIsWired'
  BY <1>4
<1> QED
  BY <1>1, <1>2, <1>3, <1>4
     DEF Next, Step, Begin, Announce, OpenPorts, Open, Exchange, Select, Timeout, Read,
         Close, Verdict, vars

LEMMA RxStep == WireInv /\ [Next]_vars => RxIsWired'
<1> SUFFICES ASSUME WireInv, [Next]_vars
             PROVE  RxIsWired'
  OBVIOUS
<1> USE DEF WireInv, TypeOK, RxIsWired
<1>1. ASSUME NEW p \in Port, Replug(p)
      PROVE  RxIsWired'
  <2>1. rx[p] = <<>>
    BY <1>1, HeldIsAlive DEF Replug
  <2> QED BY <1>1, <2>1 DEF Replug, Held, local
<1>2. ASSUME NEW p \in Port, Arrive(p)
      PROVE  RxIsWired'
  BY <1>2 DEF Arrive, LineIsWired, Held, local
<1>3. ASSUME NEW t \in Threads, NEW d \in {1, 2}, Open(t, d)
      PROVE  RxIsWired'
  BY <1>3, PortsOfTest DEF Open, Held
<1>4. ASSUME rx' = Received(open'), UNCHANGED <<wired, job>>
      PROVE  RxIsWired'
  BY <1>4 DEF Received, Held
<1>5. ASSUME NEW t \in Threads, NEW d \in {1, 2}, NEW l, Read(t, d, l)
      PROVE  RxIsWired'
  BY <1>5, PortsOfTest DEF Read, Held
<1>6. ASSUME UNCHANGED <<wired, job, open, rx>>
      PROVE  RxIsWired'
  BY <1>6 DEF Held
<1> QED
  BY <1>1, <1>2, <1>3, <1>4, <1>5, <1>6
     DEF Next, Step, Begin, Announce, OpenPorts, Exchange, Write, Select, Timeout,
         Close, Verdict, vars, local
\* A wire that is pulled is not that of a test under way.
LEMMA UnderTestStays ==
  ASSUME TypeOK, NEW p \in Port, Replug(p), NEW t \in Threads, pc[t] # "idle", NEW d \in {1, 2}
  PROVE  Of(t, d) \in wired <=> Of(t, d) \in wired'
<1>1. Of(t, d) # p
  BY PortsOfTest DEF Replug, Alive
<1> QED BY <1>1 DEF Replug

LEMMA HalfWayStep == WireInv /\ [Next]_vars => HalfWay'
<1> SUFFICES ASSUME WireInv, [Next]_vars
             PROVE  HalfWay'
  OBVIOUS
<1> USE DEF WireInv, TypeOK, HalfWay, Goto
<1>1. ASSUME NEW p \in Port, Replug(p)
      PROVE  HalfWay'
  <2>1. \A t \in Threads : pc[t] # "idle" => (Of(t, 2) \in wired <=> Of(t, 2) \in wired')
    BY <1>1, UnderTestStays
  <2> QED BY <1>1, <2>1 DEF Replug, Of, local
<1>2. ASSUME NEW t \in Threads, Read(t, 2, "write1")
      PROVE  HalfWay'
  <2>1. CASE 2 \in open[t] /\ rx[Of(t, 2)] # <<>>
    <3>1. Of(t, 2) \in present \cap wired
      BY <2>1, HeardIsSound
    <3> QED BY <1>2, <3>1 DEF Read, Of
  <2>2. CASE ~(2 \in open[t] /\ rx[Of(t, 2)] # <<>>)
    BY <1>2, <2>2 DEF Read, Of
  <2> QED BY <2>1, <2>2
<1>3. ASSUME NEW t \in Threads, NEW l \in Label,
             Goto(t, l), UNCHANGED <<present, wired, job>>,
             l \in {"write1", "select1", "read1"} => pc[t] \in {"write1", "select1", "read1"}
      PROVE  HalfWay'
  BY <1>3 DEF Of
<1>4. ASSUME NEW t \in Threads, Step(t) \/ Begin(t), ~Read(t, 2, "write1")
      PROVE  \/ UNCHANGED <<present, wired, job, pc>>
             \/ /\ UNCHANGED <<present, wired, job>>
                /\ \E l \in Label : /\ Goto(t, l)
                                    /\ l \in {"write1", "select1", "read1"} =>
                                         pc[t] \in {"write1", "select1", "read1"}
  <2> USE DEF Label
  <2>1. CASE Begin(t) \/ Announce(t) \/ Close(t) \/ Verdict(t)
    BY <2>1 DEF Begin, Announce, Close, Verdict
  <2>2. CASE OpenPorts(t)
    BY <2>2 DEF OpenPorts, Open
  <2>3. CASE Exchange(t)
    BY <1>4, <2>3 DEF Exchange, Write, Select, Timeout, Read
  <2> QED BY <1>4, <2>1, <2>2, <2>3 DEF Step
<1>5. ASSUME UNCHANGED <<present, wired, job, pc>>
      PROVE  HalfWay'
  BY <1>5 DEF Of
<1> QED
  BY <1>1, <1>2, <1>3, <1>4, <1>5 DEF Next, Arrive, vars, local

LEMMA PassStep == WireInv /\ [Next]_vars => PassHealthy'
<1> SUFFICES ASSUME WireInv, [Next]_vars
             PROVE  PassHealthy'
  OBVIOUS
<1> USE DEF WireInv, TypeOK, PassHealthy, Goto
<1>1. ASSUME NEW p \in Port, Replug(p)
      PROVE  PassHealthy'
  <2>1. UNCHANGED <<present, job, pc, ok>>
    BY <1>1 DEF Replug, local
  <2>2. ASSUME NEW t \in Threads, ok[t]
        PROVE  Healthy(job[t])'
    <3>1. pc[t] # "idle" /\ {Of(t, 1), Of(t, 2)} \subseteq present \cap wired
      BY <2>2, PortsOfTest
    <3>2. {Of(t, 1), Of(t, 2)} \subseteq present \cap wired'
      BY <1>1, <3>1, UnderTestStays
    <3>3. {job[t]} \X {1, 2} = {Of(t, 1), Of(t, 2)}
      BY DEF Of
    <3> QED BY <2>1, <3>2, <3>3 DEF Healthy
  <2> QED BY <2>1, <2>2
<1>2. ASSUME NEW t \in Threads, NEW d \in {1, 2}, NEW l \in {"write1", "close"}, Read(t, d, l),
             pc[t] \in {"read1", "read2"},
             d = 1 => pc[t] = "read1" /\ l = "close"
      PROVE  PassHealthy'
  <2>1. UNCHANGED <<present, wired, job>>
    BY <1>2 DEF Read
  <2>2. CASE d \in open[t] /\ rx[Of(t, d)] # <<>>
    <3>1. PICK b \in BOOLEAN : /\ ok' = [ok EXCEPT ![t] = b]
                               /\ b => d = 1
                               /\ b => Goto(t, l)
      BY <1>2, <2>2 DEF Read, Passed
    <3>2. b => Healthy(job[t])
      BY <1>2, <2>2, <3>1, HeardIsSound, PortsOfTest DEF HalfWay
    <3>3. \A u \in Threads \ {t} : pc'[u] = pc[u]
      BY <1>2, <2>2 DEF Read
    <3> QED BY <1>2, <2>1, <3>1, <3>2, <3>3 DEF Healthy
  <2>3. CASE ~(d \in open[t] /\ rx[Of(t, d)] # <<>>)
    BY <1>2, <2>1, <2>3 DEF Read, Healthy
  <2> QED BY <2>2, <2>3
<1>3. ASSUME NEW t \in Threads, NEW l \in Label, Goto(t, l), UNCHANGED <<present, wired, job, ok>>,
             pc[t] \notin {"close", "verdict"} \/ l = "verdict"
      PROVE  PassHealthy'
  BY <1>3 DEF Healthy
<1>4. ASSUME NEW t \in Threads, Verdict(t)
      PROVE  PassHealthy'
  BY <1>4 DEF Verdict, Healthy
<1>5. ASSUME NEW t \in Threads, Begin(t) \/ Announce(t) \/ OpenPorts(t) \/ Close(t)
      PROVE  PassHealthy'
  <2> USE DEF Label
  <2>1. UNCHANGED <<present, wired, job, ok>>
    BY <1>5 DEF Begin, Announce, OpenPorts, Open, Close
  <2>2. \E l \in Label : Goto(t, l) /\ (pc[t] \notin {"close", "verdict"} \/ l = "verdict")
    BY <1>5 DEF Begin, Announce, OpenPorts, Open, Close
  <2> QED BY <1>3, <2>1, <2>2
<1>6. ASSUME NEW t \in Threads, Exchange(t)
      PROVE  PassHealthy'
  <2> USE DEF Label
  <2>1. CASE \/ pc[t] = "read2" /\ Read(t, 2, "write1")
             \/ pc[t] = "read1" /\ Read(t, 1, "close")
    BY <1>2, <2>1
  <2>2. CASE ~(\/ pc[t] = "read2" /\ Read(t, 2, "write1")
               \/ pc[t] = "read1" /\ Read(t, 1, "close"))
    <3>1. UNCHANGED <<present, wired, job, ok>>
      BY <1>6, <2>2 DEF Exchange, Write, Select, Timeout
    <3>2. \E l \in Label : Goto(t, l) /\ pc[t] \notin {"close", "verdict"}
      BY <1>6, <2>2 DEF Exchange, Timeout
    <3> QED BY <1>3, <3>1, <3>2
  <2> QED BY <2>1, <2>2
<1>7. ASSUME UNCHANGED <<present, wired, job, pc, ok>>
      PROVE  PassHealthy'
  BY <1>7 DEF Healthy
<1> QED
  BY <1>1, <1>4, <1>5, <1>6, <1>7 DEF Next, Step, Arrive, vars, local

LEMMA WireStep == WireInv /\ [Next]_vars => WireInv'
BY TypeStep, HoldsStep, LineStep, RxStep, HalfWayStep, PassStep DEF WireInv
-----------------------------------------------------------------------------
\* Alone, a test reads what select() announced.
LEMMA SoloReads ==
  ASSUME SoloInv, solo, NEW t \in Threads, NEW d \in {1, 2}, NEW l, Read(t, d, l),
         pc[t] = IF d = 1 THEN "read1" ELSE "read2"
  PROVE  /\ d \in open[t] /\ rx[Of(t, d)] # <<>>
         /\ UNCHANGED <<aborted, open>>
         /\ Goto(t, l) \/ Goto(t, "close")
<1>1. d \in open[t] /\ rx[Of(t, d)] # <<>>
  BY DEF SoloInv, SoloHolds, SoloWillRead, Both
<1> QED BY <1>1 DEF Read

LEMMA AloneStep == SoloInv /\ [Next]_vars => OneAlive'
<1> SUFFICES ASSUME SoloInv, [Next]_vars
             PROVE  OneAlive'
  OBVIOUS
<1> USE DEF SoloInv, WireInv, TypeOK, OneAlive
<1>1. ASSUME NEW t \in Threads, Begin(t)
      PROVE  OneAlive'
  BY <1>1 DEF Begin, Goto
<1>2. ASSUME NEW t \in Threads, Step(t)
      PROVE  pc[t] # "idle" /\ solo' = solo /\ (pc' = pc \/ \E l : Goto(t, l))
  <2>1. CASE Announce(t) \/ Close(t) \/ Verdict(t)
    BY <2>1 DEF Announce, Close, Verdict
  <2>2. CASE OpenPorts(t)
    BY <2>2 DEF OpenPorts, Open
  <2>3. CASE Exchange(t)
    BY <2>3 DEF Exchange, Write, Select, Timeout, Read
  <2> QED BY <1>2, <2>1, <2>2, <2>3 DEF Step
<1>3. ASSUME NEW t \in Threads, pc[t] # "idle", solo' = solo, pc' = pc \/ \E l : Goto(t, l)
      PROVE  OneAlive'
  BY <1>3 DEF Goto
<1>4. ASSUME UNCHANGED <<solo, pc>>
      PROVE  OneAlive'
  BY <1>4
<1> QED
  BY <1>1, <1>2, <1>3, <1>4 DEF Next, Arrive, Replug, vars, local

LEMMA SoloHoldsStep == SoloInv /\ [Next]_vars => SoloHolds'
<1> SUFFICES ASSUME SoloInv, [Next]_vars, solo'
             PROVE  SoloHolds'
  BY DEF SoloHolds
<1>1. solo
  BY DEF Next, Step, Begin, Announce, OpenPorts, Open, Exchange, Write, Select, Timeout,
         Read, Close, Verdict, Arrive, Replug, vars
<1> USE <1>1 DEF SoloInv, WireInv, TypeOK, SoloHolds, Both, Goto
<1>2. ASSUME NEW t \in Threads, Begin(t) \/ Announce(t) \/ Verdict(t)
      PROVE  SoloHolds'
  BY <1>2 DEF Begin, Announce, Verdict
<1>3. ASSUME NEW t \in Threads, OpenPorts(t)
      PROVE  SoloHolds'
  <2>1. CASE pc[t] = "open1" /\ Open(t, 1) /\ Goto(t, "open2")
    BY <2>1 DEF Open, HoldsInside, Outside
  <2>2. CASE pc[t] = "open2" /\ Open(t, 2) /\ Goto(t, "write2")
    BY <2>2 DEF Open
  <2>3. CASE pc[t] = "open1" /\ StrayClose(t) /\ Goto(t, "verdict")
    <3>1. \A u \in Threads \ {t} : open[u] = {}
      BY <2>3 DEF OneAlive, HoldsInside, Outside
    <3> QED BY <2>3, <3>1 DEF StrayClose
  <2>4. CASE pc[t] = "open2" /\ Goto(t, "close") /\ UNCHANGED open
    BY <2>4
  <2> QED BY <1>3, <2>1, <2>2, <2>3, <2>4 DEF OpenPorts
<1>4. ASSUME NEW t \in Threads, Exchange(t)
      PROVE  SoloHolds'
  <2>1. pc[t] \in Both /\ UNCHANGED open
    BY <1>4 DEF Exchange, Write, Select, Timeout, Read
  <2>2. pc' = pc \/ \E l \in Both \cup {"close"} : Goto(t, l)
    BY <1>4 DEF Exchange, Timeout, Read
  <2> QED BY <2>1, <2>2
<1>5. ASSUME NEW t \in Threads, Close(t)
      PROVE  SoloHolds'
  BY <1>5 DEF Close
<1>6. ASSUME UNCHANGED <<pc, open>>
      PROVE  SoloHolds'
  BY <1>6
<1> QED
  BY <1>2, <1>3, <1>4, <1>5, <1>6 DEF Next, Step, Arrive, Replug, vars, local

\* What arrives does not take away what was there.
LEMMA ArriveAdds ==
  ASSUME TypeOK, WholeTexts, NEW p \in Port, Arrive(p), NEW q \in Port, rx[q] # <<>>
  PROVE  rx'[q] # <<>>
<1> DEFINE came == SubSeq(line[p], 1, IF whole THEN 2 ELSE 1)
<1>1. came \in Seq(Half) /\ rx[p] \in Seq(Half)
  <2>1. line[p] \in Seq(Half) /\ line[p] # <<>>
    BY DEF TypeOK, Arrive
  <2>2. (IF whole THEN 2 ELSE 1) \in {1, 2}
        /\ ((IF whole THEN 2 ELSE 1) = 2 => Len(line[p]) % 2 = 0)
    BY DEF WholeTexts, TypeOK
  <2> QED BY <2>1, <2>2, SomeHalves DEF TypeOK
<1>2. rx[p] # <<>> => rx[p] \o came # <<>>
  <2> HIDE DEF came
  <2> QED BY <1>1, ConcatSimplifications
<1>3. rx' = rx \/ rx' = [rx EXCEPT ![p] = rx[p] \o came]
  BY DEF Arrive, TypeOK
<1> QED BY <1>2, <1>3 DEF TypeOK

LEMMA SoloWillReadStep == SoloInv /\ [Next]_vars => SoloWillRead'
<1> SUFFICES ASSUME SoloInv, [Next]_vars, solo'
             PROVE  SoloWillRead'
  BY DEF SoloWillRead
<1>1. solo
  BY DEF Next, Step, Begin, Announce, OpenPorts, Open, Exchange, Write, Select, Timeout,
         Read, Close, Verdict, Arrive, Replug, vars
<1> USE <1>1 DEF SoloInv, WireInv, TypeOK, SoloWillRead, Goto
<1>2. ASSUME NEW t \in Threads, NEW l, l \notin {"read1", "read2"}, Goto(t, l), job' = job,
             pc[t] # "idle" \/ rx' = rx
      PROVE  SoloWillRead'
  BY <1>2 DEF OneAlive, Of
<1>3. ASSUME NEW t \in Threads, NEW d \in {1, 2}, pc[t] \in Both, Select(t, d),
             Goto(t, IF d = 1 THEN "read1" ELSE "read2")
      PROVE  SoloWillRead'
  <2>1. rx[Of(t, d)] # <<>>
    BY <1>3 DEF Select, Ready, SoloHolds
  <2> QED BY <1>3, <2>1 DEF Select, Of
<1>4. ASSUME NEW t \in Threads, Begin(t) \/ Announce(t) \/ OpenPorts(t) \/ Close(t) \/ Verdict(t)
      PROVE  SoloWillRead'
  <2>1. job' = job /\ (pc[t] # "idle" \/ rx' = rx)
    BY <1>4 DEF Begin, Announce, OpenPorts, Open, Close, Verdict
  <2>2. \E l : l \notin {"read1", "read2"} /\ Goto(t, l)
    BY <1>4 DEF Begin, Announce, OpenPorts, Close, Verdict
  <2> QED BY <1>2, <2>1, <2>2
<1>5. ASSUME NEW t \in Threads, Exchange(t)
      PROVE  SoloWillRead'
  <2>1. CASE \/ pc[t] = "select2" /\ Select(t, 2) /\ Goto(t, "read2")
             \/ pc[t] = "select1" /\ Select(t, 1) /\ Goto(t, "read1")
    BY <1>3, <2>1 DEF Both
  <2>2. CASE \/ pc[t] = "read2" /\ Read(t, 2, "write1")
             \/ pc[t] = "read1" /\ Read(t, 1, "close")
    <3>1. Goto(t, "write1") \/ Goto(t, "close")
      BY <2>2, SoloReads
    <3>2. job' = job /\ pc[t] # "idle"
      BY <2>2 DEF Read
    <3> QED BY <1>2, <3>1, <3>2
  <2>3. CASE Timeout(t, 1) \/ Timeout(t, 2)
    BY <1>2, <2>3 DEF Timeout
  <2>4. CASE \/ Write(t, 2) /\ Goto(t, "select2")
             \/ Write(t, 1) /\ Goto(t, "select1")
    BY <1>2, <2>4 DEF Write
  <2> QED BY <1>5, <2>1, <2>2, <2>3, <2>4 DEF Exchange
<1>6. ASSUME NEW p \in Port, Arrive(p)
      PROVE  SoloWillRead'
  <2>1. UNCHANGED <<pc, job>> /\ \A q \in Port : rx[q] # <<>> => rx'[q] # <<>>
    BY <1>6, ArriveAdds DEF Arrive, local
  <2> QED BY <2>1, PortsOfTest DEF Of
<1>7. ASSUME UNCHANGED <<pc, job, rx>>
      PROVE  SoloWillRead'
  BY <1>7 DEF Of
<1> QED
  BY <1>4, <1>5, <1>6, <1>7 DEF Next, Step, Replug, vars, local

LEMMA NoAbortStep == SoloInv /\ [Next]_vars => SoloNeverAborts'
<1> SUFFICES ASSUME SoloInv, [Next]_vars, solo'
             PROVE  ~aborted'
  BY DEF SoloNeverAborts
<1>1. solo /\ ~aborted
  BY DEF Next, Step, Begin, Announce, OpenPorts, Open, Exchange, Write, Select, Timeout,
         Read, Close, Verdict, Arrive, Replug, vars, SoloInv, SoloNeverAborts
<1>2. ASSUME NEW t \in Threads, Exchange(t)
      PROVE  ~aborted'
  <2>1. CASE \/ pc[t] = "read2" /\ Read(t, 2, "write1")
             \/ pc[t] = "read1" /\ Read(t, 1, "close")
    BY <1>1, <2>1, SoloReads
  <2>2. CASE UNCHANGED aborted
    BY <1>1, <2>2
  <2> QED BY <1>2, <2>1, <2>2 DEF Exchange, Write, Select, Timeout
<1> QED
  BY <1>1, <1>2 DEF Next, Step, Begin, Announce, OpenPorts, Open, Close, Verdict,
                    Arrive, Replug, vars

LEMMA Invariance == Spec => []SoloInv
<1>1. SoloInv /\ [Next]_vars => SoloInv'
  BY WireStep, AloneStep, SoloHoldsStep, SoloWillReadStep, NoAbortStep DEF SoloInv
<1> QED BY <1>1, InitOK, PTL DEF Spec
-----------------------------------------------------------------------------
\* The state of the tests, the ports and the lines keeps its type.
THEOREM TypeCorrect == Spec => []TypeOK
<1>1. SoloInv => TypeOK
  BY DEF SoloInv, WireInv
<1> QED BY <1>1, Invariance, PTL

\* However tests overlap and wires are replugged between them, a test that is
\* about to report Success has both its ports, with both wires plugged in.
THEOREM PassWired == Spec => []PassMeansWired
<1>1. SoloInv => PassMeansWired
  BY DEF SoloInv, WireInv, PassHealthy, PassMeansWired
<1> QED BY <1>1, Invariance, PTL

\* The buffer of Uart::Read is never resized to -1 as long as the user runs
\* one test at a time.
THEOREM NeverAborts == Spec => []SoloNeverAborts
<1>1. SoloInv => SoloNeverAborts
  BY DEF SoloInv
<1> QED BY <1>1, Invariance, PTL
-----------------------------------------------------------------------------
\* One test at a time, on ports that hand over a text in one piece: a text is
\* under way, or received, only while the test waits for it on that port, and
\* it is the whole text.  It is missing only if the wire is, and a test that
\* ends without having passed has found its pair unsound.
WaitsFor(t, d) == pc[t] \in IF d = 1 THEN {"select1", "read1"} ELSE {"select2", "read2"}
Waiting == {"select1", "read1", "select2", "read2"}

Quiet ==
  solo /\ whole => \A p \in Port :
    \/ line[p] = <<>> /\ rx[p] = <<>>
    \/ \E t \in Threads, d \in {1, 2} : WaitsFor(t, d) /\ p = Of(t, d)

OneText ==
  solo /\ whole => \A t \in Threads, d \in {1, 2} : WaitsFor(t, d) =>
    \/ rx[Of(t, d)] = Text /\ line[Of(t, d)] = <<>>
    \/ /\ pc[t] \in {"select1", "select2"}
       /\ rx[Of(t, d)] = <<>>
       /\ line[Of(t, d)] = Text \/ (line[Of(t, d)] = <<>> /\ Of(t, d) \notin wired)

FailsUnsound ==
  solo /\ whole => \A t \in Threads :
    pc[t] \in {"close", "verdict"} => ok[t] \/ ~Healthy(job[t])

GoodInv == SoloInv /\ Quiet /\ OneText /\ FailsUnsound

\* Nothing is under way, and nothing received.
Empty == \A p \in Port : line[p] = <<>> /\ rx[p] = <<>>

LEMMA TextArrives ==
  /\ Text # <<>> /\ <<>> \o Text = Text
  /\ <<>> \o SubSeq(Text, 1, 2) = Text /\ SubSeq(Text, 3, Len(Text)) = <<>>
<1>1. Text \in Seq(Half) /\ Len(Text) = 2
  BY TextIsHalves
<1>2. Text # <<>> /\ <<>> \o Text = Text
  <2>1. Text # <<>>
    <3>1. Len(<<>>) = 0
      BY EmptySeq
    <3> QED BY <1>1, <3>1
  <2>2. <<>> \o Text = Text
    BY <1>1, ConcatEmptySeq
  <2> QED BY <2>1, <2>2
<1>3. SubSeq(Text, 1, 2) = Text /\ SubSeq(Text, 3, Len(Text)) = <<>>
  <2>1. SubSeq(Text, 1, 2) = Text
    BY <1>1, SubSeqFull
  <2>2. Len(Text) < 3 /\ Len(Text) \in Int
    BY <1>1
  <2> QED BY <2>1, <2>2, SubSeqEmpty
<1> QED BY <1>2, <1>3

LEMMA OthersIdle ==
  ASSUME GoodInv, solo, NEW t \in Threads, pc[t] # "idle"
  PROVE  \A u \in Threads \ {t} : pc[u] = "idle"
BY DEF GoodInv, SoloInv, OneAlive

\* Where the test that runs waits for nothing, nothing is there.
LEMMA EmptyBetween ==
  ASSUME GoodInv, solo, whole, NEW t \in Threads, pc[t] \notin Waiting \cup {"idle"}
  PROVE  Empty
BY OthersIdle DEF GoodInv, Quiet, WaitsFor, Waiting, Empty

\* A step of the test that runs to a place where it waits for nothing.
LEMMA EmptyAfter ==
  ASSUME GoodInv, solo, NEW t \in Threads, pc[t] # "idle",
         NEW l \in Label \ Waiting, Goto(t, l), Empty',
         l \in {"close", "verdict"} => ok'[t] \/ ~Healthy(job[t])',
         UNCHANGED solo
  PROVE  Quiet' /\ OneText' /\ FailsUnsound'
<1>1. \A u \in Threads \ {t} : pc'[u] = "idle"
  BY OthersIdle DEF Goto, GoodInv, SoloInv, WireInv, TypeOK
<1>2. pc'[t] = l
  BY DEF Goto, GoodInv, SoloInv, WireInv, TypeOK
<1>3. Quiet'
  BY DEF Quiet, Empty
<1>4. OneText'
  BY <1>1, <1>2 DEF OneText, WaitsFor, Waiting
<1>5. FailsUnsound'
  BY <1>1, <1>2 DEF FailsUnsound
<1> QED BY <1>3, <1>4, <1>5

\* Writing, where nothing is under way, puts the text on the wire, if there is one.
LEMMA GoodWrite ==
  ASSUME GoodInv, solo, whole, NEW t \in Threads, NEW d \in {1, 2}, Write(t, d),
         pc[t] \in Both \ Waiting, Goto(t, IF d = 1 THEN "select1" ELSE "select2")
  PROVE  Quiet' /\ OneText' /\ FailsUnsound'
<1>1. Empty
  BY EmptyBetween DEF Both, Waiting
<1>2. Of(t, d) \in Port
  BY PortsOfTest DEF GoodInv, SoloInv, WireInv
<1>3. 3 - d \in open[t]
  <2>1. open[t] = {1, 2}
    BY DEF GoodInv, SoloInv, SoloHolds
  <2> QED BY <2>1
<1>4. /\ rx' = rx /\ job' = job /\ wired' = wired
      /\ line' = IF Of(t, d) \in wired THEN [line EXCEPT ![Of(t, d)] = Text] ELSE line
  BY <1>1, <1>2, <1>3, TextArrives DEF Write, Empty, local
<1>5. \A u \in Threads \ {t} : pc'[u] = "idle"
  BY OthersIdle DEF Goto, GoodInv, SoloInv, WireInv, TypeOK, Both
<1>6. pc'[t] = IF d = 1 THEN "select1" ELSE "select2"
  BY DEF Goto, GoodInv, SoloInv, WireInv, TypeOK
<1>7. Quiet'
  BY <1>1, <1>4, <1>6 DEF Quiet, Empty, WaitsFor, Of
<1>8. \A e \in {1, 2} : WaitsFor(t, e)' => e = d
  BY <1>6 DEF WaitsFor
<1>9. OneText'
  <2>1. line \in [Port -> Seq(Half)]
    BY DEF GoodInv, SoloInv, WireInv, TypeOK
  <2>2. \/ line'[Of(t, d)] = Text
        \/ line'[Of(t, d)] = <<>> /\ Of(t, d) \notin wired
    BY <1>1, <1>2, <1>4, <2>1 DEF Empty
  <2>3. rx'[Of(t, d)] = <<>> /\ Of(t, d)' = Of(t, d)
    BY <1>1, <1>2, <1>4 DEF Empty, Of
  <2>4. \A u \in Threads \ {t}, e \in {1, 2} : ~WaitsFor(u, e)'
    BY <1>5 DEF WaitsFor
  <2> QED BY <1>4, <1>6, <1>8, <2>2, <2>3, <2>4 DEF OneText
<1>10. FailsUnsound'
  BY <1>5, <1>6 DEF FailsUnsound
<1> QED BY <1>7, <1>9, <1>10

\* Waiting ends with the text, or without it where the wire is missing.
LEMMA GoodWait ==
  ASSUME GoodInv, solo, whole, NEW t \in Threads, NEW d \in {1, 2},
         pc[t] = IF d = 1 THEN "select1" ELSE "select2",
         \/ Select(t, d) /\ Goto(t, IF d = 1 THEN "read1" ELSE "read2")
         \/ Timeout(t, d)
  PROVE  Quiet' /\ OneText' /\ FailsUnsound'
<1>1. /\ UNCHANGED <<solo, whole, present, wired, job, said, ok, open, line, rx, aborted>>
      /\ pc \in [Threads -> Label]
  BY DEF Select, Timeout, GoodInv, SoloInv, WireInv, TypeOK
<1>2. WaitsFor(t, d)
  BY DEF WaitsFor
<1>3. d \in open[t] /\ Of(t, d) \in Port
  <2>1. open[t] = {1, 2}
    BY DEF GoodInv, SoloInv, SoloHolds, Both
  <2> QED BY <2>1, PortsOfTest DEF GoodInv, SoloInv, WireInv
<1>4. \A u \in Threads \ {t} : pc[u] = "idle"
  BY OthersIdle
<1>5. CASE Select(t, d) /\ Goto(t, IF d = 1 THEN "read1" ELSE "read2")
  <2>1. rx[Of(t, d)] = Text /\ line[Of(t, d)] = <<>>
    BY <1>2, <1>3, <1>5 DEF Select, Ready, GoodInv, OneText
  <2>2. /\ pc'[t] = IF d = 1 THEN "read1" ELSE "read2"
        /\ \A u \in Threads \ {t} : pc'[u] = "idle"
    BY <1>1, <1>4, <1>5 DEF Goto
  <2>3. \A u \in Threads, e \in {1, 2} : WaitsFor(u, e)' <=> WaitsFor(u, e)
    BY <1>4, <2>2 DEF WaitsFor
  <2>4. \A u \in Threads, e \in {1, 2} : WaitsFor(u, e) => u = t /\ e = d
    BY <1>4 DEF WaitsFor
  <2>5. Quiet'
    BY <1>1, <2>3 DEF GoodInv, Quiet, Of
  <2>6. OneText'
    BY <1>1, <2>1, <2>3, <2>4 DEF OneText, Of
  <2>7. FailsUnsound'
    BY <2>2 DEF FailsUnsound
  <2> QED BY <2>5, <2>6, <2>7
<1>6. CASE Timeout(t, d)
  <2>1. line[Of(t, d)] = <<>> /\ rx[Of(t, d)] = <<>>
    BY <1>6 DEF Timeout, Silent
  <2>2. Of(t, d) \notin wired
    BY <1>2, <2>1, TextArrives DEF GoodInv, OneText
  <2>3. ~Healthy(job[t])
    BY <2>2, PortsOfTest DEF GoodInv, SoloInv, WireInv
  <2>4. \A u \in Threads, e \in {1, 2} : WaitsFor(u, e) => u = t /\ e = d
    BY <1>4 DEF WaitsFor
  <2>5. Empty'
    BY <1>1, <2>1, <2>4 DEF GoodInv, Quiet, Empty
  <2> QED BY <1>1, <1>6, <2>3, <2>5, EmptyAfter DEF Timeout, Healthy, Label, Waiting
<1> QED BY <1>5, <1>6

\* The text is read: there is nothing else, and the second one passes.
LEMMA GoodRead ==
  ASSUME GoodInv, solo, whole, NEW t \in Threads, NEW d \in {1, 2},
         pc[t] = IF d = 1 THEN "read1" ELSE "read2",
         Read(t, d, IF d = 1 THEN "close" ELSE "write1")
  PROVE  Quiet' /\ OneText' /\ FailsUnsound'
<1>1. WaitsFor(t, d)
  BY DEF WaitsFor
<1>2. d \in open[t] /\ Of(t, d) \in Port
  <2>1. open[t] = {1, 2}
    BY DEF GoodInv, SoloInv, SoloHolds, Both
  <2> QED BY <2>1, PortsOfTest DEF GoodInv, SoloInv, WireInv
<1>3. rx[Of(t, d)] = Text /\ line[Of(t, d)] = <<>>
  BY <1>1 DEF GoodInv, OneText
<1>4. /\ Goto(t, IF d = 1 THEN "close" ELSE "write1")
      /\ ok' = [ok EXCEPT ![t] = Passed(d, TRUE)]
      /\ rx' = [rx EXCEPT ![Of(t, d)] = <<>>]
      /\ UNCHANGED <<solo, whole, present, wired, job, line>>
  BY <1>2, <1>3, TextArrives DEF Read
<1>5. \A u \in Threads, e \in {1, 2} : WaitsFor(u, e) => u = t /\ e = d
  BY OthersIdle DEF WaitsFor
<1>6. Empty'
  <2>1. \A p \in Port \ {Of(t, d)} : line[p] = <<>> /\ rx[p] = <<>>
    BY <1>5 DEF GoodInv, Quiet
  <2> QED BY <1>2, <1>3, <1>4, <2>1 DEF Empty, GoodInv, SoloInv, WireInv, TypeOK
<1>7. d = 1 => ok'[t]
  BY <1>4 DEF Passed, GoodInv, SoloInv, WireInv, TypeOK
<1>8. (IF d = 1 THEN "close" ELSE "write1") \in Label \ Waiting
  BY DEF Label, Waiting
<1> QED BY <1>4, <1>6, <1>7, <1>8, EmptyAfter

LEMMA GoodArrive ==
  ASSUME GoodInv, solo, whole, NEW p \in Port, Arrive(p)
  PROVE  Quiet' /\ OneText' /\ FailsUnsound'
<1>1. PICK t \in Threads, d \in {1, 2} : WaitsFor(t, d) /\ p = Of(t, d)
  BY DEF Arrive, GoodInv, Quiet
<1>2. line[p] = Text /\ rx[p] = <<>> /\ pc[t] \in {"select1", "select2"}
  BY <1>1, TextArrives DEF Arrive, GoodInv, OneText
<1>3. Held(open, p)
  <2>1. open[t] = {1, 2}
    BY <1>1, <1>2 DEF GoodInv, SoloInv, SoloHolds, Both
  <2> QED BY <1>1, <2>1, PortsOfTest DEF Held, GoodInv, SoloInv, WireInv
<1>4. /\ rx' = [rx EXCEPT ![p] = Text] /\ line' = [line EXCEPT ![p] = <<>>]
      /\ UNCHANGED <<solo, whole, present, wired, local>>
  <2>1. 2 + 1 = 3
    OBVIOUS
  <2> QED BY <1>2, <1>3, <2>1, TextArrives DEF Arrive
<1>5. \A u \in Threads, e \in {1, 2} : WaitsFor(u, e) => u = t /\ e = d
  BY <1>1, <1>2, OthersIdle DEF WaitsFor
<1>6. Quiet'
  BY <1>1, <1>4 DEF GoodInv, Quiet, WaitsFor, Of, local
<1>7. OneText'
  BY <1>1, <1>4, <1>5 DEF OneText, WaitsFor, Of, local, GoodInv, SoloInv, WireInv, TypeOK
<1>8. FailsUnsound'
  BY <1>4 DEF GoodInv, FailsUnsound, Healthy, local
<1> QED BY <1>6, <1>7, <1>8

LEMMA GoodReplug ==
  ASSUME GoodInv, solo, whole, NEW p \in Port, Replug(p)
  PROVE  Quiet' /\ OneText' /\ FailsUnsound'
<1>1. /\ UNCHANGED <<solo, whole, present, pc, job, ok, rx>>
      /\ line' = [line EXCEPT ![p] = <<>>] /\ line \in [Port -> Seq(Half)]
  BY DEF Replug, local, GoodInv, SoloInv, WireInv, TypeOK
<1>2. ASSUME NEW t \in Threads, pc[t] # "idle", NEW d \in {1, 2}
      PROVE  /\ Of(t, d) # p /\ Of(t, d) \in Port
             /\ Of(t, d) \in wired <=> Of(t, d) \in wired'
  BY <1>2, PortsOfTest, UnderTestStays DEF Replug, Alive, GoodInv, SoloInv, WireInv
<1>3. Quiet'
  BY <1>1 DEF GoodInv, Quiet, WaitsFor, Of
<1>4. OneText'
  <2>1. \A t \in Threads, d \in {1, 2} : WaitsFor(t, d)' =>
          /\ WaitsFor(t, d) /\ Of(t, d)' = Of(t, d)
          /\ line'[Of(t, d)] = line[Of(t, d)] /\ rx'[Of(t, d)] = rx[Of(t, d)]
          /\ Of(t, d) \in wired <=> Of(t, d) \in wired'
    <3> TAKE t \in Threads, d \in {1, 2}
    <3> HAVE WaitsFor(t, d)'
    <3>1. WaitsFor(t, d) /\ Of(t, d)' = Of(t, d) /\ pc[t] # "idle"
      BY <1>1 DEF WaitsFor, Of
    <3> QED BY <1>1, <1>2, <3>1
  <2> QED BY <1>1, <2>1 DEF GoodInv, OneText
<1>5. FailsUnsound'
  <2> SUFFICES ASSUME NEW t \in Threads, pc[t] \in {"close", "verdict"}, ~Healthy(job[t])
               PROVE  ~Healthy(job[t])'
    BY <1>1 DEF GoodInv, FailsUnsound
  <2>1. ~({Of(t, 1), Of(t, 2)} \subseteq present \cap wired)
    BY PortsOfTest DEF GoodInv, SoloInv, WireInv
  <2>2. ~({Of(t, 1), Of(t, 2)} \subseteq present \cap wired')
    BY <1>2, <2>1
  <2>3. {job[t]} \X {1, 2} = {Of(t, 1), Of(t, 2)}
    BY DEF Of
  <2> QED BY <1>1, <2>2, <2>3 DEF Healthy
<1> QED BY <1>3, <1>4, <1>5

\* Opening and closing, before and after the exchange.
LEMMA GoodOutside ==
  ASSUME GoodInv, solo, whole, NEW t \in Threads,
         Begin(t) \/ Announce(t) \/ OpenPorts(t) \/ Close(t) \/ Verdict(t)
  PROVE  Quiet' /\ OneText' /\ FailsUnsound'
<1> USE DEF Goto, Label, Waiting
<1>1. UNCHANGED <<solo, whole, present, wired, job, line>>
  BY DEF Begin, Announce, OpenPorts, Open, Close, Verdict
<1>2. CASE Begin(t)
  <2>1. \A u \in Threads \ {t} : pc'[u] = "idle" /\ pc[u] = "idle"
    BY <1>2 DEF Begin, GoodInv, SoloInv, WireInv, TypeOK
  <2>2. pc[t] = "idle" /\ pc'[t] = "created" /\ rx' = rx
    BY <1>2 DEF Begin, GoodInv, SoloInv, WireInv, TypeOK
  <2>3. Quiet'
    BY <1>1, <2>1, <2>2 DEF GoodInv, Quiet, WaitsFor
  <2> QED BY <2>1, <2>2, <2>3 DEF OneText, WaitsFor, FailsUnsound
<1>3. CASE Announce(t)
  <2>1. Empty /\ rx' = rx
    BY <1>3, EmptyBetween DEF Announce
  <2> QED BY <1>1, <1>3, <2>1, EmptyAfter DEF Announce, Empty
<1>4. CASE OpenPorts(t)
  <2>1. Empty /\ pc[t] \in {"open1", "open2"}
    BY <1>4, EmptyBetween DEF OpenPorts
  <2>2. Empty'
    <3>1. \A p \in Port : rx'[p] = <<>>
      <4>1. CASE \E d \in {1, 2} : Open(t, d)
        BY <2>1, <4>1, PortsOfTest DEF Open, Empty, GoodInv, SoloInv, WireInv, TypeOK
      <4>2. CASE rx' = Received(open') \/ rx' = rx
        BY <2>1, <4>2 DEF Received, Empty
      <4> QED BY <1>4, <4>1, <4>2 DEF OpenPorts
    <3> QED BY <1>1, <2>1, <3>1 DEF Empty
  <2>3. ok' = ok
    BY <1>4 DEF OpenPorts, Open
  <2>4. PICK l \in {"open2", "write2", "close", "verdict"} :
          /\ pc' = [pc EXCEPT ![t] = l]
          /\ l \in {"close", "verdict"} => Of(t, 1) \notin present \/ Of(t, 2) \notin present
    BY <1>4 DEF OpenPorts
  <2>5. l \in {"close", "verdict"} => ~Healthy(job[t])'
    <3>1. l \in {"close", "verdict"} => ~Healthy(job[t])
      BY <2>4, PortsOfTest DEF GoodInv, SoloInv, WireInv
    <3> QED BY <1>1, <3>1 DEF Healthy
  <2> QED BY <1>1, <2>1, <2>2, <2>4, <2>5, EmptyAfter
<1>5. CASE Close(t)
  <2>1. Empty /\ pc[t] = "close" /\ ok' = ok
    BY <1>5, EmptyBetween DEF Close
  <2>2. Empty'
    BY <1>1, <1>5, <2>1 DEF Close, Empty, Received
  <2>3. ok'[t] \/ ~Healthy(job[t])'
    BY <1>1, <2>1 DEF GoodInv, FailsUnsound, Healthy
  <2> QED BY <1>1, <1>5, <2>1, <2>2, <2>3, EmptyAfter DEF Close
<1>6. CASE Verdict(t)
  <2>1. Empty /\ rx' = rx
    BY <1>6, EmptyBetween DEF Verdict
  <2> QED BY <1>1, <1>6, <2>1, EmptyAfter DEF Verdict, Empty
<1> QED BY <1>2, <1>3, <1>4, <1>5, <1>6

LEMMA GoodStep == GoodInv /\ [Next]_vars => Quiet' /\ OneText' /\ FailsUnsound'
<1> SUFFICES ASSUME GoodInv, [Next]_vars, solo', whole'
             PROVE  Quiet' /\ OneText' /\ FailsUnsound'
  BY DEF Quiet, OneText, FailsUnsound
<1>1. solo /\ whole
  BY DEF Next, Step, Begin, Announce, OpenPorts, Open, Exchange, Write, Select, Timeout,
         Read, Close, Verdict, Arrive, Replug, vars
<1>2. ASSUME NEW t \in Threads, Exchange(t)
      PROVE  Quiet' /\ OneText' /\ FailsUnsound'
  <2>1. CASE \E d \in {1, 2} : /\ Write(t, d) /\ pc[t] \in Both \ Waiting
                               /\ Goto(t, IF d = 1 THEN "select1" ELSE "select2")
    BY <1>1, <2>1, GoodWrite
  <2>2. CASE \E d \in {1, 2} :
               /\ pc[t] = IF d = 1 THEN "select1" ELSE "select2"
               /\ \/ Select(t, d) /\ Goto(t, IF d = 1 THEN "read1" ELSE "read2")
                  \/ Timeout(t, d)
    BY <1>1, <2>2, GoodWait
  <2>3. CASE \E d \in {1, 2} : /\ pc[t] = IF d = 1 THEN "read1" ELSE "read2"
                               /\ Read(t, d, IF d = 1 THEN "close" ELSE "write1")
    BY <1>1, <2>3, GoodRead
  <2> QED BY <1>2, <2>1, <2>2, <2>3 DEF Exchange, Both, Waiting
<1>3. CASE UNCHANGED vars
  BY <1>3 DEF vars, local, GoodInv, Quiet, OneText, FailsUnsound, WaitsFor, Of, Healthy
<1> QED
  BY <1>1, <1>2, <1>3, GoodOutside, GoodArrive, GoodReplug DEF Next, Step

LEMMA GoodInvariance == Spec => []GoodInv
<1>1. Init => Quiet /\ OneText /\ FailsUnsound
  BY DEF Init, Quiet, OneText, WaitsFor, FailsUnsound
<1>2. Init /\ SoloInv => GoodInv
  BY <1>1 DEF GoodInv
<1>3. GoodInv /\ SoloInv' /\ [Next]_vars => GoodInv'
  BY GoodStep DEF GoodInv
<1> QED BY <1>2, <1>3, Invariance, PTL DEF Spec

\* If the user runs one test at a time and the ports hand over a text in one
\* piece, a test passes exactly the pairs whose ports are there and wired.
THEOREM SoloPasses == Spec => []SoloPassesGoodPair
<1>1. GoodInv => SoloPassesGoodPair
  BY DEF GoodInv, FailsUnsound, SoloInv, WireInv, PassHealthy, SoloPassesGoodPair
<1> QED BY <1>1, GoodInvariance, PTL
=============================================================================
