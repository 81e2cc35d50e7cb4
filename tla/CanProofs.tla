------------------------------ MODULE CanProofs -----------------------------
(***************************************************************************)
(* For any number of overlapping CAN tests on any board, and wherever the  *)
(* program is ended: a run passes only where there is a bus, and when all  *)
(* runs are over the links are ready.  The second needs to know of each    *)
(* link how far which runs are with it: whoever has taken it down and not  *)
(* yet brought it up again will do so, and finds the test's bit rate       *)
(* either set or to be set.  A run that no other overlaps passes exactly   *)
(* where there is a bus, whatever state it finds the links in.             *)
(***************************************************************************)
EXTENDS CanTest, TLAPS

\* A run has taken c down and not given it its bit rate; it has, but not
\* brought c up; it has done all three.
Lowering(c) == IF c = "can0" THEN {"down1", "rate0"} ELSE {"rate0", "rate1"}
Raising(c) == IF c = "can0" THEN {"rate1", "up0"} ELSE {"up0", "up1"}
Past(c) == {"open0", "open1", "start", "send", "join", "verdict"}
             \cup (IF c = "can0" THEN {"up1"} ELSE {})
Served(t, c) == pc[t] \in Past(c) \/ said[t] \in Verdicts

UpIsThere == up \subseteq board.links

FrameNeedsBus == \A t \in Threads : frame[t] \/ recv[t] = "got" => Healthy

\* Once a run has set the bit rate of c, it stays.
RateIsKept ==
  \A c \in board.links, t \in Threads :
    pc[t] \in Raising(c) \/ Served(t, c) => rate[c] = TestRate

\* If c is up again before a run has set its bit rate, then because of a run
\* that had.
UpAtTestRate ==
  \A c \in board.links, t \in Threads :
    c \in up /\ pc[t] \in Lowering(c) => rate[c] = TestRate

\* If a run has brought c up and it is down, another one is about to bring it up.
UpOrOnTheWay ==
  \A c \in board.links, t \in Threads :
    Served(t, c) =>
      c \in up \/ \E u \in Threads : pc[u] \in Lowering(c) \cup Raising(c)

IInv == TypeOK /\ UpIsThere /\ FrameNeedsBus /\ RateIsKept /\ UpAtTestRate /\ UpOrOnTheWay
-----------------------------------------------------------------------------
LEMMA InitOK == Init => IInv
<1> SUFFICES ASSUME Init
             PROVE  IInv
  OBVIOUS
<1>1. TypeOK
  BY CanAssumption DEF Init, TypeOK, Board, Label, Result, Unbound
<1>2. UpIsThere
  BY CanAssumption DEF Init, UpIsThere
<1>3. FrameNeedsBus
  BY DEF Init, FrameNeedsBus
<1>4. \A t \in Threads : /\ pc[t] = "idle" /\ said[t] \notin Verdicts
  BY DEF Init, Verdicts, SetResAddedLogs
<1>5. RateIsKept /\ UpAtTestRate /\ UpOrOnTheWay
  BY <1>4 DEF RateIsKept, UpAtTestRate, UpOrOnTheWay, Served, Lowering, Raising, Past
<1> QED BY <1>1, <1>2, <1>3, <1>5 DEF IInv

\* The actions of a thread that leave the links alone.
Aside(t) ==
  \/ Begin(t) \/ Announce(t) \/ Sockets(t) \/ StartRecv(t)
  \/ Send(t) \/ Recv(t) \/ Join(t) \/ Verdict(t)

LEMMA TypeStep == TypeOK /\ [Next]_vars => TypeOK'
<1> SUFFICES ASSUME TypeOK, [Next]_vars
             PROVE  TypeOK'
  OBVIOUS
<1> USE DEF TypeOK, Goto, Label, Result
<1>1. ASSUME NEW t \in Threads, Begin(t) \/ Announce(t)
      PROVE  TypeOK'
  <2>1. said' \in [Threads -> Result] /\ pc' \in [Threads -> Label]
    BY <1>1 DEF Begin, Announce
  <2>2. alone' \in [Threads -> BOOLEAN]
    <3>1. CASE Announce(t)
      BY <3>1 DEF Announce
    <3>2. CASE Begin(t)
      <4> DEFINE others == {u \in Threads \ {t} : pc[u] # "idle"}
      <4> DEFINE next(u) == IF u = t THEN others = {} ELSE alone[u] /\ u \notin others
      <4>1. alone' = [u \in Threads |-> next(u)]
        BY <3>2 DEF Begin
      <4>2. \A u \in Threads : next(u) \in BOOLEAN
        BY Zenon
      <4> HIDE DEF next
      <4> QED BY <4>1, <4>2
    <3> QED BY <1>1, <3>1, <3>2
  <2>3. UNCHANGED <<board, up, rate, sending, bound, err, frame, recv>>
    BY <1>1 DEF Begin, Announce
  <2> QED BY <2>1, <2>2, <2>3
<1>2. ASSUME NEW t \in Threads, Links(t)
      PROVE  TypeOK'
  <2>1. PICK c \in Link, l \in Label : Down(t, c, l) \/ SetRate(t, c, l) \/ Up(t, c, l)
    BY <1>2 DEF Links, Link
  <2>2. CASE Down(t, c, l)
    BY <2>2 DEF Down
  <2>3. CASE SetRate(t, c, l)
    BY <2>3 DEF SetRate, BitRate, TestRate
  <2>4. CASE Up(t, c, l)
    BY <2>4 DEF Up
  <2> QED BY <2>1, <2>2, <2>3, <2>4
<1>3. ASSUME NEW t \in Threads, Sockets(t)
      PROVE  TypeOK'
  <2>1. PICK c \in Link, l \in Label : Open(t, c, l)
    BY <1>3 DEF Sockets, Link
  <2>2. Bindings(c) \subseteq Link \cup {"nothing", "any"}
    BY CanAssumption DEF Bindings, Board
  <2> QED BY <2>1, <2>2 DEF Open
<1>4. ASSUME NEW t \in Threads, StartRecv(t) \/ Join(t)
      PROVE  TypeOK'
  BY <1>4 DEF StartRecv, Join
<1>5. ASSUME NEW t \in Threads, Send(t)
      PROVE  TypeOK'
  BY <1>5 DEF Send
<1>6. ASSUME NEW t \in Threads, Recv(t)
      PROVE  TypeOK'
  BY <1>6 DEF Recv, Outcome
<1>7. ASSUME NEW t \in Threads, Verdict(t)
      PROVE  TypeOK'
  BY <1>7 DEF Verdict, SetResAddedLogs, Unbound
<1>8. CASE Transmit
  <2>1. frame' \in [Threads -> BOOLEAN]
    BY <1>8, Zenon DEF Transmit
  <2> QED BY <1>8, <2>1 DEF Transmit
<1>9. CASE Quit
  BY <1>9 DEF Quit, Unbound
<1>10. CASE UNCHANGED vars
  BY <1>10 DEF vars
<1> QED
  BY <1>1, <1>2, <1>3, <1>4, <1>5, <1>6, <1>7, <1>8, <1>9, <1>10 DEF Next, Step

\* A frame is received only when both links are up.
LEMMA FrameStep ==
  ASSUME IInv, [Next]_vars
  PROVE  UpIsThere' /\ FrameNeedsBus'
<1> USE DEF IInv, UpIsThere, FrameNeedsBus, Healthy
<1>1. ASSUME NEW t \in Threads, Links(t)
      PROVE  UpIsThere' /\ FrameNeedsBus'
  <2>1. PICK c \in Link, l \in Label : Down(t, c, l) \/ SetRate(t, c, l) \/ Up(t, c, l)
    BY <1>1 DEF Links, Link, Label
  <2> QED BY <2>1 DEF Down, SetRate, Up
<1>2. ASSUME NEW t \in Threads, Recv(t)
      PROVE  UpIsThere' /\ FrameNeedsBus'
  BY <1>2 DEF Recv, Outcome, TypeOK
<1>3. ASSUME NEW t \in Threads, Verdict(t) \/ StartRecv(t)
      PROVE  UpIsThere' /\ FrameNeedsBus'
  BY <1>3 DEF Verdict, StartRecv, TypeOK
<1>4. ASSUME NEW t \in Threads, Begin(t) \/ Announce(t) \/ Sockets(t) \/ Send(t) \/ Join(t)
      PROVE  UpIsThere' /\ FrameNeedsBus'
  <2>1. UNCHANGED <<board, up, frame, recv>>
    BY <1>4 DEF Begin, Announce, Sockets, Open, Send, Join
  <2> QED BY <2>1
<1>5. CASE Transmit
  <2>1. Healthy
    BY <1>5, CanAssumption DEF Transmit, Joined, TypeOK, Board
  <2> QED BY <1>5, <2>1 DEF Transmit
<1>6. CASE Quit
  BY <1>6 DEF Quit
<1>7. CASE UNCHANGED vars
  BY <1>7 DEF vars
<1> QED BY <1>1, <1>2, <1>3, <1>4, <1>5, <1>6, <1>7 DEF Next, Step

\* A step that touches neither a link nor how far a run is with it.
LEMMA LinksLeftAlone ==
  ASSUME IInv, UNCHANGED <<board, up, rate>>,
         \A t \in Threads, c \in Link :
           /\ Served(t, c)' => Served(t, c)
           /\ (pc'[t] \in Lowering(c)) = (pc[t] \in Lowering(c))
           /\ (pc'[t] \in Raising(c)) = (pc[t] \in Raising(c))
  PROVE  RateIsKept' /\ UpAtTestRate' /\ UpOrOnTheWay'
<1>1. board.links \subseteq Link
  BY CanAssumption DEF IInv, TypeOK, Board
<1>2. RateIsKept'
  BY <1>1 DEF IInv, RateIsKept
<1>3. UpAtTestRate'
  BY <1>1 DEF IInv, UpAtTestRate
<1>4. UpOrOnTheWay'
  BY <1>1 DEF IInv, UpOrOnTheWay
<1> QED BY <1>2, <1>3, <1>4

\* Going from label a to label l changes nothing for link c.
SameFor(a, l, c) ==
  /\ (l \in Lowering(c)) = (a \in Lowering(c))
  /\ (l \in Raising(c)) = (a \in Raising(c))
  /\ (l \in Past(c)) = (a \in Past(c))

\* A run takes c down: every other run that was past it now finds this one on
\* its way.
LEMMA DownStep ==
  ASSUME IInv, NEW t \in Threads, NEW c \in Link, NEW l \in Label, Down(t, c, l),
         l \in Lowering(c), l \notin Raising(c), l \notin Past(c),
         \A d \in Link \ {c} : SameFor(pc[t], l, d)
  PROVE  RateIsKept' /\ UpAtTestRate' /\ UpOrOnTheWay'
<1>1. board.links \subseteq Link
  BY CanAssumption DEF IInv, TypeOK, Board
<1>2. /\ up' = up \ {c} /\ UNCHANGED <<board, rate, said>>
      /\ pc' = [pc EXCEPT ![t] = l] /\ pc \in [Threads -> Label]
  BY DEF Down, Goto, IInv, TypeOK
<1>3. RateIsKept'
  BY <1>1, <1>2 DEF IInv, RateIsKept, Served, SameFor
<1>4. UpAtTestRate'
  BY <1>1, <1>2 DEF IInv, UpAtTestRate, SameFor
<1>5. UpOrOnTheWay'
  <2> SUFFICES ASSUME NEW d \in board.links, NEW u \in Threads, Served(u, d)'
               PROVE  d \in up' \/ \E v \in Threads : pc'[v] \in Lowering(d) \cup Raising(d)
    BY <1>2 DEF UpOrOnTheWay
  <2>1. CASE d = c
    BY <1>2, <2>1
  <2>2. CASE d # c
    <3>1. Served(u, d)
      BY <1>1, <1>2, <2>2 DEF Served, SameFor
    <3>2. d \in up \/ \E v \in Threads : pc[v] \in Lowering(d) \cup Raising(d)
      BY <3>1 DEF IInv, UpOrOnTheWay
    <3> QED BY <1>1, <1>2, <2>2, <3>2 DEF SameFor
  <2> QED BY <2>1, <2>2
<1> QED BY <1>3, <1>4, <1>5

\* A run sets the bit rate of c, or finds it set by the one that brought c up.
LEMMA RateStep ==
  ASSUME IInv, NEW t \in Threads, NEW c \in Link, NEW l \in Label, SetRate(t, c, l),
         pc[t] \in Lowering(c), l \in Raising(c), l \notin Lowering(c), l \notin Past(c),
         \A d \in Link \ {c} : SameFor(pc[t], l, d)
  PROVE  RateIsKept' /\ UpAtTestRate' /\ UpOrOnTheWay'
<1>1. board.links \subseteq Link
  BY CanAssumption DEF IInv, TypeOK, Board
<1>2. /\ UNCHANGED <<board, up, said>>
      /\ pc' = [pc EXCEPT ![t] = l] /\ pc \in [Threads -> Label]
  BY DEF SetRate, Goto, IInv, TypeOK
<1>3. \A d \in board.links : rate[d] = TestRate => rate'[d] = TestRate
  BY <1>1 DEF SetRate, IInv, TypeOK
<1>4. c \in board.links => rate'[c] = TestRate
  BY <1>1 DEF SetRate, IInv, TypeOK, UpAtTestRate
<1>5. RateIsKept'
  BY <1>1, <1>2, <1>3, <1>4 DEF IInv, RateIsKept, Served, SameFor
<1>6. UpAtTestRate'
  BY <1>1, <1>2, <1>3, <1>4 DEF IInv, UpAtTestRate, SameFor
<1>7. UpOrOnTheWay'
  <2> SUFFICES ASSUME NEW d \in board.links, NEW u \in Threads, Served(u, d)'
               PROVE  d \in up' \/ \E v \in Threads : pc'[v] \in Lowering(d) \cup Raising(d)
    BY <1>2 DEF UpOrOnTheWay
  <2>1. CASE d = c
    BY <1>2, <2>1
  <2>2. CASE d # c
    <3>1. Served(u, d)
      BY <1>1, <1>2, <2>2 DEF Served, SameFor
    <3>2. d \in up \/ \E v \in Threads : pc[v] \in Lowering(d) \cup Raising(d)
      BY <3>1 DEF IInv, UpOrOnTheWay
    <3> QED BY <1>1, <1>2, <2>2, <3>2 DEF SameFor
  <2> QED BY <2>1, <2>2
<1> QED BY <1>5, <1>6, <1>7

\* A run brings c up: it has a bit rate, the test's.
LEMMA UpStep ==
  ASSUME IInv, NEW t \in Threads, NEW c \in Link, NEW l \in Label, Up(t, c, l),
         pc[t] \in Raising(c), l \in Past(c), l \notin Lowering(c), l \notin Raising(c),
         \A d \in Link \ {c} : SameFor(pc[t], l, d)
  PROVE  RateIsKept' /\ UpAtTestRate' /\ UpOrOnTheWay'
<1>1. board.links \subseteq Link
  BY CanAssumption DEF IInv, TypeOK, Board
<1>2. c \in board.links => rate[c] = TestRate
  BY DEF IInv, RateIsKept
<1>3. /\ up' = up \cup ({c} \cap board.links) /\ UNCHANGED <<board, rate, said>>
      /\ pc' = [pc EXCEPT ![t] = l] /\ pc \in [Threads -> Label]
  BY <1>2 DEF Up, Goto, IInv, TypeOK, UpIsThere, TestRate
<1>4. RateIsKept'
  BY <1>1, <1>2, <1>3 DEF IInv, RateIsKept, Served, SameFor
<1>5. UpAtTestRate'
  BY <1>1, <1>2, <1>3 DEF IInv, UpAtTestRate, SameFor
<1>6. UpOrOnTheWay'
  <2> SUFFICES ASSUME NEW d \in board.links, NEW u \in Threads, Served(u, d)'
               PROVE  d \in up' \/ \E v \in Threads : pc'[v] \in Lowering(d) \cup Raising(d)
    BY <1>3 DEF UpOrOnTheWay
  <2>1. CASE d = c
    BY <1>3, <2>1
  <2>2. CASE d # c
    <3>1. Served(u, d)
      BY <1>1, <1>3, <2>2 DEF Served, SameFor
    <3>2. d \in up \/ \E v \in Threads : pc[v] \in Lowering(d) \cup Raising(d)
      BY <3>1 DEF IInv, UpOrOnTheWay
    <3> QED BY <1>1, <1>3, <2>2, <3>2 DEF SameFor
  <2> QED BY <2>1, <2>2
<1> QED BY <1>4, <1>5, <1>6

LEMMA LinkStep ==
  ASSUME IInv, [Next]_vars
  PROVE  RateIsKept' /\ UpAtTestRate' /\ UpOrOnTheWay'
<1> USE DEF Goto
<1>1. ASSUME NEW t \in Threads, Aside(t)
      PROVE  RateIsKept' /\ UpAtTestRate' /\ UpOrOnTheWay'
  <2>1. UNCHANGED <<board, up, rate>>
    BY <1>1 DEF Aside, Begin, Announce, Sockets, Open, StartRecv, Send, Recv, Join, Verdict
  <2> USE DEF Served, Lowering, Raising, Past, Verdicts, SetResAddedLogs
  <2>2. \A u \in Threads \ {t} : pc'[u] = pc[u] /\ said'[u] = said[u]
    BY <1>1 DEF Aside, Begin, Announce, Sockets, Open, StartRecv, Send, Recv, Join, Verdict,
                IInv, TypeOK
  <2>3. \A c \in Link :
          /\ Served(t, c)' => Served(t, c)
          /\ (pc'[t] \in Lowering(c)) = (pc[t] \in Lowering(c))
          /\ (pc'[t] \in Raising(c)) = (pc[t] \in Raising(c))
    <3> USE DEF IInv, TypeOK
    <3>1. CASE Begin(t) \/ Announce(t)
      <4>1. /\ pc[t] \in {"idle", "created"} /\ pc'[t] \in {"created", "down0"}
            /\ said'[t] \in {"NotTested", "Progress"}
        BY <3>1 DEF Begin, Announce
      <4> QED BY <4>1
    <3>2. CASE Sockets(t)
      <4>1. CASE pc[t] = "open0" /\ Open(t, "can0", "open1")
        BY <4>1 DEF Open
      <4>2. CASE pc[t] = "open1" /\ Open(t, "can1", "start")
        BY <4>2 DEF Open
      <4> QED BY <3>2, <4>1, <4>2, Zenon DEF Sockets
    <3>3. CASE StartRecv(t) \/ Send(t) \/ Join(t)
      BY <3>3 DEF StartRecv, Send, Join
    <3>4. CASE Recv(t)
      BY <3>4 DEF Recv
    <3>5. CASE Verdict(t)
      BY <3>5 DEF Verdict
    <3> QED BY <1>1, <3>1, <3>2, <3>3, <3>4, <3>5 DEF Aside
  <2>4. \A u \in Threads, c \in Link :
          /\ Served(u, c)' => Served(u, c)
          /\ (pc'[u] \in Lowering(c)) = (pc[u] \in Lowering(c))
          /\ (pc'[u] \in Raising(c)) = (pc[u] \in Raising(c))
    BY <2>2, <2>3
  <2> QED BY <2>1, <2>4, LinksLeftAlone
<1>2. ASSUME NEW t \in Threads, Links(t)
      PROVE  RateIsKept' /\ UpAtTestRate' /\ UpOrOnTheWay'
  <2> USE DEF Link, Label, Lowering, Raising, Past, SameFor
  <2>1. CASE pc[t] = "down0" /\ Down(t, "can0", "down1")
    BY <2>1, DownStep
  <2>2. CASE pc[t] = "down1" /\ Down(t, "can1", "rate0")
    BY <2>2, DownStep
  <2>3. CASE pc[t] = "rate0" /\ SetRate(t, "can0", "rate1")
    BY <2>3, RateStep
  <2>4. CASE pc[t] = "rate1" /\ SetRate(t, "can1", "up0")
    BY <2>4, RateStep
  <2>5. CASE pc[t] = "up0" /\ Up(t, "can0", "up1")
    BY <2>5, UpStep
  <2>6. CASE pc[t] = "up1" /\ Up(t, "can1", "open0")
    BY <2>6, UpStep
  <2> QED BY <1>2, <2>1, <2>2, <2>3, <2>4, <2>5, <2>6 DEF Links
<1>3. CASE Transmit
  BY <1>3, LinksLeftAlone DEF Transmit, Served
<1>4. CASE Quit
  <2>1. \A t \in Threads : /\ pc'[t] = "idle" /\ said'[t] \notin Verdicts
    BY <1>4 DEF Quit, Verdicts, SetResAddedLogs
  <2> QED BY <2>1 DEF RateIsKept, UpAtTestRate, UpOrOnTheWay, Served, Lowering, Raising, Past
<1>5. CASE UNCHANGED vars
  BY <1>5, LinksLeftAlone DEF vars, Served
<1> QED BY <1>1, <1>2, <1>3, <1>4, <1>5 DEF Next, Step, Aside
-----------------------------------------------------------------------------
LEMMA Invariance == Spec => []IInv
<1>1. Init => IInv
  BY InitOK
<1>2. IInv /\ [Next]_vars => IInv'
  BY TypeStep, FrameStep, LinkStep DEF IInv
<1> QED BY <1>1, <1>2, PTL DEF Spec

\* Every value the CAN test's variables take has its type, for any number of
\* runs and any boards.
THEOREM TypeCorrect == Spec => []TypeOK
<1>1. IInv => TypeOK
  BY DEF IInv
<1> QED BY <1>1, Invariance, PTL

\* No run passes on a board with a link missing or no bus between the links,
\* whatever other runs do to the links, whatever a socket for a missing link
\* is bound to, and whatever earlier starts of the program left behind.
THEOREM PassNeedsBus == Spec => []PassMeansBusWorks
<1>1. IInv => PassMeansBusWorks
  BY DEF IInv, FrameNeedsBus, PassMeansBusWorks
<1> QED BY <1>1, Invariance, PTL

\* When all runs are over and one has given a verdict, every link the board has
\* is up at the test's bit rate, however the runs overlapped.
THEOREM LinksReady == Spec => []LinksReadyWhenIdle
<1>1. IInv => LinksReadyWhenIdle
  <2> SUFFICES ASSUME IInv, \A t \in Threads : pc[t] = "idle",
                      NEW t \in Threads, said[t] \in Verdicts
               PROVE  up = board.links /\ \A c \in board.links : rate[c] = TestRate
    BY DEF LinksReadyWhenIdle
  <2>1. \A d \in board.links : d \in up /\ rate[d] = TestRate
    <3> SUFFICES ASSUME NEW d \in board.links
                 PROVE  d \in up /\ rate[d] = TestRate
      OBVIOUS
    <3>1. Served(t, d)
      BY DEF Served
    <3>2. \A u \in Threads : pc[u] \notin Lowering(d) \cup Raising(d)
      BY DEF Lowering, Raising
    <3> QED BY <3>1, <3>2 DEF IInv, RateIsKept, UpOrOnTheWay
  <2> QED BY <2>1 DEF IInv, UpIsThere
<1> QED BY <1>1, Invariance, PTL
-----------------------------------------------------------------------------
\* A run that no other overlaps.  Before its sockets are open a run leaves no
\* trace on them; a run that is alone on a board that can pass finds each link
\* as it has made it, and its frame is sent until it is received.
Unopened == {"idle", "created", "down0", "down1", "rate0", "rate1", "up0", "up1", "open0"}

StartsClean ==
  \A t \in Threads : pc[t] \in Unopened =>
    bound[t] = Unbound /\ err[t] = {} /\ ~frame[t] /\ recv[t] = "none"

OneAlone ==
  \A t \in Threads : alone[t] /\ pc[t] # "idle" => \A u \in Threads \ {t} : pc[u] = "idle"

LoneLinks(t) ==
  \A c \in Link :
    /\ pc[t] \in Lowering(c) \cup Raising(c) => c \notin up
    /\ pc[t] \in Past(c) => c \in up

LoneSockets(t) ==
  /\ err[t] = {}
  /\ pc[t] \notin Unopened => bound[t]["can0"] = "can0"
  /\ pc[t] \notin Unopened \cup {"open1"} => bound[t]["can1"] = "can1"

LoneFrame(t) ==
  /\ pc[t] \in {"send", "join"} => recv[t] \in {"waiting", "got"}
  /\ pc[t] = "join" => frame[t] \/ sending # {}
  /\ pc[t] = "verdict" => recv[t] = "got"

Lone(t) == Healthy /\ alone[t] /\ pc[t] # "idle"
LoneRuns == \A t \in Threads : Lone(t) => LoneLinks(t) /\ LoneSockets(t) /\ LoneFrame(t)

LoneInv == IInv /\ StartsClean /\ OneAlone /\ LoneRuns

LEMMA LoneInit == Init => StartsClean /\ OneAlone /\ LoneRuns
BY DEF Init, StartsClean, OneAlone, LoneRuns, Lone, Unopened

\* Begin is the only step another thread can take while a run is alone, and
\* ends that; any other step of a thread is about that thread alone.
LEMMA OwnStep ==
  ASSUME LoneInv, NEW u \in Threads, pc[u] # "idle", UNCHANGED <<board, alone>>,
         \A t \in Threads \ {u} : pc'[t] = pc[t],
         Lone(u)' => LoneLinks(u)' /\ LoneSockets(u)' /\ LoneFrame(u)'
  PROVE  OneAlone' /\ LoneRuns'
<1>1. OneAlone'
  BY DEF LoneInv, OneAlone
<1>2. \A t \in Threads \ {u} : ~Lone(t)'
  BY DEF LoneInv, OneAlone, Lone
<1> QED BY <1>1, <1>2 DEF LoneRuns

\* Taking the links down, configuring them and bringing them up.
LEMMA LoneOnLinks ==
  ASSUME LoneInv, NEW u \in Threads, Links(u)
  PROVE  StartsClean' /\ OneAlone' /\ LoneRuns'
<1> USE DEF LoneInv, IInv
<1>1. PICK c \in Link, l \in Unopened : Down(u, c, l) \/ SetRate(u, c, l) \/ Up(u, c, l)
  BY DEF Links, Link, Unopened
<1>2. /\ UNCHANGED <<board, alone, bound, frame, recv>>
      /\ pc' = [pc EXCEPT ![u] = l] /\ pc \in [Threads -> Label]
  BY <1>1 DEF Down, SetRate, Up, Goto, TypeOK
<1>3. pc[u] \in Unopened \ {"idle", "created"}
  BY DEF Links, Unopened
<1>4. \A t \in Threads : pc[t] \in Unopened => err'[t] = {}
  BY <1>1 DEF Down, SetRate, Up, StartsClean, Unbound, Link, TypeOK
<1>5. StartsClean'
  BY <1>2, <1>3, <1>4 DEF StartsClean
<1>6. ASSUME Lone(u)'
      PROVE  LoneLinks(u)' /\ LoneSockets(u)' /\ LoneFrame(u)'
  <2>1. Lone(u) /\ LoneLinks(u) /\ Healthy
    BY <1>2, <1>3, <1>6 DEF Lone, LoneRuns, Healthy
  <2>2. LoneLinks(u)'
    <3> USE DEF LoneLinks, Goto, Lowering, Raising, Past, Link, TypeOK
    <3>1. CASE pc[u] = "down0" /\ Down(u, "can0", "down1")
      BY <3>1, <2>1 DEF Down
    <3>2. CASE pc[u] = "down1" /\ Down(u, "can1", "rate0")
      BY <3>2, <2>1 DEF Down
    <3>3. CASE pc[u] = "rate0" /\ SetRate(u, "can0", "rate1")
      BY <3>3, <2>1 DEF SetRate
    <3>4. CASE pc[u] = "rate1" /\ SetRate(u, "can1", "up0")
      BY <3>4, <2>1 DEF SetRate
    <3>5. CASE pc[u] = "up0" /\ Up(u, "can0", "up1")
      <4>1. rate["can0"] = TestRate
        BY <3>5, <2>1 DEF RateIsKept, Healthy
      <4> QED BY <3>5, <2>1, <4>1 DEF Up, Healthy, TestRate
    <3>6. CASE pc[u] = "up1" /\ Up(u, "can1", "open0")
      <4>1. rate["can1"] = TestRate
        BY <3>6, <2>1 DEF RateIsKept, Healthy
      <4> QED BY <3>6, <2>1, <4>1 DEF Up, Healthy, TestRate
    <3> QED BY <3>1, <3>2, <3>3, <3>4, <3>5, <3>6 DEF Links
  <2> QED BY <2>2, <1>2, <1>3, <1>4 DEF LoneSockets, LoneFrame, Unopened
<1> QED BY <1>2, <1>3, <1>5, <1>6, OwnStep

\* Binding the sockets: on a board that can pass each link is there, and up.
LEMMA LoneOnSockets ==
  ASSUME LoneInv, NEW u \in Threads, Sockets(u)
  PROVE  StartsClean' /\ OneAlone' /\ LoneRuns'
<1> USE DEF LoneInv, IInv, Goto, TypeOK
<1>1. PICK c \in Link, l \in {"open1", "start"} :
        /\ Open(u, c, l)
        /\ pc[u] \in Past(c)
        /\ pc[u] = "open0" => c = "can0" /\ l = "open1"
        /\ pc[u] # "open0" => pc[u] = "open1" /\ c = "can1" /\ l = "start"
  <2>1. CASE pc[u] = "open0" /\ Open(u, "can0", "open1")
    BY <2>1 DEF Link, Past
  <2>2. CASE pc[u] = "open1" /\ Open(u, "can1", "start")
    BY <2>2 DEF Link, Past
  <2> QED BY <2>1, <2>2 DEF Sockets
<1>2. PICK b \in Bindings(c) :
        /\ bound' = [bound EXCEPT ![u][c] = b]
        /\ err' = IF b \in Link \ up THEN [err EXCEPT ![u] = @ \cup {c}] ELSE err
  BY <1>1 DEF Open
<1>3. UNCHANGED <<board, up, rate, sending, said, frame, recv, alone>> /\ pc'[u] = l
      /\ \A t \in Threads \ {u} : pc'[t] = pc[t]
  BY <1>1 DEF Open
<1>4. StartsClean'
  BY <1>1, <1>2, <1>3 DEF StartsClean, Unopened
<1>5. ASSUME Lone(u)'
      PROVE  LoneLinks(u)' /\ LoneSockets(u)' /\ LoneFrame(u)'
  <2>1. Lone(u) /\ LoneLinks(u) /\ LoneSockets(u) /\ Healthy
    BY <1>1, <1>3, <1>5 DEF Lone, LoneRuns, Healthy
  <2>2. b = c /\ c \in up
    BY <1>1, <1>2, <2>1 DEF Bindings, Healthy, LoneLinks
  <2>3. err' = err
    BY <1>2, <2>2
  <2>4. LoneLinks(u)'
    BY <1>1, <1>3, <2>1 DEF LoneLinks, Lowering, Raising, Past
  <2>5. LoneSockets(u)'
    BY <1>1, <1>2, <1>3, <2>1, <2>2, <2>3 DEF LoneSockets, Unopened, Link
  <2> QED BY <2>4, <2>5, <1>1, <1>3 DEF LoneFrame
<1> QED BY <1>1, <1>3, <1>4, <1>5, OwnStep

\* The frame: it goes out on can1 and stays there until a socket for can0 has
\* it, so that the wait cannot run out before.
LEMMA LoneOnFrame ==
  ASSUME LoneInv, NEW u \in Threads, StartRecv(u) \/ Send(u) \/ Recv(u) \/ Join(u)
  PROVE  StartsClean' /\ OneAlone' /\ LoneRuns'
<1> USE DEF LoneInv, IInv, Goto, TypeOK
<1>1. pc[u] \notin Unopened
  BY DEF StartRecv, Send, Recv, Join, StartsClean, Unopened
<1>2. /\ UNCHANGED <<board, up, rate, bound, frame, alone>>
      /\ \A t \in Threads \ {u} :
           pc'[t] = pc[t] /\ err'[t] = err[t] /\ recv'[t] = recv[t]
      /\ pc'[u] \in {pc[u], "send", "join", "verdict"}
  BY DEF StartRecv, Send, Recv, Join
<1>3. StartsClean'
  BY <1>1, <1>2 DEF StartsClean, Unopened
<1>4. ASSUME Lone(u)'
      PROVE  LoneLinks(u)' /\ LoneSockets(u)' /\ LoneFrame(u)'
  <2>1. Lone(u) /\ LoneLinks(u) /\ LoneSockets(u) /\ LoneFrame(u) /\ Healthy
    BY <1>1, <1>2, <1>4 DEF Lone, LoneRuns, Healthy, Unopened
  <2>2. pc[u] \in {"open1", "start", "send", "join", "verdict"}
    BY <1>1 DEF Unopened, Label
  <2>3. pc[u] # "open1" => up = Link
    BY <2>1, <2>2 DEF LoneLinks, Past, Link
  <2>4. CASE StartRecv(u)
    BY <2>1, <2>4 DEF StartRecv, LoneLinks, LoneSockets, LoneFrame, Lowering, Raising,
                      Past, Unopened
  <2>5. CASE Send(u)
    <3>1. "can1" \in sending'
      BY <2>1, <2>3, <2>5 DEF Send, LoneSockets, Unopened, Link
    <3> QED BY <2>1, <2>5, <3>1 DEF Send, LoneLinks, LoneSockets, LoneFrame, Lowering, Raising,
                                    Past, Unopened
  <2>6. CASE Recv(u)
    <3>1. pc[u] \in {"send", "join"} => recv'[u] = "got"
      <4>1. rate["can0"] = TestRate /\ rate["can1"] = TestRate
        BY <2>1, <2>2 DEF RateIsKept, Served, Past, Raising, Healthy, Link
      <4>2. pc[u] = "join" => Joined
        BY <4>1, <2>1, <2>3 DEF Joined, Healthy
      <4>3. frame[u]
        BY <4>2, <2>1, <2>6 DEF Recv, TimedOut, LoneSockets, LoneFrame
      <4> QED BY <4>3, <2>1, <2>6 DEF Recv, Outcome, LoneSockets
    <3>2. pc[u] = "verdict" => recv[u] # "waiting"
      BY <2>1 DEF LoneFrame
    <3> QED BY <2>1, <2>6, <3>1, <3>2 DEF Recv, LoneLinks, LoneSockets, LoneFrame
  <2>7. CASE Join(u)
    BY <2>1, <2>7 DEF Join, LoneLinks, LoneSockets, LoneFrame, Lowering, Raising, Past, Unopened
  <2> QED BY <2>4, <2>5, <2>6, <2>7
<1> QED BY <1>1, <1>2, <1>3, <1>4, OwnStep DEF Unopened

LEMMA LoneStep ==
  ASSUME LoneInv, IInv', [Next]_vars
  PROVE  StartsClean' /\ OneAlone' /\ LoneRuns'
<1> USE DEF LoneInv, IInv, TypeOK, Goto
<1>1. ASSUME NEW u \in Threads, Begin(u)
      PROVE  StartsClean' /\ OneAlone' /\ LoneRuns'
  <2>1. /\ UNCHANGED <<board, up, rate, sending, bound, err, frame, recv>>
        /\ pc[u] = "idle" /\ pc'[u] = "created"
        /\ \A t \in Threads \ {u} : pc'[t] = pc[t]
    BY <1>1 DEF Begin
  <2>2. StartsClean'
    BY <2>1 DEF StartsClean, Unopened
  <2>3. /\ alone'[u] = ({v \in Threads \ {u} : pc[v] # "idle"} = {})
        /\ \A t \in Threads \ {u} : alone'[t] = (alone[t] /\ pc[t] = "idle")
    BY <1>1, Zenon DEF Begin
  <2>4. OneAlone'
    BY <2>1, <2>3 DEF OneAlone
  <2>5. \A t \in Threads \ {u} : ~Lone(t)'
    BY <2>1, <2>3 DEF Lone
  <2>6. LoneLinks(u)' /\ LoneSockets(u)' /\ LoneFrame(u)'
    BY <2>1 DEF LoneLinks, LoneSockets, LoneFrame, StartsClean, Unopened, Lowering, Raising, Past
  <2> QED BY <2>2, <2>4, <2>5, <2>6 DEF LoneRuns
<1>2. ASSUME NEW u \in Threads, Announce(u)
      PROVE  StartsClean' /\ OneAlone' /\ LoneRuns'
  <2>1. /\ UNCHANGED <<board, up, rate, sending, bound, err, frame, recv, alone>>
        /\ pc[u] = "created" /\ pc'[u] = "down0"
        /\ \A t \in Threads \ {u} : pc'[t] = pc[t]
    BY <1>2 DEF Announce
  <2>2. StartsClean'
    BY <2>1 DEF StartsClean, Unopened
  <2>3. LoneLinks(u)' /\ LoneSockets(u)' /\ LoneFrame(u)'
    BY <2>1 DEF LoneLinks, LoneSockets, LoneFrame, StartsClean, Unopened, Lowering, Raising, Past
  <2> QED BY <2>1, <2>2, <2>3, OwnStep
<1>3. ASSUME NEW u \in Threads, Verdict(u)
      PROVE  StartsClean' /\ OneAlone' /\ LoneRuns'
  <2>1. /\ UNCHANGED <<board, alone>>
        /\ pc[u] = "verdict" /\ pc'[u] = "idle"
        /\ \A t \in Threads \ {u} :
             /\ pc'[t] = pc[t] /\ bound'[t] = bound[t] /\ err'[t] = err[t]
             /\ frame'[t] = frame[t] /\ recv'[t] = recv[t]
        /\ bound'[u] = Unbound /\ err'[u] = {} /\ ~frame'[u] /\ recv'[u] = "none"
    BY <1>3 DEF Verdict
  <2>2. StartsClean'
    BY <2>1 DEF StartsClean
  <2> QED BY <2>1, <2>2, OwnStep DEF Lone
<1>4. CASE Transmit
  <2>1. /\ UNCHANGED <<board, up, rate, pc, said, bound, err, recv, alone>>
        /\ \A t \in Threads : frame'[t] = (frame[t] \/ bound[t]["can0"] # "nothing")
    BY <1>4, Zenon DEF Transmit
  <2>2. StartsClean'
    BY <2>1 DEF StartsClean, Unbound, Link
  <2>3. OneAlone'
    BY <2>1 DEF OneAlone
  <2>4. ASSUME NEW t \in Threads, Lone(t)'
        PROVE  LoneLinks(t)' /\ LoneSockets(t)' /\ LoneFrame(t)'
    <3>1. LoneLinks(t) /\ LoneSockets(t) /\ LoneFrame(t)
      BY <2>1, <2>4 DEF Lone, LoneRuns, Healthy
    <3>2. pc[t] = "join" => frame'[t]
      BY <2>1, <3>1 DEF LoneSockets, Unopened
    <3> QED BY <2>1, <3>1, <3>2 DEF LoneLinks, LoneSockets, LoneFrame
  <2> QED BY <2>2, <2>3, <2>4 DEF LoneRuns
<1>5. CASE Quit
  BY <1>5 DEF Quit, StartsClean, OneAlone, LoneRuns, Lone
<1>6. CASE UNCHANGED vars
  BY <1>6 DEF vars, StartsClean, OneAlone, LoneRuns, Lone, LoneLinks, LoneSockets, LoneFrame,
              Healthy
<1> QED
  BY <1>1, <1>2, <1>3, <1>4, <1>5, <1>6, LoneOnLinks, LoneOnSockets, LoneOnFrame
  DEF Next, Step

LEMMA LoneInvariance == Spec => []LoneInv
<1>1. Init /\ IInv => LoneInv
  BY LoneInit DEF LoneInv
<1>2. LoneInv /\ IInv' /\ [Next]_vars => LoneInv'
  BY LoneStep DEF LoneInv
<1> QED BY <1>1, <1>2, Invariance, PTL DEF Spec

\* A run that no other overlaps passes exactly on a board with both links and a
\* bus between them, however the links were configured before, wherever
\* earlier runs were cut off and whatever frame they left unacknowledged.
THEOREM LoneRunRight == Spec => []LoneRunIsRight
<1>1. LoneInv => LoneRunIsRight
  BY DEF LoneInv, IInv, LoneRuns, Lone, LoneFrame, FrameNeedsBus, LoneRunIsRight
<1> QED BY <1>1, LoneInvariance, PTL
-----------------------------------------------------------------------------
\* The thread of TestThread that a run is.
StageOf == [t \in Threads |-> IF pc[t] \in {"idle", "created"} THEN pc[t] ELSE "running"]

\* A step within the test, that says nothing.
LEMMA Within ==
  ASSUME TypeOK, NEW t \in Threads, NEW l \in Label \ {"idle", "created"}, Goto(t, l),
         pc[t] \notin {"idle", "created"}
  PROVE  StageOf' = StageOf
BY DEF TypeOK, Goto, Label, StageOf

\* The runs are threads as TestThread describes them, in every run of the program.
THEOREM ThreadsImplemented == Spec => Promise!ThreadSpec
<1>1. Init => Promise!ThreadInit
  BY DEF Init, Promise!ThreadInit
<1>2. TypeOK /\ [Next]_vars => [Promise!ThreadNext]_(Promise!threadVars)
  <2> SUFFICES ASSUME TypeOK, [Next]_vars
               PROVE  Promise!ThreadNext \/ UNCHANGED <<StageOf, said>>
    BY DEF Promise!threadVars, StageOf
  <2>1. ASSUME NEW t \in Threads, Begin(t)
        PROVE  Promise!Start(t)
    BY <2>1 DEF Begin, Goto, TypeOK, Promise!Start
  <2>2. ASSUME NEW t \in Threads, Announce(t)
        PROVE  Promise!SayProgress(t)
    BY <2>2 DEF Announce, Goto, TypeOK, Promise!SayProgress
  <2>3. ASSUME NEW t \in Threads, Verdict(t)
        PROVE  Promise!SayVerdict(t)
    <3>1. \E r \in BOOLEAN : said' = [said EXCEPT ![t] = Promise!SetResAddedLogs(r)]
      BY <2>3 DEF TypeOK, Verdict, SetResAddedLogs, Promise!SetResAddedLogs
    <3> QED BY <2>3, <3>1 DEF Verdict, Goto, TypeOK, Promise!SayVerdict
  <2>4. ASSUME NEW t \in Threads, Links(t) \/ Sockets(t) \/ StartRecv(t) \/ Send(t) \/ Join(t)
        PROVE  UNCHANGED <<StageOf, said>>
    <3> USE DEF Label
    <3>1. CASE Links(t)
      BY <3>1, Within DEF Links, Down, SetRate, Up
    <3>2. CASE Sockets(t)
      BY <3>2, Within DEF Sockets, Open
    <3>3. CASE StartRecv(t) \/ Send(t) \/ Join(t)
      BY <3>3, Within DEF StartRecv, Send, Join
    <3> QED BY <2>4, <3>1, <3>2, <3>3
  <2>5. CASE (\E t \in Threads : Recv(t)) \/ Transmit \/ UNCHANGED vars
    <3>1. UNCHANGED <<pc, said>>
      BY <2>5 DEF Recv, Transmit, vars
    <3> QED BY <3>1 DEF StageOf
  <2>6. CASE Quit
    BY <2>6 DEF Quit, Promise!ThreadNext, Promise!Quit
  <2> QED BY <2>1, <2>2, <2>3, <2>4, <2>5, <2>6 DEF Next, Step, Promise!ThreadNext
<1> QED BY <1>1, <1>2, TypeCorrect, PTL DEF Spec, Promise!ThreadSpec
=============================================================================
