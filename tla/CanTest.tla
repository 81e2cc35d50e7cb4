------------------------------- MODULE CanTest ------------------------------
(***************************************************************************)
(* testCan: both links are taken down, given a bit rate and brought up,    *)
(* a socket is bound to each, and a frame sent on can1 must come in on     *)
(* can0, where a second thread waits for it for a second.  Nothing keeps   *)
(* two runs from doing this at the same time; closing the window cuts them *)
(* off wherever they are, and the next start of the program finds the      *)
(* links as they were left.                                                *)
(*                                                                         *)
(* Assumed of the kernel: a link takes a bit rate only while it is down,   *)
(* and comes up only with one; taking a link down drops what it has not    *)
(* sent and leaves an error on every socket bound to it, as does binding   *)
(* to a link that is down; the error fails the socket's next call.  A      *)
(* frame stays with its link until the other one acknowledges it, at once  *)
(* if it can, and is then echoed to the sockets of its own link.           *)
(***************************************************************************)
EXTENDS TestResult

CONSTANTS Threads,
          Boards        \* the boards a run may find

VARIABLES board,
          up, rate,     \* state of the two links
          sending,      \* the links that have a frame that is not acknowledged
          pc, said,
          bound,        \* what the thread's sockets for can0 and can1 are bound to
          err,          \* those of them with a pending error
          frame,        \* whether the socket for can0 has received the frame
          recv,         \* the receiving thread
          alone         \* history: no other run overlapped this one

vars == <<board, up, rate, sending, pc, said, bound, err, frame, recv, alone>>

Link == {"can0", "can1"}
\* Slip: a bit rate nobody else uses.
OddRate == "500000"

TestRate == "125000"
BitRate == {"none", "other", "125000"}
Board == [links : SUBSET Link, bus : BOOLEAN, up : SUBSET Link, rate : [Link -> BitRate]]

ASSUME CanAssumption == Boards \subseteq Board /\ \A b \in Boards : b.up \subseteq b.links

Label == {"idle", "created", "down0", "down1", "rate0", "rate1", "up0", "up1",
          "open0", "open1", "start", "send", "join", "verdict"}

TypeOK ==
  /\ board \in Boards
  /\ up \in SUBSET Link /\ rate \in [Link -> BitRate] /\ sending \in SUBSET Link
  /\ pc \in [Threads -> Label]
  /\ said \in [Threads -> Result]
  /\ bound \in [Threads -> [Link -> Link \cup {"nothing", "any"}]]
  /\ err \in [Threads -> SUBSET Link]
  /\ frame \in [Threads -> BOOLEAN]
  /\ recv \in [Threads -> {"none", "waiting", "got", "nothing"}]
  /\ alone \in [Threads -> BOOLEAN]

Unbound == [c \in Link |-> "nothing"]

\* The two ends of the bus understand each other.
Joined == board.bus /\ up = Link /\ rate["can0"] = rate["can1"]

Goto(t, l) == pc' = [pc EXCEPT ![t] = l]
-----------------------------------------------------------------------------
Init ==
  /\ board \in Boards
  /\ up = board.up /\ rate = board.rate /\ sending = {}
  /\ pc = [t \in Threads |-> "idle"]
  /\ said = [t \in Threads |-> "NotTested"]
  /\ bound = [t \in Threads |-> Unbound] /\ err = [t \in Threads |-> {}]
  /\ frame = [t \in Threads |-> FALSE]
  /\ recv = [t \in Threads |-> "none"]
  /\ alone = [t \in Threads |-> TRUE]

Begin(t) ==
  LET others == {u \in Threads \ {t} : pc[u] # "idle"}
  IN /\ pc[t] = "idle"
     /\ said' = [said EXCEPT ![t] = "NotTested"]
     /\ Goto(t, "created")
     /\ alone' = [u \in Threads |-> IF u = t THEN others = {} ELSE alone[u] /\ u \notin others]
     /\ UNCHANGED <<board, up, rate, sending, bound, err, frame, recv>>

Announce(t) ==
  /\ pc[t] = "created"
  /\ said' = [said EXCEPT ![t] = "Progress"]
  /\ Goto(t, "down0")
  /\ UNCHANGED <<board, up, rate, sending, bound, err, frame, recv, alone>>

\* ip link set c down; that a command fails is logged and nothing else.
Down(t, c, then) ==
  /\ up' = up \ {c}
  /\ err' = IF c \in up
            THEN [u \in Threads |-> err[u] \cup {r \in Link : bound[u][r] = c}] ELSE err
  /\ sending' = sending \ {c}
  /\ Goto(t, then)
  /\ UNCHANGED <<board, rate, said, bound, frame, recv, alone>>

\* ip link set c type can bitrate 125000
SetRate(t, c, then) ==
  /\ rate' = IF c \in board.links \ up THEN [rate EXCEPT ![c] = TestRate] ELSE rate
  /\ Goto(t, then)
  /\ UNCHANGED <<board, up, sending, said, bound, err, frame, recv, alone>>

\* ip link set c up
Up(t, c, then) ==
  /\ up' = IF c \in board.links /\ rate[c] # "none" THEN up \cup {c} ELSE up
  /\ Goto(t, then)
  /\ UNCHANGED <<board, rate, sending, said, bound, err, frame, recv, alone>>

\* Slips: the bit rates set before the links are down; can0 brought up twice.
LinksRateFirst(t) ==
  \/ pc[t] = "down0" /\ SetRate(t, "can0", "down1")
  \/ pc[t] = "down1" /\ SetRate(t, "can1", "rate0")
  \/ pc[t] = "rate0" /\ Down(t, "can0", "rate1")
  \/ pc[t] = "rate1" /\ Down(t, "can1", "up0")
  \/ pc[t] = "up0" /\ Up(t, "can0", "up1")
  \/ pc[t] = "up1" /\ Up(t, "can1", "open0")
LinksUpTwice(t) ==
  \/ pc[t] = "down0" /\ Down(t, "can0", "down1")
  \/ pc[t] = "down1" /\ Down(t, "can1", "rate0")
  \/ pc[t] = "rate0" /\ SetRate(t, "can0", "rate1")
  \/ pc[t] = "rate1" /\ SetRate(t, "can1", "up0")
  \/ pc[t] = "up0" /\ Up(t, "can0", "up1")
  \/ pc[t] = "up1" /\ Up(t, "can0", "open0")

Links(t) ==
  \/ pc[t] = "down0" /\ Down(t, "can0", "down1")
  \/ pc[t] = "down1" /\ Down(t, "can1", "rate0")
  \/ pc[t] = "rate0" /\ SetRate(t, "can0", "rate1")
  \/ pc[t] = "rate1" /\ SetRate(t, "can1", "up0")
  \/ pc[t] = "up0" /\ Up(t, "can0", "up1")
  \/ pc[t] = "up1" /\ Up(t, "can1", "open0")

\* What a socket for c is bound to: of a link that is not there SIOCGIFINDEX
\* finds no index, and ifr_ holds anything: no link's index, another link's, or
\* zero, which stands for all links.
Bindings(c) ==
  IF c \in board.links THEN {c} ELSE board.links \cup {"nothing", "any"}

\* CanBus::open; that it fails is not looked at.
Open(t, c, then) ==
  /\ \E l \in Bindings(c) :
       /\ bound' = [bound EXCEPT ![t][c] = l]
       /\ err' = IF l \in Link \ up THEN [err EXCEPT ![t] = @ \cup {c}] ELSE err
  /\ Goto(t, then)
  /\ UNCHANGED <<board, up, rate, sending, said, frame, recv, alone>>

Sockets(t) ==
  \/ pc[t] = "open0" /\ Open(t, "can0", "open1")
  \/ pc[t] = "open1" /\ Open(t, "can1", "start")

\* The receiving thread is started, and the frame written.
StartRecv(t) ==
  /\ pc[t] = "start"
  /\ recv' = [recv EXCEPT ![t] = "waiting"]
  /\ Goto(t, "send")
  /\ UNCHANGED <<board, up, rate, sending, said, bound, err, frame, alone>>

\* A socket for all links, or none, cannot send.
Send(t) ==
  /\ pc[t] = "send"
  /\ sending' = IF "can1" \in err[t] THEN sending ELSE sending \cup (up \cap {bound[t]["can1"]})
  /\ err' = [err EXCEPT ![t] = @ \ {"can1"}]
  /\ Goto(t, "join")
  /\ UNCHANGED <<board, up, rate, said, bound, frame, recv, alone>>

\* A frame reaches the sockets of the other link, and of its own.
Transmit ==
  /\ Joined
  /\ \E l \in sending : sending' = sending \ {l}
  /\ frame' = [t \in Threads |-> frame[t] \/ bound[t]["can0"] # "nothing"]
  /\ UNCHANGED <<board, up, rate, pc, said, bound, err, recv, alone>>

\* Slips: a timeout that counts as received; none at all.
OutcomeOk(t) == IF "can0" \in err[t] THEN "nothing" ELSE "got"
TimedOutNever(t) == FALSE

Outcome(t) == IF frame[t] /\ "can0" \notin err[t] THEN "got" ELSE "nothing"

\* The frame is sent and has not come.
TimedOut(t) == pc[t] = "join" /\ ~(sending # {} /\ Joined)

\* ThreadReceive: an error ends the wait, a frame ends it well, a
\* timeout badly.
Recv(t) ==
  /\ recv[t] = "waiting"
  /\ "can0" \in err[t] \/ frame[t] \/ TimedOut(t)
  /\ recv' = [recv EXCEPT ![t] = Outcome(t)]
  /\ UNCHANGED <<board, up, rate, sending, pc, said, bound, err, frame, alone>>

Join(t) ==
  /\ pc[t] = "join"
  /\ recv[t] \in {"got", "nothing"}
  /\ Goto(t, "verdict")
  /\ UNCHANGED <<board, up, rate, sending, said, bound, err, frame, recv, alone>>

\* The verdict, and the destructors of the sockets.
Verdict(t) ==
  /\ pc[t] = "verdict"
  /\ said' = [said EXCEPT ![t] = SetResAddedLogs(recv[t] = "got")]
  /\ bound' = [bound EXCEPT ![t] = Unbound] /\ err' = [err EXCEPT ![t] = {}]
  /\ frame' = [frame EXCEPT ![t] = FALSE]
  /\ recv' = [recv EXCEPT ![t] = "none"]
  /\ Goto(t, "idle")
  /\ UNCHANGED <<board, up, rate, sending, alone>>

\* The window is closed, and the program started again: its threads and sockets
\* are gone, the links stay as they are.
Quit ==
  /\ pc' = [t \in Threads |-> "idle"]
  /\ said' = [t \in Threads |-> "NotTested"]
  /\ bound' = [t \in Threads |-> Unbound] /\ err' = [t \in Threads |-> {}]
  /\ frame' = [t \in Threads |-> FALSE]
  /\ recv' = [t \in Threads |-> "none"]
  /\ alone' = [t \in Threads |-> TRUE]
  /\ UNCHANGED <<board, up, rate, sending>>

Step(t) ==
  Announce(t) \/ Links(t) \/ Sockets(t) \/ StartRecv(t) \/ Send(t) \/ Join(t) \/ Verdict(t)

Next ==
  \/ \E t \in Threads : Begin(t) \/ Step(t) \/ Recv(t)
  \/ Transmit
  \/ Quit

Spec == Init /\ [][Next]_vars

\* Both threads of a run are scheduled; the bus delivers what it can.
FairSpec ==
  /\ Spec
  /\ \A t \in Threads : WF_vars(Step(t)) /\ WF_vars(Recv(t))
  /\ WF_vars(Transmit)
-----------------------------------------------------------------------------
Healthy == board.links = Link /\ board.bus

\* However runs overlap, one passes only on a board whose bus carries frames.
PassMeansBusWorks ==
  \A t \in Threads : recv[t] = "got" => Healthy

\* A run that no other overlaps is right, however the links were configured at
\* boot, wherever earlier runs were cut off and whatever frame they left
\* unacknowledged.
LoneRunIsRight ==
  \A t \in Threads :
    pc[t] = "verdict" /\ alone[t] => (recv[t] = "got" <=> Healthy)

\* Once all runs are over, the links of the board are up at the test's rate,
\* in whatever order the runs took them down and brought them up, and however
\* runs of an earlier start of the program left them.
LinksReadyWhenIdle ==
  (\A t \in Threads : pc[t] = "idle") /\ (\E t \in Threads : said[t] \in Verdicts)
    => up = board.links /\ \A c \in board.links : rate[c] = TestRate

\* Every run announces Progress and ends with exactly one verdict.
Promise == INSTANCE TestThread
             WITH stage <- [t \in Threads |->
                              IF pc[t] \in {"idle", "created"} THEN pc[t] ELSE "running"]
KeepsThreadPromise == Promise!ThreadFairSpec
=============================================================================
