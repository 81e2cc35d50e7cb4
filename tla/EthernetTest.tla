---------------------------- MODULE EthernetTest ----------------------------
(***************************************************************************)
(* testEthernet: each of the two interfaces is moved to a network          *)
(* namespace of its own, and iperf measures the cable between them, a      *)
(* server in one namespace and a client in the other, both in the          *)
(* background.  Every command is a step.  Nothing keeps two runs apart:    *)
(* they share the names, the files "ethernet" and "speed_eth", which are   *)
(* never removed, and killall.  Closing the window cuts a run off between  *)
(* two commands: its processes, namespaces and files outlive the program,  *)
(* and the runs of its next start find them.                               *)
(*                                                                         *)
(* Assumed of the system: a namespace that has lost its name lasts as long *)
(* as a process in it, is then taken down by the kernel in its own time,   *)
(* and the interface returns unconfigured; a server is listening, and a    *)
(* namespace down, within the 50 ms the test waits for it; a client that   *)
(* can is done within the 20 s.                                            *)
(***************************************************************************)
EXTENDS FiniteSets, Naturals, TestResult

CONSTANTS Threads,
          Boards        \* the boards a run may find

VARIABLES board,
          plugged,      \* whether the cable is plugged in; the user may change it
          pc, said, ok,
          named,        \* the sides whose namespace has its name
          where,        \* where the interface of each side is
          addressed, up,        \* interfaces with an address, and set up
          inside,       \* whose iperf is in the side's named namespace
          keep,         \* whose iperf keeps a nameless one, and the interface in it
          busy,         \* servers that listen, clients that have connected
          disturbed,    \* clients that share the cable or "ethernet", or lost the cable
          report, speedEth,     \* the two files
          calm,         \* history: no other run, and no hand at the cable, since it began
          measured,     \* history: some client has finished since the run began
          restarted     \* history: the program has been started again

host == <<named, where, addressed, up, inside, keep>>
files == <<report, speedEth>>
vars == <<board, plugged, pc, said, ok, host, busy, disturbed, files, calm, measured, restarted>>

\* Whose an iperf is: a thread's, or of a program that has ended.
Owner == Threads \cup {"old"}

Side == {"server", "client"}    \* end0 and end1
Speed == {"slow", "fast"}       \* up to 900 Mbit/s, and more
Board == [ports : SUBSET Side, speed : Speed]

ASSUME EthernetAssumption == Boards \subseteq Board

Label == {"idle", "created", "addS", "addC", "moveS", "addrS", "upS", "moveC", "addrC", "upC",
          "serve", "client", "sleep", "awk", "awkEnd", "read", "killall", "delS", "delC",
          "settle", "verdict"}

\* Slip: a header is written first.
HeaderText == "header"

\* A file the shell has just truncated.
EmptyText == "empty"
Text == {"missing", "empty", "garbled"} \cup Speed

TypeOK ==
  /\ board \in Boards /\ plugged \in BOOLEAN
  /\ pc \in [Threads -> Label]
  /\ said \in [Threads -> Result]
  /\ ok \in [Threads -> BOOLEAN]
  /\ named \in SUBSET Side
  /\ where \in [Side -> {"host", "named", "nameless"}]
  /\ addressed \in SUBSET Side /\ up \in SUBSET Side
  /\ inside \in [Side -> SUBSET Owner] /\ keep \in [Side -> SUBSET Owner]
  /\ busy \in [Side -> SUBSET Owner]
  /\ disturbed \in SUBSET Owner
  /\ report \in Text /\ speedEth \in Text
  /\ calm \in [Threads -> BOOLEAN] /\ measured \in [Threads -> BOOLEAN]
  /\ restarted \in BOOLEAN

Goto(t, l) == pc' = [pc EXCEPT ![t] = l]
Active == {t \in Threads : pc[t] # "idle"}

\* The iperf processes of a side; those in the namespace its interface is in.
Running(s) == inside[s] \cup keep[s]
Joined(s) == CASE where[s] = "named" -> inside[s]
               [] where[s] = "nameless" -> keep[s]
               [] where[s] = "host" -> {}

\* Some server can be reached over the cable.
Path ==
  /\ plugged
  /\ Side \subseteq addressed \cap up
  /\ Joined("server") \cap busy["server"] # {}
-----------------------------------------------------------------------------
Init ==
  /\ board \in Boards /\ plugged \in BOOLEAN
  /\ pc = [t \in Threads |-> "idle"]
  /\ said = [t \in Threads |-> "NotTested"]
  /\ ok = [t \in Threads |-> FALSE]
  /\ named = {} /\ addressed = {} /\ up = {}
  /\ where = [s \in Side |-> "host"]
  /\ inside = [s \in Side |-> {}] /\ keep = [s \in Side |-> {}] /\ busy = [s \in Side |-> {}]
  /\ disturbed = {}
  /\ report = "missing" /\ speedEth = "missing"
  /\ calm = [t \in Threads |-> FALSE] /\ measured = [t \in Threads |-> FALSE]
  /\ restarted = FALSE

\* The user pulls the cable, or plugs it in.
Replug ==
  /\ plugged' = ~plugged
  /\ calm' = [t \in Threads |-> FALSE]
  /\ disturbed' = disturbed \cup busy["client"]
  /\ UNCHANGED <<board, pc, said, ok, host, busy, files, measured, restarted>>

\* No run is under way, and none that was cut off has left a client running or
\* an interface out of reach.
Undisturbed ==
  /\ Active = {}
  /\ restarted => Running("client") = {} /\ \A s \in Side : where[s] # "nameless"

\* Bound: in a program that has been started again, runs do not overlap.
Begin(t) ==
  /\ pc[t] = "idle"
  /\ restarted => Active = {}
  /\ said' = [said EXCEPT ![t] = "NotTested"]
  /\ calm' = [u \in Threads |-> IF u = t THEN Undisturbed ELSE calm[u] /\ u \notin Active]
  /\ Goto(t, "created")
  /\ UNCHANGED <<board, plugged, ok, host, busy, disturbed, files, measured, restarted>>

Announce(t) ==
  /\ pc[t] = "created"
  /\ said' = [said EXCEPT ![t] = "Progress"]
  /\ Goto(t, "addS")
  /\ UNCHANGED <<board, plugged, ok, host, busy, disturbed, files, calm, measured, restarted>>

\* What the ip commands leave alone.
IpFrame == UNCHANGED <<board, plugged, said, ok, busy, disturbed, files, calm, measured, restarted>>

\* ip netns add
AddNs(t, s, then) ==
  /\ named' = named \cup {s}
  /\ Goto(t, then)
  /\ UNCHANGED <<where, addressed, up, inside, keep>> /\ IpFrame

\* ip link set <interface> netns <namespace>
Move(t, s, then) ==
  /\ where' = IF s \in board.ports \cap named /\ where[s] = "host"
              THEN [where EXCEPT ![s] = "named"] ELSE where
  /\ Goto(t, then)
  /\ UNCHANGED <<named, addressed, up, inside, keep>> /\ IpFrame

\* ip netns exec <namespace> ip addr add, and ip link set up
Address(t, s, then) ==
  /\ addressed' = IF where[s] = "named" THEN addressed \cup {s} ELSE addressed
  /\ Goto(t, then)
  /\ UNCHANGED <<named, where, up, inside, keep>> /\ IpFrame
SetUp(t, s, then) ==
  /\ up' = IF where[s] = "named" THEN up \cup {s} ELSE up
  /\ Goto(t, then)
  /\ UNCHANGED <<named, where, addressed, inside, keep>> /\ IpFrame

Configure(t) ==
  \/ pc[t] = "addS" /\ AddNs(t, "server", "addC")
  \/ pc[t] = "addC" /\ AddNs(t, "client", "moveS")
  \/ pc[t] = "moveS" /\ Move(t, "server", "addrS")
  \/ pc[t] = "addrS" /\ Address(t, "server", "upS")
  \/ pc[t] = "upS" /\ SetUp(t, "server", "moveC")
  \/ pc[t] = "moveC" /\ Move(t, "client", "addrC")
  \/ pc[t] = "addrC" /\ Address(t, "client", "upC")
  \/ pc[t] = "upC" /\ SetUp(t, "client", "serve")

\* iperf in the background, if its namespace has its name.
Launch(t, s) ==
  inside' = IF s \in named THEN [inside EXCEPT ![s] = @ \cup {t}] ELSE inside

Serve(t) ==
  /\ pc[t] = "serve"
  /\ Launch(t, "server")
  /\ Goto(t, "client")
  /\ UNCHANGED <<named, where, addressed, up, keep>> /\ IpFrame

\* Slip: the report is appended to the file.
ClientReportAppended == report

\* The shell truncates "ethernet" before it starts the client.
ClientReport == EmptyText

\* usleep: the own server listens, or has given up.
Listening(t) == t \in Running("server") => t \in busy["server"]

\* The background shell truncates "ethernet" and turns into the client; nobody reads
\* the file before the sleep is over, so that both are one step.
Client(t) ==
  /\ pc[t] = "client"
  /\ Listening(t)
  /\ report' = ClientReport
  /\ Launch(t, "client")
  /\ disturbed' = IF Running("client") = {} THEN {}
                  ELSE disturbed \cup Running("client") \cup {t}
  /\ Goto(t, "sleep")
  /\ UNCHANGED <<board, plugged, said, ok, named, where, addressed, up, keep, busy, speedEth,
                 calm, measured, restarted>>

\* Slip: the client in the foreground.
SleptForClient(t) == t \notin Running("client")

\* sleep(20): the client is done, unless something has disturbed it.
Slept(t) == t \notin Running("client") \/ t \in busy["client"] \cap disturbed

\* awk ... ethernet > speed_eth, which is then read.
Measure(t) ==
  \/ /\ pc[t] = "sleep" /\ Slept(t)
     /\ Goto(t, "awk")
     /\ UNCHANGED <<ok, speedEth>>
  \/ /\ pc[t] = "awk"
     /\ speedEth' = EmptyText
     /\ Goto(t, "awkEnd")
     /\ UNCHANGED ok
  \/ /\ pc[t] = "awkEnd"
     /\ speedEth' = IF report \in Speed THEN report ELSE speedEth
     /\ Goto(t, "read")
     /\ UNCHANGED ok
  \/ /\ pc[t] = "read"
     /\ ok' = [ok EXCEPT ![t] = speedEth = "fast"]
     /\ Goto(t, "killall")
     /\ UNCHANGED speedEth

\* Slip: only the clients are killed.
VictimsClients == {"client"}

\* killall iperf, on both sides.
Victims == Side

Killall(t) ==
  /\ pc[t] = "killall"
  /\ inside' = [s \in Side |-> IF s \in Victims THEN {} ELSE inside[s]]
  /\ keep' = [s \in Side |-> IF s \in Victims THEN {} ELSE keep[s]]
  /\ busy' = [s \in Side |-> IF s \in Victims THEN {} ELSE busy[s]]
  /\ disturbed' = IF "client" \in Victims THEN {} ELSE disturbed
  /\ Goto(t, "delS")
  /\ UNCHANGED <<board, plugged, said, ok, named, where, addressed, up, files, calm, measured,
                 restarted>>

\* ip netns del: the name goes.
DelNs(t, s, then) ==
  /\ named' = named \ {s}
  /\ where' = IF where[s] = "named" THEN [where EXCEPT ![s] = "nameless"] ELSE where
  /\ keep' = IF where[s] = "named" THEN [keep EXCEPT ![s] = inside[s]] ELSE keep
  /\ inside' = [inside EXCEPT ![s] = {}]
  /\ Goto(t, then)
  /\ UNCHANGED <<addressed, up>> /\ IpFrame

Delete(t) ==
  \/ pc[t] = "delS" /\ DelNs(t, "server", "delC")
  \/ pc[t] = "delC" /\ DelNs(t, "client", "settle")

\* Slip: no usleep before the verdict.
SettledAtOnce == TRUE

\* usleep: what no process keeps is gone.
Settled == \A s \in Side : where[s] = "nameless" => keep[s] # {}

Settle(t) ==
  /\ pc[t] = "settle" /\ Settled
  /\ Goto(t, "verdict")
  /\ UNCHANGED <<board, plugged, said, ok, host, busy, disturbed, files, calm, measured, restarted>>

Verdict(t) ==
  /\ pc[t] = "verdict"
  /\ said' = [said EXCEPT ![t] = SetResAddedLogs(ok[t])]
  /\ ok' = [ok EXCEPT ![t] = FALSE]
  /\ calm' = [calm EXCEPT ![t] = FALSE] /\ measured' = [measured EXCEPT ![t] = FALSE]
  /\ Goto(t, "idle")
  /\ UNCHANGED <<board, plugged, host, busy, disturbed, files, restarted>>
-----------------------------------------------------------------------------
Survivors(owners) == IF owners = {} THEN {} ELSE {"old"}

\* The window is closed, and the program started again.  Bound: at most one
\* process of a side survives.
Quit ==
  /\ \A s \in Side : Cardinality(Running(s)) <= 1
  /\ pc' = [t \in Threads |-> "idle"]
  /\ said' = [t \in Threads |-> "NotTested"]
  /\ ok' = [t \in Threads |-> FALSE]
  /\ inside' = [s \in Side |-> Survivors(inside[s])]
  /\ keep' = [s \in Side |-> Survivors(keep[s])]
  /\ busy' = [s \in Side |-> Survivors(busy[s])]
  /\ disturbed' = Survivors(disturbed \cap Running("client"))
  /\ calm' = [t \in Threads |-> FALSE] /\ measured' = [t \in Threads |-> FALSE]
  /\ restarted' = TRUE
  /\ UNCHANGED <<board, plugged, named, where, addressed, up, files>>
-----------------------------------------------------------------------------
\* The background processes, each named by its owner, and the kernel.
Exit(t, s) ==
  /\ inside' = [inside EXCEPT ![s] = @ \ {t}]
  /\ keep' = [keep EXCEPT ![s] = @ \ {t}]

\* A server listens if it finds its address, and nobody else on it, or ends.
Listen(t) ==
  /\ t \in Running("server") \ busy["server"]
  /\ IF /\ t \in Joined("server") /\ "server" \in addressed
        /\ Joined("server") \cap busy["server"] = {}
     THEN busy' = [busy EXCEPT !["server"] = @ \cup {t}] /\ UNCHANGED <<inside, keep>>
     ELSE Exit(t, "server") /\ UNCHANGED busy
  /\ UNCHANGED <<board, plugged, pc, said, ok, named, where, addressed, up, disturbed, files,
                 calm, measured, restarted>>

\* A client connects, or ends.
Connect(t) ==
  /\ t \in Running("client") \ busy["client"]
  /\ IF t \in Joined("client") /\ Path
     THEN busy' = [busy EXCEPT !["client"] = @ \cup {t}] /\ UNCHANGED <<inside, keep, disturbed>>
     ELSE Exit(t, "client") /\ disturbed' = disturbed \ {t} /\ UNCHANGED busy
  /\ UNCHANGED <<board, plugged, pc, said, ok, named, where, addressed, up, files, calm,
                 measured, restarted>>

\* A client writes its report and ends; one that is disturbed measured part of
\* the cable's speed, or wrote what awk cannot read.
Finish(t) ==
  /\ t \in busy["client"] /\ Path
  /\ report' \in IF t \in disturbed THEN {board.speed, "slow", "garbled"} ELSE {board.speed}
  /\ measured' = [u \in Threads |-> measured[u] \/ u \in Active]
  /\ busy' = [busy EXCEPT !["client"] = @ \ {t}]
  /\ Exit(t, "client")
  /\ disturbed' = disturbed \ {t}
  /\ UNCHANGED <<board, plugged, pc, said, ok, named, where, addressed, up, speedEth, calm,
                 restarted>>

\* The kernel takes down a namespace without name and process.
Cleanup(s) ==
  /\ where[s] = "nameless" /\ keep[s] = {}
  /\ where' = [where EXCEPT ![s] = "host"]
  /\ addressed' = addressed \ {s} /\ up' = up \ {s}
  /\ UNCHANGED <<board, plugged, pc, said, ok, named, inside, keep, busy, disturbed, files,
                 calm, measured, restarted>>

Step(t) ==
  \/ Announce(t) \/ Configure(t) \/ Serve(t) \/ Client(t)
  \/ /\ Measure(t)
     /\ UNCHANGED <<board, plugged, said, host, busy, disturbed, report, calm, measured, restarted>>
  \/ Killall(t) \/ Delete(t) \/ Settle(t) \/ Verdict(t)

Iperf(t) == Listen(t) \/ Connect(t) \/ Finish(t)

Next ==
  \/ \E t \in Threads : Begin(t) \/ Step(t)
  \/ \E p \in Owner : Iperf(p)
  \/ \E s \in Side : Cleanup(s)
  \/ Replug \/ Quit

Spec == Init /\ [][Next]_vars

\* Threads and processes are scheduled, and the kernel tidies up; a run that
\* waits for that wakes up although another one may be at it again.
FairSpec ==
  /\ Spec
  /\ \A t \in Threads : WF_vars(Step(t)) /\ SF_vars(Settle(t))
  /\ \A p \in Owner : WF_vars(Iperf(p))
  /\ \A s \in Side : WF_vars(Cleanup(s))
-----------------------------------------------------------------------------
\* A run passes only on a fast board, and by what some client measured during
\* that run: a report left in the files by an earlier run, or by a program that
\* has ended, passes nobody.
PassWasMeasured ==
  \A t \in Threads :
    ok[t] => board.ports = Side /\ board.speed = "fast" /\ measured[t]

\* A run that no other overlaps, and whose cable nobody touches, is right,
\* whatever the runs before it did to each other, and wherever one was cut off
\* unless its client still runs or an interface is still away.
LoneRunIsRight ==
  \A t \in Threads :
    pc[t] = "verdict" /\ calm[t] =>
      (ok[t] <=> board.ports = Side /\ board.speed = "fast" /\ plugged)

\* Once all runs are over, however they overlapped, both interfaces are back,
\* and no namespace and no iperf is left; a run that ends puts back what one
\* that was cut off has left behind.
EverythingPutBack ==
  Active = {} /\ (\E t \in Threads : said[t] \in Verdicts) =>
    /\ named = {}
    /\ \A s \in Side : where[s] = "host" /\ Running(s) = {}

\* Every run announces Progress and ends with exactly one verdict, be it that
\* its client hangs for ever.
Promise == INSTANCE TestThread
             WITH stage <- [t \in Threads |->
                              IF pc[t] \in {"idle", "created"} THEN pc[t] ELSE "running"]
KeepsThreadPromise == Promise!ThreadFairSpec
=============================================================================
