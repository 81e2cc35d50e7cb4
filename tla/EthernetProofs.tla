--------------------------- MODULE EthernetProofs ---------------------------
(***************************************************************************)
(* For any number of overlapping Ethernet tests, on any board and wherever *)
(* the program is ended: no run passes by what was measured before it, the *)
(* last run puts everything back, and a run that no other overlaps finds a *)
(* host it can configure and judges by its own cable.                      *)
(***************************************************************************)
EXTENDS EthernetTest, TLAPS

\* An interface the board has not got is not moved, and not configured.
OnlyPorts == \A s \in Side : where[s] # "host" \/ s \in addressed \cup up => s \in board.ports

\* Whatever says fast comes from a fast board.
FastIsFast ==
  report = "fast" \/ speedEth = "fast" \/ (\E t \in Threads : ok[t]) =>
    board.ports = Side /\ board.speed = "fast"

\* A rate a run may still read in a file has been measured while it was under
\* way, since it has emptied the file itself.
ReportIsNew ==
  \A t \in Threads :
    pc[t] \in {"sleep", "awk", "awkEnd", "read"} /\ report \in Speed => measured[t]
SpeedIsNew ==
  \A t \in Threads : pc[t] \in {"awkEnd", "read"} /\ speedEth \in Speed => measured[t]
PassIsNew == \A t \in Threads : ok[t] => measured[t]

MeasureInv == TypeOK /\ OnlyPorts /\ FastIsFast /\ ReportIsNew /\ SpeedIsNew /\ PassIsNew
-----------------------------------------------------------------------------
LEMMA InitType == Init => TypeOK
<1> SUFFICES ASSUME Init
             PROVE  TypeOK
  OBVIOUS
<1> QED BY EthernetAssumption DEF Init, TypeOK, Label, Result, Text, Owner

LEMMA TypeStep == TypeOK /\ [Next]_vars => TypeOK'
<1> SUFFICES ASSUME TypeOK, [Next]_vars
             PROVE  TypeOK'
  OBVIOUS
<1> USE DEF TypeOK, Goto, Label, Result, Text, Speed, host, files, IpFrame
<1>1. ASSUME NEW t \in Threads, Begin(t)
      PROVE  TypeOK'
  <2>1. calm' \in [Threads -> BOOLEAN]
    BY <1>1, Zenon DEF Begin, Undisturbed
  <2> QED BY <1>1, <2>1 DEF Begin
<1>2. ASSUME NEW t \in Threads, Announce(t)
      PROVE  TypeOK'
  BY <1>2 DEF Announce
<1>3. ASSUME NEW t \in Threads, NEW s \in Side, NEW l \in Label,
             AddNs(t, s, l) \/ Move(t, s, l) \/ Address(t, s, l) \/ SetUp(t, s, l)
      PROVE  TypeOK'
  BY <1>3 DEF AddNs, Move, Address, SetUp
<1>4. ASSUME NEW t \in Threads, Configure(t)
      PROVE  TypeOK'
  BY <1>3, <1>4 DEF Configure, Side
<1>5. ASSUME NEW t \in Threads, Serve(t)
      PROVE  TypeOK'
  BY <1>5 DEF Serve, Launch, Owner, Side
<1>6. ASSUME NEW t \in Threads, Client(t)
      PROVE  TypeOK'
  BY <1>6 DEF Client, ClientReport, EmptyText, Launch, Owner, Side, Running
<1>7. ASSUME NEW t \in Threads, Measure(t),
             UNCHANGED <<board, plugged, said, host, busy, disturbed, report, calm, measured,
                         restarted>>
      PROVE  TypeOK'
  BY <1>7 DEF Measure, EmptyText
<1>8. ASSUME NEW t \in Threads, Killall(t)
      PROVE  TypeOK'
  BY <1>8 DEF Killall
<1>9. ASSUME NEW t \in Threads, NEW s \in Side, NEW l \in Label, DelNs(t, s, l)
      PROVE  TypeOK'
  BY <1>9 DEF DelNs
<1>10. ASSUME NEW t \in Threads, Delete(t)
      PROVE  TypeOK'
  BY <1>9, <1>10 DEF Delete, Side
<1>11. ASSUME NEW t \in Threads, Settle(t)
      PROVE  TypeOK'
  BY <1>11 DEF Settle
<1>12. ASSUME NEW t \in Threads, Verdict(t)
      PROVE  TypeOK'
  BY <1>12 DEF Verdict, SetResAddedLogs
<1>13. ASSUME NEW p \in Owner, Listen(p)
      PROVE  TypeOK'
  BY <1>13 DEF Listen, Exit, Side
<1>14. ASSUME NEW p \in Owner, Connect(p)
      PROVE  TypeOK'
  BY <1>14 DEF Connect, Exit, Side
<1>15. ASSUME NEW p \in Owner, Finish(p)
      PROVE  TypeOK'
  BY <1>15, EthernetAssumption DEF Finish, Exit, Side, Board
<1>16. ASSUME NEW s \in Side, Cleanup(s)
      PROVE  TypeOK'
  BY <1>16 DEF Cleanup
<1>17. CASE Replug
  BY <1>17 DEF Replug, Side
<1>18. CASE Quit
  BY <1>18 DEF Quit, Survivors, Owner
<1>19. CASE UNCHANGED vars
  BY <1>19 DEF vars
<1> QED BY <1>1, <1>2, <1>4, <1>5, <1>6, <1>7, <1>8, <1>10, <1>11, <1>12, <1>13, <1>14, <1>15,
           <1>16, <1>17, <1>18, <1>19 DEF Next, Step, Iperf
-----------------------------------------------------------------------------
LEMMA InitMeasure == Init => MeasureInv
<1> SUFFICES ASSUME Init
             PROVE  MeasureInv
  OBVIOUS
<1>1. OnlyPorts /\ FastIsFast /\ ReportIsNew /\ SpeedIsNew /\ PassIsNew
  BY DEF Init, OnlyPorts, FastIsFast, ReportIsNew, SpeedIsNew, PassIsNew, Speed
<1> QED BY <1>1, InitType DEF MeasureInv

LEMMA PortsStep == MeasureInv /\ [Next]_vars => OnlyPorts'
<1> SUFFICES ASSUME MeasureInv, [Next]_vars
             PROVE  OnlyPorts'
  OBVIOUS
<1> USE DEF MeasureInv, TypeOK, OnlyPorts, host
<1>1. ASSUME NEW t \in Threads, NEW s \in Side, NEW l,
             AddNs(t, s, l) \/ Move(t, s, l) \/ Address(t, s, l) \/ SetUp(t, s, l) \/ DelNs(t, s, l)
      PROVE  OnlyPorts'
  BY <1>1 DEF AddNs, Move, Address, SetUp, DelNs, IpFrame
<1>2. ASSUME NEW t \in Threads, Configure(t) \/ Delete(t)
      PROVE  OnlyPorts'
  BY <1>1, <1>2 DEF Configure, Delete, Side
<1>3. ASSUME NEW t \in Threads,
             \/ Begin(t) \/ Announce(t) \/ Serve(t) \/ Client(t) \/ Killall(t) \/ Settle(t)
             \/ Verdict(t)
             \/ UNCHANGED <<board, plugged, said, host, busy, disturbed, report, calm, measured,
                            restarted>>
      PROVE  OnlyPorts'
  BY <1>3 DEF Begin, Announce, Serve, IpFrame, Client, Killall, Settle, Verdict
<1>4. ASSUME NEW p \in Owner, Iperf(p)
      PROVE  OnlyPorts'
  BY <1>4 DEF Iperf, Listen, Connect, Finish
<1>5. ASSUME NEW s \in Side, Cleanup(s)
      PROVE  OnlyPorts'
  BY <1>5 DEF Cleanup
<1>6. CASE Replug \/ Quit \/ UNCHANGED vars
  BY <1>6 DEF Replug, Quit, vars
<1> QED BY <1>2, <1>3, <1>4, <1>5, <1>6 DEF Next, Step

\* A step that changes neither files nor verdicts, and takes no run to a place
\* where it will read.
LEMMA FilesLeftAlone ==
  ASSUME MeasureInv, UNCHANGED <<board, report, speedEth, ok, measured>>,
         NEW t \in Threads, NEW l \in Label \ {"sleep", "awk", "awkEnd", "read"},
         pc' = pc \/ Goto(t, l)
  PROVE  FastIsFast' /\ ReportIsNew' /\ SpeedIsNew' /\ PassIsNew'
BY DEF MeasureInv, TypeOK, FastIsFast, ReportIsNew, SpeedIsNew, PassIsNew, Goto, Label

LEMMA FilesStep ==
  MeasureInv /\ [Next]_vars => FastIsFast' /\ ReportIsNew' /\ SpeedIsNew' /\ PassIsNew'
<1> SUFFICES ASSUME MeasureInv, [Next]_vars
             PROVE  FastIsFast' /\ ReportIsNew' /\ SpeedIsNew' /\ PassIsNew'
  OBVIOUS
<1> USE DEF Label, files
<1> DEFINE Goal == FastIsFast' /\ ReportIsNew' /\ SpeedIsNew' /\ PassIsNew'
<1>1. ASSUME NEW t \in Threads, Begin(t) \/ Announce(t) \/ Configure(t) \/ Serve(t)
      PROVE  Goal
  BY <1>1, FilesLeftAlone
     DEF Begin, Announce, Configure, AddNs, Move, Address, SetUp, Serve, IpFrame
<1>2. ASSUME NEW t \in Threads, Killall(t) \/ Delete(t) \/ Settle(t)
      PROVE  Goal
  BY <1>2, FilesLeftAlone DEF Killall, Delete, DelNs, IpFrame, Settle
<1>3. ASSUME NEW t \in Threads, Client(t)
      PROVE  Goal
  BY <1>3 DEF MeasureInv, TypeOK, Client, ClientReport, EmptyText, Goto, Speed,
              FastIsFast, ReportIsNew, SpeedIsNew, PassIsNew
<1>4. ASSUME NEW t \in Threads, Measure(t), UNCHANGED <<board, report, measured>>
      PROVE  Goal
  BY <1>4 DEF MeasureInv, TypeOK, Measure, EmptyText, Goto, Speed,
              FastIsFast, ReportIsNew, SpeedIsNew, PassIsNew
<1>5. ASSUME NEW t \in Threads, Verdict(t)
      PROVE  Goal
  BY <1>5 DEF MeasureInv, TypeOK, Verdict, Goto,
              FastIsFast, ReportIsNew, SpeedIsNew, PassIsNew
<1>6. ASSUME NEW p \in Owner, Finish(p)
      PROVE  Goal
  <2>1. Side \subseteq board.ports /\ board.ports \subseteq Side
    BY <1>6, EthernetAssumption DEF Finish, Path, MeasureInv, OnlyPorts, TypeOK, Board
  <2>2. report' = "fast" => board.speed = "fast"
    BY <1>6 DEF Finish
  <2>3. /\ UNCHANGED <<board, pc, ok, speedEth>>
        /\ \A u \in Threads : measured'[u] = (measured[u] \/ pc[u] # "idle")
    BY <1>6, Zenon DEF Finish, Active
  <2> QED BY <2>1, <2>2, <2>3 DEF MeasureInv, FastIsFast, ReportIsNew, SpeedIsNew, PassIsNew
<1>7. ASSUME UNCHANGED <<board, pc, ok, report, speedEth, measured>>
      PROVE  Goal
  BY <1>7 DEF MeasureInv, FastIsFast, ReportIsNew, SpeedIsNew, PassIsNew
<1>8. ASSUME NEW p \in Owner, Listen(p) \/ Connect(p)
      PROVE  Goal
  BY <1>7, <1>8 DEF Listen, Connect
<1>9. CASE Replug \/ (\E s \in Side : Cleanup(s)) \/ UNCHANGED vars
  BY <1>7, <1>9 DEF Replug, Cleanup, vars
<1>10. CASE Quit
  BY <1>10 DEF Quit, MeasureInv, FastIsFast, ReportIsNew, SpeedIsNew, PassIsNew
<1> QED BY <1>1, <1>2, <1>3, <1>4, <1>5, <1>6, <1>8, <1>9, <1>10 DEF Next, Step, Iperf

LEMMA MeasureInvariance == Spec => []MeasureInv
<1>1. MeasureInv /\ [Next]_vars => MeasureInv'
  <2> SUFFICES ASSUME MeasureInv, [Next]_vars
               PROVE  MeasureInv'
    OBVIOUS
  <2>1. TypeOK'
    BY TypeStep DEF MeasureInv
  <2> QED BY <2>1, PortsStep, FilesStep DEF MeasureInv
<1> QED BY <1>1, InitMeasure, PTL DEF Spec

\* The variables keep their types.
THEOREM TypeCorrect == Spec => []TypeOK
<1>1. MeasureInv => TypeOK
  BY DEF MeasureInv
<1> QED BY <1>1, MeasureInvariance, PTL

\* However many runs overlap, one passes only on a fast board, and by what was
\* measured while it was under way.
THEOREM PassMeasured == Spec => []PassWasMeasured
<1>1. MeasureInv => PassWasMeasured
  BY DEF MeasureInv, FastIsFast, PassIsNew, PassWasMeasured
<1> QED BY <1>1, MeasureInvariance, PTL
-----------------------------------------------------------------------------
\* Where a run is yet to kill the iperfs, to delete the name of a side, and to
\* wait for the kernel.
ToKill == {"created", "addS", "addC", "moveS", "addrS", "upS", "moveC", "addrC", "upC",
           "serve", "client", "sleep", "awk", "awkEnd", "read", "killall"}
ToDelete(s) == ToKill \cup (IF s = "server" THEN {"delS"} ELSE {"delS", "delC"})
ToSettle == ToKill \cup {"delS", "delC", "settle"}

\* A run has come past a place, or has ended since the program was started.
Past(t, places) == pc[t] \in (Label \ {"idle"}) \ places \/ said[t] \in Verdicts
Coming(places) == \E t \in Threads : pc[t] \in places

\* What one run has left, or made again, for another that is under way: the
\* other is still to put it back.
NamedIsNamed == \A s \in Side : where[s] = "named" => s \in named
NameWillGo ==
  \A s \in Side, t \in Threads : Past(t, ToDelete(s)) /\ s \in named => Coming(ToDelete(s))
IperfWillEnd ==
  \A s \in Side, t \in Threads : Past(t, ToKill) /\ Running(s) # {} => Coming(ToKill)
PortWillReturn ==
  \A s \in Side, t \in Threads : Past(t, ToSettle) /\ where[s] # "host" => Coming(ToSettle)

PutBackInv == TypeOK /\ NamedIsNamed /\ NameWillGo /\ IperfWillEnd /\ PortWillReturn

LEMMA InitPutBack == Init => PutBackInv
<1> SUFFICES ASSUME Init
             PROVE  PutBackInv
  OBVIOUS
<1>1. NamedIsNamed
  BY DEF Init, NamedIsNamed
<1>2. NameWillGo /\ PortWillReturn
  BY DEF Init, NameWillGo, PortWillReturn
<1>3. IperfWillEnd
  BY DEF Init, IperfWillEnd, Running
<1> QED BY <1>1, <1>2, <1>3, InitType DEF PutBackInv

LEMMA NamedStep == PutBackInv /\ [Next]_vars => NamedIsNamed'
<1> SUFFICES ASSUME PutBackInv, [Next]_vars
             PROVE  NamedIsNamed'
  OBVIOUS
<1> USE DEF PutBackInv, TypeOK, NamedIsNamed, host
<1>1. ASSUME NEW t \in Threads, NEW s \in Side, NEW l,
             AddNs(t, s, l) \/ Move(t, s, l) \/ Address(t, s, l) \/ SetUp(t, s, l) \/ DelNs(t, s, l)
      PROVE  NamedIsNamed'
  BY <1>1 DEF AddNs, Move, Address, SetUp, DelNs
<1>2. ASSUME NEW t \in Threads, Configure(t) \/ Delete(t)
      PROVE  NamedIsNamed'
  BY <1>1, <1>2 DEF Configure, Delete, Side
<1>3. ASSUME NEW t \in Threads,
             \/ Begin(t) \/ Announce(t) \/ Serve(t) \/ Client(t) \/ Killall(t) \/ Settle(t)
             \/ Verdict(t)
             \/ UNCHANGED <<board, plugged, said, host, busy, disturbed, report, calm, measured,
                            restarted>>
      PROVE  NamedIsNamed'
  BY <1>3 DEF Begin, Announce, Serve, Client, Killall, Settle, Verdict
<1>4. ASSUME NEW p \in Owner, Iperf(p)
      PROVE  NamedIsNamed'
  BY <1>4 DEF Iperf, Listen, Connect, Finish
<1>5. ASSUME NEW s \in Side, Cleanup(s)
      PROVE  NamedIsNamed'
  BY <1>5 DEF Cleanup
<1>6. CASE Replug \/ Quit \/ UNCHANGED vars
  BY <1>6 DEF Replug, Quit, vars
<1> QED BY <1>2, <1>3, <1>4, <1>5, <1>6 DEF Next, Step

\* A run that is still to do everything vouches for all.
LEMMA RunUnderWay ==
  ASSUME NEW t \in Threads, pc'[t] \in ToKill
  PROVE  NameWillGo' /\ IperfWillEnd' /\ PortWillReturn'
BY DEF NameWillGo, IperfWillEnd, PortWillReturn, Coming, ToDelete, ToSettle

LEMMA EarlySteps ==
  ASSUME TypeOK, NEW t \in Threads,
         Begin(t) \/ Announce(t) \/ Configure(t) \/ Serve(t) \/ Client(t) \/ Measure(t)
  PROVE  pc'[t] \in ToKill
BY DEF TypeOK, Goto, ToKill, Begin, Announce, Configure, AddNs, Move, Address, SetUp, Serve, Client,
       Measure

\* Steps that only take things away.
LEMMA OnlyLess ==
  ASSUME PutBackInv, UNCHANGED <<pc, said>>, named' \subseteq named,
         \A s \in Side : Running(s)' \subseteq Running(s),
         \A s \in Side : where[s] = "host" => where'[s] = "host"
  PROVE  NameWillGo' /\ IperfWillEnd' /\ PortWillReturn'
BY DEF PutBackInv, NameWillGo, IperfWillEnd, PortWillReturn, Past, Coming

\* A run t that comes past places when another one is coming there, or was past
\* them already: that one is not t.
LEMMA AnotherOne ==
  ASSUME TypeOK, NEW t \in Threads, NEW l, Goto(t, l),
         NEW places, pc[t] \notin places, Coming(places)
  PROVE  Coming(places)'
<1>1. PICK u \in Threads : pc[u] \in places
  BY DEF Coming
<1>2. u # t /\ pc'[u] = pc[u]
  BY <1>1 DEF Goto, TypeOK
<1> QED BY <1>1, <1>2 DEF Coming

LEMMA LateSteps ==
  ASSUME PutBackInv, NEW t \in Threads, Killall(t) \/ Delete(t) \/ Settle(t) \/ Verdict(t)
  PROVE  NameWillGo' /\ IperfWillEnd' /\ PortWillReturn'
<1> USE DEF ToKill, ToDelete, ToSettle, Label
<1>1. /\ \A s \in Side : Past(t, ToDelete(s)) /\ s \in named => Coming(ToDelete(s))
      /\ \A s \in Side : Past(t, ToKill) /\ Running(s) # {} => Coming(ToKill)
      /\ \A s \in Side : Past(t, ToSettle) /\ where[s] # "host" => Coming(ToSettle)
      /\ \A s \in Side : where[s] = "named" => s \in named
      /\ TypeOK
  BY DEF PutBackInv, NameWillGo, IperfWillEnd, PortWillReturn, NamedIsNamed
<1>2. CASE Killall(t)
  <2>1. pc'[t] = "delS" /\ \A s \in Side : Running(s)' = {}
    BY <1>1, <1>2 DEF Killall, Victims, Running, Goto, TypeOK
  <2> QED BY <2>1 DEF NameWillGo, IperfWillEnd, PortWillReturn, Coming
<1>3. CASE Delete(t)
  <2>1. ASSUME NEW s \in Side, NEW l, DelNs(t, s, l)
        PROVE  /\ Goto(t, l) /\ pc'[t] = l /\ named' = named \ {s}
               /\ \A r \in Side : Running(r)' # {} => Running(r) # {}
    BY <1>1, <2>1 DEF DelNs, Goto, TypeOK, Running
  <2>2. CASE pc[t] = "delS" /\ DelNs(t, "server", "delC")
    <3>1. Coming(ToSettle)' /\ Coming(ToDelete("client"))'
      BY <2>1, <2>2 DEF Coming, Side
    <3>2. \A s \in Side : Running(s)' # {} => Coming(ToKill)'
      BY <1>1, <2>1, <2>2, AnotherOne DEF Past, Side
    <3> QED BY <2>1, <2>2, <3>1, <3>2 DEF NameWillGo, IperfWillEnd, PortWillReturn, Side
  <2>3. CASE pc[t] = "delC" /\ DelNs(t, "client", "settle")
    <3>1. Coming(ToSettle)'
      BY <2>1, <2>3 DEF Coming, Side
    <3>2. \A s \in Side : Running(s)' # {} => Coming(ToKill)'
      BY <1>1, <2>1, <2>3, AnotherOne DEF Past, Side
    <3>3. "server" \in named => Coming(ToDelete("server"))'
      BY <1>1, <2>1, <2>3, AnotherOne DEF Past, Side
    <3> QED BY <2>1, <2>3, <3>1, <3>2, <3>3 DEF NameWillGo, IperfWillEnd, PortWillReturn, Side
  <2> QED BY <1>3, <2>2, <2>3 DEF Delete
<1>4. CASE Settle(t) \/ Verdict(t)
  <2>1. /\ pc[t] \in {"settle", "verdict"}
        /\ Goto(t, IF pc[t] = "settle" THEN "verdict" ELSE "idle")
        /\ UNCHANGED <<named, where, inside, keep>>
    BY <1>4 DEF Settle, Verdict, host
  <2>2. \A s \in Side : s \in named' => Coming(ToDelete(s)) /\ Coming(ToDelete(s))'
    BY <1>1, <2>1, AnotherOne DEF Past, Side
  <2>3. \A s \in Side : Running(s) # {} => Coming(ToKill) /\ Coming(ToKill)'
    BY <1>1, <2>1, AnotherOne DEF Past
  <2>4. \A s \in Side : where'[s] # "host" => Coming(ToSettle)'
    <3>1. CASE Settle(t)
      <4>1. \A s \in Side : where[s] = "nameless" => Running(s) # {}
        BY <3>1 DEF Settle, Settled, Running
      <4>2. \A s \in Side : Coming(ToDelete(s))' \/ Coming(ToKill)' => Coming(ToSettle)'
        BY DEF Coming
      <4> QED BY <1>1, <2>1, <2>2, <2>3, <4>1, <4>2 DEF TypeOK
    <3>2. CASE Verdict(t)
      BY <1>1, <2>1, <3>2, AnotherOne DEF Past, Verdict
    <3> QED BY <1>4, <3>1, <3>2
  <2>5. \A s \in Side : Running(s)' = Running(s)
    BY <2>1 DEF Running
  <2> QED BY <2>2, <2>3, <2>4, <2>5 DEF NameWillGo, IperfWillEnd, PortWillReturn
<1> QED BY <1>2, <1>3, <1>4

LEMMA PutBackStep == PutBackInv /\ [Next]_vars => PutBackInv'
<1> SUFFICES ASSUME PutBackInv, [Next]_vars
             PROVE  PutBackInv'
  OBVIOUS
<1> DEFINE Goal == NameWillGo' /\ IperfWillEnd' /\ PortWillReturn'
<1>1. TypeOK'
  BY TypeStep DEF PutBackInv
<1>2. ASSUME NEW t \in Threads, Begin(t) \/ Step(t)
      PROVE  Goal
  BY <1>2, EarlySteps, RunUnderWay, LateSteps DEF Step, PutBackInv
<1>3. ASSUME NEW p \in Owner, Iperf(p)
      PROVE  Goal
  <2>1. UNCHANGED <<pc, said, named, where>>
    BY <1>3 DEF Iperf, Listen, Connect, Finish
  <2>2. \A s \in Side : Running(s)' \subseteq Running(s)
    BY <1>3 DEF Iperf, Listen, Connect, Finish, Exit, Running, PutBackInv, TypeOK
  <2> QED BY <2>1, <2>2, OnlyLess
<1>4. ASSUME NEW s \in Side, Cleanup(s)
      PROVE  Goal
  <2>1. UNCHANGED <<pc, said, named, inside, keep>> /\ where' = [where EXCEPT ![s] = "host"]
    BY <1>4 DEF Cleanup
  <2>2. /\ \A r \in Side : Running(r)' \subseteq Running(r)
        /\ \A r \in Side : where[r] = "host" => where'[r] = "host"
    BY <2>1 DEF Running, PutBackInv, TypeOK
  <2> QED BY <2>1, <2>2, OnlyLess
<1>5. ASSUME Replug \/ UNCHANGED vars
      PROVE  Goal
  <2>1. UNCHANGED <<pc, said, named, where, inside, keep>>
    BY <1>5 DEF Replug, vars, host
  <2>2. \A r \in Side : Running(r)' \subseteq Running(r)
    BY <2>1 DEF Running
  <2> QED BY <2>1, <2>2, OnlyLess
<1>6. ASSUME Quit
      PROVE  Goal
  <2>1. \A t \in Threads : pc'[t] = "idle" /\ said'[t] \notin Verdicts
    BY <1>6 DEF Quit, Verdicts, SetResAddedLogs
  <2> QED BY <2>1 DEF NameWillGo, IperfWillEnd, PortWillReturn, Past
<1> QED BY <1>1, <1>2, <1>3, <1>4, <1>5, <1>6, NamedStep DEF Next, PutBackInv

LEMMA AllIsBack == PutBackInv => EverythingPutBack
<1> SUFFICES ASSUME PutBackInv, Active = {}, NEW t \in Threads, said[t] \in Verdicts
             PROVE  named = {} /\ \A s \in Side : where[s] = "host" /\ Running(s) = {}
  BY DEF EverythingPutBack
<1>1. \A u \in Threads : pc[u] = "idle"
  BY DEF Active
<1>2. ~Coming(ToKill) /\ ~Coming(ToSettle) /\ \A s \in Side : ~Coming(ToDelete(s))
  BY <1>1 DEF Coming, ToKill, ToSettle, ToDelete
<1> QED BY <1>2 DEF PutBackInv, TypeOK, NameWillGo, IperfWillEnd, PortWillReturn, Past

\* Once all runs are over nothing of them is left on the host.
THEOREM PutBack == Spec => []EverythingPutBack
BY AllIsBack, InitPutBack, PutBackStep, PTL DEF Spec
-----------------------------------------------------------------------------
(***************************************************************************)
(* LoneRunIsRight.  What a run finds depends on the host it begins on: the *)
(* processes that use the cable are where the interface is, and before the *)
(* first run of a program nothing has been touched.  From there on a run   *)
(* that is alone is followed command by command: the interfaces the board  *)
(* has are configured, some server listens (its own, or one an earlier     *)
(* program left), its client reports the board's speed if it can, and the  *)
(* report gets through both files.                                         *)
(***************************************************************************)
HostInv ==
  \A s \in Side : busy[s] \subseteq Joined(s) /\ (keep[s] # {} => where[s] = "nameless")

Unused ==
  ~restarted /\ (\A t \in Threads : pc[t] = "idle" /\ said[t] \notin Verdicts) =>
    \A s \in Side : where[s] = "host" /\ Running(s) = {}

\* Where a run has done something to a side, and is yet to kill the iperfs.
Working == {"serve", "client", "sleep", "awk", "awkEnd", "read", "killall"}
AfterUp(s) == Working \cup (IF s = "server" THEN {"moveC", "addrC", "upC"} ELSE {})
AfterAddress(s) == AfterUp(s) \cup (IF s = "server" THEN {"upS"} ELSE {"upC"})
AfterMove(s) == AfterAddress(s) \cup (IF s = "server" THEN {"addrS"} ELSE {"addrC"})
AfterAdd(s) ==
  AfterMove(s) \cup {"moveS"}
    \cup (IF s = "server" THEN {"addC"} ELSE {"addrS", "upS", "moveC"})

Configured(t) ==
  \A s \in Side :
    /\ pc[t] \in ToKill => where[s] # "nameless"
    /\ pc[t] \in AfterAdd(s) => s \in named
    /\ s \in board.ports =>
         /\ pc[t] \in AfterMove(s) => where[s] = "named"
         /\ pc[t] \in AfterAddress(s) => s \in addressed
         /\ pc[t] \in AfterUp(s) => s \in up

Served == "server" \in board.ports => Joined("server") \cap busy["server"] # {}

Serving(t) ==
  /\ pc[t] = "client" => t \in Running("server") \/ Served
  /\ pc[t] = "sleep" => Served

\* What a client reports that nobody disturbs.
Rate == IF board.ports = Side /\ plugged THEN board.speed ELSE EmptyText

Measuring(t) ==
  /\ pc[t] \in ToKill \ {"sleep"} => Running("client") = {}
  /\ pc[t] = "sleep" =>
       /\ Running("client") \subseteq {t} /\ disturbed = {}
       /\ report = IF t \in Running("client") THEN EmptyText ELSE Rate
  /\ pc[t] \in {"awk", "awkEnd", "read"} => report = Rate
  /\ pc[t] = "awkEnd" => speedEth = EmptyText
  /\ pc[t] = "read" => speedEth = Rate
  /\ pc[t] \in {"killall", "delS", "delC", "settle", "verdict"} => (ok[t] <=> Rate = "fast")

LoneRun(t) == Configured(t) /\ Serving(t) /\ Measuring(t)

Alone == \A t \in Threads : calm[t] => Active = {t}
LoneRuns == \A t \in Threads : calm[t] => LoneRun(t)

LoneInv == MeasureInv /\ PutBackInv /\ HostInv /\ Unused /\ Alone /\ LoneRuns

LEMMA HostStep ==
  ASSUME TypeOK, HostInv, [Next]_vars
  PROVE  HostInv'
<1> USE DEF TypeOK, HostInv, Joined, host
<1>1. ASSUME UNCHANGED <<where, inside, keep, busy>>
      PROVE  HostInv'
  BY <1>1
<1>2. ASSUME NEW t \in Threads, NEW s \in Side, NEW l,
             AddNs(t, s, l) \/ Move(t, s, l) \/ Address(t, s, l) \/ SetUp(t, s, l) \/ DelNs(t, s, l)
      PROVE  HostInv'
  BY <1>2 DEF AddNs, Move, Address, SetUp, DelNs, IpFrame
<1>3. ASSUME NEW t \in Threads, Configure(t) \/ Delete(t)
      PROVE  HostInv'
  BY <1>2, <1>3 DEF Configure, Delete, Side
<1>4. ASSUME NEW t \in Threads, Serve(t) \/ Client(t)
      PROVE  HostInv'
  <2>1. /\ UNCHANGED <<where, keep, busy>>
        /\ \A s \in Side : inside[s] \subseteq inside'[s]
    BY <1>4 DEF Serve, Client, Launch, IpFrame, Side
  <2> QED BY <2>1
<1>5. ASSUME NEW t \in Threads, Killall(t)
      PROVE  HostInv'
  BY <1>5 DEF Killall, Victims
<1>6. ASSUME NEW t \in Threads,
             Begin(t) \/ Announce(t) \/ Settle(t) \/ Verdict(t) \/ UNCHANGED <<host, busy>>
      PROVE  HostInv'
  BY <1>1, <1>6 DEF Begin, Announce, Settle, Verdict
<1>7. ASSUME NEW p \in Owner, Listen(p) \/ Connect(p) \/ Finish(p)
      PROVE  HostInv'
  BY <1>7 DEF Listen, Connect, Finish, Exit, Running, Side
<1>8. ASSUME NEW s \in Side, Cleanup(s)
      PROVE  HostInv'
  BY <1>8 DEF Cleanup
<1>9. CASE Replug \/ UNCHANGED vars
  BY <1>1, <1>9 DEF Replug, vars
<1>10. CASE Quit
  BY <1>10 DEF Quit, Survivors
<1> QED BY <1>3, <1>4, <1>5, <1>6, <1>7, <1>8, <1>9, <1>10 DEF Next, Step, Iperf

LEMMA UnusedStep ==
  ASSUME TypeOK, Unused, [Next]_vars
  PROVE  Unused'
<1>1. ASSUME NEW t \in Threads, Begin(t) \/ Step(t)
      PROVE  pc'[t] # "idle" \/ said'[t] \in Verdicts
  <2>1. CASE Verdict(t)
    BY <2>1 DEF Verdict, Verdicts, TypeOK
  <2>2. CASE Begin(t) \/ Announce(t) \/ Serve(t) \/ Client(t) \/ Killall(t) \/ Settle(t)
    BY <2>2 DEF Begin, Announce, Serve, Client, Killall, Settle, Goto, TypeOK
  <2>3. CASE Configure(t) \/ Delete(t)
    BY <2>3 DEF Configure, Delete, AddNs, Move, Address, SetUp, DelNs, Goto, TypeOK
  <2>4. CASE Measure(t)
    BY <2>4 DEF Measure, Goto, TypeOK
  <2> QED BY <1>1, <2>1, <2>2, <2>3, <2>4 DEF Step
<1>2. ASSUME NEW p \in Owner, Iperf(p)
      PROVE  Unused'
  <2>1. UNCHANGED <<restarted, pc, said, where>> /\ \A s \in Side : Running(s)' \subseteq Running(s)
    BY <1>2 DEF Iperf, Listen, Connect, Finish, Exit, Running, TypeOK
  <2> QED BY <2>1 DEF Unused
<1>3. ASSUME NEW s \in Side, Cleanup(s)
      PROVE  Unused'
  BY <1>3 DEF Cleanup, Unused, Running, TypeOK
<1>4. CASE Replug \/ UNCHANGED vars
  BY <1>4 DEF Replug, vars, host, Unused, Running
<1>5. CASE Quit
  BY <1>5 DEF Quit, Unused
<1> QED BY <1>1, <1>2, <1>3, <1>4, <1>5 DEF Next, Unused

LEMMA AloneStep ==
  ASSUME TypeOK, Alone, [Next]_vars
  PROVE  Alone'
<1>1. ASSUME UNCHANGED <<pc, calm>>
      PROVE  Alone'
  BY <1>1 DEF Alone, Active
<1>2. ASSUME NEW t \in Threads, Begin(t)
      PROVE  Alone'
  <2>1. ASSUME NEW u \in Threads, calm'[u]
        PROVE  u = t /\ Active = {}
    <3>1. CASE u = t
      BY <1>2, <2>1, <3>1, Zenon DEF Begin, Undisturbed
    <3>2. CASE u # t
      <4>1. calm[u] /\ u \notin Active
        BY <1>2, <2>1, <3>2, Zenon DEF Begin
      <4> QED BY <4>1 DEF Alone
    <3> QED BY <3>1, <3>2
  <2>2. Active' = Active \cup {t}
    BY <1>2 DEF Begin, Goto, TypeOK, Active
  <2> QED BY <2>1, <2>2 DEF Alone
<1>3. ASSUME NEW t \in Threads, Verdict(t)
      PROVE  Alone'
  <2>1. ASSUME NEW u \in Threads, calm'[u]
        PROVE  u # t /\ calm[u]
    BY <1>3, <2>1 DEF Verdict, TypeOK
  <2>2. t \in Active
    BY <1>3 DEF Verdict, Active
  <2> QED BY <2>1, <2>2 DEF Alone
<1>4. ASSUME NEW t \in Threads,
             \/ Announce(t) \/ Configure(t) \/ Serve(t) \/ Client(t) \/ Killall(t) \/ Delete(t)
             \/ Settle(t)
             \/ Measure(t) /\ calm' = calm
      PROVE  Alone'
  <2>1. /\ pc[t] # "idle" /\ pc'[t] # "idle" /\ calm' = calm
        /\ \A u \in Threads : u # t => pc'[u] = pc[u]
    BY <1>4 DEF Announce, Configure, AddNs, Move, Address, SetUp, Serve, Client, Killall, Delete,
                DelNs, Settle, Measure, IpFrame, Goto, TypeOK
  <2>2. Active' = Active
    BY <2>1 DEF Active
  <2> QED BY <2>1, <2>2 DEF Alone
<1>5. ASSUME NEW p \in Owner, Iperf(p)
      PROVE  Alone'
  BY <1>1, <1>5 DEF Iperf, Listen, Connect, Finish
<1>6. CASE (\E s \in Side : Cleanup(s)) \/ UNCHANGED vars
  BY <1>1, <1>6 DEF Cleanup, vars
<1>7. CASE Replug \/ Quit
  BY <1>7 DEF Replug, Quit, Alone
<1> QED BY <1>2, <1>3, <1>4, <1>5, <1>6, <1>7 DEF Next, Step

\* The host on which a run that is alone begins.
LEMMA LoneBegins ==
  ASSUME LoneInv, NEW t \in Threads, Begin(t), Undisturbed
  PROVE  LoneRun(t)'
<1>1. pc'[t] = "created" /\ UNCHANGED <<board, plugged, host>>
  BY DEF Begin, Goto, LoneInv, MeasureInv, TypeOK
<1>2. Running("client") = {} /\ \A s \in Side : where[s] # "nameless"
  <2>1. CASE restarted
    BY <2>1 DEF Undisturbed
  <2>2. CASE ~restarted
    <3>1. \A u \in Threads : pc[u] = "idle"
      BY DEF Undisturbed, Active
    <3>2. \A s \in Side : where[s] = "host" /\ Running(s) = {}
      BY <2>2, <3>1, AllIsBack DEF LoneInv, Unused, EverythingPutBack, Undisturbed
    <3> QED BY <3>2 DEF Side
  <2> QED BY <2>1, <2>2
<1>3. Running("client")' = {} /\ \A s \in Side : where'[s] # "nameless"
  BY <1>1, <1>2 DEF Running, host
<1> QED
  BY <1>1, <1>3 DEF LoneRun, Configured, Serving, Measuring, AfterAdd, AfterMove, AfterAddress,
                    AfterUp, Working

\* The commands that configure the two sides.
LEMMA LoneConfigures ==
  ASSUME LoneInv, NEW t \in Threads, LoneRun(t), Configure(t)
  PROVE  LoneRun(t)'
<1> USE DEF LoneInv, MeasureInv, TypeOK, OnlyPorts, IpFrame
<1> USE DEF AfterAdd, AfterMove, AfterAddress, AfterUp, Working, ToKill, Side
<1>1. Configured(t)'
  <2> USE DEF LoneRun, Configured, Goto
  <2>1. CASE pc[t] = "addS" /\ AddNs(t, "server", "addC")
    BY <2>1 DEF AddNs
  <2>2. CASE pc[t] = "addC" /\ AddNs(t, "client", "moveS")
    BY <2>2 DEF AddNs
  <2>3. CASE pc[t] = "moveS" /\ Move(t, "server", "addrS")
    BY <2>3 DEF Move
  <2>4. CASE pc[t] = "addrS" /\ Address(t, "server", "upS")
    BY <2>4 DEF Address
  <2>5. CASE pc[t] = "upS" /\ SetUp(t, "server", "moveC")
    BY <2>5 DEF SetUp
  <2>6. CASE pc[t] = "moveC" /\ Move(t, "client", "addrC")
    BY <2>6 DEF Move
  <2>7. CASE pc[t] = "addrC" /\ Address(t, "client", "upC")
    BY <2>7 DEF Address
  <2>8. CASE pc[t] = "upC" /\ SetUp(t, "client", "serve")
    BY <2>8 DEF SetUp
  <2> QED BY <2>1, <2>2, <2>3, <2>4, <2>5, <2>6, <2>7, <2>8 DEF Configure
<1>2. /\ pc[t] \in ToKill \ {"sleep"}
      /\ pc'[t] \in {"addC", "moveS", "addrS", "upS", "moveC", "addrC", "upC", "serve"}
      /\ UNCHANGED <<inside, keep>>
  BY DEF Configure, AddNs, Move, Address, SetUp, Goto
<1>3. Running("client")' = {}
  BY <1>2 DEF LoneRun, Measuring, Running
<1> QED BY <1>1, <1>2, <1>3 DEF LoneRun, Serving, Measuring

\* The other commands of the run itself.
LEMMA LoneWorks ==
  ASSUME LoneInv, NEW t \in Threads, LoneRun(t), calm[t],
         \/ Announce(t) \/ Serve(t) \/ Client(t) \/ Killall(t) \/ Delete(t) \/ Settle(t)
         \/ Measure(t) /\ UNCHANGED <<board, plugged, said, host, busy, disturbed, report, calm,
                                      measured, restarted>>
  PROVE  LoneRun(t)'
<1> USE DEF LoneInv, MeasureInv, TypeOK, host, files, Goto
<1>1. CASE Announce(t)
  <2>1. pc[t] = "created" /\ pc'[t] = "addS" /\ UNCHANGED host
    BY <1>1 DEF Announce
  <2>2. Running("client")' = {}
    BY <2>1 DEF LoneRun, Measuring, Running, ToKill
  <2> QED BY <2>1, <2>2 DEF LoneRun, Configured, Serving, Measuring, AfterAdd, AfterMove,
                            AfterAddress, AfterUp, Working, ToKill
<1>2. CASE Serve(t)
  <2>1. /\ pc[t] = "serve" /\ pc'[t] = "client"
        /\ UNCHANGED <<board, named, where, addressed, up, keep>>
        /\ "server" \in named /\ Running("client") = {}
    BY <1>2 DEF Serve, IpFrame, LoneRun, Configured, Measuring, AfterAdd, AfterMove,
                AfterAddress, AfterUp, Working, ToKill, Side
  <2>2. t \in inside'["server"] /\ inside'["client"] = inside["client"]
    BY <1>2, <2>1 DEF Serve, Launch, Side
  <2>3. Configured(t)'
    BY <2>1 DEF LoneRun, Configured, AfterAdd, AfterMove, AfterAddress, AfterUp, Working, ToKill
  <2>4. Serving(t)' /\ Running("client")' = {}
    BY <2>1, <2>2 DEF Serving, Running
  <2> QED BY <2>1, <2>3, <2>4 DEF LoneRun, Measuring
<1>3. CASE Client(t)
  <2>1. /\ pc[t] = "client" /\ pc'[t] = "sleep"
        /\ UNCHANGED <<board, plugged, named, where, addressed, up, keep, busy>>
        /\ "client" \in named /\ Running("client") = {} /\ \A s \in Side : where[s] # "nameless"
        /\ "server" \in board.ports => where["server"] = "named"
    BY <1>3 DEF Client, LoneRun, Configured, Measuring, AfterAdd, AfterMove, AfterAddress,
                AfterUp, Working, ToKill, Side
  <2>2. /\ inside' = [inside EXCEPT !["client"] = @ \cup {t}]
        /\ disturbed' = {} /\ report' = EmptyText
    BY <1>3, <2>1 DEF Client, Launch, ClientReport
  <2>3. Configured(t)'
    BY <2>1 DEF LoneRun, Configured, AfterAdd, AfterMove, AfterAddress, AfterUp, Working, ToKill
  <2>4. Running("client")' = {t}
    BY <2>1, <2>2 DEF Running, Side
  <2>5. Served
    <3>1. CASE t \in Running("server")
      <4>1. t \in busy["server"]
        BY <1>3, <3>1 DEF Client, Listening
      <4> QED BY <4>1 DEF Served, HostInv, Side
    <3>2. CASE t \notin Running("server")
      BY <2>1, <3>2 DEF LoneRun, Serving
    <3> QED BY <3>1, <3>2
  <2>6. Served'
    BY <2>1, <2>2, <2>5 DEF Served, Joined, Side
  <2> QED BY <2>1, <2>2, <2>3, <2>4, <2>6 DEF LoneRun, Serving, Measuring
<1>4. CASE Measure(t) /\ UNCHANGED <<board, plugged, said, host, busy, disturbed, report, calm,
                                     measured, restarted>>
  <2>1. /\ pc[t] \in {"sleep", "awk", "awkEnd", "read"}
        /\ pc'[t] = CASE pc[t] = "sleep" -> "awk" [] pc[t] = "awk" -> "awkEnd"
                      [] pc[t] = "awkEnd" -> "read" [] pc[t] = "read" -> "killall"
    BY <1>4 DEF Measure
  <2>2. Configured(t)'
    BY <1>4, <2>1 DEF LoneRun, Configured, AfterAdd, AfterMove, AfterAddress, AfterUp, Working,
                      ToKill
  <2>3. Serving(t)'
    BY <2>1 DEF Serving
  <2>4. Rate' = Rate /\ (Rate \in Speed \/ Rate = EmptyText) /\ EmptyText \notin Speed
    BY <1>4, EthernetAssumption DEF Rate, EmptyText, Speed, Board
  <2>5. Running("client") = {}
    <3>1. pc[t] = "sleep" => Slept(t)
      BY <1>4 DEF Measure
    <3> QED BY <2>1, <3>1 DEF LoneRun, Measuring, Slept, ToKill
  <2>6. Running("client")' = {} /\ report' = Rate
    BY <1>4, <2>1, <2>5 DEF LoneRun, Measuring, Running
  <2>7. pc[t] = "awk" => speedEth' = EmptyText
    BY <1>4 DEF Measure
  <2>8. pc[t] = "awkEnd" => speedEth' = Rate
    BY <1>4, <2>4, <2>6 DEF Measure, LoneRun, Measuring
  <2>9. pc[t] = "read" => (ok'[t] <=> Rate = "fast")
    BY <1>4 DEF Measure, LoneRun, Measuring
  <2> QED BY <2>1, <2>2, <2>3, <2>4, <2>6, <2>7, <2>8, <2>9 DEF LoneRun, Measuring
<1>5. CASE Killall(t) \/ Delete(t) \/ Settle(t)
  <2>1. /\ pc[t] \in {"killall", "delS", "delC", "settle"}
        /\ pc'[t] \in {"delS", "delC", "settle", "verdict"}
        /\ UNCHANGED <<board, plugged, ok>>
    BY <1>5 DEF Killall, Delete, DelNs, Settle, IpFrame
  <2>2. ok'[t] <=> Rate' = "fast"
    BY <2>1 DEF LoneRun, Measuring, Rate
  <2> QED BY <2>1, <2>2 DEF LoneRun, Configured, Serving, Measuring, AfterAdd, AfterMove,
                            AfterAddress, AfterUp, Working, ToKill
<1> QED BY <1>1, <1>2, <1>3, <1>4, <1>5

\* What the iperfs and the kernel do meanwhile.
LEMMA LoneWaits ==
  ASSUME LoneInv, NEW t \in Threads, LoneRun(t), calm[t],
         (\E p \in Owner : Iperf(p)) \/ (\E s \in Side : Cleanup(s))
  PROVE  LoneRun(t)'
<1> USE DEF LoneInv, MeasureInv, TypeOK, files
<1>1. UNCHANGED <<board, plugged, pc, ok, named, speedEth>>
  BY DEF Iperf, Listen, Connect, Finish, Cleanup
<1>2. Rate' = Rate
  BY <1>1 DEF Rate
<1>3. Configured(t)'
  <2>1. CASE \E p \in Owner : Iperf(p)
    <3>1. UNCHANGED <<where, addressed, up>>
      BY <2>1 DEF Iperf, Listen, Connect, Finish
    <3> QED BY <1>1, <3>1 DEF LoneRun, Configured
  <2>2. ASSUME NEW s \in Side, Cleanup(s)
        PROVE  Configured(t)'
    <3>1. pc[t] \notin ToKill
      BY <2>2 DEF Cleanup, LoneRun, Configured
    <3> QED BY <1>1, <3>1 DEF Configured, AfterAdd, AfterMove, AfterAddress, AfterUp, Working,
                              ToKill
  <2> QED BY <2>1, <2>2
<1>4. CASE pc[t] \notin ToKill
  BY <1>1, <1>2, <1>3, <1>4 DEF LoneRun, Serving, Measuring, ToKill
<1>5. CASE pc[t] \in ToKill
  <2>1. PICK p \in Owner : Iperf(p)
    BY <1>5 DEF Cleanup, LoneRun, Configured
  <2>2. /\ UNCHANGED <<where, addressed, up>>
        /\ \A s \in Side : Running(s)' \subseteq Running(s) /\ keep'[s] \subseteq keep[s]
    BY <2>1 DEF Iperf, Listen, Connect, Finish, Exit, Running
  <2>3. CASE Listen(p)
    <3>1. /\ UNCHANGED <<disturbed, report>> /\ busy["server"] \subseteq busy'["server"]
          /\ Running("client")' = Running("client")
      BY <2>3 DEF Listen, Exit, Running, Side
    <3>2. Served => Served'
      BY <1>1, <2>2, <2>3 DEF Served, Listen, Exit, Running, Joined, Side
    <3>3. pc[t] = "client" => t \in Running("server")' \/ Served'
      <4> SUFFICES ASSUME pc[t] = "client", t \in Running("server"), t \notin Running("server")',
                          "server" \in board.ports
                   PROVE  Served
        BY <3>2 DEF LoneRun, Serving, Served
      <4>1. p = t /\ ~ /\ t \in Joined("server") /\ "server" \in addressed
                       /\ Joined("server") \cap busy["server"] = {}
        BY <2>3 DEF Listen, Exit, Running, Side
      <4>2. where["server"] = "named" /\ "server" \in addressed
        BY DEF LoneRun, Configured, AfterMove, AfterAddress, AfterUp, Working, Side
      <4>3. t \in Joined("server")
        BY <4>2 DEF HostInv, Running, Joined, Side
      <4> QED BY <4>1, <4>2, <4>3 DEF Served
    <3> QED BY <1>1, <1>2, <1>3, <3>1, <3>2, <3>3 DEF LoneRun, Serving, Measuring
  <2>4. CASE Connect(p) \/ Finish(p)
    <3>1. p \in Running("client")
      BY <2>4 DEF Connect, Finish, HostInv, Joined, Running, Side
    <3>2. pc[t] = "sleep" /\ p = t /\ disturbed = {} /\ report = EmptyText
      BY <1>5, <3>1 DEF LoneRun, Measuring
    <3>3. disturbed' = {} /\ Running("client")' \subseteq {t}
      BY <2>2, <2>4, <3>2 DEF Connect, Finish, LoneRun, Measuring, Side
    <3>4. Served'
      <4>1. busy'["server"] = busy["server"] /\ Joined("server")' = Joined("server")
        BY <2>2, <2>4 DEF Connect, Finish, Exit, Joined, Side
      <4> QED BY <1>1, <3>2, <4>1 DEF LoneRun, Serving, Served
    <3>5. report' = IF t \in Running("client")' THEN EmptyText ELSE Rate
      <4>1. where["client"] # "nameless" /\ keep["client"] = {}
        BY <3>2 DEF LoneRun, Configured, HostInv, ToKill, Side
      <4>2. Path => board.ports = Side /\ plugged
        BY EthernetAssumption DEF Path, OnlyPorts, Board
      <4>3. CASE Finish(p)
        <5>1. report' = board.speed /\ Path
          BY <3>2, <4>3 DEF Finish
        <5>2. t \notin Running("client")'
          BY <3>2, <4>3 DEF Finish, Exit, Running, Side
        <5> QED BY <4>2, <5>1, <5>2 DEF Rate
      <4>4. CASE Connect(p)
        <5>1. board.ports = Side /\ plugged => t \in Joined("client") /\ Path
          <6> SUFFICES ASSUME board.ports = Side, plugged
                       PROVE  t \in Joined("client") /\ Path
            OBVIOUS
          <6>1. \A s \in Side : where[s] = "named" /\ s \in addressed /\ s \in up
            BY <3>2 DEF LoneRun, Configured, AfterMove, AfterAddress, AfterUp, Working
          <6>2. Served
            BY <3>2 DEF LoneRun, Serving
          <6> QED BY <3>1, <3>2, <4>1, <6>1, <6>2 DEF Served, Path, Joined, Running, Side
        <5>2. report' = EmptyText
          BY <3>2, <4>4 DEF Connect
        <5>3. t \in Joined("client") /\ Path => Running("client")' = Running("client")
          BY <3>2, <4>4 DEF Connect, Running
        <5> QED BY <3>1, <3>2, <5>1, <5>2, <5>3 DEF Rate
      <4> QED BY <2>4, <4>3, <4>4
    <3> QED BY <1>1, <1>2, <1>3, <3>2, <3>3, <3>4, <3>5 DEF LoneRun, Serving, Measuring
  <2> QED BY <2>1, <2>3, <2>4 DEF Iperf
<1> QED BY <1>4, <1>5

LEMMA LoneStep ==
  ASSUME LoneInv, [Next]_vars
  PROVE  LoneRuns'
<1> SUFFICES ASSUME NEW t \in Threads, calm'[t]
             PROVE  LoneRun(t)'
  BY DEF LoneRuns
<1>1. ASSUME calm[t]
      PROVE  LoneRun(t) /\ Active = {t}
  BY <1>1 DEF LoneInv, LoneRuns, Alone
<1>2. ASSUME NEW u \in Threads, Begin(u)
      PROVE  LoneRun(t)'
  <2>1. CASE u = t
    <3>1. Undisturbed
      BY <1>2, <2>1, Zenon DEF Begin
    <3> QED BY <1>2, <2>1, <3>1, LoneBegins
  <2>2. CASE u # t
    <3>1. calm[t] /\ t \notin Active
      BY <1>2, <2>2, Zenon DEF Begin
    <3> QED BY <1>1, <3>1
  <2> QED BY <2>1, <2>2
<1>3. ASSUME NEW u \in Threads, Step(u)
      PROVE  LoneRun(t)'
  <2>1. pc[u] # "idle" /\ (Verdict(u) => ~calm'[u]) /\ (calm'[t] => calm[t])
    BY <1>3 DEF Step, Announce, Configure, AddNs, Move, Address, SetUp, Serve, Client, Killall,
                Delete, DelNs, Settle, Measure, Verdict, IpFrame, LoneInv, MeasureInv, TypeOK
  <2>2. u = t /\ LoneRun(t) /\ calm[t] /\ ~Verdict(t)
    BY <1>1, <2>1 DEF Active
  <2> QED BY <1>3, <2>2, LoneConfigures, LoneWorks DEF Step
<1>4. ASSUME (\E p \in Owner : Iperf(p)) \/ (\E s \in Side : Cleanup(s))
      PROVE  LoneRun(t)'
  <2>1. calm[t]
    BY <1>4 DEF Iperf, Listen, Connect, Finish, Cleanup
  <2> QED BY <1>1, <1>4, <2>1, LoneWaits
<1>5. CASE Replug \/ Quit
  BY <1>5 DEF Replug, Quit
<1>6. CASE UNCHANGED vars
  <2>1. calm[t]
    BY <1>6 DEF vars
  <2> QED BY <1>1, <1>6, <2>1
             DEF vars, host, files, LoneRun, Configured, Serving, Served, Measuring, Rate,
                 Running, Joined
<1> QED BY <1>2, <1>3, <1>4, <1>5, <1>6 DEF Next

\* A run that no other overlaps, and whose cable nobody touches, passes exactly
\* on a fast board whose cable is plugged in: whatever earlier runs and programs
\* have left, short of a client that still runs or an interface that is away.
THEOREM LoneRunRight == Spec => []LoneRunIsRight
<1>1. Init => LoneInv
  <2> SUFFICES ASSUME Init
               PROVE  LoneInv
    OBVIOUS
  <2>1. HostInv /\ Unused
    BY DEF Init, HostInv, Unused, Running, Joined
  <2>2. Alone /\ LoneRuns
    BY DEF Init, Alone, LoneRuns
  <2> QED BY <2>1, <2>2, InitMeasure, InitPutBack DEF LoneInv
<1>2. LoneInv /\ MeasureInv' /\ [Next]_vars => LoneInv'
  <2> SUFFICES ASSUME LoneInv, MeasureInv', [Next]_vars
               PROVE  LoneInv'
    OBVIOUS
  <2>1. TypeOK
    BY DEF LoneInv, MeasureInv
  <2> QED BY <2>1, PutBackStep, HostStep, UnusedStep, AloneStep, LoneStep DEF LoneInv
<1>3. LoneInv => LoneRunIsRight
  <2> SUFFICES ASSUME LoneInv, NEW t \in Threads, pc[t] = "verdict", calm[t]
               PROVE  ok[t] <=> board.ports = Side /\ board.speed = "fast" /\ plugged
    BY DEF LoneRunIsRight
  <2>1. ok[t] <=> Rate = "fast"
    BY DEF LoneInv, LoneRuns, LoneRun, Measuring
  <2> QED BY <2>1 DEF Rate, EmptyText
<1> QED BY <1>1, <1>2, <1>3, MeasureInvariance, PTL DEF Spec
-----------------------------------------------------------------------------
\* The thread of TestThread that a run is.
StageOf == [t \in Threads |-> IF pc[t] \in {"idle", "created"} THEN pc[t] ELSE "running"]

\* A step within the test, that says nothing.
LEMMA Within ==
  ASSUME TypeOK, NEW t \in Threads, NEW l \in Label \ {"idle", "created"}, Goto(t, l),
         pc[t] \notin {"idle", "created"}
  PROVE  StageOf' = StageOf
BY DEF TypeOK, Goto, Label, StageOf

\* The runs are threads as TestThread describes them, in every run of the program.
THEOREM ThreadsImplemented == Spec => Promise!ThreadSpec
<1>1. Init => Promise!ThreadInit
  BY DEF Init, Promise!ThreadInit
<1>2. TypeOK /\ [Next]_vars => [Promise!ThreadNext]_(Promise!threadVars)
  <2> SUFFICES ASSUME TypeOK, [Next]_vars
               PROVE  Promise!ThreadNext \/ UNCHANGED <<StageOf, said>>
    BY DEF Promise!threadVars, StageOf
  <2>1. ASSUME NEW t \in Threads, Begin(t)
        PROVE  Promise!Start(t)
    BY <2>1 DEF Begin, Goto, TypeOK, Promise!Start
  <2>2. ASSUME NEW t \in Threads, Announce(t)
        PROVE  Promise!SayProgress(t)
    BY <2>2 DEF Announce, Goto, TypeOK, Promise!SayProgress
  <2>3. ASSUME NEW t \in Threads, Verdict(t)
        PROVE  Promise!SayVerdict(t)
    <3>1. ok[t] \in BOOLEAN /\ said' = [said EXCEPT ![t] = Promise!SetResAddedLogs(ok[t])]
      BY <2>3 DEF TypeOK, Verdict, SetResAddedLogs, Promise!SetResAddedLogs
    <3>2. \E r \in BOOLEAN : said' = [said EXCEPT ![t] = Promise!SetResAddedLogs(r)]
      BY <3>1
    <3> QED BY <2>3, <3>2 DEF Verdict, Goto, TypeOK, Promise!SayVerdict
  <2>4. ASSUME NEW t \in Threads,
               \/ Configure(t) \/ Serve(t) \/ Client(t) \/ Killall(t) \/ Delete(t) \/ Settle(t)
               \/ Measure(t) /\ UNCHANGED said
        PROVE  UNCHANGED <<StageOf, said>>
    <3> USE DEF Label
    <3>1. said' = said
      BY <2>4 DEF Configure, AddNs, Move, Address, SetUp, Serve, Client, Killall, Delete, DelNs,
                  Settle, IpFrame
    <3>2. CASE Configure(t)
      BY <3>1, <3>2, Within DEF Configure, AddNs, Move, Address, SetUp
    <3>3. CASE Serve(t) \/ Client(t) \/ Killall(t) \/ Settle(t)
      BY <3>1, <3>3, Within DEF Serve, Client, Killall, Settle
    <3>4. CASE Delete(t)
      BY <3>1, <3>4, Within DEF Delete, DelNs
    <3>5. CASE Measure(t)
      BY <3>1, <3>5, Within DEF Measure
    <3> QED BY <2>4, <3>2, <3>3, <3>4, <3>5
  <2>5. ASSUME UNCHANGED <<pc, said>>
        PROVE  UNCHANGED <<StageOf, said>>
    BY <2>5 DEF StageOf
  <2>6. ASSUME NEW p \in Owner, Iperf(p)
        PROVE  UNCHANGED <<pc, said>>
    BY <2>6 DEF Iperf, Listen, Connect, Finish
  <2>7. CASE Replug \/ (\E s \in Side : Cleanup(s)) \/ UNCHANGED vars
    BY <2>5, <2>7 DEF Replug, Cleanup, vars
  <2>8. CASE Quit
    BY <2>8 DEF Quit, Promise!ThreadNext, Promise!Quit
  <2> QED BY <2>1, <2>2, <2>3, <2>4, <2>5, <2>6, <2>7, <2>8 DEF Next, Step, Promise!ThreadNext
<1> QED BY <1>1, <1>2, TypeCorrect, PTL DEF Spec, Promise!ThreadSpec
=============================================================================
