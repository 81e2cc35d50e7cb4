------------------------------ MODULE GpioTest ------------------------------
(***************************************************************************)
(* testGPIO, testSpi1 and testSpi2: pairs of pins, each checked by driving *)
(* one and reading the other through sysfs.  Every test runs on a thread   *)
(* of its own, and every access to sysfs is a step.  Closing the window    *)
(* ends the tests between two accesses, and the pins stay as they are.     *)
(*                                                                         *)
(* Assumed of the board: an input reads 1 exactly if a pin wired to it is  *)
(* driven high; before a program exports it, a pin may be driven high by   *)
(* the peripheral it belongs to; a pin that cannot be exported never can.  *)
(* Of the wiring: no input hears an output of another test, and where all  *)
(* pairs of a test are wired, none hears an output it is not paired with.  *)
(***************************************************************************)
EXTENDS Naturals, Sequences, TestResult

CONSTANTS Threads,
          Boards        \* the boards a run may find

VARIABLES board,
          high,         \* the pins driven high
          job, said,
          item,         \* index of the entry of its plan a thread is at
          at,           \* how far it is with that entry
          value,        \* the conjunction of the pairs' results so far
          seen,         \* what the current pair read while driven high
          alone,        \* history: no other run of its test overlapped this one
          untouched,    \* history: pins that were high when the program was
                        \* started, and have not been made outputs since
          restarted     \* history: the program has been started again

vars == <<board, high, job, said, item, at, value, seen, alone, untouched, restarted>>

GpioTests == {"gpio", "spi1", "spi2"}

Pair(in, out) == [op |-> "pair", in |-> in, out |-> out]
Low(out) == [op |-> "init", in |-> "none", out |-> out]

\* Slip: one of the outputs wired to UART3_CTS is forgotten.
LowsShort == <<Low("UART3_RTS"), Low("SPI2_CS0"), Low("SPI2_CS1"), Low("SPI1_CS0"),
               Low("SPI2_CLK")>>

\* The outputs testGPIO pulls low before it tests UART3_CTS.
Lows == <<Low("UART3_RTS"), Low("SPI2_CS0"), Low("SPI2_CS1"), Low("SPI1_CS0"),
          Low("SPI1_CLK"), Low("SPI2_CLK")>>

\* The calls of gpio_pair_check and init_gpio each test makes, in order.  The
\* call that makes UART3_CTS an input changes no level and is left out.
Plan(x) ==
  CASE x = "spi1" -> <<Pair("SPI1_MISO", "SPI1_MOSI")>>
    [] x = "spi2" -> <<Pair("SPI2_MISO", "SPI2_MOSI")>>
    [] x = "gpio" ->
         <<Pair("GPIO3", "GPIO2"), Pair("GPIO1", "GPIO0"),
           Pair("UART7_CTS", "UART8_RTS"), Pair("UART8_CTS", "UART7_RTS")>>
         \o Lows \o
         <<Pair("UART3_CTS", "UART3_RTS"), Pair("UART3_CTS", "SPI2_CS0"),
           Pair("UART3_CTS", "SPI2_CS1"), Pair("UART3_CTS", "SPI1_CS0"),
           Pair("UART3_CTS", "SPI2_CLK"), Pair("UART3_CTS", "SPI1_CLK")>>

Entries(x) == {Plan(x)[i] : i \in DOMAIN Plan(x)}
Pairs(x) == {e \in Entries(x) : e.op = "pair"}
Outs == UNION {{e.out : e \in Entries(x)} : x \in GpioTests}
Ins == UNION {{e.in : e \in Pairs(x)} : x \in GpioTests}
Wire == Ins \X Outs
Board == [wired : SUBSET Wire,      \* <<in, out>>: the input hears the output
          dead : SUBSET (Ins \cup Outs),    \* pins that cannot be exported
          boot : SUBSET Outs]       \* pins their peripheral drives high

ASSUME GpioAssumption == \A b \in Boards : b \in Board

\* What the header says of the wiring.
ASSUME WiringAssumption ==
  \A b \in Boards, x \in GpioTests :
    /\ \A y \in GpioTests \ {x} :
         \A e \in Pairs(x), f \in Entries(y) : <<e.in, f.out>> \notin b.wired
    /\ (\A e \in Pairs(x) : <<e.in, e.out>> \in b.wired)
         => \A e \in Pairs(x), o \in Outs :
              <<e.in, o>> \in b.wired => Pair(e.in, o) \in Pairs(x)

TypeOK ==
  /\ board \in Boards
  /\ high \in SUBSET Outs
  /\ job \in [Threads -> GpioTests]
  /\ said \in [Threads -> Result]
  /\ \A t \in Threads : item[t] \in DOMAIN Plan(job[t])
  /\ at \in [Threads -> {"idle", "created", "out", "one", "in", "high", "read1",
                         "low", "low again", "read0", "verdict"}]
  /\ value \in [Threads -> BOOLEAN] /\ seen \in [Threads -> BOOLEAN]
  /\ alone \in [Threads -> BOOLEAN] /\ untouched \in SUBSET Outs
  /\ restarted \in BOOLEAN

Entry(t) == Plan(job[t])[item[t]]
Hears(in) == \E o \in high : <<in, o>> \in board.wired
-----------------------------------------------------------------------------
Init ==
  /\ board \in Boards
  /\ high = board.boot
  /\ job = [t \in Threads |-> "gpio"]
  /\ said = [t \in Threads |-> "NotTested"]
  /\ item = [t \in Threads |-> 1]
  /\ at = [t \in Threads |-> "idle"]
  /\ value = [t \in Threads |-> TRUE]
  /\ seen = [t \in Threads |-> FALSE]
  /\ alone = [t \in Threads |-> TRUE]
  /\ untouched = board.boot /\ restarted = FALSE

\* Bound: in a program that has been started again, tests run one at a time.
Begin(t, x) ==
  LET same == {u \in Threads \ {t} : at[u] # "idle" /\ job[u] = x}
  IN /\ at[t] = "idle"
     /\ restarted => \A u \in Threads : at[u] = "idle"
     /\ job' = [job EXCEPT ![t] = x]
     /\ said' = [said EXCEPT ![t] = "NotTested"]
     /\ at' = [at EXCEPT ![t] = "created"]
     /\ alone' = [u \in Threads |-> IF u = t THEN same = {} ELSE alone[u] /\ u \notin same]
     /\ UNCHANGED <<board, high, item, value, seen, untouched, restarted>>

Announce(t) ==
  /\ at[t] = "created"
  /\ said' = [said EXCEPT ![t] = "Progress"]
  /\ at' = [at EXCEPT ![t] = "out"]
  /\ UNCHANGED <<board, high, job, item, value, seen, alone, untouched, restarted>>

\* Slip: one entry too many.
LastOffByOne(t) == item[t] > Len(Plan(job[t]))

Last(t) == item[t] = Len(Plan(job[t]))

\* The entry is over with result r: on to the next one.
Advance(t, r) ==
  /\ value' = [value EXCEPT ![t] = @ /\ r]
  /\ seen' = [seen EXCEPT ![t] = FALSE]
  /\ IF Last(t)
     THEN /\ at' = [at EXCEPT ![t] = "verdict"]
          /\ item' = [item EXCEPT ![t] = 1]
     ELSE /\ at' = [at EXCEPT ![t] = "out"]
          /\ item' = [item EXCEPT ![t] = @ + 1]
  /\ UNCHANGED <<board, job, said, alone, restarted>>

Continue(t, l) ==
  /\ at' = [at EXCEPT ![t] = l]
  /\ UNCHANGED <<board, job, said, item, value, alone, restarted>>

\* Slip: the level stays as it is.
LoweredNot(o) == high

\* The pins that are high once o is pulled low.
Lowered(o) == high \ {o}

\* init_gpio(out, "out", v): the pin is exported, made an output, which pulls
\* it low, and set; a pin that is not there ends a pair, and only a pair, badly.
InitOut(t) ==
  \/ /\ at[t] = "out"
     /\ Entry(t).out \notin board.dead
     /\ high' = Lowered(Entry(t).out)
     /\ untouched' = untouched \ {Entry(t).out}
     /\ IF Entry(t).op = "pair" THEN Continue(t, "one") /\ UNCHANGED seen
        ELSE Advance(t, TRUE)
  \/ /\ at[t] = "out"
     /\ Entry(t).out \in board.dead
     /\ Advance(t, Entry(t).op # "pair")
     /\ UNCHANGED <<high, untouched>>
  \/ /\ at[t] = "one"
     /\ high' = high \cup {Entry(t).out}
     /\ Continue(t, "in") /\ UNCHANGED <<seen, untouched>>

\* init_gpio(in, "in", 0)
InitIn(t) ==
  /\ at[t] = "in"
  /\ IF Entry(t).in \in board.dead THEN Advance(t, FALSE)
     ELSE Continue(t, "high") /\ UNCHANGED seen
  /\ UNCHANGED <<high, untouched>>

\* set_value(out, 1), and twice set_value(out, 0)
SetValue(t) ==
  /\ \/ at[t] = "high" /\ high' = high \cup {Entry(t).out} /\ Continue(t, "read1")
     \/ at[t] = "low" /\ high' = Lowered(Entry(t).out) /\ Continue(t, "low again")
     \/ at[t] = "low again" /\ high' = Lowered(Entry(t).out) /\ Continue(t, "read0")
  /\ UNCHANGED <<seen, untouched>>

\* get_value(in), first with the output high, then with it low
GetValue(t) ==
  \/ /\ at[t] = "read1"
     /\ seen' = [seen EXCEPT ![t] = Hears(Entry(t).in)]
     /\ Continue(t, "low") /\ UNCHANGED <<high, untouched>>
  \/ /\ at[t] = "read0"
     /\ Advance(t, seen[t] /\ ~Hears(Entry(t).in))
     /\ UNCHANGED <<high, untouched>>

\* Slip: only a good verdict is reported.
VerdictIfGood(t) ==
  /\ at[t] = "verdict"
  /\ said' = IF value[t] THEN [said EXCEPT ![t] = "Success"] ELSE said
  /\ value' = [value EXCEPT ![t] = TRUE]
  /\ alone' = [alone EXCEPT ![t] = TRUE]
  /\ at' = [at EXCEPT ![t] = "idle"]
  /\ UNCHANGED <<board, high, job, item, seen, untouched, restarted>>

Verdict(t) ==
  /\ at[t] = "verdict"
  /\ said' = [said EXCEPT ![t] = SetResAddedLogs(value[t])]
  /\ value' = [value EXCEPT ![t] = TRUE]
  /\ alone' = [alone EXCEPT ![t] = TRUE]
  /\ at' = [at EXCEPT ![t] = "idle"]
  /\ UNCHANGED <<board, high, job, item, seen, untouched, restarted>>

\* The window is closed, and the program started again: the pins stay as they are.
Quit ==
  /\ job' = [t \in Threads |-> "gpio"]
  /\ said' = [t \in Threads |-> "NotTested"]
  /\ item' = [t \in Threads |-> 1]
  /\ at' = [t \in Threads |-> "idle"]
  /\ value' = [t \in Threads |-> TRUE]
  /\ seen' = [t \in Threads |-> FALSE]
  /\ alone' = [t \in Threads |-> TRUE]
  /\ untouched' = high /\ restarted' = TRUE
  /\ UNCHANGED <<board, high>>

Step(t) == Announce(t) \/ InitOut(t) \/ InitIn(t) \/ SetValue(t) \/ GetValue(t) \/ Verdict(t)

Next == Quit \/ \E t \in Threads : Step(t) \/ \E x \in GpioTests : Begin(t, x)

Spec == Init /\ [][Next]_vars

\* The operating system runs every thread.
FairSpec == Spec /\ \A t \in Threads : WF_vars(Step(t))
-----------------------------------------------------------------------------
\* Both pins of the pair are there and the input hears the output.
Sound(e) == {e.in, e.out} \cap board.dead = {} /\ <<e.in, e.out>> \in board.wired

\* A run that no other run of the same test overlaps is right, whatever the
\* other tests do, whatever earlier runs, cut off at any point, left behind and
\* whatever the pins' peripherals were driving: it passes if and only if every
\* pair is sound.
LoneRunIsRight ==
  \A t \in Threads :
    at[t] = "verdict" /\ alone[t] => (value[t] <=> \A e \in Pairs(job[t]) : Sound(e))

\* On a board whose pins are all there a test leaves no pin driven: what is
\* high is being tested, or no test has come to it since the program started.
HighPinIsUnderTest ==
  board.dead = {} =>
    \A o \in high \ untouched :
      \E t \in Threads : at[t] \in {"in", "high", "read1", "low"} /\ Entry(t).out = o

\* Every run announces Progress and ends with exactly one verdict.
Promise == INSTANCE TestThread
             WITH stage <- [t \in Threads |->
                              IF at[t] \in {"idle", "created"} THEN at[t] ELSE "running"]
KeepsThreadPromise == Promise!ThreadFairSpec
=============================================================================
