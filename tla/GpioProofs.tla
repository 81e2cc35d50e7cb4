----------------------------- MODULE GpioProofs -----------------------------
(***************************************************************************)
(* For any number of GPIO and SPI tests, on any board and wherever the     *)
(* program is ended: where all pins are there, no test leaves one driven.  *)
(* What is high is low when its run has come past "low", and nobody else   *)
(* raises a pin than a run that has yet to come there.  A run without      *)
(* another of its own test is right: what its inputs hear then change is   *)
(* its own doing, and the outputs it has come past stay low.               *)
(***************************************************************************)
EXTENDS GpioTest, SequenceTheorems, TLAPS

\* A run finds its plan at the first entry.
FirstWhenIdle == \A t \in Threads : at[t] \in {"idle", "verdict"} => item[t] = 1

IInv == TypeOK /\ item \in [Threads -> Nat] /\ FirstWhenIdle /\ HighPinIsUnderTest

\* The entries a plan of testGPIO may have.
GpioPin == {"GPIO0", "GPIO1", "GPIO2", "GPIO3", "UART7_RTS", "UART7_CTS", "UART8_RTS", "UART8_CTS",
            "UART3_RTS", "UART3_CTS", "SPI1_CS0", "SPI1_CLK", "SPI2_CS0", "SPI2_CS1", "SPI2_CLK"}
GpioEntry == [op : {"pair", "init"}, in : GpioPin \cup {"none"}, out : GpioPin]

LEMMA EntryType ==
  ASSUME NEW i \in GpioPin, NEW o \in GpioPin
  PROVE  Pair(i, o) \in GpioEntry /\ Low(o) \in GpioEntry
  BY DEF Pair, Low, GpioEntry

LEMMA TupleOf4 ==
  ASSUME NEW S, NEW a \in S, NEW b \in S, NEW c \in S, NEW d \in S
  PROVE  <<a, b, c, d>> \in Seq(S) /\ Len(<<a, b, c, d>>) = 4
  OBVIOUS

LEMMA TupleOf6 ==
  ASSUME NEW S, NEW a \in S, NEW b \in S, NEW c \in S, NEW d \in S, NEW e \in S, NEW f \in S
  PROVE  <<a, b, c, d, e, f>> \in Seq(S) /\ Len(<<a, b, c, d, e, f>>) = 6
  OBVIOUS

LEMMA Concatenated ==
  ASSUME NEW S, NEW s \in Seq(S), NEW r \in Seq(S)
  PROVE  s \o r \in Seq(S) /\ Len(s \o r) = Len(s) + Len(r)
  BY ConcatProperties, Zenon

\* The pairs testGPIO checks before and after it pulls its outputs low.
FirstPairs == <<Pair("GPIO3", "GPIO2"), Pair("GPIO1", "GPIO0"),
                Pair("UART7_CTS", "UART8_RTS"), Pair("UART8_CTS", "UART7_RTS")>>
LastPairs == <<Pair("UART3_CTS", "UART3_RTS"), Pair("UART3_CTS", "SPI2_CS0"),
               Pair("UART3_CTS", "SPI2_CS1"), Pair("UART3_CTS", "SPI1_CS0"),
               Pair("UART3_CTS", "SPI2_CLK"), Pair("UART3_CTS", "SPI1_CLK")>>

\* The plan of testGPIO, entry by entry.
LEMMA GpioPlan ==
  /\ Len(Plan("gpio")) = 16 /\ DOMAIN Plan("gpio") = 1..16
  /\ \A i \in 1..4 : Plan("gpio")[i] = FirstPairs[i]
  /\ \A i \in 5..10 : Plan("gpio")[i] = Lows[i - 4]
  /\ \A i \in 11..16 : Plan("gpio")[i] = LastPairs[i - 10]
<1>1. Plan("gpio") = (FirstPairs \o Lows) \o LastPairs
  BY DEF Plan, FirstPairs, LastPairs
<1>2. FirstPairs \in Seq(GpioEntry) /\ Len(FirstPairs) = 4
  <2>1. /\ Pair("GPIO3", "GPIO2") \in GpioEntry /\ Pair("GPIO1", "GPIO0") \in GpioEntry
        /\ Pair("UART7_CTS", "UART8_RTS") \in GpioEntry
        /\ Pair("UART8_CTS", "UART7_RTS") \in GpioEntry
    BY EntryType DEF GpioPin
  <2> QED BY <2>1, TupleOf4 DEF FirstPairs
<1>3. Lows \in Seq(GpioEntry) /\ Len(Lows) = 6
  <2>1. \A o \in {"UART3_RTS", "SPI2_CS0", "SPI2_CS1", "SPI1_CS0", "SPI1_CLK", "SPI2_CLK"} :
          Low(o) \in GpioEntry
    BY EntryType DEF GpioPin
  <2> QED BY <2>1, TupleOf6 DEF Lows
<1>4. LastPairs \in Seq(GpioEntry) /\ Len(LastPairs) = 6
  <2>1. \A o \in {"UART3_RTS", "SPI2_CS0", "SPI2_CS1", "SPI1_CS0", "SPI1_CLK", "SPI2_CLK"} :
          Pair("UART3_CTS", o) \in GpioEntry
    BY EntryType DEF GpioPin
  <2> QED BY <2>1, TupleOf6 DEF LastPairs
<1> DEFINE begin == FirstPairs \o Lows
<1>5. /\ begin \in Seq(GpioEntry) /\ Len(begin) = 10
      /\ \A i \in 1..10 : begin[i] = IF i <= 4 THEN FirstPairs[i] ELSE Lows[i - 4]
  <2>1. Len(begin) = Len(FirstPairs) + Len(Lows) /\ begin \in Seq(GpioEntry)
    BY <1>2, <1>3, Concatenated, Zenon
  <2>2. \A i \in 1..Len(FirstPairs) + Len(Lows) :
          begin[i] = IF i <= Len(FirstPairs) THEN FirstPairs[i] ELSE Lows[i - Len(FirstPairs)]
    BY <1>2, <1>3, ConcatProperties, Zenon
  <2> QED BY <1>2, <1>3, <2>1, <2>2
<1> HIDE DEF begin
<1>6. /\ Plan("gpio") \in Seq(GpioEntry) /\ Len(Plan("gpio")) = 16
      /\ \A i \in 1..16 : Plan("gpio")[i] = IF i <= 10 THEN begin[i] ELSE LastPairs[i - 10]
  <2>1. Plan("gpio") = begin \o LastPairs
    BY <1>1 DEF begin
  <2>2. Len(Plan("gpio")) = Len(begin) + Len(LastPairs) /\ Plan("gpio") \in Seq(GpioEntry)
    BY <1>4, <1>5, <2>1, Concatenated, Zenon
  <2>3. \A i \in 1..Len(begin) + Len(LastPairs) :
          (begin \o LastPairs)[i] =
            IF i <= Len(begin) THEN begin[i] ELSE LastPairs[i - Len(begin)]
    BY <1>4, <1>5, ConcatProperties, Zenon
  <2>4. Len(begin) + Len(LastPairs) = 16
    BY <1>4, <1>5
  <2>5. \A i \in 1..16 : (begin \o LastPairs)[i] =
                           IF i <= 10 THEN begin[i] ELSE LastPairs[i - 10]
    BY <1>5, <2>3, <2>4
  <2>6. Len(Plan("gpio")) = 16
    BY <2>2, <2>4
  <2>7. \A i \in 1..16 : Plan("gpio")[i] = IF i <= 10 THEN begin[i] ELSE LastPairs[i - 10]
    <3> TAKE i \in 1..16
    <3>1. Plan("gpio")[i] = (begin \o LastPairs)[i]
      BY <2>1, Zenon
    <3> QED BY <2>5, <3>1, Zenon
  <2> QED BY <2>2, <2>6, <2>7
<1>7. DOMAIN Plan("gpio") = 1..Len(Plan("gpio"))
  BY <1>6, LenProperties, Zenon
<1> QED BY <1>5, <1>6, <1>7

\* A plan is a sequence, and not an empty one.
LEMMA PlanIsSequence ==
  ASSUME NEW x \in GpioTests
  PROVE  Len(Plan(x)) \in Nat \ {0} /\ DOMAIN Plan(x) = 1..Len(Plan(x))
<1>1. CASE x = "spi1"
  <2>1. Plan(x) = <<Pair("SPI1_MISO", "SPI1_MOSI")>>
    BY <1>1 DEF Plan
  <2> QED BY <2>1
<1>2. CASE x = "spi2"
  <2>1. Plan(x) = <<Pair("SPI2_MISO", "SPI2_MOSI")>>
    BY <1>2 DEF Plan
  <2> QED BY <2>1
<1>3. CASE x = "gpio"
  <2>1. Len(Plan("gpio")) = 16 /\ DOMAIN Plan("gpio") = 1..16
    BY GpioPlan
  <2>2. Plan(x) = Plan("gpio")
    BY <1>3, Zenon
  <2>3. \A s : Len(s) = 16 => Len(s) \in Nat \ {0} /\ 1..16 = 1..Len(s)
    OBVIOUS
  <2> QED BY <2>1, <2>2, <2>3, Zenon
<1> QED BY <1>1, <1>2, <1>3 DEF GpioTests

\* The outputs of a test, and the inputs its pairs read.
OutsOf(x) ==
  CASE x = "spi1" -> {"SPI1_MOSI"}
    [] x = "spi2" -> {"SPI2_MOSI"}
    [] x = "gpio" -> {"GPIO2", "GPIO0", "UART8_RTS", "UART7_RTS", "UART3_RTS", "SPI2_CS0",
                      "SPI2_CS1", "SPI1_CS0", "SPI1_CLK", "SPI2_CLK"}

\* What an entry of testGPIO's plan is.
LEMMA GpioEntries ==
  LET x == "gpio"
      cts == {"UART3_RTS", "SPI2_CS0", "SPI2_CS1", "SPI1_CS0", "SPI1_CLK", "SPI2_CLK"}
  IN /\ \A i \in 1..4 : Plan(x)[i] \in {Pair("GPIO3", "GPIO2"), Pair("GPIO1", "GPIO0"),
                                        Pair("UART7_CTS", "UART8_RTS"),
                                        Pair("UART8_CTS", "UART7_RTS")}
     /\ \A i \in 5..10 : Plan(x)[i] \in {Low(o) : o \in cts}
     /\ \A i \in 11..16 : Plan(x)[i] \in {Pair("UART3_CTS", o) : o \in cts}
     /\ \A o \in cts : /\ \E i \in 5..10 : Plan(x)[i] = Low(o)
                       /\ \E i \in 11..16 : Plan(x)[i] = Pair("UART3_CTS", o)
<1>1. \A i \in 1..4 : FirstPairs[i] \in {Pair("GPIO3", "GPIO2"), Pair("GPIO1", "GPIO0"),
                                         Pair("UART7_CTS", "UART8_RTS"),
                                         Pair("UART8_CTS", "UART7_RTS")}
  BY DEF FirstPairs
<1> DEFINE cts == {"UART3_RTS", "SPI2_CS0", "SPI2_CS1", "SPI1_CS0", "SPI1_CLK", "SPI2_CLK"}
<1>2. \A i \in 1..6 : Lows[i] \in {Low(o) : o \in cts}
  BY DEF Lows
<1>3. \A i \in 1..6 : LastPairs[i] \in {Pair("UART3_CTS", o) : o \in cts}
  BY DEF LastPairs
<1>4. \A o \in cts : \E i \in 1..6 : Lows[i] = Low(o)
  BY DEF Lows
<1>5. \A o \in cts : \E i \in 1..6 : LastPairs[i] = Pair("UART3_CTS", o)
  BY DEF LastPairs
<1>6. /\ \A i \in 5..10 : i - 4 \in 1..6
      /\ \A i \in 11..16 : i - 10 \in 1..6
      /\ \A i \in 1..6 : i + 4 \in 5..10 /\ (i + 4) - 4 = i
      /\ \A i \in 1..6 : i + 10 \in 11..16 /\ (i + 10) - 10 = i
  OBVIOUS
<1>7. \A o \in cts : \E i \in 5..10 : Plan("gpio")[i] = Low(o)
  BY <1>4, <1>6, GpioPlan
<1>8. \A o \in cts : \E i \in 11..16 : Plan("gpio")[i] = Pair("UART3_CTS", o)
  BY <1>5, <1>6, GpioPlan
<1> QED BY <1>1, <1>2, <1>3, <1>6, <1>7, <1>8, GpioPlan

\* The plans of the two SPI tests have one entry.
LEMMA SpiPlans ==
  /\ DOMAIN Plan("spi1") = {1} /\ Plan("spi1")[1] = Pair("SPI1_MISO", "SPI1_MOSI")
  /\ DOMAIN Plan("spi2") = {1} /\ Plan("spi2")[1] = Pair("SPI2_MISO", "SPI2_MOSI")
<1>1. Plan("spi1") = <<Pair("SPI1_MISO", "SPI1_MOSI")>>
  BY DEF Plan
<1>2. Plan("spi2") = <<Pair("SPI2_MISO", "SPI2_MOSI")>>
  BY DEF Plan
<1> QED BY <1>1, <1>2

\* No output is driven by two tests.
LEMMA OutsApart ==
  ASSUME NEW x \in GpioTests, NEW y \in GpioTests \ {x},
         NEW i \in DOMAIN Plan(x), NEW j \in DOMAIN Plan(y)
  PROVE  Plan(x)[i].out # Plan(y)[j].out
<1>1. \A k \in DOMAIN Plan("gpio") : Plan("gpio")[k].out \in OutsOf("gpio")
  <2> TAKE k \in DOMAIN Plan("gpio")
  <2>1. k \in 1..4 \/ k \in 5..10 \/ k \in 11..16
    <3>1. k \in 1..16
      BY GpioPlan
    <3> QED BY <3>1
  <2> QED BY <2>1, GpioEntries DEF Pair, Low, OutsOf
<1>2. \A k \in DOMAIN Plan("spi1") : Plan("spi1")[k].out \in OutsOf("spi1")
  BY SpiPlans DEF Pair, OutsOf
<1>3. \A k \in DOMAIN Plan("spi2") : Plan("spi2")[k].out \in OutsOf("spi2")
  BY SpiPlans DEF Pair, OutsOf
<1>4. Plan(x)[i].out \in OutsOf(x) /\ Plan(y)[j].out \in OutsOf(y)
  BY <1>1, <1>2, <1>3, Zenon DEF GpioTests
<1>5. OutsOf(x) \cap OutsOf(y) = {}
  BY DEF OutsOf, GpioTests
<1> QED BY <1>4, <1>5

\* Of the outputs paired with one input, each but the pair's own has been
\* driven, and pulled low, by an earlier entry of the plan; and what is only
\* pulled low is paired later.
EarlierOrOwn(x, i, o) ==
  o = Plan(x)[i].out \/ \E k \in DOMAIN Plan(x) : k < i /\ Plan(x)[k].out = o

LEMMA SameInput ==
  ASSUME NEW x \in GpioTests, NEW i \in DOMAIN Plan(x), NEW j \in DOMAIN Plan(x),
         Plan(x)[i].op = "pair", Plan(x)[j].op = "pair", Plan(x)[i].in = Plan(x)[j].in
  PROVE  EarlierOrOwn(x, i, Plan(x)[j].out)
<1>1. CASE x = "gpio"
  <2>1. DOMAIN Plan(x) = 1..16 /\ Plan(x) = Plan("gpio")
    <3>1. Plan(x) = Plan("gpio")
      BY <1>1, Zenon
    <3> QED BY <3>1, GpioPlan
  <2>2. i \in 1..4 \/ i \in 5..10 \/ i \in 11..16
    BY <2>1
  <2>3. j \in 1..4 \/ j \in 5..10 \/ j \in 11..16
    BY <2>1
  <2>4. CASE i \in 11..16 /\ j \in 11..16
    <3>1. PICK k \in 5..10 : Plan("gpio")[k].out = Plan("gpio")[j].out
      BY <2>4, GpioEntries DEF Pair, Low
    <3>2. k \in 1..16 /\ k < i
      BY <2>4
    <3> QED BY <2>1, <3>1, <3>2, Zenon DEF EarlierOrOwn
  <2>5. CASE i \in 5..10 \/ j \in 5..10
    BY <2>1, <2>5, GpioEntries DEF Low
  <2>6. CASE i \in 1..4 /\ j \in 1..4
    BY <2>1, <2>6, GpioEntries DEF Pair, EarlierOrOwn
  <2>7. CASE (i \in 1..4 /\ j \in 11..16) \/ (i \in 11..16 /\ j \in 1..4)
    BY <2>1, <2>7, GpioEntries DEF Pair
  <2> QED BY <2>2, <2>3, <2>4, <2>5, <2>6, <2>7
<1>2. CASE x # "gpio"
  <2>1. i = 1 /\ j = 1
    BY <1>2, SpiPlans DEF GpioTests
  <2> QED BY <2>1 DEF EarlierOrOwn
<1> QED BY <1>1, <1>2

LEMMA LowIsPaired ==
  ASSUME NEW x \in GpioTests, NEW i \in DOMAIN Plan(x), Plan(x)[i].op # "pair"
  PROVE  \E j \in DOMAIN Plan(x) : Plan(x)[j].op = "pair" /\ Plan(x)[j].out = Plan(x)[i].out
<1>1. CASE x = "gpio"
  <2>1. DOMAIN Plan(x) = 1..16 /\ Plan(x) = Plan("gpio")
    <3>1. Plan(x) = Plan("gpio")
      BY <1>1, Zenon
    <3> QED BY <3>1, GpioPlan
  <2>2. i \in 1..4 \/ i \in 5..10 \/ i \in 11..16
    BY <2>1
  <2>3. i \in 5..10
    BY <2>1, <2>2, GpioEntries DEF Pair
  <2>4. PICK j \in 11..16 : /\ Plan("gpio")[j].op = "pair"
                            /\ Plan("gpio")[j].out = Plan("gpio")[i].out
    <3> DEFINE cts == {"UART3_RTS", "SPI2_CS0", "SPI2_CS1", "SPI1_CS0", "SPI1_CLK", "SPI2_CLK"}
    <3>1. PICK o \in cts : Plan("gpio")[i] = Low(o)
      BY <2>3, GpioEntries
    <3>2. PICK j \in 11..16 : Plan("gpio")[j] = Pair("UART3_CTS", o)
      BY GpioEntries
    <3> QED BY <3>1, <3>2 DEF Pair, Low
  <2>5. j \in 1..16
    OBVIOUS
  <2> QED BY <2>1, <2>4, <2>5, Zenon
<1>2. CASE x # "gpio"
  BY <1>2, SpiPlans DEF GpioTests, Pair
<1> QED BY <1>1, <1>2

LEMMA EntryDrivesOutput ==
  ASSUME TypeOK, NEW t \in Threads
  PROVE  Entry(t).out \in Outs
<1>1. job[t] \in GpioTests /\ item[t] \in DOMAIN Plan(job[t])
  BY DEF TypeOK
<1>2. Entry(t) \in Entries(job[t])
  BY <1>1, Zenon DEF Entries, Entry
<1>3. Entry(t).out \in {e.out : e \in Entries(job[t])}
  BY <1>2
<1> QED BY <1>1, <1>3, Zenon DEF Outs
-----------------------------------------------------------------------------
LEMMA InitOK == Init => IInv
<1> SUFFICES ASSUME Init
             PROVE  IInv
  OBVIOUS
<1>1. 1 \in DOMAIN Plan("gpio")
  BY PlanIsSequence DEF GpioTests
<1>2. high \in SUBSET Outs /\ untouched \in SUBSET Outs
  BY GpioAssumption DEF Init, Board
<1>3. TypeOK /\ item \in [Threads -> Nat]
  BY <1>1, <1>2 DEF Init, TypeOK, Result, GpioTests
<1>4. FirstWhenIdle /\ HighPinIsUnderTest
  BY DEF Init, FirstWhenIdle, HighPinIsUnderTest
<1> QED BY <1>3, <1>4 DEF IInv

AtType == [Threads -> {"idle", "created", "out", "one", "in", "high", "read1",
                       "low", "low again", "read0", "verdict"}]

\* What is left of the types once board and pins are known to keep theirs.
RunTypes ==
  /\ job \in [Threads -> GpioTests] /\ said \in [Threads -> Result]
  /\ item \in [Threads -> Nat] /\ \A t \in Threads : item[t] \in DOMAIN Plan(job[t])
  /\ at \in AtType
  /\ value \in [Threads -> BOOLEAN] /\ seen \in [Threads -> BOOLEAN]
  /\ alone \in [Threads -> BOOLEAN] /\ restarted \in BOOLEAN

\* An entry that is over leaves the types alone.
LEMMA AdvanceType ==
  ASSUME RunTypes, NEW t \in Threads, NEW r \in BOOLEAN, Advance(t, r)
  PROVE  RunTypes'
<1>1. UNCHANGED <<job, said, alone, restarted>>
  BY DEF Advance
<1>2. value' \in [Threads -> BOOLEAN] /\ seen' \in [Threads -> BOOLEAN]
  BY DEF Advance, RunTypes
<1>3. /\ 1 \in DOMAIN Plan(job[t])
      /\ ~Last(t) => item[t] + 1 \in DOMAIN Plan(job[t])
  <2>1. job[t] \in GpioTests /\ item[t] \in DOMAIN Plan(job[t])
    BY DEF RunTypes
  <2>2. Len(Plan(job[t])) \in Nat \ {0} /\ DOMAIN Plan(job[t]) = 1..Len(Plan(job[t]))
    BY <2>1, PlanIsSequence
  <2> QED BY <2>1, <2>2 DEF Last
<1>4. PICK i \in Nat : i \in DOMAIN Plan(job[t]) /\ item' = [item EXCEPT ![t] = i]
  <2>1. CASE Last(t)
    BY <2>1, <1>3 DEF Advance
  <2>2. CASE ~Last(t)
    BY <2>2, <1>3 DEF Advance, RunTypes
  <2> QED BY <2>1, <2>2
<1>5. at' \in AtType
  BY DEF Advance, RunTypes, AtType
<1>6. item' \in [Threads -> Nat] /\ \A u \in Threads : item'[u] \in DOMAIN Plan(job'[u])
  BY <1>1, <1>4 DEF RunTypes
<1> QED BY <1>1, <1>2, <1>5, <1>6 DEF RunTypes

LEMMA ContinueType ==
  ASSUME RunTypes, NEW t \in Threads,
         NEW l \in {"one", "in", "high", "read1", "low", "low again", "read0"},
         Continue(t, l), seen' \in [Threads -> BOOLEAN]
  PROVE  RunTypes'
<1>1. at' \in AtType
  BY DEF Continue, RunTypes, AtType
<1> QED BY <1>1 DEF Continue, RunTypes

PinTypes == board \in Boards /\ high \in SUBSET Outs /\ untouched \in SUBSET Outs

LEMMA TypesTogether ==
  /\ IInv => RunTypes /\ PinTypes
  /\ RunTypes /\ PinTypes => TypeOK /\ item \in [Threads -> Nat]
BY Zenon DEF IInv, TypeOK, RunTypes, PinTypes, AtType

LEMMA RunTypesStep == IInv /\ [Next]_vars => RunTypes'
<1> SUFFICES ASSUME IInv, [Next]_vars
             PROVE  RunTypes'
  OBVIOUS
<1>1. RunTypes
  BY TypesTogether
<1>2. ASSUME NEW t \in Threads, InitOut(t)
      PROVE  RunTypes'
  <2>1. CASE at[t] = "out" /\ Entry(t).op = "pair" /\ Continue(t, "one") /\ UNCHANGED seen
    BY <1>1, <2>1, ContinueType DEF RunTypes
  <2>2. CASE Advance(t, TRUE)
    BY <1>1, <2>2, AdvanceType
  <2>3. CASE Advance(t, Entry(t).op # "pair")
    BY <1>1, <2>3, AdvanceType
  <2>4. CASE Continue(t, "in") /\ UNCHANGED seen
    BY <1>1, <2>4, ContinueType DEF RunTypes
  <2> QED BY <1>2, <2>1, <2>2, <2>3, <2>4 DEF InitOut
<1>3. ASSUME NEW t \in Threads, InitIn(t)
      PROVE  RunTypes'
  <2>1. CASE Advance(t, FALSE)
    BY <1>1, <2>1, AdvanceType
  <2>2. CASE Continue(t, "high") /\ UNCHANGED seen
    BY <1>1, <2>2, ContinueType DEF RunTypes
  <2> QED BY <1>3, <2>1, <2>2 DEF InitIn
<1>4. ASSUME NEW t \in Threads, SetValue(t)
      PROVE  RunTypes'
  BY <1>1, <1>4, ContinueType DEF SetValue, RunTypes
<1>5. ASSUME NEW t \in Threads, GetValue(t)
      PROVE  RunTypes'
  <2>1. CASE Continue(t, "low") /\ seen' = [seen EXCEPT ![t] = Hears(Entry(t).in)]
    <3>1. seen' \in [Threads -> BOOLEAN]
      BY <1>1, <2>1, Zenon DEF RunTypes, Hears
    <3> QED BY <1>1, <2>1, <3>1, ContinueType
  <2>2. CASE Advance(t, seen[t] /\ ~Hears(Entry(t).in))
    BY <1>1, <2>2, AdvanceType
  <2> QED BY <1>5, <2>1, <2>2 DEF GetValue
<1>6. ASSUME NEW t \in Threads, Announce(t)
      PROVE  RunTypes'
  BY <1>1, <1>6 DEF Announce, RunTypes, AtType, Result
<1>7. ASSUME NEW t \in Threads, Verdict(t)
      PROVE  RunTypes'
  BY <1>1, <1>7 DEF Verdict, SetResAddedLogs, RunTypes, AtType, Result
<1>8. ASSUME NEW t \in Threads, NEW x \in GpioTests, Begin(t, x)
      PROVE  RunTypes'
  <2>1. at[t] = "idle" /\ UNCHANGED <<item, value, seen, restarted>>
    BY <1>8 DEF Begin
  <2>2. job' \in [Threads -> GpioTests] /\ said' \in [Threads -> Result] /\ at' \in AtType
    BY <1>1, <1>8 DEF Begin, RunTypes, AtType, Result
  <2>3. alone' \in [Threads -> BOOLEAN]
    BY <1>1, <1>8, Zenon DEF Begin, RunTypes
  <2>4. item[t] \in DOMAIN Plan(x)
    BY <2>1, PlanIsSequence DEF IInv, FirstWhenIdle
  <2>5. \A u \in Threads : item'[u] \in DOMAIN Plan(job'[u])
    BY <1>1, <1>8, <2>1, <2>4 DEF Begin, RunTypes
  <2> QED BY <1>1, <2>1, <2>2, <2>3, <2>5 DEF RunTypes
<1>9. CASE Quit
  <2>1. 1 \in DOMAIN Plan("gpio")
    BY PlanIsSequence DEF GpioTests
  <2> QED BY <1>9, <2>1 DEF Quit, RunTypes, AtType, Result, GpioTests
<1>10. CASE UNCHANGED vars
  BY <1>1, <1>10 DEF vars, RunTypes, AtType
<1> QED BY <1>2, <1>3, <1>4, <1>5, <1>6, <1>7, <1>8, <1>9, <1>10 DEF Next, Step

LEMMA FirstStep == IInv /\ [Next]_vars => FirstWhenIdle'
<1> SUFFICES ASSUME IInv, [Next]_vars
             PROVE  FirstWhenIdle'
  OBVIOUS
<1>1. RunTypes /\ FirstWhenIdle
  BY TypesTogether DEF IInv
<1>2. ASSUME NEW t \in Threads, NEW r, Advance(t, r)
      PROVE  FirstWhenIdle'
  BY <1>1, <1>2 DEF Advance, FirstWhenIdle, RunTypes, AtType
<1>3. ASSUME NEW t \in Threads,
             NEW l \in {"one", "in", "high", "read1", "low", "low again", "read0"}, Continue(t, l)
      PROVE  FirstWhenIdle'
  BY <1>1, <1>3 DEF Continue, FirstWhenIdle, RunTypes, AtType
<1>4. ASSUME NEW t \in Threads, InitOut(t) \/ InitIn(t)
      PROVE  FirstWhenIdle'
  BY <1>4, <1>2, <1>3 DEF InitOut, InitIn
<1>5. ASSUME NEW t \in Threads, SetValue(t) \/ GetValue(t)
      PROVE  FirstWhenIdle'
  BY <1>5, <1>2, <1>3 DEF SetValue, GetValue
<1>6. ASSUME NEW t \in Threads, Announce(t) \/ Verdict(t) \/ \E x \in GpioTests : Begin(t, x)
      PROVE  FirstWhenIdle'
  BY <1>1, <1>6 DEF Announce, Verdict, Begin, FirstWhenIdle, RunTypes, AtType
<1>7. CASE Quit \/ UNCHANGED vars
  BY <1>1, <1>7 DEF Quit, vars, FirstWhenIdle
<1> QED BY <1>4, <1>5, <1>6, <1>7 DEF Next, Step

LEMMA PinTypesStep == IInv /\ [Next]_vars => PinTypes'
<1> SUFFICES ASSUME IInv, [Next]_vars
             PROVE  PinTypes'
  OBVIOUS
<1>1. PinTypes
  BY TypesTogether
<1>2. \A t \in Threads : Entry(t).out \in Outs
  BY EntryDrivesOutput DEF IInv
<1>3. ASSUME NEW t \in Threads, InitOut(t)
      PROVE  PinTypes'
  BY <1>1, <1>2, <1>3 DEF InitOut, Lowered, Advance, Continue, PinTypes
<1>4. ASSUME NEW t \in Threads, SetValue(t)
      PROVE  PinTypes'
  BY <1>1, <1>2, <1>4 DEF SetValue, Lowered, Continue, PinTypes
<1>5. ASSUME NEW t \in Threads, InitIn(t) \/ GetValue(t)
      PROVE  PinTypes'
  BY <1>1, <1>5 DEF InitIn, GetValue, Advance, Continue, PinTypes
<1>6. ASSUME NEW t \in Threads, Announce(t) \/ Verdict(t) \/ \E x \in GpioTests : Begin(t, x)
      PROVE  PinTypes'
  BY <1>1, <1>6 DEF Announce, Verdict, Begin, PinTypes
<1>7. CASE Quit \/ UNCHANGED vars
  BY <1>1, <1>7 DEF Quit, vars, PinTypes
<1> QED BY <1>3, <1>4, <1>5, <1>6, <1>7 DEF Next, Step

\* A run has driven pin o high and will pull it low.
Drives(t, o) == at[t] \in {"in", "high", "read1", "low"} /\ Entry(t).out = o

\* A step of t is fine if no pin is left without its run: t drives it, or it was
\* high before and not because of t.
Covered(t) ==
  \A o \in high' \ untouched' : Drives(t, o)' \/ (o \in high \ untouched /\ ~Drives(t, o))

LEMMA CoverStep ==
  ASSUME IInv, NEW t \in Threads, Step(t) \/ \E x \in GpioTests : Begin(t, x), board.dead = {}
  PROVE  Covered(t)
<1>1. ASSUME NEW l, Continue(t, l)
      PROVE  Entry(t)' = Entry(t) /\ at'[t] = l
  BY <1>1 DEF Continue, Entry, IInv, TypeOK
<1>2. CASE InitOut(t)
  <2>1. CASE at[t] = "out"
    BY <1>2, <2>1 DEF InitOut, Lowered, Covered, Drives
  <2>2. CASE at[t] = "one"
    BY <1>1, <1>2, <2>2 DEF InitOut, Covered, Drives
  <2> QED BY <1>2, <2>1, <2>2 DEF InitOut
<1>3. CASE InitIn(t)
  BY <1>1, <1>3 DEF InitIn, Covered, Drives
<1>4. CASE SetValue(t)
  BY <1>1, <1>4 DEF SetValue, Lowered, Covered, Drives
<1>5. CASE GetValue(t)
  BY <1>1, <1>5 DEF GetValue, Covered, Drives
<1>6. CASE Announce(t) \/ Verdict(t) \/ \E x \in GpioTests : Begin(t, x)
  BY <1>6 DEF Announce, Verdict, Begin, Covered, Drives
<1> QED BY <1>2, <1>3, <1>4, <1>5, <1>6 DEF Step

\* No step of t changes where the others are.
LEMMA OthersStay ==
  ASSUME IInv, NEW t \in Threads, Step(t) \/ \E x \in GpioTests : Begin(t, x),
         NEW u \in Threads \ {t}, NEW o
  PROVE  Drives(u, o) => Drives(u, o)'
<1>1. ASSUME NEW r, Advance(t, r)
      PROVE  job'[u] = job[u] /\ item'[u] = item[u] /\ at'[u] = at[u]
  BY <1>1 DEF Advance, IInv, TypeOK
<1>2. ASSUME NEW l, Continue(t, l)
      PROVE  job'[u] = job[u] /\ item'[u] = item[u] /\ at'[u] = at[u]
  BY <1>2 DEF Continue, IInv, TypeOK
<1>3. job'[u] = job[u] /\ item'[u] = item[u] /\ at'[u] = at[u]
  <2>1. CASE InitOut(t) \/ InitIn(t) \/ SetValue(t) \/ GetValue(t)
    BY <1>1, <1>2, <2>1 DEF InitOut, InitIn, SetValue, GetValue
  <2>2. CASE Announce(t) \/ Verdict(t) \/ \E x \in GpioTests : Begin(t, x)
    BY <2>2 DEF Announce, Verdict, Begin, IInv, TypeOK
  <2> QED BY <2>1, <2>2 DEF Step
<1> QED BY <1>3 DEF Drives, Entry

LEMMA HighPinStep == IInv /\ [Next]_vars => HighPinIsUnderTest'
<1> SUFFICES ASSUME IInv, [Next]_vars
             PROVE  HighPinIsUnderTest'
  OBVIOUS
<1>1. CASE Quit
  BY <1>1 DEF Quit, HighPinIsUnderTest
<1>2. CASE UNCHANGED vars
  BY <1>2 DEF IInv, vars, HighPinIsUnderTest, Entry
<1>3. ASSUME NEW t \in Threads, Step(t) \/ \E x \in GpioTests : Begin(t, x)
      PROVE  HighPinIsUnderTest'
  <2>1. board' = board
    BY <1>3 DEF Step, Begin, Announce, InitOut, InitIn, SetValue, GetValue, Verdict,
                Advance, Continue
  <2> SUFFICES ASSUME board.dead = {}, NEW o \in high' \ untouched'
               PROVE  \E u \in Threads : Drives(u, o)'
    BY <2>1 DEF HighPinIsUnderTest, Drives
  <2>2. Drives(t, o)' \/ (o \in high \ untouched /\ ~Drives(t, o))
    BY <1>3, CoverStep DEF Covered
  <2>3. ASSUME o \in high \ untouched, ~Drives(t, o)
        PROVE  \E u \in Threads \ {t} : Drives(u, o)'
    <3>1. PICK u \in Threads : Drives(u, o)
      BY <2>3 DEF IInv, HighPinIsUnderTest, Drives
    <3>2. u # t
      BY <2>3, <3>1
    <3> QED BY <1>3, <3>1, <3>2, OthersStay
  <2> QED BY <2>2, <2>3
<1> QED BY <1>1, <1>2, <1>3 DEF Next

LEMMA StepOK == IInv /\ [Next]_vars => IInv'
<1> SUFFICES ASSUME IInv, [Next]_vars
             PROVE  IInv'
  OBVIOUS
<1>1. RunTypes' /\ PinTypes'
  BY RunTypesStep, PinTypesStep
<1>2. TypeOK' /\ (item \in [Threads -> Nat])'
  BY <1>1, TypesTogether, PTL
<1> QED BY <1>2, FirstStep, HighPinStep DEF IInv
-----------------------------------------------------------------------------
LEMMA Invariance == Spec => []IInv
  BY InitOK, StepOK, PTL DEF Spec

\* The variables keep their types: no thread runs off the end of its plan.
THEOREM TypeCorrect == Spec => []TypeOK
<1>1. IInv => TypeOK
  BY DEF IInv
<1> QED BY <1>1, Invariance, PTL

\* However many GPIO and SPI tests overlap: no pin is left driven.
THEOREM PinsPutBack == Spec => []HighPinIsUnderTest
<1>1. IInv => HighPinIsUnderTest
  BY DEF IInv
<1> QED BY <1>1, Invariance, PTL
-----------------------------------------------------------------------------
\* A run that no other of its test overlaps.  If it has not failed, the pairs
\* it has checked are sound: what an input heard while its output was high and
\* does not hear now was that output, since nobody else drives what it may
\* hear.  If all its pairs are sound, it has not failed: the outputs it has
\* come past are low, so that an input hears its own output or none.
Runs(t) == at[t] # "idle" /\ alone[t]
AllSound(x) == \A e \in Pairs(x) : Sound(e)
InEntry == {"one", "in", "high", "read1", "low", "low again", "read0"}

Fresh == \A t \in Threads : at[t] \in {"idle", "created"} => item[t] = 1 /\ value[t]
OneOfATest ==
  \A t \in Threads : Runs(t) => \A u \in Threads \ {t} : at[u] # "idle" => job[u] # job[t]

PassedAreSound(t) ==
  value[t] => \A i \in DOMAIN Plan(job[t]) :
    (i < item[t] \/ at[t] = "verdict") /\ Plan(job[t])[i].op = "pair" => Sound(Plan(job[t])[i])
InPair(t) ==
  /\ at[t] \in InEntry => Entry(t).op = "pair" /\ Entry(t).out \notin board.dead
  /\ at[t] \in InEntry \ {"one", "in"} => Entry(t).in \notin board.dead
Echo(t) ==
  at[t] \in {"low", "low again", "read0"} /\ seen[t] =>
    <<Entry(t).in, Entry(t).out>> \in board.wired \/ Hears(Entry(t).in)
EarlierLow(t) ==
  \A j \in DOMAIN Plan(job[t]) :
    j < item[t] => Plan(job[t])[j].out \notin high \/ Drives(t, Plan(job[t])[j].out)
DoingWell(t) ==
  /\ value[t]
  /\ at[t] = "read1" => Entry(t).out \in high
  /\ at[t] \in {"low", "low again", "read0"} => seen[t]
  /\ at[t] \in {"low again", "read0"} => Entry(t).out \notin high
  /\ EarlierLow(t)

LoneRun(t) ==
  PassedAreSound(t) /\ InPair(t) /\ Echo(t) /\ (AllSound(job[t]) => DoingWell(t))
LoneInv == IInv /\ Fresh /\ OneOfATest /\ \A t \in Threads : Runs(t) => LoneRun(t)

\* A pair of a plan and the wiring.
LEMMA EntryFacts ==
  ASSUME IInv, NEW t \in Threads
  PROVE  /\ job[t] \in GpioTests /\ item[t] \in Nat /\ item[t] \in DOMAIN Plan(job[t])
         /\ Entry(t).op = "pair" => Entry(t) \in Pairs(job[t])
         /\ AllSound(job[t]) => Entry(t).out \notin board.dead
         /\ AllSound(job[t]) /\ Entry(t).op = "pair" => Sound(Entry(t))
<1> DEFINE x == job[t]
<1>1. x \in GpioTests /\ item[t] \in Nat /\ item[t] \in DOMAIN Plan(x)
  BY DEF IInv, TypeOK
<1>2. \A i \in DOMAIN Plan(x) : Plan(x)[i].op = "pair" => Plan(x)[i] \in Pairs(x)
  BY DEF Pairs, Entries
<1>3. AllSound(x) => Entry(t).out \notin board.dead
  <2> SUFFICES ASSUME AllSound(x)
               PROVE  Entry(t).out \notin board.dead
    OBVIOUS
  <2>1. PICK j \in DOMAIN Plan(x) : Plan(x)[j].op = "pair" /\ Plan(x)[j].out = Entry(t).out
    BY <1>1, LowIsPaired DEF Entry
  <2> QED BY <1>2, <2>1 DEF AllSound, Sound
<1> QED BY <1>1, <1>2, <1>3 DEF Entry, AllSound

LEMMA ForeignUnheard ==
  ASSUME IInv, NEW t \in Threads, Entry(t).op = "pair",
         NEW y \in GpioTests \ {job[t]}, NEW f \in Entries(y)
  PROVE  <<Entry(t).in, f.out>> \notin board.wired
<1>1. board \in Boards
  BY DEF IInv, TypeOK
<1> QED BY <1>1, EntryFacts, WiringAssumption

LEMMA HeardIsPaired ==
  ASSUME IInv, NEW t \in Threads, Entry(t).op = "pair", AllSound(job[t]),
         NEW o \in Outs, <<Entry(t).in, o>> \in board.wired
  PROVE  EarlierOrOwn(job[t], item[t], o)
<1> DEFINE x == job[t]
<1>1. board \in Boards /\ x \in GpioTests /\ Entry(t) \in Pairs(x)
  BY EntryFacts DEF IInv, TypeOK
<1>2. Pair(Entry(t).in, o) \in Pairs(x)
  <2>1. \A e \in Pairs(x) : <<e.in, e.out>> \in board.wired
    BY DEF AllSound, Sound
  <2> QED BY <1>1, <2>1, WiringAssumption
<1>3. PICK j \in DOMAIN Plan(x) : Plan(x)[j] = Pair(Entry(t).in, o)
  BY <1>2 DEF Pairs, Entries
<1>4. /\ Plan(x)[j].op = "pair" /\ Plan(x)[j].in = Entry(t).in /\ Plan(x)[j].out = o
  BY <1>3 DEF Pair
<1> QED BY <1>1, <1>4, EntryFacts, SameInput DEF Entry

LEMMA LoneInit == Init => Fresh /\ OneOfATest /\ \A t \in Threads : Runs(t) => LoneRun(t)
BY DEF Init, Fresh, OneOfATest, Runs

\* What another test does is not heard by a run.
LEMMA NotDisturbed ==
  ASSUME IInv, NEW t \in Threads, LoneRun(t),
         UNCHANGED <<board, job[t], item[t], at[t], value[t], seen[t]>>,
         \A o : (o \in high') # (o \in high) =>
           \E y \in GpioTests \ {job[t]} : \E f \in Entries(y) : o = f.out
  PROVE  LoneRun(t)'
<1> USE EntryFacts
<1>1. Entry(t)' = Entry(t) /\ UNCHANGED <<board, job[t], item[t], at[t], value[t], seen[t]>>
  BY DEF Entry
<1>2. \A j \in DOMAIN Plan(job[t]) :
        (Plan(job[t])[j].out \in high') = (Plan(job[t])[j].out \in high)
  <2> SUFFICES ASSUME NEW j \in DOMAIN Plan(job[t]),
                      NEW y \in GpioTests \ {job[t]}, NEW f \in Entries(y),
                      Plan(job[t])[j].out = f.out
               PROVE  FALSE
    OBVIOUS
  <2>1. PICK i \in DOMAIN Plan(y) : f = Plan(y)[i]
    BY DEF Entries
  <2> QED BY <2>1, OutsApart
<1>3. (Entry(t).out \in high') = (Entry(t).out \in high)
  BY <1>2 DEF Entry
<1>4. Entry(t).op = "pair" => (Hears(Entry(t).in) <=> Hears(Entry(t).in)')
  BY <1>1, ForeignUnheard DEF Hears
<1>5. PassedAreSound(t)' /\ InPair(t)'
  BY <1>1 DEF LoneRun, PassedAreSound, InPair, Sound
<1>6. Echo(t)'
  BY <1>1, <1>4 DEF LoneRun, InPair, InEntry, Echo
<1>7. AllSound(job[t])' => DoingWell(t)'
  <2>1. AllSound(job[t])' => AllSound(job[t])
    BY <1>1 DEF AllSound, Sound
  <2>2. EarlierLow(t) => EarlierLow(t)'
    BY <1>1, <1>2 DEF EarlierLow, Drives
  <2> QED BY <1>1, <1>3, <2>1, <2>2 DEF LoneRun, DoingWell
<1> QED BY <1>5, <1>6, <1>7 DEF LoneRun

\* An entry is over.
LEMMA AdvanceLone ==
  ASSUME IInv, NEW t \in Threads, LoneRun(t), at[t] # "verdict",
         NEW r \in BOOLEAN, Advance(t, r),
         r /\ Entry(t).op = "pair" => Sound(Entry(t)),
         AllSound(job[t]) =>
           /\ r
           /\ \A j \in DOMAIN Plan(job[t]) : j <= item[t] => Plan(job[t])[j].out \notin high'
  PROVE  LoneRun(t)'
<1> DEFINE p == Plan(job[t])
<1>1. /\ item[t] \in Nat /\ item[t] \in DOMAIN p /\ DOMAIN p = 1..Len(p) /\ Len(p) \in Nat
      /\ job[t] \in GpioTests
  BY EntryFacts, PlanIsSequence
<1>2. UNCHANGED <<board, job>> /\ value'[t] = (value[t] /\ r)
  <2>1. value'[t] = (value[t] /\ r)
    BY Zenon DEF Advance, IInv, TypeOK
  <2> QED BY <2>1 DEF Advance
<1>3. \/ at'[t] = "verdict" /\ item'[t] = 1 /\ item[t] = Len(p)
      \/ at'[t] = "out" /\ item'[t] = item[t] + 1
  BY DEF Advance, Last, IInv, TypeOK
<1>5. PassedAreSound(t)'
  <2> SUFFICES ASSUME value[t], r, NEW i \in DOMAIN p,
                      i < item'[t] \/ at'[t] = "verdict", p[i].op = "pair"
               PROVE  Sound(p[i])'
    BY <1>2 DEF PassedAreSound
  <2>1. i < item[t] \/ i = item[t]
    BY <1>1, <1>3
  <2>2. Sound(p[i])
    BY <2>1 DEF LoneRun, PassedAreSound, Entry
  <2> QED BY <1>2, <2>2 DEF Sound
<1>6. InPair(t)' /\ Echo(t)'
  BY <1>3 DEF InPair, Echo, InEntry
<1>7. ASSUME AllSound(job[t])'
      PROVE  DoingWell(t)'
  <2>1. AllSound(job[t])
    BY <1>2, <1>7 DEF AllSound, Sound
  <2>2. value'[t]
    BY <1>2, <2>1 DEF LoneRun, DoingWell
  <2>3. EarlierLow(t)'
    <3> SUFFICES ASSUME NEW j \in DOMAIN p, j < item'[t]
                 PROVE  p[j].out \notin high'
      BY <1>2 DEF EarlierLow
    <3>1. j <= item[t]
      BY <1>1, <1>3
    <3> QED BY <2>1, <3>1
  <2> QED BY <1>3, <2>2, <2>3 DEF DoingWell
<1> QED BY <1>5, <1>6, <1>7 DEF LoneRun

\* Within an entry.
LEMMA ContinueLone ==
  ASSUME IInv, NEW t \in Threads, LoneRun(t), at[t] # "verdict",
         NEW l \in InEntry, Continue(t, l),
         InPair(t)', Echo(t)',
         AllSound(job[t]) =>
           /\ l = "read1" => Entry(t).out \in high'
           /\ l \in {"low", "low again", "read0"} => seen'[t]
           /\ l \in {"low again", "read0"} => Entry(t).out \notin high'
           /\ EarlierLow(t)'
  PROVE  LoneRun(t)'
<1>1. /\ UNCHANGED <<board, job, item, value>> /\ at'[t] = l /\ l # "verdict"
      /\ Entry(t)' = Entry(t)
  BY DEF Continue, Entry, IInv, TypeOK, InEntry
<1>2. PassedAreSound(t)'
  BY <1>1 DEF LoneRun, PassedAreSound, Sound
<1>3. AllSound(job[t])' => DoingWell(t)'
  <2>1. AllSound(job[t])' => AllSound(job[t])
    BY <1>1 DEF AllSound, Sound
  <2> QED BY <1>1, <2>1 DEF LoneRun, DoingWell
<1> QED BY <1>2, <1>3 DEF LoneRun

\* The output is made one, pulled low, and raised.
LEMMA LoneInitOut ==
  ASSUME IInv, NEW t \in Threads, LoneRun(t), InitOut(t)
  PROVE  LoneRun(t)'
<1> USE EntryFacts
<1>1. board' = board /\ job' = job
  BY DEF InitOut, Advance, Continue
<1>2. CASE at[t] = "out" /\ Entry(t).out \notin board.dead
  <2>1. high' = Lowered(Entry(t).out)
    BY <1>2 DEF InitOut
  <2>2. AllSound(job[t]) =>
          \A j \in DOMAIN Plan(job[t]) : j <= item[t] => Plan(job[t])[j].out \notin high'
    <3> SUFFICES ASSUME AllSound(job[t]), NEW j \in DOMAIN Plan(job[t]), j <= item[t]
                 PROVE  Plan(job[t])[j].out \notin high'
      OBVIOUS
    <3>1. j < item[t] \/ j = item[t]
      BY PlanIsSequence
    <3> QED BY <1>2, <2>1, <3>1 DEF LoneRun, DoingWell, EarlierLow, Drives, Lowered, Entry
  <2>3. CASE Entry(t).op = "pair"
    <3>1. Continue(t, "one") /\ UNCHANGED seen
      BY <1>2, <2>3 DEF InitOut
    <3>2. Entry(t)' = Entry(t) /\ at'[t] = "one" /\ item' = item
      BY <3>1 DEF Continue, Entry, IInv, TypeOK
    <3>3. InPair(t)' /\ Echo(t)'
      BY <1>1, <1>2, <2>3, <3>2 DEF InPair, Echo, InEntry
    <3>4. AllSound(job[t]) => EarlierLow(t)'
      <4>1. \A j \in DOMAIN Plan(job[t]) : j < item[t] => j <= item[t]
        BY PlanIsSequence
      <4> QED BY <1>1, <2>2, <3>2, <4>1 DEF EarlierLow
    <3> QED BY <1>2, <3>1, <3>3, <3>4, ContinueLone DEF InEntry
  <2>4. CASE Entry(t).op # "pair"
    <3>1. Advance(t, TRUE)
      BY <1>2, <2>4 DEF InitOut
    <3> QED BY <1>2, <2>2, <2>4, <3>1, AdvanceLone
  <2> QED BY <2>3, <2>4
<1>3. CASE at[t] = "out" /\ Entry(t).out \in board.dead
  <2>1. Advance(t, Entry(t).op # "pair") /\ ~AllSound(job[t])
    BY <1>3 DEF InitOut
  <2> QED BY <1>3, <2>1, AdvanceLone
<1>4. CASE at[t] = "one"
  <2>1. high' = high \cup {Entry(t).out} /\ Continue(t, "in") /\ UNCHANGED seen
    BY <1>4 DEF InitOut
  <2>2. Entry(t)' = Entry(t) /\ at'[t] = "in" /\ item' = item
    BY <2>1 DEF Continue, Entry, IInv, TypeOK
  <2>3. InPair(t)' /\ Echo(t)'
    BY <1>1, <1>4, <2>2 DEF LoneRun, InPair, Echo, InEntry
  <2>4. AllSound(job[t]) => EarlierLow(t)'
    BY <1>1, <1>4, <2>1, <2>2 DEF LoneRun, DoingWell, EarlierLow, Drives
  <2> QED BY <1>4, <2>1, <2>3, <2>4, ContinueLone DEF InEntry
<1> QED BY <1>2, <1>3, <1>4 DEF InitOut

\* The input is made one; the output is raised and, later, pulled low again.
LEMMA LoneSetValue ==
  ASSUME IInv, NEW t \in Threads, LoneRun(t), InitIn(t) \/ SetValue(t)
  PROVE  LoneRun(t)'
<1> USE EntryFacts
<1>1. board' = board /\ job' = job
  BY DEF InitIn, SetValue, Advance, Continue
<1>2. CASE InitIn(t) /\ Entry(t).in \in board.dead
  <2>1. Advance(t, FALSE) /\ at[t] = "in"
    BY <1>2 DEF InitIn
  <2>2. ~AllSound(job[t])
    BY <1>2, <2>1 DEF LoneRun, InPair, InEntry, Sound
  <2> QED BY <2>1, <2>2, AdvanceLone
<1>3. ASSUME NEW l \in {"high", "read1", "low again", "read0"}, Continue(t, l), UNCHANGED seen,
             \/ at[t] = "in" /\ l = "high" /\ high' = high /\ Entry(t).in \notin board.dead
             \/ at[t] = "high" /\ l = "read1" /\ high' = high \cup {Entry(t).out}
             \/ at[t] = "low" /\ l = "low again" /\ high' = Lowered(Entry(t).out)
             \/ at[t] = "low again" /\ l = "read0" /\ high' = Lowered(Entry(t).out)
      PROVE  LoneRun(t)'
  <2>1. Entry(t)' = Entry(t) /\ at'[t] = l /\ item' = item
    BY <1>3 DEF Continue, Entry, IInv, TypeOK
  <2>2. InPair(t)'
    BY <1>1, <1>3, <2>1 DEF LoneRun, InPair, InEntry
  <2>3. Echo(t)'
    BY <1>1, <1>3, <2>1 DEF LoneRun, Echo, Hears, Lowered
  <2>4. AllSound(job[t]) => EarlierLow(t)'
    BY <1>1, <1>3, <2>1 DEF LoneRun, DoingWell, EarlierLow, Drives, Lowered
  <2>5. AllSound(job[t]) => /\ l = "read1" => Entry(t).out \in high'
                            /\ l \in {"low", "low again", "read0"} => seen'[t]
                            /\ l \in {"low again", "read0"} => Entry(t).out \notin high'
    BY <1>3 DEF LoneRun, DoingWell, Lowered
  <2> QED BY <1>3, <2>2, <2>3, <2>4, <2>5, ContinueLone DEF InEntry
<1> QED BY <1>2, <1>3 DEF InitIn, SetValue

LEMMA LoneGetValue ==
  ASSUME IInv, NEW t \in Threads, LoneRun(t), GetValue(t)
  PROVE  LoneRun(t)'
<1> USE EntryFacts
<1>1. board' = board /\ job' = job /\ high' = high
  BY DEF GetValue, Advance, Continue
<1>2. CASE at[t] = "read1"
  <2>1. Continue(t, "low") /\ seen' = [seen EXCEPT ![t] = Hears(Entry(t).in)]
    BY <1>2 DEF GetValue
  <2>2. seen'[t] <=> Hears(Entry(t).in)
    BY <2>1, Zenon DEF IInv, TypeOK
  <2>3. Entry(t)' = Entry(t) /\ at'[t] = "low" /\ item' = item
    BY <2>1 DEF Continue, Entry, IInv, TypeOK
  <2>4. InPair(t)' /\ Echo(t)'
    BY <1>1, <1>2, <2>2, <2>3 DEF LoneRun, InPair, InEntry, Echo, Hears
  <2>5. AllSound(job[t]) => seen'[t] /\ EarlierLow(t)'
    <3> SUFFICES ASSUME AllSound(job[t])
                 PROVE  seen'[t] /\ EarlierLow(t)'
      OBVIOUS
    <3>1. Sound(Entry(t)) /\ Entry(t).out \in high
      BY <1>2 DEF LoneRun, InPair, InEntry, DoingWell
    <3>2. Hears(Entry(t).in)
      BY <3>1 DEF Hears, Sound
    <3>3. EarlierLow(t)'
      BY <1>1, <1>2, <2>3 DEF LoneRun, DoingWell, EarlierLow, Drives
    <3> QED BY <2>2, <3>2, <3>3
  <2> QED BY <1>2, <2>1, <2>4, <2>5, ContinueLone DEF InEntry
<1>3. CASE at[t] = "read0"
  <2>1. /\ Advance(t, seen[t] /\ ~Hears(Entry(t).in)) /\ Entry(t).op = "pair"
        /\ {Entry(t).in, Entry(t).out} \cap board.dead = {}
    BY <1>3 DEF GetValue, LoneRun, InPair, InEntry
  <2>2. seen[t] /\ ~Hears(Entry(t).in) => Sound(Entry(t))
    BY <1>3, <2>1 DEF LoneRun, Echo, Sound
  <2>3. AllSound(job[t]) =>
          \A j \in DOMAIN Plan(job[t]) : j <= item[t] => Plan(job[t])[j].out \notin high
    <3> SUFFICES ASSUME AllSound(job[t]), NEW j \in DOMAIN Plan(job[t]), j <= item[t]
                 PROVE  Plan(job[t])[j].out \notin high
      OBVIOUS
    <3>1. j < item[t] \/ j = item[t]
      BY PlanIsSequence
    <3> QED BY <1>3, <3>1 DEF LoneRun, DoingWell, EarlierLow, Drives, Entry
  <2>4. AllSound(job[t]) => seen[t] /\ ~Hears(Entry(t).in)
    <3> SUFFICES ASSUME AllSound(job[t]), NEW o \in high, <<Entry(t).in, o>> \in board.wired
                 PROVE  FALSE
      BY <1>3 DEF LoneRun, DoingWell, Hears
    <3>1. o \in Outs
      BY DEF IInv, TypeOK
    <3>2. EarlierOrOwn(job[t], item[t], o)
      BY <2>1, <3>1, HeardIsPaired
    <3>3. \E j \in DOMAIN Plan(job[t]) : j <= item[t] /\ Plan(job[t])[j].out = o
      BY <3>2, PlanIsSequence DEF EarlierOrOwn
    <3> QED BY <2>3, <3>3
  <2>5. (seen[t] /\ ~Hears(Entry(t).in)) \in BOOLEAN
    BY Zenon
  <2> QED BY <1>1, <1>3, <2>1, <2>2, <2>3, <2>4, <2>5, AdvanceLone
<1> QED BY <1>2, <1>3 DEF GetValue

\* A step of a run within its plan touches nothing of another one but a pin.
LEMMA StepInPlan ==
  ASSUME LoneInv, NEW u \in Threads, InitOut(u) \/ InitIn(u) \/ SetValue(u) \/ GetValue(u)
  PROVE  Fresh' /\ OneOfATest' /\ \A t \in Threads : Runs(t)' => LoneRun(t)'
<1> USE DEF LoneInv
<1>1. /\ at[u] \in InEntry \cup {"out"} /\ at'[u] \in InEntry \cup {"out", "verdict"}
      /\ UNCHANGED <<board, job, alone>>
      /\ \A t \in Threads \ {u} : /\ item'[t] = item[t] /\ at'[t] = at[t]
                                  /\ value'[t] = value[t] /\ seen'[t] = seen[t]
  <2>1. ASSUME NEW l \in InEntry, Continue(u, l)
        PROVE  /\ at'[u] = l /\ UNCHANGED <<board, job, alone, item, value>>
               /\ \A t \in Threads \ {u} : at'[t] = at[t]
    BY <2>1 DEF Continue, IInv, TypeOK
  <2>2. ASSUME NEW r, Advance(u, r)
        PROVE  /\ at'[u] \in {"out", "verdict"} /\ UNCHANGED <<board, job, alone>>
               /\ \A t \in Threads \ {u} : /\ item'[t] = item[t] /\ at'[t] = at[t]
                                           /\ value'[t] = value[t] /\ seen'[t] = seen[t]
    BY <2>2 DEF Advance, IInv, TypeOK
  <2> USE DEF InEntry
  <2>3. CASE InitOut(u)
    BY <2>1, <2>2, <2>3 DEF InitOut
  <2>4. CASE InitIn(u)
    BY <2>1, <2>2, <2>4 DEF InitIn
  <2>5. CASE SetValue(u)
    BY <2>1, <2>5 DEF SetValue
  <2>6. CASE GetValue(u)
    <3>1. \A t \in Threads \ {u} : seen'[t] = seen[t]
      BY <2>2, <2>6 DEF GetValue, IInv, TypeOK
    <3> QED BY <2>1, <2>2, <2>6, <3>1 DEF GetValue
  <2> QED BY <2>3, <2>4, <2>5, <2>6
<1>2. Fresh'
  BY <1>1 DEF Fresh, InEntry
<1>3. OneOfATest'
  BY <1>1 DEF OneOfATest, Runs, InEntry
<1>4. ASSUME NEW t \in Threads, Runs(t)'
      PROVE  LoneRun(t)'
  <2>1. Runs(t)
    BY <1>1, <1>4 DEF Runs, InEntry
  <2>2. CASE t = u
    BY <2>1, <2>2, LoneInitOut, LoneSetValue, LoneGetValue
  <2>3. CASE t # u
    <3>1. job[u] \in GpioTests \ {job[t]} /\ Entry(u) \in Entries(job[u])
      <4>1. job[u] # job[t]
        BY <1>1, <2>1, <2>3 DEF OneOfATest, InEntry
      <4> QED BY <4>1, EntryFacts DEF Entry, Entries
    <3>2. \A o : (o \in high') # (o \in high) => o = Entry(u).out
      <4>1. high' \in {high, high \ {Entry(u).out}, high \cup {Entry(u).out}}
        BY DEF InitOut, InitIn, SetValue, GetValue, Lowered
      <4> QED BY <4>1
    <3>3. \A o : (o \in high') # (o \in high) =>
            \E y \in GpioTests \ {job[t]} : \E f \in Entries(y) : o = f.out
      BY <3>1, <3>2
    <3>4. UNCHANGED <<board, job[t], item[t], at[t], value[t], seen[t]>>
      BY <1>1, <2>3
    <3> QED BY <2>1, <3>3, <3>4, NotDisturbed
  <2> QED BY <2>2, <2>3
<1> QED BY <1>2, <1>3, <1>4

LEMMA LoneStep ==
  LoneInv /\ [Next]_vars
    => Fresh' /\ OneOfATest' /\ \A t \in Threads : Runs(t)' => LoneRun(t)'
<1> SUFFICES ASSUME LoneInv, [Next]_vars
             PROVE  Fresh' /\ OneOfATest' /\ \A t \in Threads : Runs(t)' => LoneRun(t)'
  OBVIOUS
<1> USE DEF LoneInv
<1>1. ASSUME NEW u \in Threads, NEW x \in GpioTests, Begin(u, x)
      PROVE  Fresh' /\ OneOfATest' /\ \A t \in Threads : Runs(t)' => LoneRun(t)'
  <2>1. /\ at[u] = "idle" /\ at'[u] = "created" /\ job'[u] = x
        /\ UNCHANGED <<board, high, item, value, seen>>
        /\ \A t \in Threads \ {u} : at'[t] = at[t] /\ job'[t] = job[t]
    BY <1>1 DEF Begin, IInv, TypeOK
  <2>2. Fresh'
    BY <2>1 DEF Fresh
  <2> DEFINE same == {t \in Threads \ {u} : at[t] # "idle" /\ job[t] = x}
  <2>3. /\ alone'[u] => same = {}
        /\ \A t \in Threads \ {u} : alone'[t] => alone[t] /\ t \notin same
    BY <1>1, Zenon DEF Begin
  <2>4. OneOfATest'
    BY <2>1, <2>3 DEF OneOfATest, Runs
  <2>5. LoneRun(u)'
    <3>1. item'[u] = 1 /\ value'[u]
      BY <2>1 DEF Fresh
    <3>2. DOMAIN Plan(x) = 1..Len(Plan(x))
      BY PlanIsSequence
    <3>3. PassedAreSound(u)'
      BY <2>1, <3>1, <3>2 DEF PassedAreSound
    <3>4. DoingWell(u)'
      BY <2>1, <3>1, <3>2 DEF DoingWell, EarlierLow
    <3> QED BY <2>1, <3>3, <3>4 DEF LoneRun, InPair, InEntry, Echo
  <2>6. ASSUME NEW t \in Threads \ {u}, Runs(t)'
        PROVE  LoneRun(t)'
    <3>1. LoneRun(t)
      BY <2>1, <2>3, <2>6 DEF Runs
    <3> QED BY <2>1, <3>1, NotDisturbed
  <2> QED BY <2>2, <2>4, <2>5, <2>6
<1>2. ASSUME NEW u \in Threads, Announce(u)
      PROVE  Fresh' /\ OneOfATest' /\ \A t \in Threads : Runs(t)' => LoneRun(t)'
  <2>1. /\ at[u] = "created" /\ at'[u] = "out"
        /\ UNCHANGED <<board, high, job, item, value, seen, alone>>
        /\ \A t \in Threads \ {u} : at'[t] = at[t]
    BY <1>2 DEF Announce, IInv, TypeOK
  <2>2. Fresh' /\ OneOfATest'
    BY <2>1 DEF Fresh, OneOfATest, Runs
  <2>3. LoneRun(u)'
    <3>1. item'[u] = 1 /\ value'[u]
      BY <2>1 DEF Fresh
    <3>2. DOMAIN Plan(job[u]) = 1..Len(Plan(job[u]))
      BY EntryFacts, PlanIsSequence
    <3>3. PassedAreSound(u)'
      BY <2>1, <3>1, <3>2 DEF PassedAreSound
    <3>4. DoingWell(u)'
      BY <2>1, <3>1, <3>2 DEF DoingWell, EarlierLow
    <3> QED BY <2>1, <3>3, <3>4 DEF LoneRun, InPair, InEntry, Echo
  <2>4. ASSUME NEW t \in Threads \ {u}, Runs(t)'
        PROVE  LoneRun(t)'
    BY <2>1, <2>4, NotDisturbed DEF Runs
  <2> QED BY <2>2, <2>3, <2>4
<1>3. ASSUME NEW u \in Threads, Verdict(u)
      PROVE  Fresh' /\ OneOfATest' /\ \A t \in Threads : Runs(t)' => LoneRun(t)'
  <2>1. /\ at[u] = "verdict" /\ at'[u] = "idle" /\ value'[u]
        /\ UNCHANGED <<board, high, job, item, seen>>
        /\ \A t \in Threads \ {u} : /\ at'[t] = at[t] /\ value'[t] = value[t]
                                    /\ alone'[t] = alone[t]
    BY <1>3 DEF Verdict, IInv, TypeOK
  <2>2. Fresh'
    BY <2>1 DEF Fresh, IInv, FirstWhenIdle
  <2>3. OneOfATest'
    BY <2>1 DEF OneOfATest, Runs
  <2>4. ASSUME NEW t \in Threads, Runs(t)'
        PROVE  LoneRun(t)'
    <3>1. t # u /\ LoneRun(t)
      BY <2>1, <2>4 DEF Runs
    <3> QED BY <2>1, <3>1, NotDisturbed
  <2> QED BY <2>2, <2>3, <2>4
<1>4. CASE Quit
  BY <1>4 DEF Quit, Fresh, OneOfATest, Runs
<1>5. CASE UNCHANGED vars
  <2>1. UNCHANGED <<board, high, job, item, at, value, seen, alone>>
    BY <1>5 DEF vars
  <2>2. \A t \in Threads : Runs(t)' => LoneRun(t)'
    BY <2>1, NotDisturbed DEF Runs
  <2> QED BY <2>1, <2>2 DEF Fresh, OneOfATest, Runs
<1> QED BY <1>1, <1>2, <1>3, <1>4, <1>5, StepInPlan DEF Next, Step

LEMMA LoneInvariance == Spec => []LoneInv
<1>1. Init /\ IInv => LoneInv
  BY LoneInit DEF LoneInv
<1>2. LoneInv /\ IInv' /\ [Next]_vars => LoneInv'
  BY LoneStep DEF LoneInv
<1> QED BY <1>1, <1>2, Invariance, PTL DEF Spec

\* A run that no other run of the same test overlaps passes if and only if all
\* its pairs are sound, whatever the other tests do meanwhile, whatever earlier
\* runs left driven, and whatever the pins' peripherals were driving.
THEOREM LoneRunRight == Spec => []LoneRunIsRight
<1>1. LoneInv => LoneRunIsRight
  <2> SUFFICES ASSUME LoneInv, NEW t \in Threads, at[t] = "verdict", alone[t]
               PROVE  value[t] <=> \A e \in Pairs(job[t]) : Sound(e)
    BY DEF LoneRunIsRight
  <2>1. LoneRun(t)
    BY DEF LoneInv, Runs
  <2>2. value[t] => \A e \in Pairs(job[t]) : Sound(e)
    BY <2>1 DEF LoneRun, PassedAreSound, Pairs, Entries
  <2>3. (\A e \in Pairs(job[t]) : Sound(e)) => value[t]
    BY <2>1 DEF LoneRun, DoingWell, AllSound
  <2> QED BY <2>2, <2>3
<1> QED BY <1>1, LoneInvariance, PTL
-----------------------------------------------------------------------------
\* The thread of TestThread that a run is.
StageOf == [t \in Threads |-> IF at[t] \in {"idle", "created"} THEN at[t] ELSE "running"]

\* The runs are threads as TestThread describes them, in every run of the program.
THEOREM ThreadsImplemented == Spec => Promise!ThreadSpec
<1>1. Init => Promise!ThreadInit
  BY DEF Init, Promise!ThreadInit
<1>2. TypeOK /\ [Next]_vars => [Promise!ThreadNext]_(Promise!threadVars)
  <2> SUFFICES ASSUME TypeOK, [Next]_vars
               PROVE  Promise!ThreadNext \/ UNCHANGED <<StageOf, said>>
    BY DEF Promise!threadVars, StageOf
  <2>1. ASSUME NEW t \in Threads, NEW x \in GpioTests, Begin(t, x)
        PROVE  Promise!Start(t)
    BY <2>1 DEF Begin, TypeOK, Promise!Start
  <2>2. ASSUME NEW t \in Threads, Announce(t)
        PROVE  Promise!SayProgress(t)
    BY <2>2 DEF Announce, TypeOK, Promise!SayProgress
  <2>3. ASSUME NEW t \in Threads, Verdict(t)
        PROVE  Promise!SayVerdict(t)
    <3>1. \E r \in BOOLEAN : said' = [said EXCEPT ![t] = Promise!SetResAddedLogs(r)]
      BY <2>3 DEF TypeOK, Verdict, SetResAddedLogs, Promise!SetResAddedLogs
    <3> QED BY <2>3, <3>1 DEF Verdict, TypeOK, Promise!SayVerdict
  <2>4. ASSUME NEW t \in Threads, InitOut(t) \/ InitIn(t) \/ SetValue(t) \/ GetValue(t)
        PROVE  UNCHANGED <<StageOf, said>>
    <3>1. ASSUME NEW r, Advance(t, r), at[t] \notin {"idle", "created"}
          PROVE  UNCHANGED <<StageOf, said>>
      BY <3>1 DEF TypeOK, Advance, StageOf
    <3>2. ASSUME NEW l, l \notin {"idle", "created"}, Continue(t, l),
                 at[t] \notin {"idle", "created"}
          PROVE  UNCHANGED <<StageOf, said>>
      BY <3>2 DEF TypeOK, Continue, StageOf
    <3> QED BY <2>4, <3>1, <3>2 DEF InitOut, InitIn, SetValue, GetValue
  <2>5. CASE UNCHANGED vars
    BY <2>5 DEF vars, StageOf
  <2>6. CASE Quit
    BY <2>6 DEF Quit, Promise!ThreadNext, Promise!Quit
  <2> QED BY <2>1, <2>2, <2>3, <2>4, <2>5, <2>6 DEF Next, Step, Promise!ThreadNext
<1> QED BY <1>1, <1>2, TypeCorrect, PTL DEF Spec, Promise!ThreadSpec
=============================================================================
