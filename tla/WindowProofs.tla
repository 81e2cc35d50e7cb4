----------------------------- MODULE WindowProofs ----------------------------
(***************************************************************************)
(* What the window holds beside the rows of the tests.  The loads shown    *)
(* are exact, for every number of CPUs, every width of the program's       *)
(* counters and every bound on the kernel's: what time_ holds of a CPU is, *)
(* modulo 2^32, what the kernel has counted for it but for the ticks since *)
(* the last reading.  And for any set of launchers, no program runs        *)
(* without its label and no two sounds are played at once: each of the two *)
(* is inductive as soon as the variables have their types.                 *)
(***************************************************************************)
EXTENDS CpuUsage, WindowButtons, WellFoundedInduction, TLAPS

UserTicks(c) == stat[c][1] + stat[c][2]
AllTicks(c) == stat[c][1] + stat[c][2] + stat[c][3]

\* Nobody works longer than the time that passes.
Bounded == \A c \in Cpu : ran[c].user <= ran[c].total

Accounted ==
  AllFit =>
    \A c \in Cpu : /\ time[c].user = (UserTicks(c) - ran[c].user) % Modulus
                   /\ time[c].total = (AllTicks(c) - ran[c].total) % Modulus

IInv == TypeOK /\ Bounded /\ Accounted
-----------------------------------------------------------------------------
\* The difference of two remainders is, modulo M, the difference of the numbers
\* if that is below M.
LEMMA RemainderOfDifference ==
  ASSUME NEW M \in Nat \ {0}, NEW a \in Int, NEW d \in 0..M - 1
  PROVE  ((a % M) - ((a - d) % M)) % M = d
  OBVIOUS

\* A remainder is below the modulus.
LEMMA RemainderBound ==
  ASSUME NEW M \in Nat \ {0}, NEW a \in Int
  PROVE  a % M \in 0..M - 1
  OBVIOUS

\* Some element of a set of numbers up to i is the largest: i minus the
\* smallest distance to i.
LEMMA Largest ==
  ASSUME NEW i \in Nat, NEW T \in SUBSET (0..i), T # {}
  PROVE  \E m \in T : \A k \in T : k <= m
<1> DEFINE R == OpToRel(<, Nat)
<1> DEFINE S == {n \in Nat : i - n \in T}
<1>1. S # {}
  <2>1. PICK x \in T : TRUE
    OBVIOUS
  <2>2. i - x \in S
    BY <2>1
  <2> QED BY <2>2
<1>2. S \subseteq Nat
  OBVIOUS
<1> HIDE DEF S, R
<1>3. \E x \in S : \A y \in S : ~ (<<y, x>> \in R)
  BY <1>1, <1>2, NatLessThanWellFounded, WFMin, Zenon DEF R
<1>4. PICK x \in S : \A y \in S : ~ (<<y, x>> \in R)
  BY <1>3
<1>5. \A y \in S : ~ (y < x)
  BY <1>4, <1>2 DEF R, OpToRel
<1>6. i - x \in T /\ x \in Nat
  BY <1>4 DEF S
<1>7. ASSUME NEW k \in T
      PROVE  k <= i - x
  <2>1. i - k \in S
    BY DEF S
  <2> QED BY <2>1, <1>5, <1>6
<1> QED BY <1>6, <1>7

\* Whatever the stream does, a field of the vector holds a number of 32 bits.
LEMMA TimingType ==
  ASSUME TypeOK, NEW i \in Line, NEW f \in Field
  PROVE  Timing(i, f) \in 0..Modulus - 1
<1> DEFINE tried == {j \in 0..i : Tried(j, f)}
<1> DEFINE latest == CHOOSE j \in tried : \A k \in tried : k <= j
<1>1. CASE tried = {}
  BY <1>1, CpuAssumption DEF Timing
<1>2. CASE tried # {}
  <2>1. Timing(i, f) = Saturated(stat[latest][f])
    BY <1>2 DEF Timing
  <2>2. \E m \in tried : \A k \in tried : k <= m
    <3>1. i \in Nat /\ tried \in SUBSET (0..i)
      BY CpuAssumption DEF Line
    <3> HIDE DEF tried
    <3> QED BY <3>1, <1>2, Largest
  <2>3. latest \in tried
    BY <2>2
  <2>4. latest \in Line
    BY <2>3, CpuAssumption DEF Line
  <2>5. stat[latest][f] \in Nat
    BY <2>4 DEF TypeOK
  <2> QED BY <2>1, <2>5, CpuAssumption DEF Saturated
<1> QED BY <1>1, <1>2

\* As long as every counter fits, each line is read as it is.
LEMMA LineIsReadAsItIs ==
  ASSUME TypeOK, AllFit, NEW i \in Line, NEW f \in Field
  PROVE  Timing(i, f) = stat[i][f]
<1> DEFINE tried == {j \in 0..i : Tried(j, f)}
<1> DEFINE latest == CHOOSE j \in tried : \A k \in tried : k <= j
<1>1. i \in Nat /\ 0..i \subseteq Line
  BY CpuAssumption DEF Line
<1>2. tried = 0..i
  BY <1>1 DEF Tried, AllFit
<1>3. i \in tried /\ \A k \in tried : k <= i
  BY <1>1, <1>2
<1>4. Timing(i, f) = Saturated(stat[latest][f])
  BY <1>3 DEF Timing
<1>5. latest = i
  <2>1. latest \in tried /\ \A k \in tried : k <= latest
    BY <1>3
  <2> QED BY <2>1, <1>1, <1>2, <1>3
<1> QED BY <1>4, <1>5 DEF Saturated, AllFit

\* What is read of a CPU is what the kernel has counted, modulo 2^32.
LEMMA ReadTimeIsModular ==
  ASSUME TypeOK, NEW c \in Cpu
  PROVE  /\ ReadTime(c) \in Reading
         /\ AllFit => /\ ReadTime(c).user = UserTicks(c) % Modulus
                      /\ ReadTime(c).total = AllTicks(c) % Modulus
<1>1. c \in Line /\ Field = {1, 2, 3}
  BY CpuAssumption DEF Cpu, Line, Field
<1>2. \A f \in Field : Timing(c, f) \in 0..Modulus - 1
  BY <1>1, TimingType
<1>3. ReadTime(c) \in Reading
  <2>1. Timing(c, 1) + Timing(c, 2) \in Int /\ Timing(c, 1) + Timing(c, 2) + Timing(c, 3) \in Int
    BY <1>1, <1>2, CpuAssumption
  <2> QED BY <2>1, RemainderBound, CpuAssumption DEF ReadTime, Reading
<1>4. ASSUME AllFit
      PROVE  \A f \in Field : Timing(c, f) = stat[c][f]
  BY <1>1, <1>4, LineIsReadAsItIs
<1> QED BY <1>1, <1>3, <1>4 DEF ReadTime, UserTicks, AllTicks
-----------------------------------------------------------------------------
LEMMA InitOK == Init => IInv
<1> SUFFICES ASSUME Init
             PROVE  IInv
  OBVIOUS
<1>1. Nought \in Reading
  BY CpuAssumption DEF Nought, Reading
<1>2. TypeOK
  BY <1>1 DEF Init, TypeOK
<1>3. Bounded
  BY DEF Init, Bounded, Nought
<1>4. Accounted
  <2>1. 0 % Modulus = 0
    BY CpuAssumption
  <2>2. ASSUME NEW c \in Cpu
        PROVE  UserTicks(c) = 0 /\ AllTicks(c) = 0
    BY CpuAssumption DEF Init, UserTicks, AllTicks, Cpu, Line, Field
  <2> QED BY <2>1, <2>2 DEF Init, Accounted, Nought
<1> QED BY <1>2, <1>3, <1>4 DEF IInv

\* A tick adds one to what the kernel has counted and to what the CPU did.
LEMMA TickOK ==
  ASSUME IInv, NEW c \in Cpu, NEW f \in Field, Tick(c, f)
  PROVE  IInv'
<1>1. c \in Line /\ 0 \in Line /\ c # 0 /\ Field = {1, 2, 3}
  BY CpuAssumption DEF Cpu, Line, Field
<1>2. \A b \in Cpu : /\ b \in Line
                     /\ ran[b].user \in 0..Modulus - 1 /\ ran[b].total \in 0..Modulus - 1
                     /\ \A g \in Field : stat[b][g] \in Nat
  BY CpuAssumption DEF IInv, TypeOK, Reading, Cpu, Line
<1>3. \A b \in Cpu, g \in Field :
        stat'[b][g] = IF b = c /\ g = f THEN stat[b][g] + 1 ELSE stat[b][g]
  BY <1>1, <1>2 DEF Tick, IInv, TypeOK, Cpu
<1>4. \A b \in Cpu :
        /\ ran'[b].user = IF b = c /\ f \in Work THEN ran[b].user + 1 ELSE ran[b].user
        /\ ran'[b].total = IF b = c THEN ran[b].total + 1 ELSE ran[b].total
  BY DEF Tick, IInv, TypeOK
<1>5. TypeOK'
  <2>1. stat' \in [Line -> [Field -> Nat]]
    BY <1>1 DEF Tick, IInv, TypeOK
  <2>2. ran' \in [Cpu -> Reading]
    BY <1>2, CpuAssumption DEF Tick, IInv, TypeOK, Reading, Bounded
  <2> QED BY <2>1, <2>2 DEF Tick, IInv, TypeOK
<1>6. Bounded'
  BY <1>2, <1>4 DEF IInv, Bounded
<1>7. Accounted'
  <2> SUFFICES ASSUME AllFit', NEW b \in Cpu
               PROVE  /\ time'[b].user = (UserTicks(b)' - ran'[b].user) % Modulus
                      /\ time'[b].total = (AllTicks(b)' - ran'[b].total) % Modulus
    BY DEF Accounted
  <2>1. AllFit
    BY <1>1, CpuAssumption DEF AllFit, Tick, IInv, TypeOK
  <2>2. UserTicks(b)' - ran'[b].user = UserTicks(b) - ran[b].user
    BY <1>1, <1>2, <1>3, <1>4 DEF UserTicks, Work
  <2>3. AllTicks(b)' - ran'[b].total = AllTicks(b) - ran[b].total
    BY <1>1, <1>2, <1>3, <1>4 DEF AllTicks
  <2> QED BY <2>1, <2>2, <2>3 DEF Tick, IInv, Accounted
<1> QED BY <1>5, <1>6, <1>7 DEF IInv

\* A reading remembers the kernel's counts and starts the account anew.
LEMMA UpdateFreqOK ==
  ASSUME IInv, UpdateFreq
  PROVE  IInv'
<1>1. Nought \in Reading
  BY CpuAssumption DEF Nought, Reading
<1>2. \A c \in Cpu : /\ ReadTime(c) \in Reading
                     /\ AllFit => /\ ReadTime(c).user = UserTicks(c) % Modulus
                                  /\ ReadTime(c).total = AllTicks(c) % Modulus
  BY ReadTimeIsModular DEF IInv
<1>3. TypeOK'
  <2>1. shown' \in [Cpu -> Reading]
    <3>1. \A c \in Cpu : /\ ReadTime(c).user - time[c].user \in Int
                         /\ ReadTime(c).total - time[c].total \in Int
      BY <1>2, CpuAssumption DEF IInv, TypeOK, Reading
    <3> QED BY <3>1, RemainderBound, CpuAssumption DEF UpdateFreq, Delta, Reading
  <2> QED BY <1>1, <1>2, <2>1 DEF UpdateFreq, IInv, TypeOK
<1>4. Bounded'
  BY DEF UpdateFreq, Bounded, Nought
<1>5. Accounted'
  <2> SUFFICES ASSUME AllFit', NEW c \in Cpu
               PROVE  /\ time'[c].user = (UserTicks(c)' - ran'[c].user) % Modulus
                      /\ time'[c].total = (AllTicks(c)' - ran'[c].total) % Modulus
    BY DEF Accounted
  <2>1. AllFit /\ UserTicks(c)' = UserTicks(c) /\ AllTicks(c)' = AllTicks(c)
    BY DEF AllFit, UpdateFreq, UserTicks, AllTicks
  <2>2. UserTicks(c) - 0 = UserTicks(c) /\ AllTicks(c) - 0 = AllTicks(c)
    BY CpuAssumption DEF UserTicks, AllTicks, IInv, TypeOK, Cpu, Line, Field
  <2> QED BY <1>2, <2>1, <2>2 DEF UpdateFreq, Nought
<1> QED BY <1>3, <1>4, <1>5 DEF IInv

LEMMA StepOK == IInv /\ [Next]_vars => IInv'
<1> SUFFICES ASSUME IInv, [Next]_vars
             PROVE  IInv'
  OBVIOUS
<1>1. CASE UpdateFreq
  BY <1>1, UpdateFreqOK
<1>2. CASE \E c \in Cpu, f \in Field : Tick(c, f)
  BY <1>2, TickOK
<1>3. CASE UNCHANGED vars
  BY <1>3 DEF vars, IInv, TypeOK, Bounded, Accounted, AllFit, UserTicks, AllTicks
<1> QED BY <1>1, <1>2, <1>3 DEF Next

LEMMA Invariance == Spec => []IInv
  BY InitOK, StepOK, PTL DEF Spec
-----------------------------------------------------------------------------
\* Every variable keeps its type: check_cpu.h's numbers stay 32-bit numbers.
THEOREM TypeCorrect == Spec => []TypeOK
  BY Invariance, PTL DEF IInv

\* A reading shows of each CPU exactly what it did since the last one, as long
\* as no single counter of the kernel has outgrown 32 bits.
THEOREM LoadExact == Spec => LoadIsExact
<1>1. IInv /\ [Next]_vars => [UpdateFreq /\ AllFit => shown' = ran]_vars
  <2> SUFFICES ASSUME IInv, UpdateFreq, AllFit
               PROVE  shown' = ran
    OBVIOUS
  <2>1. ASSUME NEW c \in Cpu
        PROVE  /\ Delta(ReadTime(c).user, time[c].user) = ran[c].user
               /\ Delta(ReadTime(c).total, time[c].total) = ran[c].total
    <3>1. UserTicks(c) \in Int /\ AllTicks(c) \in Int
      BY CpuAssumption DEF UserTicks, AllTicks, IInv, TypeOK, Cpu, Line, Field
    <3>2. ran[c].user \in 0..Modulus - 1 /\ ran[c].total \in 0..Modulus - 1
      BY DEF IInv, TypeOK, Reading
    <3>3. /\ ReadTime(c).user = UserTicks(c) % Modulus
          /\ ReadTime(c).total = AllTicks(c) % Modulus
      BY ReadTimeIsModular DEF IInv
    <3>4. /\ time[c].user = (UserTicks(c) - ran[c].user) % Modulus
          /\ time[c].total = (AllTicks(c) - ran[c].total) % Modulus
      BY DEF IInv, Accounted
    <3> QED BY <3>1, <3>2, <3>3, <3>4, RemainderOfDifference, CpuAssumption DEF Delta
  <2>2. \A c \in Cpu : ran[c] = [user |-> ran[c].user, total |-> ran[c].total]
    BY DEF IInv, TypeOK, Reading
  <2>3. ran = [c \in Cpu |-> ran[c]]
    BY DEF IInv, TypeOK
  <2> QED BY <2>1, <2>2, <2>3 DEF UpdateFreq
<1> QED BY <1>1, Invariance, PTL DEF Spec, LoadIsExact
-----------------------------------------------------------------------------
\* The launchers and the speaker button.
ButtonsInv == ButtonsTypeOK /\ LiveProgramIsLabelled /\ SpeakerIsExclusive

\* The handlers keep the types, the label of every live program and the one sound.
LEMMA LauncherStep ==
  ASSUME ButtonsInv, NEW p \in Programs,
         Launch(p) \/ Exec(p) \/ Die(p) \/ Started(p) \/ Finished(p)
  PROVE  ButtonsInv'
<1> USE DEF ButtonsInv, ButtonsTypeOK, LiveProgramIsLabelled
<1>1. /\ UNCHANGED <<enabled, playing, answers>>
      /\ content' = content /\ tested' = tested
  BY DEF Launch, Exec, Die, Started, Finished, speaker
<1>2. SpeakerIsExclusive'
  BY <1>1 DEF SpeakerIsExclusive
<1>3. CASE Launch(p)
  BY <1>1, <1>2, <1>3 DEF Launch, ShowLabel
<1>4. CASE Exec(p)
  BY <1>1, <1>2, <1>4 DEF Exec
<1>5. CASE Die(p)
  BY <1>1, <1>2, <1>5 DEF Die
<1>6. CASE Started(p) \/ Finished(p)
  BY <1>1, <1>2, <1>6 DEF Started, Finished
<1> QED BY <1>3, <1>4, <1>5, <1>6

\* One sound: what one step takes from the tasks it adds to the answers.
LEMMA SpeakerStep ==
  ASSUME ButtonsInv, Speaker \/ Played \/ Answered \/ Camera
  PROVE  SpeakerIsExclusive' /\ playing' \in Nat /\ answers' \in Nat
<1>1. playing \in Nat /\ answers \in Nat
  BY DEF ButtonsInv, ButtonsTypeOK
<1>2. enabled => playing = 0 /\ answers = 0
  BY <1>1 DEF ButtonsInv, SpeakerIsExclusive
<1>3. ~enabled => playing + answers = 1
  BY DEF ButtonsInv, SpeakerIsExclusive
<1>4. CASE Speaker
  <2>1. enabled /\ playing' = playing + 1 /\ answers' = answers /\ ~enabled'
    BY <1>4 DEF Speaker
  <2> QED BY <1>1, <1>2, <2>1 DEF SpeakerIsExclusive
<1>5. CASE Played
  <2>1. playing > 0 /\ playing' = playing - 1 /\ answers' = answers + 1 /\ enabled' = enabled
    BY <1>5 DEF Played
  <2>2. ~enabled
    BY <1>1, <1>2, <2>1
  <2> QED BY <1>1, <1>3, <2>1, <2>2 DEF SpeakerIsExclusive
<1>6. CASE Answered
  <2>1. answers > 0 /\ answers' = answers - 1 /\ playing' = playing /\ enabled'
    BY <1>6 DEF Answered
  <2>2. ~enabled
    BY <1>1, <1>2, <2>1
  <2> QED BY <1>1, <1>3, <2>1, <2>2 DEF SpeakerIsExclusive
<1>7. CASE Camera
  <2>1. UNCHANGED <<enabled, playing, answers>>
    BY <1>7 DEF Camera, speaker
  <2> QED BY <1>1, <2>1 DEF ButtonsInv, SpeakerIsExclusive
<1> QED BY <1>4, <1>5, <1>6, <1>7

LEMMA ButtonsStep == ButtonsInv /\ [ButtonsNext]_buttonVars => ButtonsInv'
<1> SUFFICES ASSUME ButtonsInv, [ButtonsNext]_buttonVars
             PROVE  ButtonsInv'
  OBVIOUS
<1> USE DEF ButtonsInv, ButtonsTypeOK, LiveProgramIsLabelled, launchers, speaker
<1>1. CASE Closed
  <2>1. closing \in Programs /\ life[closing] = "dead"
    BY <1>1 DEF Closed, GuiFree
  <2>2. /\ life' = life /\ label' = [label EXCEPT ![closing] = FALSE]
        /\ state' = [state EXCEPT ![closing] = "NotRunning"] /\ closing' = Nothing
        /\ UNCHANGED <<content, enabled, playing, answers, tested>>
    BY <1>1 DEF Closed
  <2>3. ButtonsTypeOK'
    BY <2>2
  <2>4. LiveProgramIsLabelled'
    BY <2>1, <2>2
  <2>5. SpeakerIsExclusive'
    BY <2>2 DEF SpeakerIsExclusive
  <2> QED BY <2>3, <2>4, <2>5
<1>2. CASE Speaker \/ Played \/ Answered \/ Camera
  <2>1. UNCHANGED <<life, state, label, closing>>
    BY <1>2 DEF Speaker, Played, Answered, Camera
  <2>2. content' \in BOOLEAN /\ enabled' \in BOOLEAN /\ tested' \in BOOLEAN
    BY <1>2 DEF Speaker, Played, Answered, Camera
  <2>3. SpeakerIsExclusive' /\ playing' \in Nat /\ answers' \in Nat
    BY <1>2, SpeakerStep
  <2> QED BY <2>1, <2>2, <2>3
<1>3. CASE UNCHANGED buttonVars
  BY <1>3 DEF buttonVars, SpeakerIsExclusive
<1> QED BY <1>1, <1>2, <1>3, LauncherStep DEF ButtonsNext

LEMMA ButtonsInvariance == ButtonsSpec => []ButtonsInv
<1>1. ButtonsInit => ButtonsTypeOK /\ LiveProgramIsLabelled
  <2> SUFFICES ASSUME ButtonsInit
               PROVE  ButtonsTypeOK /\ LiveProgramIsLabelled
    OBVIOUS
  <2>1. /\ life \in [Programs -> {"dead", "forked", "alive", "not found"}]
        /\ state \in [Programs -> {"NotRunning", "Starting", "Running"}]
        /\ label \in [Programs -> BOOLEAN]
    BY DEF ButtonsInit
  <2>2. /\ content \in BOOLEAN /\ enabled \in BOOLEAN /\ tested \in BOOLEAN
        /\ closing = Nothing /\ playing = 0 /\ answers = 0
        /\ \A p \in Programs : life[p] = "dead"
    BY DEF ButtonsInit
  <2>3. ButtonsTypeOK
    BY <2>1, <2>2 DEF ButtonsTypeOK
  <2>4. LiveProgramIsLabelled
    BY <2>2 DEF LiveProgramIsLabelled
  <2> QED BY <2>3, <2>4
<1>2. ButtonsInit => SpeakerIsExclusive
  BY DEF ButtonsInit, SpeakerIsExclusive
<1>3. ButtonsInit => ButtonsInv
  BY <1>1, <1>2 DEF ButtonsInv
<1> QED BY <1>3, ButtonsStep, PTL DEF ButtonsSpec

\* For any launchers and in whatever order buttons are pressed and programs start
\* and die: a program that runs, or is about to, has its label RUNNING.
THEOREM LiveLabelled == ButtonsSpec => []LiveProgramIsLabelled
<1>1. ButtonsInv => LiveProgramIsLabelled
  BY DEF ButtonsInv
<1> QED BY <1>1, ButtonsInvariance, PTL

\* However the speaker and the camera button are pressed, at most one sound is
\* played, and the button is enabled exactly when its last task has been answered.
THEOREM OneSound == ButtonsSpec => []SpeakerIsExclusive
<1>1. ButtonsInv => SpeakerIsExclusive
  BY DEF ButtonsInv
<1> QED BY <1>1, ButtonsInvariance, PTL
=============================================================================
