------------------------------ MODULE CpuUsage ------------------------------
(***************************************************************************)
(* The CPU load in the window: once a second updateFreq has CheckCpu read  *)
(* /proc/stat, and shows, for each CPU, which part of the ticks since the  *)
(* last reading was spent working.  The kernel's counters are wide; the    *)
(* program reads them into 32 bits and adds them up in 32 bits.  A number  *)
(* too large for them is replaced by the largest that fits and fails the   *)
(* stream, from which nothing more is read: the rest of the vector keeps   *)
(* what it held.                                                           *)
(*                                                                         *)
(* The ten numbers of a line are three, in their order: the first two      *)
(* stand for user, nice and system, the third for idle and what follows.   *)
(* A load is the pair of the differences whose quotient is shown.          *)
(***************************************************************************)
EXTENDS Integers

CONSTANTS Cpus,         \* number of CPUs; the code reads 4 lines
          Modulus,      \* 2^32
          MaxTicks      \* bound: the kernel counts no further than this

VARIABLES stat,         \* the lines of /proc/stat; line 0 is their sum
          time,         \* time_: what the last reading found
          shown,        \* the loads in the window
          ran           \* history: what each CPU did since the last reading

vars == <<stat, time, shown, ran>>

ASSUME CpuAssumption == Cpus \in Nat /\ Modulus \in Nat \ {0} /\ MaxTicks \in Nat

Line == 0..Cpus
Cpu == 1..Cpus
Field == 1..3
Work == {1, 2}
Reading == [user : 0..Modulus - 1, total : 0..Modulus - 1]
Nought == [user |-> 0, total |-> 0]

TypeOK ==
  /\ stat \in [Line -> [Field -> Nat]]
  /\ time \in [Cpu -> Reading] /\ shown \in [Cpu -> Reading] /\ ran \in [Cpu -> Reading]

\* The stream is still good when field f of line i is its turn.
Tried(i, f) ==
  \A j \in Line, g \in Field : j < i \/ (j = i /\ g < f) => stat[j][g] < Modulus

\* >> of a number into 32 bits.
Saturated(n) == IF n < Modulus THEN n ELSE Modulus - 1

\* What field f of the vector holds after line i: the last number read into it.
Timing(i, f) ==
  LET tried == {j \in 0..i : Tried(j, f)}
      latest == CHOOSE j \in tried : \A k \in tried : k <= j
  IN IF tried = {} THEN 0 ELSE Saturated(stat[latest][f])

\* ReadTime, for CPU c: std::accumulate wraps around.
ReadTime(c) ==
  [user |-> (Timing(c, 1) + Timing(c, 2)) % Modulus,
   total |-> (Timing(c, 1) + Timing(c, 2) + Timing(c, 3)) % Modulus]

\* Slip: a counter that has wrapped is taken for one that stands still.
DeltaClamped(now, before) == IF now >= before THEN now - before ELSE 0

Delta(now, before) == (now - before) % Modulus
-----------------------------------------------------------------------------
Init ==
  /\ stat = [i \in Line |-> [f \in Field |-> 0]]
  /\ time = [c \in Cpu |-> Nought]
  /\ shown = [c \in Cpu |-> Nought]
  /\ ran = [c \in Cpu |-> Nought]

\* A tick of CPU c.  Between two readings there are fewer than 2^32.
Tick(c, f) ==
  /\ stat[0][f] < MaxTicks /\ ran[c].total < Modulus - 1
  /\ stat' = [stat EXCEPT ![0][f] = @ + 1, ![c][f] = @ + 1]
  /\ ran' = [ran EXCEPT ![c] = [user |-> IF f \in Work THEN @.user + 1 ELSE @.user,
                                total |-> @.total + 1]]
  /\ UNCHANGED <<time, shown>>

\* GetFreq, and setFreqAction with its result.
UpdateFreq ==
  /\ shown' = [c \in Cpu |-> [user |-> Delta(ReadTime(c).user, time[c].user),
                              total |-> Delta(ReadTime(c).total, time[c].total)]]
  /\ time' = [c \in Cpu |-> ReadTime(c)]
  /\ ran' = [c \in Cpu |-> Nought]
  /\ UNCHANGED stat

Next == UpdateFreq \/ \E c \in Cpu, f \in Field : Tick(c, f)

Spec == Init /\ [][Next]_vars
-----------------------------------------------------------------------------
\* Every counter fits into 32 bits; their sums need not.
AllFit == \A i \in Line, f \in Field : stat[i][f] < Modulus

\* As long as every single counter fits, each reading shows for each CPU
\* exactly what it did since the reading before, although sums have wrapped.
LoadIsExact == [][UpdateFreq /\ AllFit => shown' = ran]_vars
=============================================================================
