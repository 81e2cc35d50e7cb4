---------------------------- MODULE StorageTests ----------------------------
(***************************************************************************)
(* testEmmc, testMicrosd, testUsbC and testUsb3.  Each is a sequence of    *)
(* shell commands on a thread of its own; all of them share the working    *)
(* directory of the program (the files "speed", "check_usb" and            *)
(* "check_filesystem"), the mount point /media/fatfs and the devices.  One *)
(* external command, or one file access, is one step; a command whose      *)
(* output is redirected is two: the shell truncates the file first, the    *)
(* command writes it when it ends.  What testEmmc's thread emits of its    *)
(* verdict is a matter of ResultBoard (Carried); here it says what it      *)
(* found.  Closing the window cuts the tests off between any two commands. *)
(*                                                                         *)
(* External behaviour assumed: mounts stack; a device cannot be mounted    *)
(* over itself; a mount on which fio has its file open cannot be           *)
(* unmounted; mkfs.ext4 refuses a mounted device; system("") succeeds;     *)
(* umount, mkdir and rm do what they can.  lsusb, the fsck pipeline, mkfs, *)
(* mount and fio may also fail by themselves (broke).  The system runs     *)
(* from the third partition of the eMMC or of the SD card.                 *)
(* Rates are classes: "slow" is at most 10, "mid" at most 60, "fast" more. *)
(***************************************************************************)
EXTENDS Naturals, Sequences, TestResult

CONSTANTS Threads,
          Boards,       \* the boards a run may start on
          PatientEmmc,  \* EMMC is pressed again only once its test is over
          MaxMounts     \* no EMMC test is started while mounts are stacked this high

VARIABLES board,        \* the devices plugged in
          solo,         \* whether the user runs one test at a time
          job, pc, said, ok,
          broke,        \* whether a command of the run has failed by itself
          linked,       \* whether the redirected output still has a name
          base,         \* depth of the mount that holds t's fiotest.tmp
          speed, checkUsb, checkFs,     \* the three files
          mounts,       \* what is mounted on /media/fatfs, the topmost last
          dir,          \* whether /media/fatfs exists
          fs,           \* file system on /dev/mmcblk1
          wiped,        \* history: an ext4 file system was formatted anew
          left          \* history: what the program left behind when it was ended

local == <<job, pc, said, ok, broke, linked, base>>
files == <<speed, checkUsb, checkFs>>
vars == <<board, solo, local, files, mounts, dir, fs, wiped, left>>

Usb == {"usbc", "usb3"}
StorageTest == Usb \cup {"emmc", "microsd"}
Rate == {"slow", "mid", "fast"}
Blank == {"missing", "empty"}   \* no such file; a file with nothing in it
Device == {"emmc", "stick"}     \* what is mounted on /media/fatfs
Drive == Device \cup {"card"}
Board ==
  {b \in [emmc : BOOLEAN, emmcP3 : BOOLEAN, fs : {"ext4", "other"}, sd : BOOLEAN,
          sdP3 : BOOLEAN, root : {"emmc", "card"}, usb : BOOLEAN, sda : BOOLEAN,
          dir : BOOLEAN, rate : [Drive -> Rate]] :
     /\ b.emmcP3 => b.emmc
     /\ b.sdP3 => b.sd
     /\ IF b.root = "emmc" THEN b.emmcP3 ELSE b.sdP3}

ASSUME StorageAssumption ==
  /\ Boards \subseteq Board
  /\ PatientEmmc \in BOOLEAN /\ MaxMounts \in Nat

Label == {"idle", "created", "umount", "lsusb", "lsusbEnd", "count", "mkdir", "mount",
          "fsck", "fsckEnd", "readFs", "mkfs", "fio", "fioEnd", "read", "remove",
          "rmCheck", "unmount", "verdict"}

TypeOK ==
  /\ board \in Board /\ solo \in BOOLEAN
  /\ job \in [Threads -> StorageTest]
  /\ pc \in [Threads -> Label]
  /\ said \in [Threads -> Result]
  /\ ok \in [Threads -> BOOLEAN] /\ broke \in [Threads -> BOOLEAN]
  /\ linked \in [Threads -> BOOLEAN]
  /\ base \in [Threads -> Nat]
  /\ speed \in Blank \cup Rate
  /\ checkUsb \in Blank \cup {"seen", "not seen"}
  /\ checkFs \in Blank \cup {"ext4", "other"}
  /\ mounts \in Seq(Device)
  /\ dir \in BOOLEAN /\ fs \in {"ext4", "other"} /\ wiped \in BOOLEAN
  /\ left \in SUBSET {"stick", "report"}

\* CheckSpeedUsb: the rates above the limit (60, for microsd 10).
Passing(x) == IF x = "microsd" THEN {"mid", "fast"} ELSE {"fast"}

\* testEmmc without a third partition measures /media/fatfs, like the USB tests;
\* map_cmd_fio.at("mmc") measures the root file system.
Fallback == ~board.emmcP3
OnRoot(x) == x = "microsd" \/ (x = "emmc" /\ ~Fallback)

Goto(t, l) == pc' = [pc EXCEPT ![t] = l]

\* A command ends well, or fails by itself.
Works(t, l) == Goto(t, l) /\ UNCHANGED broke
Fails(t, l) == Goto(t, l) /\ broke' = [broke EXCEPT ![t] = TRUE]
Measuring(t) == pc[t] \in {"fioEnd", "read", "remove"}
-----------------------------------------------------------------------------
Init ==
  /\ board \in Boards
  /\ solo \in BOOLEAN
  /\ job = [t \in Threads |-> "emmc"]
  /\ pc = [t \in Threads |-> "idle"]
  /\ said = [t \in Threads |-> "NotTested"]
  /\ ok = [t \in Threads |-> FALSE] /\ broke = [t \in Threads |-> FALSE]
  /\ linked = [t \in Threads |-> FALSE]
  /\ base = [t \in Threads |-> 0]
  /\ speed = "missing" /\ checkUsb = "missing" /\ checkFs = "missing"
  /\ mounts = <<>>
  /\ dir = board.dir /\ fs = board.fs
  /\ wiped = FALSE /\ left = {}

Begin(t, x) ==
  /\ pc[t] = "idle"
  /\ solo => \A u \in Threads : pc[u] = "idle"
  /\ x = "emmc" => /\ Len(mounts) < MaxMounts
                   /\ PatientEmmc => \A u \in Threads : pc[u] = "idle" \/ job[u] # "emmc"
  /\ job' = [job EXCEPT ![t] = x]
  /\ said' = [said EXCEPT ![t] = "NotTested"]
  /\ Goto(t, "created")
  /\ UNCHANGED <<board, solo, broke, ok, linked, base, files, mounts, dir, fs, wiped, left>>

\* Where a test goes once it has said Progress; the device files it looks for
\* do not change while it runs.
First(x) ==
  CASE x \in Usb      -> "umount"
    [] x = "emmc"     -> IF ~board.emmc THEN "verdict" ELSE IF Fallback THEN "fsck" ELSE "fio"
    [] x = "microsd"  -> IF board.sdP3 THEN "fio" ELSE "verdict"

Announce(t) ==
  /\ pc[t] = "created"
  /\ said' = [said EXCEPT ![t] = "Progress"]
  /\ Goto(t, First(job[t]))
  /\ UNCHANGED <<board, solo, broke, job, ok, linked, base, files, mounts, dir, fs, wiped, left>>

Mounted(d) == \E i \in DOMAIN mounts : mounts[i] = d

\* umount /media/fatfs: the topmost mount goes unless fio reads from it.
Popped == SubSeq(mounts, 1, Len(mounts) - 1)
CanUnmount ==
  /\ mounts # <<>>
  /\ \A u \in Threads : pc[u] = "fioEnd" => base[u] # Len(mounts)

Umount(t) ==
  /\ pc[t] \in {"umount", "unmount"}
  /\ mounts' = IF CanUnmount THEN Popped ELSE mounts
  /\ Goto(t, IF pc[t] = "umount" THEN "lsusb" ELSE "verdict")
  /\ left' = IF pc[t] = "umount" /\ ~Mounted("stick")' THEN left \ {"stick"} ELSE left
  /\ UNCHANGED <<board, solo, broke, job, said, ok, linked, base, files, dir, fs, wiped>>

\* Slip: it just returns.
GiveUpSilently(x) == "idle"

\* What is left of a USB test that could not count or mount its device.
GiveUp(x) == IF x = "usb3" THEN "unmount" ELSE "verdict"

Listed == IF board.usb THEN "seen" ELSE "not seen"

\* CheckNumberUsb: lsusb > check_usb, which is then read and never removed.
Lsusb(t) ==
  \/ /\ pc[t] = "lsusb"
     /\ checkUsb' = "empty"
     /\ Goto(t, "lsusbEnd")
     /\ UNCHANGED <<board, solo, broke, job, said, ok, linked, base, speed, checkFs, mounts, dir, fs, wiped, left>>
  \/ /\ pc[t] = "lsusbEnd"
     /\ \/ checkUsb' = Listed /\ Works(t, "count")
        \/ checkUsb' \in {checkUsb, Listed} /\ Fails(t, GiveUp(job[t]))
     /\ UNCHANGED <<board, solo, job, said, ok, linked, base, speed, checkFs, mounts, dir, fs, wiped, left>>

CountUsb(t) ==
  /\ pc[t] = "count"
  /\ Goto(t, IF checkUsb = "seen" THEN "mkdir" ELSE GiveUp(job[t]))
  /\ UNCHANGED <<board, solo, broke, job, said, ok, linked, base, files, mounts, dir, fs, wiped, left>>

\* fsck -N /dev/mmcblk1 | awk ... > check_filesystem
Fsck(t) ==
  \/ /\ pc[t] = "fsck"
     /\ checkFs' = "empty"
     /\ linked' = [linked EXCEPT ![t] = TRUE]
     /\ Goto(t, "fsckEnd")
     /\ UNCHANGED <<board, solo, broke, job, said, ok, base, speed, checkUsb, mounts, dir, fs, wiped, left>>
  \/ /\ pc[t] = "fsckEnd"
     /\ LET answer == IF linked[t] THEN fs ELSE checkFs
        IN \/ checkFs' = answer /\ Works(t, "readFs")
           \/ checkFs' \in {checkFs, answer} /\ Fails(t, "rmCheck")
     /\ UNCHANGED <<board, solo, job, said, ok, linked, base, speed, checkUsb, mounts, dir, fs, wiped, left>>

\* Slip: the comparison forgets the newline that fsck's answer ends with.
UnformattedAlways == TRUE

Unformatted == checkFs # "ext4"

ReadFs(t) ==
  /\ pc[t] = "readFs"
  /\ Goto(t, CASE checkFs = "missing" -> "rmCheck"
               [] checkFs # "missing" /\ Unformatted  -> "mkfs"
               [] checkFs # "missing" /\ ~Unformatted -> "mkdir")
  /\ UNCHANGED <<board, solo, broke, job, said, ok, linked, base, files, mounts, dir, fs, wiped, left>>

Mkfs(t) ==
  /\ pc[t] = "mkfs"
  /\ \/ /\ fs' = IF Mounted("emmc") THEN fs ELSE "ext4"
        /\ wiped' = (wiped \/ (fs = "ext4" /\ ~Mounted("emmc")))
        /\ Works(t, "mkdir")
     \/ Fails(t, "mkdir") /\ UNCHANGED <<fs, wiped>>
  /\ UNCHANGED <<board, solo, job, said, ok, linked, base, files, mounts, dir, left>>

\* The directory is made if it is missing; testUsb3 makes /media/fatfs3 instead.
Mkdir(t) ==
  /\ pc[t] = "mkdir"
  /\ dir' = (dir \/ job[t] # "usb3")
  /\ Goto(t, "mount")
  /\ UNCHANGED <<board, solo, broke, job, said, ok, linked, base, files, mounts, fs, wiped, left>>

CanMount(d) ==
  /\ dir
  /\ mounts # <<>> => mounts[Len(mounts)] # d
  /\ d = "emmc" => fs = "ext4"

\* testEmmc goes on whether or not mkfs and mount succeed.  Without /dev/sda the
\* USB tests run an empty command, which mounts nothing and succeeds.
Mount(t) ==
  /\ pc[t] = "mount"
  /\ LET d == IF job[t] = "emmc" THEN "emmc" ELSE "stick"
         asked == d = "emmc" \/ board.sda
         refused == IF d = "stick" THEN GiveUp(job[t]) ELSE "fio"
     IN \/ /\ mounts' = IF asked /\ CanMount(d) THEN Append(mounts, d) ELSE mounts
           /\ Works(t, IF asked /\ ~CanMount(d) THEN refused ELSE "fio")
        \/ asked /\ Fails(t, refused) /\ UNCHANGED mounts
  /\ UNCHANGED <<board, solo, job, said, ok, linked, base, files, dir, fs, wiped, left>>

\* Slip: the stick stays mounted.
AfterMeasuringForgetful(x) == IF x = "emmc" /\ Fallback THEN "rmCheck" ELSE "verdict"

AfterMeasuring(x) ==
  CASE x \in Usb -> "unmount"
    [] x = "emmc" -> IF Fallback THEN "rmCheck" ELSE "verdict"
    [] x = "microsd" -> "verdict"

\* Slips: mounts counted from 0; an early return when fio fails.
DepthFromZero == Len(mounts) - 1
AfterFioReturning(t) == IF OnRoot(job[t]) \/ dir THEN "fioEnd" ELSE AfterMeasuring(job[t])

Depth == Len(mounts)

\* fio cannot make its test file in a directory that is missing.
AfterFio(t) == IF OnRoot(job[t]) \/ dir THEN "fioEnd" ELSE "remove"

\* CheckSpeedUsb: fio ... > speed
Fio(t) ==
  /\ pc[t] = "fio"
  /\ speed' = "empty"
  /\ linked' = [linked EXCEPT ![t] = TRUE]
  /\ base' = [base EXCEPT ![t] = IF OnRoot(job[t]) THEN 0 ELSE Depth]
  /\ Goto(t, AfterFio(t))
  /\ left' = left \ {"report"}
  /\ UNCHANGED <<board, solo, broke, job, said, ok, checkUsb, checkFs, mounts, dir, fs, wiped>>

Report(t) == board.rate[IF base[t] = 0 THEN board.root ELSE mounts[base[t]]]

FioEnd(t) ==
  /\ pc[t] = "fioEnd"
  /\ LET written == IF linked[t] THEN Report(t) ELSE speed
     IN \/ speed' = written /\ Works(t, "read")
        \/ speed' \in {speed, written} /\ Fails(t, "remove")
  /\ UNCHANGED <<board, solo, job, said, ok, linked, base, checkUsb, checkFs, mounts, dir, fs, wiped, left>>

\* Slip: any report will do.
JudgeAnyReport(x) == speed \notin Blank

\* The report names a rate above the limit.
Judge(x) == speed \in Passing(x)

ReadSpeed(t) ==
  /\ pc[t] = "read"
  /\ ok' = [ok EXCEPT ![t] = Judge(job[t])]
  /\ Goto(t, "remove")
  /\ UNCHANGED <<board, solo, broke, job, said, linked, base, files, mounts, dir, fs, wiped, left>>

\* The file goes; a command that still writes to it writes to nothing.
Unlink(ls) == [u \in Threads |-> linked[u] /\ pc[u] \notin ls]

Remove(t) ==
  /\ pc[t] = "remove"
  /\ speed' = "missing"
  /\ linked' = [Unlink({"fioEnd"}) EXCEPT ![t] = FALSE]
  /\ base' = [base EXCEPT ![t] = 0]
  /\ Goto(t, AfterMeasuring(job[t]))
  /\ UNCHANGED <<board, solo, broke, job, said, ok, checkUsb, checkFs, mounts, dir, fs, wiped, left>>

RmCheck(t) ==
  /\ pc[t] = "rmCheck"
  /\ checkFs' = "missing"
  /\ linked' = [Unlink({"fsckEnd"}) EXCEPT ![t] = FALSE]
  /\ Goto(t, "verdict")
  /\ UNCHANGED <<board, solo, broke, job, said, ok, base, speed, checkUsb, mounts, dir, fs, wiped, left>>

Verdict(t) ==
  /\ pc[t] = "verdict"
  /\ said' = [said EXCEPT ![t] = SetResAddedLogs(ok[t])]
  /\ ok' = [ok EXCEPT ![t] = FALSE] /\ broke' = [broke EXCEPT ![t] = FALSE]
  /\ Goto(t, "idle")
  /\ UNCHANGED <<board, solo, job, linked, base, files, mounts, dir, fs, wiped, left>>

\* Those whose command has yet to write to a file that still has its name.
Writing(l) == {t \in Threads : pc[t] = l /\ linked[t]}

\* The window is closed, and the program started again in the same directory once
\* the commands it was waiting for have ended, or were killed.  The threads are
\* gone; the files, the mounts and the directory stay.
Quit ==
  /\ pc' = [t \in Threads |-> "idle"] /\ job' = [t \in Threads |-> "emmc"]
  /\ said' = [t \in Threads |-> "NotTested"]
  /\ ok' = [t \in Threads |-> FALSE] /\ broke' = [t \in Threads |-> FALSE]
  /\ linked' = [t \in Threads |-> FALSE] /\ base' = [t \in Threads |-> 0]
  /\ speed' \in {speed} \cup {Report(t) : t \in Writing("fioEnd")}
  /\ checkFs' \in {checkFs} \cup {fs : t \in Writing("fsckEnd")}
  /\ left' = {f \in {"stick"} : Mounted(f)} \cup {f \in {"report"} : speed # "missing"}
  /\ UNCHANGED <<board, solo, checkUsb, mounts, dir, fs, wiped>>

Step(t) ==
  \/ Announce(t) \/ Umount(t) \/ Lsusb(t) \/ CountUsb(t) \/ Fsck(t) \/ ReadFs(t)
  \/ Mkfs(t) \/ Mkdir(t) \/ Mount(t) \/ Fio(t) \/ FioEnd(t) \/ ReadSpeed(t)
  \/ Remove(t) \/ RmCheck(t) \/ Verdict(t)

Next ==
  \/ \E t \in Threads : Step(t) \/ \E x \in StorageTest : Begin(t, x)
  \/ Quit

Spec == Init /\ [][Next]_vars

\* Threads are scheduled and the commands they wait for end.
FairSpec == Spec /\ \A t \in Threads : WF_vars(Step(t))
-----------------------------------------------------------------------------
\* The verdict the device a test is about deserves: it is there, where the test
\* looks for it (a stick on the second USB bus), and faster than the limit.
Healthy(x) ==
  CASE x = "emmc"    -> board.emmc /\ board.rate["emmc"] \in Passing(x)
    [] x = "microsd" -> board.sd /\ board.rate["card"] \in Passing(x)
    [] x \in Usb     -> board.usb /\ board.sda /\ board.rate["stick"] \in Passing(x)

\* The boards whose devices the tests can judge.  On the others they are wrong: a
\* third partition counts as a sign that the system runs from that device, and is
\* demanded of the card; what is on the USB bus counts as a drive; and testUsb3
\* does not make the directory it mounts on.
Judgeable(x) ==
  CASE x = "emmc"    -> board.emmcP3 => board.root = "emmc"
    [] x = "microsd" -> board.sd => board.root = "card"
    [] x = "usbc"    -> board.usb => board.sda
    [] x = "usb3"    -> board.usb => board.sda /\ dir

\* Tests run one after the other, in any order and however often, pass exactly
\* the healthy devices of a board they can judge, as long as no command fails by
\* itself: what an earlier test left mounted or left in a file changes no
\* verdict, and neither does what a test left that was cut off when the program
\* was ended.  (But where the EMMC test mounts its device over a stick left
\* mounted, the umount of the next USB test does not find it.)
SoloVerdictIsRight ==
  solo => \A t \in Threads :
            /\ pc[t] = "verdict" /\ ~broke[t] /\ Judgeable(job[t])
            /\ job[t] \in Usb => "stick" \notin left
            => (ok[t] <=> Healthy(job[t]))

\* However tests overlap, one passes only if something on the board is fast enough
\* for it, and, but for EMMC, none of its commands has failed by itself.
SuccessWasMeasured ==
  \A t \in Threads :
    ok[t] => /\ \E d \in Drive : board.rate[d] \in Passing(job[t])
             /\ broke[t] => job[t] = "emmc"

\* The file "speed" exists only while some test is measuring, or until one does
\* if the program was ended meanwhile: no run is left with the report of another.
SpeedFileTidy ==
  speed # "missing" => "report" \in left \/ \E t \in Threads : Measuring(t)

\* On a board whose eMMC carries the system the USB tests leave nothing mounted:
\* whatever is mounted will be unmounted by a USB test that is on its way, or
\* by the next one if the program was ended meanwhile.
StickIsUnmounted ==
  mounts # <<>> /\ ~Fallback /\ "stick" \notin left =>
    \E t \in Threads : job[t] \in Usb /\ (Measuring(t) \/ pc[t] \in {"fio", "unmount"})

\* An eMMC that already carries ext4 is never formatted again.
NoReformat == PatientEmmc => ~wiped

\* Every storage test is a test thread: it announces Progress and, whatever the
\* other tests do to its files and mounts, ends with exactly one verdict.
Promise == INSTANCE TestThread
             WITH stage <- [t \in Threads |->
                              IF pc[t] \in {"idle", "created"} THEN pc[t] ELSE "running"]
KeepsThreadPromise == Promise!ThreadFairSpec
=============================================================================
