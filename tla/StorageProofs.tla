---------------------------- MODULE StorageProofs ---------------------------
(***************************************************************************)
(* Whatever storage tests overlap, in any number, and wherever the program *)
(* is ended: the report file does not stay behind for a later run to judge *)
(* by, and on a board whose eMMC carries the system the stick does not     *)
(* stay mounted.  Each is kept by a run that is on its way to clean up:    *)
(* there is one for every file that is written and every mount.  An ext4   *)
(* file system is not formatted anew by patient users.  And tests that are *)
(* run one at a time are right on a board they can judge, but for a        *)
(* command that fails by itself: the mounts they find are one of four      *)
(* stacks, and what a run needs of files and mounts it makes itself.       *)
(***************************************************************************)
EXTENDS StorageTests, SequenceTheorems, TLAPS

\* The mount fio works in is there until fio ends.
BaseIsMounted == \A t \in Threads : pc[t] = "fioEnd" => base[t] <= Len(mounts)

\* A report that is still to be written has a file.
WriterHasFile == \A t \in Writing("fioEnd") : speed # "missing"

\* With the system on the eMMC only the USB tests look at the mount point ...
AtMountPoint == {"umount", "lsusb", "lsusbEnd", "count", "mkdir", "mount", "unmount"}
AtFileSystem == {"fsck", "fsckEnd", "readFs", "mkfs"}
OnlyUsbMounts ==
  ~Fallback => \A t \in Threads :
    /\ pc[t] \in AtMountPoint => job[t] \in Usb
    /\ pc[t] \notin AtFileSystem

\* ... there is at most the one mount, and fio reads from it only for one of them.
OneMount == ~Fallback => mounts \in {<<>>, <<"stick">>}
BelowIsUsb ==
  ~Fallback => \A t \in Threads : pc[t] = "fioEnd" /\ base[t] # 0 => job[t] \in Usb

IInv ==
  /\ TypeOK /\ BaseIsMounted /\ WriterHasFile /\ SpeedFileTidy
  /\ OnlyUsbMounts /\ OneMount /\ BelowIsUsb /\ StickIsUnmounted
-----------------------------------------------------------------------------
LEMMA InitOK == Init => IInv
<1> SUFFICES ASSUME Init
             PROVE  IInv
  OBVIOUS
<1>1. TypeOK
  <2>1. board \in Board
    BY StorageAssumption DEF Init
  <2>2. mounts \in Seq(Device)
    BY EmptySeq DEF Init
  <2> QED
    BY <2>1, <2>2 DEF Init, TypeOK, Board, StorageTest, Label, Result, Blank
<1>2. BaseIsMounted /\ WriterHasFile /\ SpeedFileTidy
  BY DEF Init, BaseIsMounted, WriterHasFile, Writing, SpeedFileTidy
<1>3. OnlyUsbMounts /\ OneMount /\ BelowIsUsb /\ StickIsUnmounted
  BY DEF Init, OnlyUsbMounts, AtMountPoint, AtFileSystem, OneMount, BelowIsUsb, StickIsUnmounted
<1> QED BY <1>1, <1>2, <1>3 DEF IInv

\* Taking the topmost mount off.
LEMMA PoppedMounts ==
  ASSUME TypeOK, mounts # <<>>
  PROVE  /\ Popped \in Seq(Device) /\ Len(Popped) = Len(mounts) - 1
         /\ mounts = <<"stick">> => Popped = <<>>
<1>1. mounts \in Seq(Device) /\ Len(mounts) \in Nat \ {0}
  BY EmptySeq DEF TypeOK
<1>2. \A i \in 1..Len(mounts) - 1 : mounts[i] \in Device
  BY <1>1, ElementOfSeq
<1>3. \A n \in Nat \ {0} : (IF 1 <= n - 1 THEN n - 1 - 1 + 1 ELSE 0) = n - 1
  OBVIOUS
<1>4. Popped \in Seq(Device) /\ Len(Popped) = Len(mounts) - 1
  <2>1. /\ Popped \in Seq(Device)
        /\ Len(Popped) = IF 1 <= Len(mounts) - 1 THEN Len(mounts) - 1 - 1 + 1 ELSE 0
    BY <1>1, <1>2, SubSeqProperties DEF Popped
  <2> QED BY <1>1, <1>3, <2>1, Zenon
<1>5. mounts = <<"stick">> => Popped = <<>>
  BY <1>4, EmptySeq
<1> QED BY <1>4, <1>5

\* What fio reports is a rate.
LEMMA ReportIsRate ==
  ASSUME TypeOK, BaseIsMounted, NEW t \in Threads, pc[t] = "fioEnd"
  PROVE  Report(t) \in Rate
<1>1. board.rate \in [Drive -> Rate] /\ board.root \in Drive /\ Device \subseteq Drive
  BY DEF TypeOK, Board, Drive, Device
<1>2. CASE base[t] = 0
  BY <1>1, <1>2 DEF Report
<1>3. CASE base[t] # 0
  <2>1. mounts \in Seq(Device) /\ base[t] \in 1..Len(mounts)
    <3>1. mounts \in Seq(Device) /\ base[t] \in Nat /\ base[t] <= Len(mounts)
      BY DEF TypeOK, BaseIsMounted
    <3>2. Len(mounts) \in Nat
      BY <3>1, LenProperties
    <3> QED BY <1>3, <3>1, <3>2
  <2>2. mounts[base[t]] \in Device
    BY <2>1, ElementOfSeq
  <2> QED BY <1>1, <1>3, <2>2 DEF Report
<1> QED BY <1>2, <1>3

LEMMA TypeStep ==
  ASSUME IInv, [Next]_vars
  PROVE  TypeOK' /\ BaseIsMounted'
<1> USE DEF IInv, Goto, Works, Fails, local, files
<1>0. /\ mounts \in Seq(Device) /\ Len(mounts) \in Nat
      /\ StorageTest = {"usbc", "usb3", "emmc", "microsd"}
  BY LenProperties DEF TypeOK, StorageTest, Usb
<1>1. ASSUME NEW t \in Threads, NEW x \in StorageTest, Begin(t, x)
      PROVE  TypeOK' /\ BaseIsMounted'
  <2>1. TypeOK'
    BY <1>1 DEF Begin, TypeOK, Label, Result
  <2>2. BaseIsMounted'
    BY <1>1 DEF Begin, TypeOK, BaseIsMounted
  <2> QED BY <2>1, <2>2
<1>2. ASSUME NEW t \in Threads, Announce(t)
      PROVE  TypeOK' /\ BaseIsMounted'
  <2>1. First(job[t]) \in Label \ {"fioEnd"}
    BY <1>0 DEF TypeOK, First, Label, Usb
  <2>2. TypeOK'
    BY <1>2, <2>1 DEF Announce, TypeOK, Result
  <2>3. BaseIsMounted'
    BY <1>2, <2>1 DEF Announce, TypeOK, BaseIsMounted
  <2> QED BY <2>2, <2>3
<1>3. ASSUME NEW t \in Threads, Umount(t)
      PROVE  TypeOK' /\ BaseIsMounted'
  <2>1. mounts' \in Seq(Device)
    BY <1>0, <1>3, PoppedMounts DEF Umount, CanUnmount
  <2>2. TypeOK'
    BY <1>3, <2>1 DEF Umount, TypeOK, Label
  <2>3. \A u \in Threads : pc'[u] = "fioEnd" => pc[u] = "fioEnd" /\ base'[u] = base[u]
    BY <1>3 DEF Umount, TypeOK
  <2>4. CASE CanUnmount
    <3>1. Len(mounts') = Len(mounts) - 1
      BY <1>3, <2>4, PoppedMounts DEF Umount, CanUnmount
    <3>2. \A u \in Threads : pc[u] = "fioEnd" => base[u] <= Len(mounts) /\ base[u] # Len(mounts)
      BY <2>4 DEF CanUnmount, BaseIsMounted
    <3>3. \A u \in Threads : base[u] \in Nat
      BY DEF TypeOK
    <3>4. ASSUME NEW u \in Threads, pc'[u] = "fioEnd"
          PROVE  base'[u] <= Len(mounts) - 1
      BY <1>0, <2>3, <3>2, <3>3, <3>4
    <3> QED BY <2>2, <3>1, <3>4 DEF BaseIsMounted
  <2>5. CASE ~CanUnmount
    <3>1. mounts' = mounts
      BY <1>3, <2>5 DEF Umount
    <3> QED BY <2>2, <2>3, <3>1 DEF BaseIsMounted
  <2> QED BY <2>2, <2>4, <2>5
<1>4. ASSUME NEW t \in Threads,
             Lsusb(t) \/ CountUsb(t) \/ Fsck(t) \/ ReadFs(t) \/ Mkfs(t) \/ Mkdir(t)
      PROVE  TypeOK' /\ BaseIsMounted'
  <2>1. /\ UNCHANGED <<board, solo, job, said, ok, base, mounts>>
        /\ left' = left
    BY <1>4 DEF Lsusb, CountUsb, Fsck, ReadFs, Mkfs, Mkdir
  <2>2. \E l \in Label \ {"fioEnd"} : pc' = [pc EXCEPT ![t] = l]
    BY <1>4 DEF Lsusb, CountUsb, Fsck, ReadFs, Mkfs, Mkdir, GiveUp, Label
  <2>3. /\ speed' = speed /\ linked' \in [Threads -> BOOLEAN]
        /\ checkUsb' \in Blank \cup {"seen", "not seen"}
        /\ checkFs' \in Blank \cup {"ext4", "other"}
        /\ dir' \in BOOLEAN /\ fs' \in {"ext4", "other"} /\ wiped' \in BOOLEAN
    BY <1>4 DEF Lsusb, Listed, CountUsb, Fsck, ReadFs, Mkfs, Mkdir, TypeOK, Blank, Board
  <2>4. TypeOK'
    <3>1. broke' \in [Threads -> BOOLEAN]
      BY <1>4 DEF Lsusb, CountUsb, Fsck, ReadFs, Mkfs, Mkdir, TypeOK
    <3> QED BY <2>1, <2>2, <2>3, <3>1 DEF TypeOK
  <2>5. BaseIsMounted'
    BY <2>1, <2>2 DEF TypeOK, BaseIsMounted
  <2> QED BY <2>4, <2>5
<1>5. ASSUME NEW t \in Threads, Mount(t)
      PROVE  TypeOK' /\ BaseIsMounted'
  <2>1. mounts' \in Seq(Device) /\ Len(mounts') >= Len(mounts)
    <3>1. \A d \in Device : /\ Append(mounts, d) \in Seq(Device)
                            /\ Len(Append(mounts, d)) = Len(mounts) + 1
      BY <1>0, AppendProperties
    <3>2. mounts' = mounts \/ \E d \in Device : mounts' = Append(mounts, d)
      BY <1>5 DEF Mount, Device
    <3> QED BY <1>0, <3>1, <3>2
  <2>2. \E l \in Label \ {"fioEnd"} : pc' = [pc EXCEPT ![t] = l]
    BY <1>5 DEF Mount, GiveUp, Label
  <2>3. TypeOK'
    BY <1>5, <2>1, <2>2 DEF Mount, TypeOK
  <2>4. \A u \in Threads : pc'[u] = "fioEnd" => base'[u] <= Len(mounts) /\ base'[u] \in Nat
    BY <1>5, <2>2 DEF Mount, TypeOK, BaseIsMounted
  <2>5. Len(mounts') \in Nat
    BY <2>1, LenProperties
  <2>6. BaseIsMounted'
    BY <1>0, <2>1, <2>4, <2>5 DEF BaseIsMounted
  <2> QED BY <2>3, <2>6
<1>6. ASSUME NEW t \in Threads, Fio(t)
      PROVE  TypeOK' /\ BaseIsMounted'
  <2>1. AfterFio(t) \in Label
    BY DEF AfterFio, Label
  <2>2. TypeOK'
    BY <1>0, <1>6, <2>1 DEF Fio, TypeOK, Depth, Blank
  <2>3. BaseIsMounted'
    <3>1. /\ mounts' = mounts
          /\ \A u \in Threads : IF u = t THEN base'[u] \in {0, Len(mounts)}
                                ELSE base'[u] = base[u] /\ pc'[u] = pc[u]
      BY <1>6 DEF Fio, TypeOK, Depth
    <3>2. 0 <= Len(mounts) /\ Len(mounts) <= Len(mounts)
      BY <1>0
    <3> QED BY <3>1, <3>2 DEF BaseIsMounted
  <2> QED BY <2>2, <2>3
<1>7. ASSUME NEW t \in Threads, FioEnd(t)
      PROVE  TypeOK' /\ BaseIsMounted'
  <2>1. speed' \in Blank \cup Rate
    BY <1>7, ReportIsRate DEF FioEnd, TypeOK
  <2>2. TypeOK'
    BY <1>7, <2>1 DEF FioEnd, TypeOK, Label
  <2>3. BaseIsMounted'
    BY <1>7 DEF FioEnd, TypeOK, BaseIsMounted
  <2> QED BY <2>2, <2>3
<1>8. ASSUME NEW t \in Threads, ReadSpeed(t) \/ Verdict(t)
      PROVE  TypeOK' /\ BaseIsMounted'
  <2>1. TypeOK'
    <3>1. CASE ReadSpeed(t)
      <4>1. Judge(job[t]) \in BOOLEAN
        BY DEF Judge
      <4>2. ok' \in [Threads -> BOOLEAN]
        BY <3>1, <4>1 DEF ReadSpeed, TypeOK
      <4> QED BY <3>1, <4>2 DEF ReadSpeed, TypeOK, Label
    <3>2. CASE Verdict(t)
      BY <3>2 DEF Verdict, TypeOK, Label, Result, SetResAddedLogs
    <3> QED BY <1>8, <3>1, <3>2
  <2>2. BaseIsMounted'
    BY <1>8 DEF ReadSpeed, Verdict, TypeOK, BaseIsMounted
  <2> QED BY <2>1, <2>2
<1>9. ASSUME NEW t \in Threads, Remove(t) \/ RmCheck(t)
      PROVE  TypeOK' /\ BaseIsMounted'
  <2>1. \A l : Unlink(l) \in [Threads -> BOOLEAN]
    BY DEF Unlink, TypeOK
  <2>2. AfterMeasuring(job[t]) \in Label \ {"fioEnd"}
    BY <1>0 DEF AfterMeasuring, TypeOK, Label, Usb
  <2>3. CASE Remove(t)
    <3>1. TypeOK'
      BY <2>1, <2>2, <2>3 DEF Remove, TypeOK, Blank
    <3> QED BY <2>2, <2>3, <3>1 DEF Remove, TypeOK, BaseIsMounted
  <2>4. CASE RmCheck(t)
    <3>1. TypeOK'
      BY <2>1, <2>4 DEF RmCheck, TypeOK, Blank, Label
    <3> QED BY <2>4, <3>1 DEF RmCheck, TypeOK, BaseIsMounted
  <2> QED BY <1>9, <2>3, <2>4
<1>10. CASE Quit
  <2>1. speed' \in Blank \cup Rate
    BY <1>10, ReportIsRate DEF Quit, Writing, TypeOK
  <2>2. checkFs' \in Blank \cup {"ext4", "other"}
    BY <1>10 DEF Quit, Writing, TypeOK
  <2>3. TypeOK'
    BY <1>0, <1>10, <2>1, <2>2 DEF Quit, TypeOK, Label, Result
  <2>4. BaseIsMounted'
    BY <1>10 DEF Quit, BaseIsMounted
  <2> QED BY <2>3, <2>4
<1>11. CASE UNCHANGED vars
  BY <1>11 DEF vars, TypeOK, BaseIsMounted
<1> QED
  BY <1>1, <1>2, <1>3, <1>4, <1>5, <1>6, <1>7, <1>8, <1>9, <1>10, <1>11 DEF Next, Step

\* A step that leaves the report file alone, starts no fio and keeps those that
\* measure measuring, leaves the file tidy.
LEMMA FileLeftAlone ==
  ASSUME IInv, speed' = speed, "report" \in left => "report" \in left',
         \A u \in Threads :
           /\ pc'[u] = "fioEnd" => pc[u] = "fioEnd" /\ (linked'[u] => linked[u])
           /\ Measuring(u) => Measuring(u)'
  PROVE  WriterHasFile' /\ SpeedFileTidy'
<1>1. WriterHasFile'
  BY DEF IInv, WriterHasFile, Writing
<1>2. SpeedFileTidy'
  BY DEF IInv, SpeedFileTidy
<1> QED BY <1>1, <1>2

LEMMA TidyStep ==
  ASSUME IInv, [Next]_vars
  PROVE  WriterHasFile' /\ SpeedFileTidy'
<1> USE DEF Goto, Works, Fails, local, files
<1>0. /\ pc \in [Threads -> Label] /\ linked \in [Threads -> BOOLEAN]
      /\ job \in [Threads -> StorageTest]
  BY DEF IInv, TypeOK
<1>1. ASSUME NEW t \in Threads,
             \/ (\E x \in StorageTest : Begin(t, x)) \/ Announce(t) \/ Umount(t)
             \/ Lsusb(t) \/ CountUsb(t) \/ Fsck(t) \/ ReadFs(t) \/ Mkfs(t) \/ Mkdir(t)
             \/ Mount(t) \/ RmCheck(t) \/ Verdict(t)
      PROVE  WriterHasFile' /\ SpeedFileTidy'
  <2>1. speed' = speed
    BY <1>1 DEF Begin, Announce, Umount, Lsusb, CountUsb, Fsck, ReadFs, Mkfs, Mkdir, Mount,
                RmCheck, Verdict
  <2>2. "report" \in left => "report" \in left'
    BY <1>1 DEF Begin, Announce, Umount, Lsusb, CountUsb, Fsck, ReadFs, Mkfs, Mkdir, Mount,
                RmCheck, Verdict
  <2>3. /\ \A u \in Threads \ {t} : pc'[u] = pc[u] /\ (linked'[u] => linked[u])
        /\ ~Measuring(t) /\ pc'[t] # "fioEnd"
    <3> USE <1>0 DEF Measuring
    <3>1. CASE \E x \in StorageTest : Begin(t, x)
      BY <3>1 DEF Begin
    <3>2. CASE Announce(t)
      BY <3>2 DEF Announce, First, StorageTest, Usb
    <3>3. CASE Umount(t) \/ Lsusb(t) \/ CountUsb(t)
      BY <3>3 DEF Umount, Lsusb, CountUsb, GiveUp
    <3>4. CASE Fsck(t) \/ ReadFs(t) \/ Mkfs(t) \/ Mkdir(t)
      BY <3>4 DEF Fsck, ReadFs, Mkfs, Mkdir
    <3>5. CASE Mount(t) \/ Verdict(t)
      BY <3>5 DEF Mount, GiveUp, Verdict
    <3>6. CASE RmCheck(t)
      BY <3>6 DEF RmCheck, Unlink
    <3> QED BY <1>1, <3>1, <3>2, <3>3, <3>4, <3>5, <3>6
  <2>4. \A u \in Threads \ {t} : Measuring(u) => Measuring(u)'
    BY <2>3 DEF Measuring
  <2> QED BY <2>1, <2>2, <2>3, <2>4, FileLeftAlone
<1>2. ASSUME NEW t \in Threads, Fio(t)
      PROVE  WriterHasFile' /\ SpeedFileTidy'
  <2>1. speed' = "empty" /\ pc'[t] \in {"fioEnd", "remove"}
    BY <1>0, <1>2 DEF Fio, AfterFio
  <2> QED BY <2>1 DEF WriterHasFile, SpeedFileTidy, Measuring
<1>3. ASSUME NEW t \in Threads, FioEnd(t)
      PROVE  WriterHasFile' /\ SpeedFileTidy'
  <2>1. /\ pc'[t] \in {"read", "remove"}
        /\ \A u \in Threads \ {t} : pc'[u] = pc[u] /\ linked'[u] = linked[u]
    BY <1>0, <1>3 DEF FioEnd
  <2>2. speed' = speed \/ speed' \in Rate
    BY <1>3, ReportIsRate DEF FioEnd, IInv
  <2>3. WriterHasFile'
    BY <2>1, <2>2 DEF IInv, WriterHasFile, Writing, Rate
  <2>4. SpeedFileTidy'
    BY <2>1 DEF SpeedFileTidy, Measuring
  <2> QED BY <2>3, <2>4
<1>4. ASSUME NEW t \in Threads, ReadSpeed(t)
      PROVE  WriterHasFile' /\ SpeedFileTidy'
  <2>1. /\ pc'[t] = "remove" /\ UNCHANGED <<speed, left, linked>>
        /\ \A u \in Threads \ {t} : pc'[u] = pc[u]
    BY <1>0, <1>4 DEF ReadSpeed
  <2>2. \A u \in Threads : Measuring(u) => Measuring(u)'
    BY <2>1 DEF Measuring
  <2> QED BY <2>1, <2>2, FileLeftAlone
<1>5. ASSUME NEW t \in Threads, Remove(t)
      PROVE  WriterHasFile' /\ SpeedFileTidy'
  <2>1. speed' = "missing"
    BY <1>5 DEF Remove
  <2>2. pc'[t] # "fioEnd" /\ \A u \in Threads \ {t} : pc'[u] = pc[u]
    BY <1>0, <1>5 DEF Remove, AfterMeasuring, StorageTest, Usb
  <2>3. \A u \in Threads \ {t} : pc[u] = "fioEnd" => ~linked'[u]
    BY <1>0, <1>5 DEF Remove, Unlink
  <2> QED BY <2>1, <2>2, <2>3 DEF WriterHasFile, Writing, SpeedFileTidy
<1>6. CASE Quit
  <2>1. \A t \in Threads : pc'[t] = "idle"
    BY <1>6 DEF Quit
  <2>2. speed' # "missing" => "report" \in left'
    BY <1>6 DEF Quit, IInv, WriterHasFile
  <2> QED BY <2>1, <2>2 DEF WriterHasFile, Writing, SpeedFileTidy
<1>7. CASE UNCHANGED vars
  BY <1>7, FileLeftAlone DEF vars, Measuring
<1> QED
  BY <1>1, <1>2, <1>3, <1>4, <1>5, <1>6, <1>7 DEF Next, Step

LEMMA MountStep ==
  ASSUME IInv, [Next]_vars, ~Fallback
  PROVE  OnlyUsbMounts' /\ OneMount' /\ BelowIsUsb'
<1> USE DEF Goto, Works, Fails, local, files, AtMountPoint, AtFileSystem, StorageTest, Usb
<1>0. /\ pc \in [Threads -> Label] /\ job \in [Threads -> StorageTest]
      /\ base \in [Threads -> Nat]
  BY DEF IInv, TypeOK
<1>1. /\ \A u \in Threads : pc[u] \in AtMountPoint => job[u] \in Usb
      /\ \A u \in Threads : pc[u] \notin AtFileSystem
      /\ mounts = <<>> \/ mounts = <<"stick">>
      /\ \A u \in Threads : pc[u] = "fioEnd" /\ base[u] # 0 => job[u] \in Usb
  BY DEF IInv, OnlyUsbMounts, OneMount, BelowIsUsb
<1>2. \A t \in Threads :
        ~Fsck(t) /\ ~ReadFs(t) /\ ~Mkfs(t)
  BY <1>1 DEF Fsck, ReadFs, Mkfs
<1>3. OnlyUsbMounts'
  <2>1. ASSUME NEW t \in Threads, NEW u \in Threads,
               (\E x \in StorageTest : Begin(t, x)) \/ Step(t)
        PROVE  (pc'[u] \in AtMountPoint => job'[u] \in Usb) /\ pc'[u] \notin AtFileSystem
    <3> USE <1>0, <1>1
    <3>1. CASE \E x \in StorageTest : Begin(t, x)
      BY <3>1 DEF Begin
    <3>2. CASE Announce(t)
      BY <3>2 DEF Announce, First
    <3>3. CASE Umount(t) \/ Lsusb(t) \/ CountUsb(t)
      BY <3>3 DEF Umount, Lsusb, CountUsb, GiveUp
    <3>4. CASE Mkdir(t) \/ Mount(t)
      BY <3>4 DEF Mkdir, Mount, GiveUp
    <3>5. CASE Fio(t) \/ FioEnd(t) \/ ReadSpeed(t)
      BY <3>5 DEF Fio, AfterFio, FioEnd, ReadSpeed
    <3>6. CASE Remove(t) \/ RmCheck(t) \/ Verdict(t)
      BY <3>6 DEF Remove, AfterMeasuring, RmCheck, Verdict
    <3> QED BY <2>1, <1>2, <3>1, <3>2, <3>3, <3>4, <3>5, <3>6 DEF Step
  <2>2. ASSUME Quit \/ UNCHANGED vars, NEW u \in Threads
        PROVE  (pc'[u] \in AtMountPoint => job'[u] \in Usb) /\ pc'[u] \notin AtFileSystem
    BY <1>1, <2>2 DEF Quit, vars
  <2> QED BY <2>1, <2>2 DEF OnlyUsbMounts, Next
<1>4. OneMount'
  <2>1. ASSUME NEW t \in Threads, Umount(t)
        PROVE  mounts' \in {<<>>, <<"stick">>}
    BY <1>1, <2>1, PoppedMounts DEF Umount, CanUnmount, IInv
  <2>2. ASSUME NEW t \in Threads, Mount(t)
        PROVE  mounts' \in {<<>>, <<"stick">>}
    <3>1. job[t] # "emmc"
      BY <1>1, <2>2 DEF Mount
    <3>2. mounts' = mounts \/ (mounts' = Append(mounts, "stick") /\ CanMount("stick"))
      BY <2>2, <3>1 DEF Mount
    <3>3. mounts = <<"stick">> => ~CanMount("stick")
      BY DEF CanMount
    <3>4. Append(<<>>, "stick") = <<"stick">>
      OBVIOUS
    <3> QED BY <1>1, <3>2, <3>3, <3>4
  <2>3. ASSUME ~\E t \in Threads : Umount(t) \/ Mount(t)
        PROVE  mounts' = mounts
    BY <2>3 DEF Next, Step, Begin, Announce, Lsusb, CountUsb, Fsck, ReadFs, Mkfs, Mkdir, Fio,
                FioEnd, ReadSpeed, Remove, RmCheck, Verdict, Quit, vars
  <2> QED BY <1>1, <2>1, <2>2, <2>3 DEF OneMount
<1>5. BelowIsUsb'
  <2>1. ASSUME NEW t \in Threads, NEW u \in Threads,
               (\E x \in StorageTest : Begin(t, x)) \/ Step(t),
               pc'[u] = "fioEnd", base'[u] # 0
        PROVE  job'[u] \in Usb
    <3> USE <1>0, <1>1
    <3>1. CASE \E x \in StorageTest : Begin(t, x)
      BY <2>1, <3>1 DEF Begin
    <3>2. CASE Announce(t)
      BY <2>1, <3>2 DEF Announce, First
    <3>3. CASE Umount(t) \/ Lsusb(t) \/ CountUsb(t)
      BY <2>1, <3>3 DEF Umount, Lsusb, CountUsb, GiveUp
    <3>4. CASE Mkdir(t) \/ Mount(t)
      BY <2>1, <3>4 DEF Mkdir, Mount, GiveUp
    <3>5. CASE Fio(t)
      BY <2>1, <3>5 DEF Fio, AfterFio, OnRoot
    <3>6. CASE FioEnd(t) \/ ReadSpeed(t)
      BY <2>1, <3>6 DEF FioEnd, ReadSpeed
    <3>7. CASE Remove(t) \/ RmCheck(t) \/ Verdict(t)
      BY <2>1, <3>7 DEF Remove, AfterMeasuring, RmCheck, Verdict
    <3> QED BY <2>1, <1>2, <3>1, <3>2, <3>3, <3>4, <3>5, <3>6, <3>7 DEF Step
  <2>2. ASSUME Quit \/ UNCHANGED vars, NEW u \in Threads, pc'[u] = "fioEnd", base'[u] # 0
        PROVE  job'[u] \in Usb
    BY <1>1, <2>2 DEF Quit, vars
  <2> QED BY <2>1, <2>2 DEF BelowIsUsb, Next
<1> QED BY <1>3, <1>4, <1>5

\* A USB test that will unmount what is mounted.
Keeper(t) == job[t] \in Usb /\ (Measuring(t) \/ pc[t] \in {"fio", "unmount"})

LEMMA StickStep ==
  ASSUME IInv, [Next]_vars, ~Fallback
  PROVE  StickIsUnmounted'
<1> USE DEF Goto, Works, Fails, local, files, Keeper, Measuring, Usb
<1>0. /\ pc \in [Threads -> Label] /\ job \in [Threads -> StorageTest]
  BY DEF IInv, TypeOK
<1>1. /\ mounts = <<>> \/ mounts = <<"stick">>
      /\ \A u \in Threads : pc[u] \in AtMountPoint => job[u] \in Usb
      /\ \A u \in Threads : pc[u] = "fioEnd" /\ base[u] # 0 => job[u] \in Usb
  BY DEF IInv, OnlyUsbMounts, OneMount, BelowIsUsb
<1>2. mounts # <<>> /\ "stick" \notin left => \E u \in Threads : Keeper(u)
  BY DEF IInv, StickIsUnmounted
<1>3. SUFFICES ASSUME mounts' # <<>>, "stick" \notin left'
               PROVE  \E u \in Threads : Keeper(u)'
  BY DEF StickIsUnmounted
<1>4. ASSUME NEW t \in Threads,
             \/ (\E x \in StorageTest : Begin(t, x)) \/ Announce(t) \/ Lsusb(t) \/ CountUsb(t)
             \/ Fsck(t) \/ ReadFs(t) \/ Mkfs(t) \/ Mkdir(t) \/ Fio(t) \/ FioEnd(t)
             \/ ReadSpeed(t) \/ Remove(t) \/ RmCheck(t) \/ Verdict(t)
      PROVE  \E u \in Threads : Keeper(u)'
  <2>1. mounts' = mounts /\ ("stick" \in left => "stick" \in left')
    BY <1>4 DEF Begin, Announce, Lsusb, CountUsb, Fsck, ReadFs, Mkfs, Mkdir, Fio, FioEnd,
                ReadSpeed, Remove, RmCheck, Verdict
  <2>2. \A u \in Threads : Keeper(u) => Keeper(u)'
    <3> USE <1>0
    <3>1. CASE \E x \in StorageTest : Begin(t, x)
      BY <3>1 DEF Begin
    <3>2. CASE Announce(t) \/ Lsusb(t) \/ CountUsb(t)
      BY <3>2 DEF Announce, Lsusb, CountUsb
    <3>3. CASE Fsck(t) \/ ReadFs(t) \/ Mkfs(t) \/ Mkdir(t)
      BY <3>3 DEF Fsck, ReadFs, Mkfs, Mkdir
    <3>4. CASE Fio(t) \/ FioEnd(t) \/ ReadSpeed(t)
      BY <3>4 DEF Fio, AfterFio, FioEnd, ReadSpeed
    <3>5. CASE Remove(t)
      BY <3>5 DEF Remove, AfterMeasuring
    <3>6. CASE RmCheck(t) \/ Verdict(t)
      BY <3>6 DEF RmCheck, Verdict
    <3> QED BY <1>4, <3>1, <3>2, <3>3, <3>4, <3>5, <3>6
  <2> QED BY <1>2, <1>3, <2>1, <2>2
<1>5. ASSUME NEW t \in Threads, Umount(t)
      PROVE  \E u \in Threads : Keeper(u)'
  <2>1. mounts = <<"stick">> /\ mounts' = mounts /\ ~CanUnmount
    BY <1>1, <1>3, <1>5, PoppedMounts DEF Umount, CanUnmount, IInv
  <2>2. PICK u \in Threads : pc[u] = "fioEnd" /\ base[u] = Len(mounts)
    BY <2>1 DEF CanUnmount
  <2>3. Len(mounts) # 0
    BY <2>1
  <2>4. job[u] \in Usb /\ u # t
    BY <1>1, <1>5, <2>2, <2>3 DEF Umount
  <2>5. job'[u] = job[u] /\ pc'[u] = pc[u]
    BY <1>0, <1>5, <2>4 DEF Umount
  <2> QED BY <2>2, <2>4, <2>5
<1>6. ASSUME NEW t \in Threads, Mount(t)
      PROVE  \E u \in Threads : Keeper(u)'
  <2>1. job[t] \in Usb /\ job'[t] = job[t] /\ pc[t] = "mount"
    BY <1>1, <1>6 DEF Mount, AtMountPoint
  <2>2. CASE pc'[t] = "fio"
    BY <2>1, <2>2
  <2>3. CASE pc'[t] # "fio"
    <3>1. mounts' = mounts /\ left' = left
      BY <1>0, <1>6, <2>1, <2>3 DEF Mount
    <3>2. PICK u \in Threads : Keeper(u)
      BY <1>2, <1>3, <3>1
    <3>3. u # t /\ job'[u] = job[u] /\ pc'[u] = pc[u]
      BY <1>0, <1>6, <2>1, <3>2 DEF Mount
    <3> QED BY <3>2, <3>3
  <2> QED BY <2>2, <2>3
<1>7. CASE Quit
  <2>1. mounts = <<"stick">>
    BY <1>1, <1>3, <1>7 DEF Quit
  <2>2. 1 \in DOMAIN mounts /\ mounts[1] = "stick"
    BY <2>1
  <2>3. Mounted("stick")
    BY <2>2 DEF Mounted
  <2> QED BY <1>3, <1>7, <2>3 DEF Quit
<1>8. CASE UNCHANGED vars
  BY <1>2, <1>3, <1>8 DEF vars
<1> QED BY <1>4, <1>5, <1>6, <1>7, <1>8 DEF Next, Step
-----------------------------------------------------------------------------
LEMMA Invariance == Spec => []IInv
<1>1. Init => IInv
  BY InitOK
<1>2. ASSUME IInv, [Next]_vars
      PROVE  IInv'
  <2>1. board' = board
    BY <1>2 DEF Next, Step, Begin, Announce, Umount, Lsusb, CountUsb, Fsck, ReadFs, Mkfs, Mkdir,
                Mount, Fio, FioEnd, ReadSpeed, Remove, RmCheck, Verdict, Quit, vars
  <2>2. Fallback' = Fallback
    BY <2>1 DEF Fallback
  <2>3. CASE Fallback
    BY <1>2, <2>2, <2>3, TypeStep, TidyStep
      DEF IInv, OnlyUsbMounts, OneMount, BelowIsUsb, StickIsUnmounted
  <2>4. CASE ~Fallback
    BY <1>2, <2>4, TypeStep, TidyStep, MountStep, StickStep DEF IInv
  <2> QED BY <2>3, <2>4
<1> QED BY <1>1, <1>2, PTL DEF Spec

\* Every value the storage tests' variables take has its type: a test that ends
\* finds the mount it worked in, whatever others have unmounted.
THEOREM TypeCorrect == Spec => []TypeOK
<1>1. IInv => TypeOK
  BY DEF IInv
<1> QED BY <1>1, Invariance, PTL

\* However many storage tests overlap, the file "speed" does not stay behind when
\* none of them is measuring, unless the program was ended meanwhile.
THEOREM SpeedTidy == Spec => []SpeedFileTidy
<1>1. IInv => SpeedFileTidy
  BY DEF IInv
<1> QED BY <1>1, Invariance, PTL

\* However many tests overlap on a board with the system on its eMMC, what is
\* mounted will be unmounted by a USB test on its way, unless the program was
\* ended meanwhile.
THEOREM StickUnmounted == Spec => []StickIsUnmounted
<1>1. IInv => StickIsUnmounted
  BY DEF IInv
<1> QED BY <1>1, Invariance, PTL
-----------------------------------------------------------------------------
\* A rate in the report is that of something on the board, whoever wrote it ...
Measurable == {board.rate[d] : d \in Drive}
ReportIsMeasured == speed \in Rate => speed \in Measurable

\* ... and a run has judged it before it can pass.
OkIsMeasured ==
  \A t \in Threads : ok[t] => /\ pc[t] \in {"remove", "rmCheck", "unmount", "verdict"}
                              /\ \E r \in Measurable : r \in Passing(job[t])

\* A run but EMMC's, one of whose commands has failed, has passed its judgement by.
AfterFailure == {"remove", "unmount", "verdict"}
FailureIsFinal ==
  \A t \in Threads : broke[t] /\ job[t] # "emmc" => ~ok[t] /\ pc[t] \in AfterFailure

NewIsUnbroken == \A t \in Threads : pc[t] \in {"idle", "created"} => ~broke[t]

FormatsEmmc ==
  \A t \in Threads : pc[t] \in AtFileSystem \cup {"rmCheck"} => job[t] = "emmc"

MeasuredInv ==
  ReportIsMeasured /\ OkIsMeasured /\ FailureIsFinal /\ NewIsUnbroken /\ FormatsEmmc

LEMMA ReportOfDevice ==
  ASSUME IInv, NEW t \in Threads, pc[t] = "fioEnd"
  PROVE  Report(t) \in Measurable
<1>0. board.root \in Drive /\ Device \subseteq Drive
  BY DEF IInv, TypeOK, Board, Drive, Device
<1>1. CASE base[t] = 0
  BY <1>0, <1>1 DEF Report, Measurable
<1>2. CASE base[t] # 0
  <2>1. mounts \in Seq(Device) /\ base[t] \in 1..Len(mounts)
    <3>1. mounts \in Seq(Device) /\ base[t] \in Nat /\ base[t] <= Len(mounts)
      BY DEF IInv, TypeOK, BaseIsMounted
    <3>2. Len(mounts) \in Nat
      BY <3>1, LenProperties
    <3> QED BY <1>2, <3>1, <3>2
  <2>2. mounts[base[t]] \in Device
    BY <2>1, ElementOfSeq
  <2> QED BY <1>0, <1>2, <2>2 DEF Report, Measurable
<1> QED BY <1>1, <1>2

LEMMA FailureStep ==
  ASSUME IInv, MeasuredInv, [Next]_vars
  PROVE  FailureIsFinal' /\ NewIsUnbroken' /\ FormatsEmmc'
<1> USE DEF Goto, Works, Fails, local, files, StorageTest, Usb, AfterFailure, AtFileSystem
<1> DEFINE Good(t) ==
      /\ broke[t] /\ job[t] # "emmc" => ~ok[t] /\ pc[t] \in AfterFailure
      /\ pc[t] \in {"idle", "created"} => ~broke[t]
      /\ pc[t] \in AtFileSystem \cup {"rmCheck"} => job[t] = "emmc"
<1>0. /\ pc \in [Threads -> Label] /\ job \in [Threads -> StorageTest]
      /\ ok \in [Threads -> BOOLEAN] /\ broke \in [Threads -> BOOLEAN]
  BY DEF IInv, TypeOK
<1>1. \A t \in Threads : Good(t)
  BY DEF MeasuredInv, FailureIsFinal, NewIsUnbroken, FormatsEmmc
<1>2. \A t \in Threads : ok[t] => pc[t] \in {"remove", "rmCheck", "unmount", "verdict"}
  BY DEF MeasuredInv, OkIsMeasured
<1>3. SUFFICES \A t \in Threads : Good(t)'
  BY DEF FailureIsFinal, NewIsUnbroken, FormatsEmmc
<1>4. ASSUME NEW t \in Threads, NEW x \in StorageTest, Begin(t, x)
      PROVE  \A u \in Threads : Good(u)'
  BY <1>0, <1>1, <1>4 DEF Begin
<1>5. ASSUME NEW t \in Threads, Step(t)
      PROVE  \A u \in Threads : Good(u)'
  <2>1. \A u \in Threads \ {t} : /\ pc'[u] = pc[u] /\ job'[u] = job[u]
                                 /\ broke'[u] = broke[u] /\ ok'[u] = ok[u]
    BY <1>0, <1>5 DEF Step, Announce, Umount, Lsusb, CountUsb, Fsck, ReadFs, Mkfs, Mkdir,
                      Mount, Fio, FioEnd, ReadSpeed, Remove, RmCheck, Verdict
  <2>2. Good(t)'
    <3> USE <1>0, <1>1, <1>2
    <3>1. CASE Announce(t)
      BY <3>1 DEF Announce, First
    <3>2. CASE Umount(t) \/ CountUsb(t)
      BY <3>2 DEF Umount, CountUsb, GiveUp
    <3>3. CASE Lsusb(t)
      BY <3>3 DEF Lsusb, GiveUp
    <3>4. CASE Fsck(t) \/ ReadFs(t) \/ Mkfs(t)
      BY <3>4 DEF Fsck, ReadFs, Mkfs
    <3>5. CASE Mkdir(t) \/ Mount(t)
      BY <3>5 DEF Mkdir, Mount, GiveUp
    <3>6. CASE Fio(t) \/ FioEnd(t) \/ ReadSpeed(t)
      BY <3>6 DEF Fio, AfterFio, FioEnd, ReadSpeed
    <3>7. CASE Remove(t) \/ RmCheck(t) \/ Verdict(t)
      BY <3>7 DEF Remove, AfterMeasuring, RmCheck, Verdict
    <3> QED BY <1>5, <3>1, <3>2, <3>3, <3>4, <3>5, <3>6, <3>7 DEF Step
  <2>3. ASSUME NEW u \in Threads \ {t}
        PROVE  Good(u)'
    BY <1>1, <2>1
  <2> QED BY <2>2, <2>3
<1>6. CASE Quit
  BY <1>6 DEF Quit
<1>7. CASE UNCHANGED vars
  BY <1>1, <1>7 DEF vars
<1> QED BY <1>4, <1>5, <1>6, <1>7 DEF Next

LEMMA MeasuredStep == IInv /\ MeasuredInv /\ [Next]_vars => MeasuredInv'
<1> SUFFICES ASSUME IInv, MeasuredInv, [Next]_vars
             PROVE  MeasuredInv'
  OBVIOUS
<1>1. Measurable' = Measurable
  BY DEF Measurable, Next, Step, Begin, Announce, Umount, Lsusb, CountUsb, Fsck, ReadFs, Mkfs,
         Mkdir, Mount, Fio, FioEnd, ReadSpeed, Remove, RmCheck, Verdict, Quit, vars
<1>2. ReportIsMeasured'
  <2> USE <1>1 DEF MeasuredInv, ReportIsMeasured
  <2>1. ASSUME NEW t \in Threads, FioEnd(t)
        PROVE  ReportIsMeasured'
    BY <2>1, ReportOfDevice DEF FioEnd
  <2>2. CASE Quit
    BY <2>2, ReportOfDevice DEF Quit, Writing
  <2>3. CASE speed' \in Blank
    BY <2>3 DEF Blank, Rate
  <2>4. CASE speed' = speed
    BY <2>4
  <2> QED
    BY <2>1, <2>2, <2>3, <2>4 DEF Next, Step, Begin, Announce, Umount, Lsusb, CountUsb, Fsck,
       ReadFs, Mkfs, Mkdir, Mount, Fio, ReadSpeed, Remove, RmCheck, Verdict, Blank, local,
       files, vars
<1>3. OkIsMeasured'
  <2> USE <1>1 DEF IInv, TypeOK, MeasuredInv, OkIsMeasured, Goto, Works, Fails
  <2>1. ASSUME NEW t \in Threads, NEW x \in StorageTest, Begin(t, x)
        PROVE  OkIsMeasured'
    BY <2>1 DEF Begin, Passing
  <2>2. ASSUME NEW t \in Threads, ReadSpeed(t)
        PROVE  OkIsMeasured'
    <3>1. Judge(job[t]) => speed \in Measurable /\ speed \in Passing(job[t])
      BY DEF Judge, ReportIsMeasured, Passing, Rate
    <3> QED BY <2>2, <3>1 DEF ReadSpeed, Passing
  <2>3. ASSUME NEW t \in Threads, Verdict(t)
        PROVE  OkIsMeasured'
    BY <2>3 DEF Verdict, Passing
  <2>4. CASE Quit
    BY <2>4 DEF Quit
  <2>5. ASSUME NEW t \in Threads, NEW l, Goto(t, l), UNCHANGED <<job, ok>>,
               pc[t] \notin {"remove", "rmCheck", "unmount", "verdict"}
                 \/ l \in {"remove", "rmCheck", "unmount", "verdict"}
        PROVE  OkIsMeasured'
    BY <2>5 DEF Passing
  <2>6. ASSUME NEW t \in Threads, Remove(t)
        PROVE  OkIsMeasured'
    <3>1. AfterMeasuring(job[t]) \in {"rmCheck", "unmount", "verdict"}
      BY DEF AfterMeasuring, StorageTest, Usb
    <3> QED BY <2>5, <2>6, <3>1 DEF Remove
  <2>7. ASSUME NEW t \in Threads, Umount(t) \/ RmCheck(t)
        PROVE  OkIsMeasured'
    BY <2>5, <2>7 DEF Umount, RmCheck
  <2>8. ASSUME NEW t \in Threads,
               \/ Announce(t) \/ Lsusb(t) \/ CountUsb(t) \/ Fsck(t) \/ ReadFs(t) \/ Mkfs(t)
               \/ Mkdir(t) \/ Mount(t) \/ Fio(t) \/ FioEnd(t)
        PROVE  OkIsMeasured'
    <3>1. /\ UNCHANGED <<job, ok>> /\ \E l : Goto(t, l)
          /\ pc[t] \notin {"remove", "rmCheck", "unmount", "verdict"}
      BY <2>8 DEF Announce, Lsusb, CountUsb, Fsck, ReadFs, Mkfs, Mkdir, Mount, Fio, FioEnd
    <3> QED BY <2>5, <3>1
  <2>9. CASE UNCHANGED vars
    BY <2>9 DEF vars, local, Passing
  <2> QED
    BY <2>1, <2>2, <2>3, <2>4, <2>6, <2>7, <2>8, <2>9 DEF Next, Step
<1> QED BY <1>2, <1>3, FailureStep DEF MeasuredInv

\* However storage tests overlap and share the report, one passes only if some
\* device on the board is fast enough for it, and, but for EMMC, only if none of
\* its commands has failed by itself.
THEOREM SuccessMeasured == Spec => []SuccessWasMeasured
<1>1. Init => MeasuredInv
  BY DEF Init, MeasuredInv, ReportIsMeasured, OkIsMeasured, Rate, FailureIsFinal, NewIsUnbroken,
         FormatsEmmc, AtFileSystem, Blank
<1>2. MeasuredInv => SuccessWasMeasured
  BY DEF MeasuredInv, OkIsMeasured, Measurable, FailureIsFinal, SuccessWasMeasured
<1> QED BY <1>1, <1>2, MeasuredStep, Invariance, PTL DEF Spec
-----------------------------------------------------------------------------
\* An EMMC test whose user is patient is the only one that looks at its file
\* system, that has a file for the answer, and that may format.
OneEmmc ==
  \A t, u \in Threads :
    pc[t] # "idle" /\ job[t] = "emmc" /\ pc[u] # "idle" /\ job[u] = "emmc" => t = u

LooksFirst ==
  \A t \in Threads :
    /\ pc[t] \in AtFileSystem \cup {"rmCheck"} => job[t] = "emmc"
    /\ pc[t] = "fsckEnd" => linked[t]
    /\ pc[t] = "readFs" => checkFs = fs
    /\ pc[t] = "mkfs" => fs # "ext4"

FormatInv == PatientEmmc => OneEmmc /\ LooksFirst /\ ~wiped

LEMMA OneEmmcStep ==
  ASSUME IInv, PatientEmmc, OneEmmc, [Next]_vars
  PROVE  OneEmmc'
<1> USE DEF OneEmmc, Goto, Works, Fails
<1>0. pc \in [Threads -> Label] /\ job \in [Threads -> StorageTest]
  BY DEF IInv, TypeOK
<1>1. ASSUME NEW t \in Threads, NEW x \in StorageTest, Begin(t, x)
      PROVE  OneEmmc'
  BY <1>0, <1>1 DEF Begin
<1>2. ASSUME NEW t \in Threads, Step(t)
      PROVE  OneEmmc'
  <2>1. job' = job /\ pc[t] # "idle" /\ \A u \in Threads \ {t} : pc'[u] = pc[u]
    BY <1>0, <1>2 DEF Step, Announce, Umount, Lsusb, CountUsb, Fsck, ReadFs, Mkfs, Mkdir,
                      Mount, Fio, FioEnd, ReadSpeed, Remove, RmCheck, Verdict
  <2> QED BY <2>1
<1>3. CASE Quit
  BY <1>3 DEF Quit
<1>4. CASE UNCHANGED vars
  BY <1>4 DEF vars, local
<1> QED BY <1>1, <1>2, <1>3, <1>4 DEF Next

LEMMA FormatStep ==
  ASSUME IInv, PatientEmmc, OneEmmc, LooksFirst, ~wiped, [Next]_vars
  PROVE  LooksFirst' /\ ~wiped'
<1> USE DEF Goto, Works, Fails, local, files
<1>0. /\ pc \in [Threads -> Label] /\ job \in [Threads -> StorageTest]
      /\ linked \in [Threads -> BOOLEAN] /\ fs \in {"ext4", "other"}
  BY DEF IInv, TypeOK
<1> DEFINE Looks(t) == /\ pc[t] \in AtFileSystem \cup {"rmCheck"} => job[t] = "emmc"
                       /\ pc[t] = "fsckEnd" => linked[t]
                       /\ pc[t] = "readFs" => checkFs = fs
                       /\ pc[t] = "mkfs" => fs # "ext4"
<1>1. \A t \in Threads : Looks(t)
  BY DEF LooksFirst
<1>2. ASSUME NEW t \in Threads, NEW x \in StorageTest, Begin(t, x)
      PROVE  LooksFirst' /\ ~wiped'
  BY <1>0, <1>1, <1>2 DEF Begin, LooksFirst, AtFileSystem
<1>3. ASSUME NEW t \in Threads, Fsck(t) \/ Mkfs(t) \/ RmCheck(t)
      PROVE  LooksFirst' /\ ~wiped'
  <2>1. job[t] = "emmc" /\ job' = job
    BY <1>1, <1>3 DEF Fsck, Mkfs, RmCheck, AtFileSystem
  <2>2. \A u \in Threads \ {t} : pc'[u] = pc[u] /\ pc[u] \notin AtFileSystem \cup {"rmCheck"}
    <3>1. pc[t] # "idle" /\ \A u \in Threads \ {t} : pc'[u] = pc[u]
      BY <1>0, <1>3 DEF Fsck, Mkfs, RmCheck
    <3> QED BY <1>1, <2>1, <3>1 DEF OneEmmc, AtFileSystem
  <2>3. Looks(t)' /\ ~wiped'
    <3>1. CASE Fsck(t)
      BY <1>0, <1>1, <2>1, <3>1 DEF Fsck, AtFileSystem
    <3>2. CASE Mkfs(t)
      <4>1. pc'[t] = "mkdir" /\ fs # "ext4"
        BY <1>0, <1>1, <3>2 DEF Mkfs
      <4>2. ~wiped'
        BY <3>2, <4>1 DEF Mkfs
      <4> QED BY <4>1, <4>2 DEF AtFileSystem
    <3>3. CASE RmCheck(t)
      BY <1>0, <1>1, <2>1, <3>3 DEF RmCheck, AtFileSystem
    <3> QED BY <1>3, <3>1, <3>2, <3>3
  <2> QED BY <2>1, <2>2, <2>3 DEF LooksFirst, AtFileSystem
<1>4. ASSUME NEW t \in Threads,
             \/ Announce(t) \/ Umount(t) \/ Lsusb(t) \/ CountUsb(t) \/ ReadFs(t) \/ Mkdir(t)
             \/ Mount(t) \/ Fio(t) \/ FioEnd(t) \/ ReadSpeed(t) \/ Remove(t) \/ Verdict(t)
      PROVE  LooksFirst' /\ ~wiped'
  <2>1. UNCHANGED <<job, checkFs, fs, wiped>>
    BY <1>4 DEF Announce, Umount, Lsusb, CountUsb, ReadFs, Mkdir, Mount, Fio, FioEnd,
                ReadSpeed, Remove, Verdict
  <2>2. \A u \in Threads \ {t} : pc'[u] = pc[u] /\ (pc[u] = "fsckEnd" /\ linked[u] => linked'[u])
    BY <1>0, <1>4 DEF Announce, Umount, Lsusb, CountUsb, ReadFs, Mkdir, Mount, Fio, FioEnd,
                ReadSpeed, Remove, Verdict, Unlink
  <2>3. /\ pc'[t] \in {"mkfs", "fsck", "rmCheck"} => job[t] = "emmc"
        /\ pc'[t] = "mkfs" => fs # "ext4"
        /\ pc'[t] \notin {"fsckEnd", "readFs"}
    <3> USE <1>0 DEF StorageTest, Usb
    <3>1. CASE Announce(t)
      BY <3>1 DEF Announce, First
    <3>2. CASE Umount(t) \/ Lsusb(t) \/ CountUsb(t)
      BY <3>2 DEF Umount, Lsusb, CountUsb, GiveUp
    <3>3. CASE ReadFs(t)
      BY <1>1, <3>3 DEF ReadFs, Unformatted, AtFileSystem
    <3>4. CASE Mkdir(t) \/ Mount(t)
      BY <3>4 DEF Mkdir, Mount, GiveUp
    <3>5. CASE Fio(t) \/ FioEnd(t) \/ ReadSpeed(t)
      BY <3>5 DEF Fio, AfterFio, FioEnd, ReadSpeed
    <3>6. CASE Remove(t) \/ Verdict(t)
      BY <3>6 DEF Remove, AfterMeasuring, Verdict
    <3> QED BY <1>4, <3>1, <3>2, <3>3, <3>4, <3>5, <3>6
  <2> QED BY <1>1, <2>1, <2>2, <2>3 DEF LooksFirst, AtFileSystem
<1>5. CASE Quit
  BY <1>5 DEF Quit, LooksFirst, AtFileSystem
<1>6. CASE UNCHANGED vars
  BY <1>1, <1>6 DEF vars, LooksFirst
<1> QED BY <1>2, <1>3, <1>4, <1>5, <1>6 DEF Next, Step

\* If EMMC is pressed again only once its test is over, an ext4 file system on
\* the eMMC is never formatted anew, whatever other tests run beside it and
\* wherever the program is ended.
THEOREM Unharmed == Spec => []NoReformat
<1>1. Init => FormatInv
  BY DEF Init, FormatInv, OneEmmc, LooksFirst, AtFileSystem
<1>2. IInv /\ FormatInv /\ [Next]_vars => FormatInv'
  BY OneEmmcStep, FormatStep DEF FormatInv
<1>3. FormatInv => NoReformat
  BY DEF FormatInv, NoReformat
<1> QED BY <1>1, <1>2, <1>3, Invariance, PTL DEF Spec
-----------------------------------------------------------------------------
\* While the tests run one at a time ...
LoneTest == \A t, u \in Threads : pc[t] # "idle" /\ pc[u] # "idle" => t = u

\* ... the mounts stack in four ways.  A stick below is what an ended program left
\* behind, unless the USB test that mounted it is still on its way to unmount it.
Stacks == {<<>>, <<"emmc">>, <<"stick">>, <<"stick", "emmc">>}
WithEmmc == {<<"emmc">>, <<"stick", "emmc">>}
WithStick == {<<"stick">>, <<"stick", "emmc">>}
StackInv ==
  /\ mounts \in Stacks
  /\ mounts \in WithEmmc => fs = "ext4"
  /\ mounts \in WithStick => "stick" \in left \/ \E t \in Threads : Keeper(t)

\* The sign a test takes for its device, the storage it measures, and the storage a
\* test file at the mount point is on; "root" is the one the system runs from.
Plugged(x) ==
  CASE x = "emmc" -> board.emmc
    [] x = "microsd" -> board.sdP3
    [] x \in Usb -> board.usb
Storage(x) ==
  CASE OnRoot(x) -> "root"
    [] x = "emmc" /\ Fallback -> "emmc"
    [] x \in Usb -> IF board.sda THEN "stick" ELSE "root"
Top == IF mounts = <<>> THEN "root" ELSE mounts[Len(mounts)]
Rated(d) == board.rate[IF d = "root" THEN board.root ELSE d]
Clean(t) == ~broke[t] /\ (job[t] \in Usb => "stick" \notin left)

\* What the program's way of judging makes of a device, the root file system in its
\* place included; whether that is right is another question (DeservedIsRight).
Deserved(x) == Plugged(x) /\ (x \in Usb => dir) /\ Rated(Storage(x)) \in Passing(x)

\* A run takes the way of its test, and has measured nothing at first.
AtUsb == {"umount", "lsusb", "lsusbEnd", "count"}
OnItsWay(t) ==
  /\ pc[t] \in AtUsb \cup {"unmount"} => job[t] \in Usb
  /\ pc[t] \in AtFileSystem \cup {"rmCheck"} => job[t] = "emmc" /\ Fallback
  /\ pc[t] \in {"mkdir", "mount"} => job[t] \in Usb \/ (job[t] = "emmc" /\ Fallback)
  /\ pc[t] \in AtFileSystem \cup {"mkdir", "mount", "fio", "fioEnd", "read"} => Plugged(job[t])
  /\ pc[t] \in {"idle", "created"} \cup AtUsb \cup AtFileSystem \cup {"mkdir", "mount", "fio"}
       => ~ok[t]

\* It finds its answers in its files, and its device at the mount point ...
Ready(t) ==
  /\ job[t] \in Usb /\ pc[t] \notin {"idle", "created", "umount", "verdict"} =>
       mounts \in {<<>>, <<"stick">>}
  /\ pc[t] = "count" => (checkUsb = "seen" <=> board.usb)
  /\ pc[t] = "readFs" => checkFs = fs
  /\ pc[t] = "fsckEnd" => linked[t]
  /\ pc[t] \in {"mkdir", "mount"} /\ job[t] = "emmc" /\ ~broke[t] => fs = "ext4"
  /\ pc[t] = "mount" /\ job[t] \in {"emmc", "usbc"} => dir
  /\ pc[t] = "fio" /\ (job[t] = "usbc" \/ (job[t] = "emmc" /\ Fallback)) => dir
  /\ pc[t] = "fio" /\ Clean(t) => OnRoot(job[t]) \/ Top = Storage(job[t])

\* ... and so it measures and judges its own device.
Judged == {"remove", "rmCheck", "unmount", "verdict"}
Measures(t) ==
  /\ pc[t] = "fioEnd" => linked[t]
  /\ pc[t] \in {"fioEnd", "read"} /\ job[t] \in Usb => dir
  /\ pc[t] = "fioEnd" /\ Clean(t) => Report(t) = Rated(Storage(job[t]))
  /\ pc[t] = "read" /\ Clean(t) => speed = Rated(Storage(job[t]))
  /\ pc[t] \in Judged /\ Clean(t) => (ok[t] <=> Deserved(job[t]))
  /\ pc[t] \in Judged /\ job[t] = "usbc" /\ Clean(t) => (dir \/ ~Plugged("usbc"))

LoneRun(t) == OnItsWay(t) /\ Ready(t) /\ Measures(t)

SoloInv == solo => LoneTest /\ StackInv /\ \A t \in Threads : LoneRun(t)

\* What the four stacks hold, and what unmounting leaves of them.
LEMMA StackFacts ==
  ASSUME mounts \in Stacks
  PROVE  /\ Mounted("stick") <=> mounts \in WithStick
         /\ Mounted("emmc") <=> mounts \in WithEmmc
         /\ mounts # <<>> => Popped = IF mounts = <<"stick", "emmc">> THEN <<"stick">> ELSE <<>>
         /\ Top = CASE mounts = <<>> -> "root" [] mounts = <<"stick">> -> "stick"
                    [] OTHER -> "emmc"
         /\ Len(mounts) = 0 <=> mounts = <<>>
<1>1. CASE mounts = <<>>
  BY <1>1 DEF Mounted, WithStick, WithEmmc, Top
<1>2. ASSUME NEW d \in {"emmc", "stick"}, mounts = <<d>>
      PROVE  /\ DOMAIN mounts = {1} /\ mounts[1] = d /\ Len(mounts) = 1
             /\ Popped = <<>>
  <2>1. Len(mounts) = 1 /\ mounts[1] = d /\ DOMAIN mounts = 1..1
    BY <1>2
  <2>2. Popped = <<>>
    BY <2>1 DEF Popped
  <2> QED BY <2>1, <2>2
<1>3. CASE mounts = <<"emmc">>
  BY <1>2, <1>3 DEF Mounted, WithStick, WithEmmc, Top
<1>4. CASE mounts = <<"stick">>
  BY <1>2, <1>4 DEF Mounted, WithStick, WithEmmc, Top
<1>5. CASE mounts = <<"stick", "emmc">>
  <2>1. Len(mounts) = 2 /\ mounts[1] = "stick" /\ mounts[2] = "emmc" /\ DOMAIN mounts = 1..2
    BY <1>5
  <2>2. Popped = <<"stick">>
    <3>1. /\ Popped \in Seq({"stick"}) /\ Len(Popped) = 1
          /\ \A i \in 1..1 : Popped[i] = mounts[1 + i - 1]
      BY <2>1, SubSeqProperties DEF Popped
    <3>2. Popped[1] = mounts[1]
      BY <3>1
    <3> QED BY <2>1, <3>1, <3>2
  <2>3. Mounted("stick") /\ Mounted("emmc")
    BY <2>1 DEF Mounted
  <2>4. mounts # <<>> /\ mounts # <<"stick">> /\ mounts # <<"emmc">>
    BY <2>1
  <2> QED BY <1>5, <2>1, <2>2, <2>3, <2>4 DEF WithStick, WithEmmc, Top
<1> QED BY <1>1, <1>3, <1>4, <1>5 DEF Stacks

\* A test that is not running is no lone run to speak of.
LEMMA IdleRun ==
  ASSUME NEW t \in Threads, pc[t] = "idle", ~ok[t]
  PROVE  LoneRun(t)
BY DEF LoneRun, OnItsWay, Ready, Measures, Judged, AtUsb, AtFileSystem

\* On a board the test can judge, what the program makes of the device is right.
LEMMA DeservedIsRight ==
  ASSUME TypeOK, NEW x \in StorageTest, Judgeable(x), x = "usbc" => dir \/ ~Plugged(x)
  PROVE  Deserved(x) <=> Healthy(x)
<1>1. /\ board.sdP3 => board.sd
      /\ board.root = "card" => board.sdP3
  BY DEF TypeOK, Board
<1>2. CASE x \in Usb
  BY <1>2 DEF Healthy, Deserved, Judgeable, Plugged, Storage, Rated, OnRoot, Usb
<1>3. CASE x = "microsd"
  BY <1>1, <1>3 DEF Healthy, Deserved, Judgeable, Plugged, Storage, Rated, OnRoot, Usb
<1>4. CASE x = "emmc"
  BY <1>4 DEF Healthy, Deserved, Judgeable, Plugged, Storage, Rated, OnRoot, Fallback, Usb
<1> QED BY <1>2, <1>3, <1>4 DEF StorageTest

LEMMA RootIsNoStick ==
  ASSUME NEW x, OnRoot(x)
  PROVE  Storage(x) = "root" /\ x \notin Usb
BY DEF OnRoot, Storage, Usb

\* The others sleep, before the step of a lone run and after.
LEMMA OthersSleep ==
  ASSUME IInv, solo, SoloInv, NEW t \in Threads, Step(t)
  PROVE  /\ board' = board /\ solo' = solo /\ job' = job /\ LoneTest'
         /\ pc[t] # "idle" /\ LoneRun(t)
         /\ \A u \in Threads \ {t} : pc[u] = "idle" /\ LoneRun(u)'
<1> USE DEF Goto, Works, Fails, local, files
<1>1. board' = board /\ solo' = solo /\ job' = job
  BY DEF Step, Announce, Umount, Lsusb, CountUsb, Fsck, ReadFs, Mkfs, Mkdir, Mount, Fio,
         FioEnd, ReadSpeed, Remove, RmCheck, Verdict
<1>2. pc[t] # "idle" /\ \A u \in Threads \ {t} : pc'[u] = pc[u] /\ ok'[u] = ok[u]
  BY DEF IInv, TypeOK, Step, Announce, Umount, Lsusb, CountUsb, Fsck, ReadFs, Mkfs, Mkdir,
         Mount, Fio, FioEnd, ReadSpeed, Remove, RmCheck, Verdict
<1>3. \A u \in Threads \ {t} : pc[u] = "idle" /\ ~ok[u]
  <2>1. \A u \in Threads \ {t} : pc[u] = "idle"
    BY <1>2 DEF SoloInv, LoneTest
  <2> QED BY <2>1 DEF SoloInv, LoneRun, OnItsWay
<1>4. LoneTest'
  BY <1>2, <1>3 DEF LoneTest
<1>5. \A u \in Threads \ {t} : LoneRun(u)'
  <2> SUFFICES ASSUME NEW u \in Threads \ {t}
               PROVE  LoneRun(u)'
    OBVIOUS
  <2>1. pc'[u] = "idle" /\ ~ok'[u]
    BY <1>2, <1>3
  <2> QED BY <2>1 DEF LoneRun, OnItsWay, Ready, Measures, Judged, AtUsb, AtFileSystem
<1> QED BY <1>1, <1>2, <1>3, <1>4, <1>5 DEF SoloInv

\* With the others asleep a stick is this run's to unmount, or was left behind.
LEMMA StickIsMine ==
  ASSUME SoloInv, solo, NEW t \in Threads, \A u \in Threads \ {t} : pc[u] = "idle", ~Keeper(t),
         mounts \in WithStick
  PROVE  "stick" \in left
BY DEF SoloInv, StackInv, Keeper, Measuring

\* A step that leaves the mounts alone and a stick to its keeper keeps the stack.
LEMMA StackKept ==
  ASSUME SoloInv, solo, NEW t \in Threads, \A u \in Threads \ {t} : pc[u] = "idle",
         mounts' = mounts, fs = "ext4" => fs' = "ext4", "stick" \in left => "stick" \in left',
         Keeper(t) => Keeper(t)'
  PROVE  StackInv'
<1>1. mounts \in WithStick => "stick" \in left \/ Keeper(t)
  BY StickIsMine
<1> QED BY <1>1 DEF SoloInv, StackInv

\* The steps of a run that mount, unmount and format nothing.
LEMMA StackStep ==
  ASSUME IInv, solo, SoloInv, NEW t \in Threads, Step(t), ~Umount(t), ~Mount(t)
  PROVE  StackInv'
<1> USE DEF Goto, Works, Fails, local, files
<1>1. /\ mounts' = mounts
      /\ fs = "ext4" => fs' = "ext4"
      /\ "stick" \in left => "stick" \in left'
  BY DEF Step, Announce, Lsusb, CountUsb, Fsck, ReadFs, Mkfs, Mkdir, Fio, FioEnd,
         ReadSpeed, Remove, RmCheck, Verdict
<1>2. Keeper(t) => Keeper(t)'
  <2> USE DEF Keeper, Measuring, IInv, TypeOK
  <2>1. CASE Announce(t) \/ Lsusb(t) \/ CountUsb(t)
    BY <2>1 DEF Announce, Lsusb, CountUsb
  <2>2. CASE Fsck(t) \/ ReadFs(t) \/ Mkfs(t) \/ Mkdir(t)
    BY <2>2 DEF Fsck, ReadFs, Mkfs, Mkdir
  <2>3. CASE Fio(t) \/ FioEnd(t) \/ ReadSpeed(t)
    BY <2>3 DEF Fio, AfterFio, FioEnd, ReadSpeed
  <2>4. CASE Remove(t)
    BY <2>4 DEF Remove, AfterMeasuring, Usb
  <2>5. CASE RmCheck(t) \/ Verdict(t)
    BY <2>5 DEF RmCheck, Verdict
  <2> QED BY <2>1, <2>2, <2>3, <2>4, <2>5 DEF Step
<1>3. \A u \in Threads \ {t} : pc[u] = "idle"
  BY OthersSleep
<1> QED BY <1>1, <1>2, <1>3, StackKept

\* What a step of a run does not change: the devices, and what they deserve.
LEMMA SameDevices ==
  ASSUME board' = board, job' = job, NEW t \in Threads
  PROVE  /\ Plugged(job[t])' = Plugged(job[t]) /\ Storage(job[t])' = Storage(job[t])
         /\ OnRoot(job[t])' = OnRoot(job[t]) /\ Fallback' = Fallback
         /\ \A d : Rated(d)' = Rated(d)
         /\ dir' = dir => Deserved(job[t])' = Deserved(job[t])
<1>1. /\ Plugged(job[t])' = Plugged(job[t]) /\ Storage(job[t])' = Storage(job[t])
      /\ OnRoot(job[t])' = OnRoot(job[t]) /\ Fallback' = Fallback
  BY DEF Plugged, Storage, OnRoot, Fallback
<1>2. \A d : Rated(d)' = Rated(d)
  BY DEF Rated
<1>3. Passing(job[t])' = Passing(job[t]) /\ Rated(Storage(job[t]))' = Rated(Storage(job[t]))
  BY <1>1 DEF Passing, Rated
<1>4. dir' = dir => Deserved(job[t])' = Deserved(job[t])
  BY <1>1, <1>3 DEF Deserved
<1> QED BY <1>1, <1>2, <1>4

LEMMA UmountAlone ==
  ASSUME IInv, solo, SoloInv, NEW t \in Threads, Umount(t)
  PROVE  StackInv' /\ LoneRun(t)'
<1> USE DEF Goto, Works, Fails
<1>0. /\ pc \in [Threads -> Label] /\ mounts \in Stacks /\ Step(t)
      /\ pc[t] \in {"umount", "unmount"} /\ job[t] \in Usb
  <2>1. pc \in [Threads -> Label] /\ mounts \in Stacks /\ LoneRun(t)
    BY DEF IInv, TypeOK, SoloInv, StackInv
  <2>2. pc[t] \in {"umount", "unmount"} /\ Step(t)
    BY DEF Umount, Step
  <2>3. job[t] \in Usb
    BY <2>1, <2>2 DEF LoneRun, OnItsWay, AtUsb
  <2> QED BY <2>1, <2>2, <2>3
<1>1. /\ board' = board /\ job' = job /\ LoneRun(t)
      /\ \A u \in Threads \ {t} : pc[u] = "idle"
  BY <1>0, OthersSleep
<1>2. mounts' = IF mounts = <<"stick", "emmc">> THEN <<"stick">> ELSE <<>>
  <2>1. CanUnmount <=> mounts # <<>>
    BY <1>0, <1>1 DEF CanUnmount
  <2> QED BY <1>0, <2>1, StackFacts DEF Umount
<1>3. mounts' \in Stacks /\ mounts' \notin WithEmmc
  BY <1>2 DEF Stacks, WithEmmc
<1>4. CASE pc[t] = "umount"
  <2>1. ~Keeper(t)
    BY <1>4 DEF Keeper, Measuring
  <2>2. mounts' \in WithStick => "stick" \in left'
    <3> SUFFICES ASSUME mounts' \in WithStick
                 PROVE  "stick" \in left'
      OBVIOUS
    <3>1. mounts \in WithStick
      BY <1>0, <1>2 DEF WithStick
    <3>2. "stick" \in left
      BY <1>1, <2>1, <3>1, StickIsMine
    <3>3. Mounted("stick")'
      <4>1. mounts' = <<"stick">>
        BY <1>2 DEF WithStick
      <4>2. 1 \in DOMAIN mounts' /\ mounts'[1] = "stick"
        BY <4>1
      <4> QED BY <4>2 DEF Mounted
    <3> QED BY <1>4, <3>2, <3>3 DEF Umount
  <2>3. pc'[t] = "lsusb" /\ ok' = ok /\ ~ok[t]
    BY <1>0, <1>1, <1>4 DEF Umount, LoneRun, OnItsWay, AtUsb
  <2>4. StackInv'
    BY <1>3, <2>2 DEF StackInv
  <2>5. LoneRun(t)'
    BY <1>0, <1>1, <1>2, <2>3 DEF LoneRun, OnItsWay, Ready, Measures, Judged, AtUsb, AtFileSystem
  <2> QED BY <2>4, <2>5
<1>5. CASE pc[t] = "unmount"
  <2>1. mounts \in {<<>>, <<"stick">>}
    BY <1>0, <1>1, <1>5 DEF LoneRun, Ready
  <2>2. mounts' = <<>>
    <3>1. mounts # <<"stick", "emmc">>
      BY <2>1
    <3> QED BY <1>2, <3>1
  <2>3. pc'[t] = "verdict" /\ UNCHANGED <<ok, dir, left>>
    BY <1>0, <1>5 DEF Umount
  <2>4. StackInv'
    BY <1>3, <2>2 DEF StackInv, WithStick
  <2>5. Clean(t) => /\ ok[t] <=> Deserved(job[t])
                    /\ job[t] = "usbc" => dir \/ ~Plugged("usbc")
    BY <1>1, <1>5 DEF LoneRun, Measures, Judged
  <2>6. /\ Deserved(job[t])' = Deserved(job[t]) /\ Clean(t)' = Clean(t)
        /\ Plugged("usbc")' = Plugged("usbc")
    <3>1. broke' = broke
      BY DEF Umount
    <3> QED BY <1>1, <2>3, <3>1, SameDevices DEF Clean, Plugged
  <2>7. Measures(t)'
    BY <1>1, <2>3, <2>5, <2>6 DEF Measures, Judged
  <2>8. OnItsWay(t)' /\ Ready(t)'
    BY <2>3 DEF OnItsWay, Ready, AtUsb, AtFileSystem
  <2> QED BY <2>4, <2>7, <2>8 DEF LoneRun
<1> QED BY <1>0, <1>4, <1>5

LEMMA PushedOnOne ==
  ASSUME NEW s \in Seq(Device), NEW d \in Device, Len(s) = 1
  PROVE  Append(s, d) = <<s[1], d>>
<1>1. /\ Append(s, d) \in Seq(Device) /\ Len(Append(s, d)) = Len(s) + 1
      /\ \A i \in 1..Len(s) : Append(s, d)[i] = s[i]
      /\ Append(s, d)[Len(s) + 1] = d
  BY AppendProperties
<1>2. s[1] \in Device
  BY ElementOfSeq
<1>3. <<s[1], d>> \in Seq(Device) /\ Len(<<s[1], d>>) = 2
  BY <1>2
<1> DEFINE pair == <<s[1], d>>
<1>4. \A i \in 1..Len(Append(s, d)) : Append(s, d)[i] = pair[i]
  BY <1>1
<1>5. pair \in Seq(Device) /\ Len(Append(s, d)) = Len(pair)
  BY <1>1, <1>3
<1> HIDE DEF pair
<1>6. Append(s, d) = pair
  BY <1>1, <1>4, <1>5, SeqEqual
<1> QED BY <1>6 DEF pair

LEMMA MountAlone ==
  ASSUME IInv, solo, SoloInv, NEW t \in Threads, Mount(t)
  PROVE  StackInv' /\ LoneRun(t)'
<1> USE DEF Goto, Works, Fails
<1> DEFINE x == job[t]
<1>0. /\ pc \in [Threads -> Label] /\ mounts \in Stacks /\ pc[t] = "mount" /\ x \in StorageTest
      /\ Step(t)
  <2>1. pc \in [Threads -> Label] /\ mounts \in Stacks /\ x \in StorageTest
    BY DEF IInv, TypeOK, SoloInv, StackInv
  <2> QED BY <2>1 DEF Mount, Step
<1>1. /\ board' = board /\ job' = job /\ LoneRun(t)
      /\ \A u \in Threads \ {t} : pc[u] = "idle"
  BY <1>0, OthersSleep
<1>2. /\ x \in Usb \/ (x = "emmc" /\ Fallback)
      /\ Plugged(x) /\ ~ok[t] /\ ok' = ok /\ UNCHANGED <<dir, fs, left>>
  BY <1>0, <1>1 DEF Mount, LoneRun, OnItsWay
<1>3. mounts \in WithStick => "stick" \in left
  BY <1>0, <1>1, StickIsMine DEF Keeper, Measuring
<1>4. /\ mounts # <<>> => Top = mounts[Len(mounts)]
      /\ Top = CASE mounts = <<>> -> "root" [] mounts = <<"stick">> -> "stick" [] OTHER -> "emmc"
  BY <1>0, StackFacts DEF Top
<1>5. CASE x = "emmc"
  <2>1. /\ dir /\ (~broke[t] => fs = "ext4") /\ pc'[t] = "fio"
        /\ x \notin Usb
    BY <1>0, <1>1, <1>5 DEF LoneRun, Ready, Mount, Usb
  <2>2. /\ mounts' = mounts \/ (mounts' = Append(mounts, "emmc") /\ Top # "emmc" /\ fs = "ext4")
        /\ ~broke'[t] => ~broke[t] /\ (Top = "emmc" \/ mounts' = Append(mounts, "emmc"))
    <3>1. CanMount("emmc") <=> Top # "emmc" /\ fs = "ext4"
      BY <1>4, <2>1 DEF CanMount
    <3>2. broke \in [Threads -> BOOLEAN]
      BY DEF IInv, TypeOK
    <3> QED BY <1>0, <1>5, <2>1, <3>1, <3>2 DEF Mount
  <2>3. mounts' # mounts => /\ fs = "ext4"
                            /\ mounts' = IF mounts = <<>> THEN <<"emmc">> ELSE <<"stick", "emmc">>
                            /\ mounts # <<>> => mounts = <<"stick">>
    <3>1. mounts # <<>> /\ Top # "emmc" => mounts = <<"stick">>
      BY <1>4
    <3>2. mounts = <<"stick">> => Append(mounts, "emmc") = <<"stick", "emmc">>
      <4>1. mounts = <<"stick">> => mounts \in Seq(Device) /\ Len(mounts) = 1 /\ mounts[1] = "stick"
        BY DEF Device
      <4> QED BY <4>1, PushedOnOne DEF Device
    <3>3. Append(<<>>, "emmc") = <<"emmc">>
      OBVIOUS
    <3> QED BY <2>2, <3>1, <3>2, <3>3
  <2>4. StackInv'
    <3>1. CASE mounts' = mounts
      <4>1. mounts \in WithEmmc => fs = "ext4"
        BY DEF SoloInv, StackInv
      <4> QED BY <1>0, <1>2, <1>3, <3>1, <4>1 DEF StackInv
    <3>2. CASE mounts' # mounts
      <4>1. mounts' = <<"stick", "emmc">> => mounts = <<"stick">>
        BY <2>3, <3>2
      <4>2. mounts' \in WithEmmc /\ (mounts' \in WithStick => mounts \in WithStick)
        BY <2>3, <3>2, <4>1 DEF WithEmmc, WithStick
      <4> QED BY <1>2, <1>3, <2>3, <3>2, <4>2 DEF StackInv, Stacks, WithEmmc
    <3> QED BY <3>1, <3>2
  <2>5. ~broke'[t] => Top' = "emmc"
    <3>1. ASSUME mounts' = mounts, Top = "emmc"
          PROVE  Top' = "emmc"
      BY <3>1 DEF Top
    <3>2. CASE mounts' = <<"emmc">>
      BY <3>2 DEF Top
    <3>3. CASE mounts' = <<"stick", "emmc">>
      BY <3>3 DEF Top
    <3>4. mounts' = Append(mounts, "emmc") => mounts' # mounts
      BY <1>0 DEF Stacks
    <3> QED BY <2>2, <2>3, <3>1, <3>2, <3>3, <3>4
  <2>6. /\ job'[t] = "emmc" /\ Fallback' /\ Plugged(job[t])' /\ dir' /\ ~ok'[t]
        /\ Storage(job[t])' = "emmc" /\ ~OnRoot(job[t])'
    BY <1>1, <1>2, <1>5, <2>1 DEF Fallback, Plugged, Storage, OnRoot, Usb
  <2>7. LoneRun(t)'
    BY <2>1, <2>5, <2>6 DEF LoneRun, OnItsWay, Ready, Measures, Judged, Clean, AtUsb, AtFileSystem, Usb
  <2> QED BY <2>4, <2>7
<1>6. CASE x \in Usb
  <2>1. mounts \in {<<>>, <<"stick">>} /\ (x = "usbc" => dir)
    BY <1>0, <1>1, <1>6 DEF LoneRun, Ready
  <2>2. /\ mounts' = mounts \/ (mounts = <<>> /\ mounts' = <<"stick">> /\ pc'[t] = "fio")
        /\ pc'[t] \in {"fio", GiveUp(x)}
        /\ ~broke'[t] => /\ mounts' = IF board.sda /\ dir /\ mounts = <<>> THEN <<"stick">> ELSE mounts
                         /\ pc'[t] = IF board.sda /\ ~(dir /\ mounts = <<>>) THEN GiveUp(x) ELSE "fio"
    <3>1. CanMount("stick") <=> dir /\ mounts = <<>>
      BY <2>1 DEF CanMount
    <3>2. mounts = <<>> => Append(mounts, "stick") = <<"stick">>
      OBVIOUS
    <3>3. x # "emmc"
      BY <1>6 DEF Usb
    <3>4. broke \in [Threads -> BOOLEAN]
      BY DEF IInv, TypeOK
    <3> QED BY <1>0, <3>1, <3>2, <3>3, <3>4 DEF Mount
  <2>3. mounts' \in {<<>>, <<"stick">>}
    BY <2>1, <2>2
  <2>4. /\ job'[t] = x /\ Plugged(job[t])' /\ ~ok'[t] /\ ~OnRoot(job[t])'
        /\ Storage(job[t])' = (IF board.sda THEN "stick" ELSE "root")
        /\ Clean(t)' <=> ~broke'[t] /\ "stick" \notin left
    BY <1>1, <1>2, <1>6 DEF Plugged, OnRoot, Storage, Clean, Usb
  <2>5. "stick" \notin left => mounts = <<>>
    BY <1>3, <2>1 DEF WithStick
  <2>6. Deserved(job[t])' => dir
    BY <1>1, <1>2, <1>6 DEF Deserved
  <2>7. GiveUp(x) \in {"unmount", "verdict"}
    BY DEF GiveUp
  <2>8. mounts' \in WithStick => "stick" \in left' \/ Keeper(t)'
    <3>1. CASE mounts \in WithStick
      BY <1>2, <1>3, <3>1
    <3>2. CASE mounts \notin WithStick /\ mounts' \in WithStick
      <4>1. pc'[t] = "fio"
        BY <2>2, <3>2
      <4> QED BY <1>1, <1>6, <4>1 DEF Keeper
    <3> QED BY <3>1, <3>2
  <2>9. StackInv'
    BY <2>3, <2>8 DEF StackInv, Stacks, WithEmmc
  <2>10. CASE pc'[t] = "fio"
    <3>1. Clean(t)' => Top' = Storage(job[t])'
      <4> SUFFICES ASSUME Clean(t)'
                   PROVE  Top' = Storage(job[t])'
        OBVIOUS
      <4>1. CASE board.sda
        <5>1. ~(board.sda /\ ~(dir /\ mounts = <<>>))
          BY <2>2, <2>4, <2>7, <2>10
        <5>2. mounts' = <<"stick">>
          BY <2>2, <2>4, <4>1, <5>1
        <5>3. mounts' = <<"stick">> => Top' = "stick"
          BY DEF Top
        <5> QED BY <2>4, <4>1, <5>2, <5>3
      <4>2. CASE ~board.sda
        <5>1. mounts' = <<>>
          BY <2>2, <2>4, <2>5, <4>2
        <5> QED BY <2>4, <4>2, <5>1 DEF Top
      <4> QED BY <4>1, <4>2
    <3>2. job'[t] # "emmc" /\ (job'[t] = "usbc" => dir')
      BY <1>2, <1>6, <2>1, <2>4 DEF Usb
    <3> QED BY <2>3, <2>4, <2>9, <2>10, <3>1, <3>2
            DEF LoneRun, OnItsWay, Ready, Measures, Judged, AtUsb, AtFileSystem
  <2>11. CASE pc'[t] # "fio"
    <3>1. pc'[t] \in {"unmount", "verdict"} /\ (~broke'[t] => ~(dir /\ mounts = <<>>))
      BY <2>2, <2>7, <2>11
    <3>2. Clean(t)' => ~Deserved(job[t])'
      BY <2>4, <2>5, <2>6, <3>1
    <3>3. job'[t] \in Usb /\ (job'[t] = "usbc" => dir')
      BY <1>2, <1>6, <2>1, <2>4
    <3> QED BY <2>3, <2>4, <2>9, <3>1, <3>2, <3>3
            DEF LoneRun, OnItsWay, Ready, Measures, Judged, AtUsb, AtFileSystem
  <2> QED BY <2>9, <2>10, <2>11
<1> QED BY <1>2, <1>5, <1>6

\* Before it measures: the answers a run reads are to its own questions.
LEMMA LookingAlone ==
  ASSUME IInv, solo, SoloInv, NEW t \in Threads,
         Announce(t) \/ Lsusb(t) \/ CountUsb(t) \/ Fsck(t) \/ ReadFs(t) \/ Mkfs(t) \/ Mkdir(t)
  PROVE  LoneRun(t)'
<1> USE DEF Goto, Works, Fails, files, local
<1> DEFINE x == job[t]
<1>0. /\ pc \in [Threads -> Label] /\ linked \in [Threads -> BOOLEAN] /\ x \in StorageTest
      /\ broke \in [Threads -> BOOLEAN]
      /\ fs \in {"ext4", "other"} /\ mounts \in Stacks /\ (mounts \in WithEmmc => fs = "ext4")
  BY DEF IInv, TypeOK, SoloInv, StackInv
<1>1. board' = board /\ job' = job /\ LoneRun(t) /\ Step(t)
  <2>1. Step(t)
    BY DEF Step
  <2> QED BY <2>1, OthersSleep
<1>2. /\ Plugged(x)' = Plugged(x) /\ OnRoot(x)' = OnRoot(x) /\ Fallback' = Fallback
      /\ Plugged("usbc")' = Plugged("usbc")
      /\ Deserved(x)' => Plugged(x)
  BY <1>1, SameDevices DEF Plugged, Deserved
<1>3. UNCHANGED <<mounts, left>> /\ ok' = ok /\ (~broke'[t] => ~broke[t])
  BY <1>0 DEF Announce, Lsusb, CountUsb, Fsck, ReadFs, Mkfs, Mkdir
<1> USE DEF LoneRun, OnItsWay, Ready, Measures, Judged, AtUsb, AtFileSystem, Clean
<1>4. CASE Announce(t)
  <2>1. pc[t] = "created" /\ ~ok[t] /\ dir' = dir /\ pc'[t] = First(x)
    BY <1>0, <1>1, <1>4 DEF Announce
  <2>2. CASE x \in Usb
    <3>1. pc'[t] = "umount"
      BY <2>1, <2>2 DEF First, Usb
    <3> QED BY <1>1, <1>3, <2>1, <2>2, <3>1
  <2>3. CASE x \in {"emmc", "microsd"} /\ ~Plugged(x)
    <3>1. pc'[t] = "verdict"
      BY <2>1, <2>3 DEF First, Plugged, Usb
    <3>2. ~Deserved(x)'
      BY <1>2, <2>3
    <3> QED BY <1>1, <1>3, <2>1, <2>3, <3>1, <3>2
  <2>4. CASE x \in {"emmc", "microsd"} /\ Plugged(x)
    <3>1. pc'[t] = IF OnRoot(x) THEN "fio" ELSE "fsck"
      BY <2>1, <2>4 DEF First, Plugged, OnRoot, Usb
    <3>2. ~OnRoot(x) => x = "emmc" /\ Fallback
      BY <2>4 DEF OnRoot
    <3>3. Fallback /\ x = "emmc" => ~OnRoot(x)
      BY DEF OnRoot
    <3> QED BY <1>1, <1>2, <1>3, <2>1, <2>4, <3>1, <3>2, <3>3 DEF Usb
  <2> QED BY <1>0, <2>2, <2>3, <2>4 DEF StorageTest
<1>5. CASE Lsusb(t)
  <2>1. x \in Usb /\ ~ok[t] /\ mounts \in {<<>>, <<"stick">>}
    BY <1>1, <1>5 DEF Lsusb
  <2>2. /\ pc'[t] \in {"lsusbEnd", "count"} \/ (pc'[t] \in {"unmount", "verdict"} /\ broke'[t])
        /\ pc'[t] = "count" => checkUsb' = (IF board.usb THEN "seen" ELSE "not seen")
    BY <1>0, <1>5 DEF Lsusb, Listed, GiveUp
  <2> QED BY <1>1, <1>3, <2>1, <2>2
<1>6. CASE CountUsb(t)
  <2>1. /\ x \in Usb /\ ~ok[t] /\ mounts \in {<<>>, <<"stick">>} /\ dir' = dir
        /\ checkUsb = "seen" <=> board.usb
    BY <1>1, <1>6 DEF CountUsb
  <2>2. Plugged(x) <=> board.usb
    BY <2>1 DEF Plugged, Usb
  <2>3. pc'[t] = IF checkUsb = "seen" THEN "mkdir" ELSE GiveUp(x)
    BY <1>0, <1>6 DEF CountUsb
  <2>4. CASE checkUsb = "seen"
    <3>1. pc'[t] = "mkdir" /\ x # "emmc" /\ Plugged(x)'
      BY <1>2, <2>1, <2>2, <2>3, <2>4 DEF Usb
    <3> QED BY <1>1, <1>3, <2>1, <3>1
  <2>5. CASE checkUsb # "seen"
    <3>1. pc'[t] \in {"unmount", "verdict"} /\ ~Deserved(x)' /\ ~Plugged(x)'
      BY <1>2, <2>1, <2>2, <2>3, <2>5 DEF GiveUp
    <3> QED BY <1>1, <1>3, <2>1, <3>1
  <2> QED BY <2>4, <2>5
<1>7. CASE Fsck(t)
  <2>1. x = "emmc" /\ x \notin Usb /\ Fallback /\ Plugged(x) /\ ~ok[t]
    BY <1>1, <1>7 DEF Fsck, Usb
  <2>2. /\ pc'[t] \in {"fsckEnd", "readFs"} \/ (pc'[t] = "rmCheck" /\ broke'[t])
        /\ fs' = fs
        /\ pc'[t] = "fsckEnd" => linked'[t]
        /\ pc'[t] = "readFs" => checkFs' = fs
    BY <1>0, <1>1, <1>7 DEF Fsck
  <2> QED BY <1>1, <1>2, <1>3, <2>1, <2>2
<1>8. CASE ReadFs(t)
  <2>1. x = "emmc" /\ x \notin Usb /\ Fallback /\ Plugged(x) /\ ~ok[t] /\ checkFs = fs
    BY <1>1, <1>8 DEF ReadFs, Usb
  <2>2. pc'[t] = IF fs = "ext4" THEN "mkdir" ELSE "mkfs"
    BY <1>0, <1>8, <2>1 DEF ReadFs, Unformatted
  <2>3. fs' = fs
    BY <1>8 DEF ReadFs
  <2> QED BY <1>1, <1>2, <1>3, <2>1, <2>2, <2>3
<1>9. CASE Mkfs(t)
  <2>1. x = "emmc" /\ x \notin Usb /\ Fallback /\ Plugged(x) /\ ~ok[t]
    BY <1>1, <1>9 DEF Mkfs, Usb
  <2>2. pc'[t] = "mkdir" /\ (broke'[t] \/ fs' = "ext4")
    BY <1>0, <1>9, StackFacts DEF Mkfs
  <2> QED BY <1>1, <1>2, <1>3, <2>1, <2>2
<1>10. CASE Mkdir(t)
  <2>1. /\ x \in Usb \/ (x = "emmc" /\ x \notin Usb /\ Fallback)
        /\ Plugged(x) /\ ~ok[t] /\ (x = "emmc" /\ ~broke[t] => fs = "ext4")
        /\ x \in Usb => mounts \in {<<>>, <<"stick">>}
    BY <1>1, <1>10 DEF Mkdir, Usb
  <2>2. /\ pc'[t] = "mount" /\ fs' = fs
        /\ x # "usb3" => dir'
    BY <1>0, <1>10 DEF Mkdir
  <2> QED BY <1>1, <1>2, <1>3, <2>1, <2>2
<1> QED BY <1>4, <1>5, <1>6, <1>7, <1>8, <1>9, <1>10

\* When it measures: fio works in the storage meant, and the report is its own.
LEMMA MeasuringAlone ==
  ASSUME IInv, solo, SoloInv, NEW t \in Threads,
         Fio(t) \/ FioEnd(t) \/ ReadSpeed(t) \/ Remove(t) \/ RmCheck(t) \/ Verdict(t)
  PROVE  LoneRun(t)'
<1> USE DEF Goto, Works, Fails, files, local
<1> DEFINE x == job[t]
<1>0. /\ pc \in [Threads -> Label] /\ linked \in [Threads -> BOOLEAN] /\ x \in StorageTest
      /\ base \in [Threads -> Nat] /\ ok \in [Threads -> BOOLEAN] /\ mounts \in Stacks
  BY DEF IInv, TypeOK, SoloInv, StackInv
<1>1. board' = board /\ job' = job /\ LoneRun(t)
  <2>1. Step(t)
    BY DEF Step
  <2> QED BY <2>1, OthersSleep
<1>2. UNCHANGED <<mounts, dir, fs>> /\ ("stick" \in left <=> "stick" \in left')
  BY DEF Fio, FioEnd, ReadSpeed, Remove, RmCheck, Verdict
<1>3. /\ Plugged(x)' = Plugged(x) /\ Storage(x)' = Storage(x) /\ Fallback' = Fallback
      /\ OnRoot(x)' = OnRoot(x) /\ Rated(Storage(x))' = Rated(Storage(x))
      /\ OnRoot(x) => Storage(x) = "root" /\ x \notin Usb
      /\ Deserved(x)' = Deserved(x) /\ Plugged("usbc")' = Plugged("usbc")
      /\ Deserved(x) <=> /\ Plugged(x) /\ (x \in Usb => dir)
                         /\ Rated(Storage(x)) \in Passing(x)
  BY <1>1, <1>2, SameDevices, RootIsNoStick DEF Deserved, Plugged
<1>clean. broke \in [Threads -> BOOLEAN] /\ (Clean(t)' => Clean(t) \/ pc[t] = "verdict")
  <2>1. broke \in [Threads -> BOOLEAN]
    BY DEF IInv, TypeOK
  <2> QED BY <1>1, <1>2, <2>1 DEF Clean, Fio, FioEnd, ReadSpeed, Remove, RmCheck, Verdict
<1> USE DEF LoneRun, OnItsWay, Ready, Measures, Judged, AtUsb, AtFileSystem
<1>4. x \in Usb \/ (x \in {"emmc", "microsd"} /\ x \notin Usb)
  BY <1>0 DEF StorageTest, Usb
<1>5. CASE Fio(t)
  <2>1. /\ pc[t] = "fio" /\ Plugged(x) /\ ~ok[t] /\ ok' = ok
        /\ x = "usbc" \/ (x = "emmc" /\ Fallback) => dir
        /\ Clean(t) => OnRoot(x) \/ Top = Storage(x)
        /\ x \in Usb => mounts \in {<<>>, <<"stick">>}
    BY <1>1, <1>5 DEF Fio
  <2>2. /\ pc'[t] = IF OnRoot(x) \/ dir THEN "fioEnd" ELSE "remove"
        /\ linked'[t] /\ base'[t] = IF OnRoot(x) THEN 0 ELSE Len(mounts)
    BY <1>0, <1>5 DEF Fio, AfterFio, Depth
  <2>3. CASE OnRoot(x) \/ dir
    <3>1. Clean(t) => Report(t)' = Rated(Storage(x))
      <4>1. Report(t)' = board.rate[IF base'[t] = 0 THEN board.root ELSE mounts[base'[t]]]
        BY <1>1, <1>2 DEF Report
      <4>2. CASE OnRoot(x)
        BY <1>3, <2>2, <4>1, <4>2 DEF Rated
      <4>3. CASE ~OnRoot(x)
        <5>1. Top = IF base'[t] = 0 THEN "root" ELSE mounts[base'[t]]
          BY <1>0, <2>2, <4>3, StackFacts DEF Top
        <5>2. base'[t] # 0 => Top # "root"
          BY <1>0, <2>2, <4>3, StackFacts
        <5> QED BY <2>1, <4>1, <4>3, <5>1, <5>2 DEF Rated
      <4> QED BY <4>2, <4>3
    <3>2. x \in Usb => dir
      BY <1>3, <2>3
    <3> QED BY <1>1, <1>2, <1>3, <1>clean, <2>1, <2>2, <2>3, <3>1, <3>2
  <2>4. CASE ~OnRoot(x) /\ ~dir
    <3>1. ~Deserved(x) /\ x # "usbc"
      <4>1. x # "microsd" /\ (x = "emmc" => Fallback)
        BY <2>4 DEF OnRoot
      <4> QED BY <1>3, <1>4, <2>1, <2>4, <4>1
    <3> QED BY <1>1, <1>2, <1>3, <2>1, <2>2, <2>4, <3>1
  <2> QED BY <2>3, <2>4
<1>6. CASE FioEnd(t)
  <2>1. /\ pc[t] = "fioEnd" /\ Plugged(x) /\ linked[t] /\ (x \in Usb => dir)
        /\ Clean(t) => Report(t) = Rated(Storage(x))
        /\ x \in Usb => mounts \in {<<>>, <<"stick">>}
    BY <1>1, <1>6 DEF FioEnd
  <2>2. CASE pc'[t] = "read" /\ speed' = Report(t)
    BY <1>1, <1>2, <1>3, <1>clean, <1>6, <2>1, <2>2
  <2>3. CASE pc'[t] = "remove" /\ broke'[t]
    <3>1. ~Clean(t)'
      BY <2>3 DEF Clean
    <3> QED BY <1>1, <1>2, <1>3, <1>6, <2>1, <2>3, <3>1
  <2>4. \/ pc'[t] = "read" /\ speed' = Report(t)
        \/ pc'[t] = "remove" /\ broke'[t]
    BY <1>0, <1>clean, <1>6, <2>1 DEF FioEnd
  <2> QED BY <2>2, <2>3, <2>4
<1>7. CASE ReadSpeed(t)
  <2>1. /\ pc[t] = "read" /\ Plugged(x) /\ (x \in Usb => dir)
        /\ Clean(t) => speed = Rated(Storage(x))
        /\ x \in Usb => mounts \in {<<>>, <<"stick">>}
    BY <1>1, <1>7 DEF ReadSpeed
  <2>2. pc'[t] = "remove" /\ (ok'[t] <=> speed \in Passing(x))
    BY <1>0, <1>7 DEF ReadSpeed, Judge
  <2>3. x = "usbc" => x \in Usb
    BY DEF Usb
  <2> QED BY <1>1, <1>2, <1>3, <1>clean, <2>1, <2>2, <2>3
<1>8. CASE Remove(t)
  <2>1. /\ pc[t] = "remove"
        /\ Clean(t) => (ok[t] <=> Deserved(x)) /\ (x = "usbc" => dir \/ ~Plugged(x))
        /\ x \in Usb => mounts \in {<<>>, <<"stick">>}
        /\ ok' = ok
    BY <1>1, <1>8 DEF Remove
  <2>2. /\ pc'[t] \in {"unmount", "rmCheck", "verdict"}
        /\ pc'[t] = "unmount" => x \in Usb
        /\ pc'[t] = "rmCheck" => x = "emmc" /\ Fallback
    BY <1>0, <1>4, <1>8 DEF Remove, AfterMeasuring, Usb
  <2> QED BY <1>1, <1>2, <1>3, <1>clean, <2>1, <2>2
<1>9. CASE RmCheck(t)
  <2>1. /\ pc[t] = "rmCheck"
        /\ Clean(t) => (ok[t] <=> Deserved(x)) /\ (x = "usbc" => dir \/ ~Plugged(x))
        /\ ok' = ok /\ pc'[t] = "verdict"
    BY <1>0, <1>1, <1>9 DEF RmCheck
  <2> QED BY <1>1, <1>2, <1>3, <1>clean, <2>1
<1>10. CASE Verdict(t)
  <2>1. pc'[t] = "idle" /\ ~ok'[t]
    BY <1>0, <1>10 DEF Verdict
  <2> QED BY <2>1
<1> QED BY <1>5, <1>6, <1>7, <1>8, <1>9, <1>10

LEMMA SoloStep ==
  ASSUME IInv, SoloInv, [Next]_vars
  PROVE  SoloInv'
<1> USE DEF Goto, Works, Fails
<1>1. SUFFICES ASSUME solo'
               PROVE  LoneTest' /\ StackInv' /\ \A t \in Threads : LoneRun(t)'
  BY DEF SoloInv
<1>2. solo
  BY <1>1 DEF Next, Step, Begin, Announce, Umount, Lsusb, CountUsb, Fsck, ReadFs, Mkfs, Mkdir,
              Mount, Fio, FioEnd, ReadSpeed, Remove, RmCheck, Verdict, Quit, vars
<1>3. ASSUME NEW t \in Threads, Step(t)
      PROVE  LoneTest' /\ StackInv' /\ \A u \in Threads : LoneRun(u)'
  <2>1. LoneTest' /\ \A u \in Threads \ {t} : LoneRun(u)'
    BY <1>2, <1>3, OthersSleep
  <2>2. StackInv' /\ LoneRun(t)'
    <3>1. CASE Umount(t) \/ Mount(t)
      BY <1>2, <3>1, UmountAlone, MountAlone
    <3>2. CASE ~Umount(t) /\ ~Mount(t)
      <4>1. StackInv'
        BY <1>2, <1>3, <3>2, StackStep
      <4>2. LoneRun(t)'
        BY <1>2, <1>3, <3>2, LookingAlone, MeasuringAlone DEF Step
      <4> QED BY <4>1, <4>2
    <3> QED BY <3>1, <3>2
  <2> QED BY <2>1, <2>2
<1>4. ASSUME NEW t \in Threads, NEW x \in StorageTest, Begin(t, x)
      PROVE  LoneTest' /\ StackInv' /\ \A u \in Threads : LoneRun(u)'
  <2>1. \A u \in Threads : pc[u] = "idle" /\ ~ok[u] /\ ok'[u] = ok[u]
    BY <1>2, <1>4 DEF Begin, SoloInv, LoneRun, OnItsWay
  <2>2. pc'[t] = "created" /\ \A u \in Threads \ {t} : pc'[u] = "idle"
    BY <1>4, <2>1 DEF Begin, IInv, TypeOK
  <2>3. LoneTest'
    BY <2>2 DEF LoneTest
  <2>4. StackInv'
    <3>1. UNCHANGED <<mounts, fs, left>>
      BY <1>4 DEF Begin
    <3>2. ~Keeper(t)
      BY <2>1 DEF Keeper, Measuring
    <3> QED BY <1>2, <2>1, <3>1, <3>2, StackKept
  <2>5. \A u \in Threads : LoneRun(u)'
    BY <2>1, <2>2 DEF LoneRun, OnItsWay, Ready, Measures, Judged, AtUsb, AtFileSystem
  <2> QED BY <2>3, <2>4, <2>5
<1>5. CASE Quit
  <2>1. \A u \in Threads : pc'[u] = "idle" /\ ~ok'[u]
    BY <1>5 DEF Quit
  <2>2. LoneTest'
    BY <2>1 DEF LoneTest
  <2>3. StackInv'
    <3>1. mounts \in Stacks /\ (mounts \in WithEmmc => fs = "ext4")
      BY <1>2 DEF SoloInv, StackInv
    <3>2. UNCHANGED <<mounts, fs>> /\ (Mounted("stick") => "stick" \in left')
      BY <1>5 DEF Quit
    <3> QED BY <3>1, <3>2, StackFacts DEF StackInv
  <2>4. \A u \in Threads : LoneRun(u)'
    BY <2>1 DEF LoneRun, OnItsWay, Ready, Measures, Judged, AtUsb, AtFileSystem
  <2> QED BY <2>2, <2>3, <2>4
<1>6. CASE UNCHANGED vars
  <2>1. LoneTest /\ StackInv /\ \A t \in Threads : LoneRun(t)
    BY <1>2 DEF SoloInv
  <2>2. LoneTest' /\ StackInv'
    BY <1>6, <2>1 DEF vars, local, LoneTest, StackInv, Keeper, Measuring
  <2>3. ASSUME NEW t \in Threads
        PROVE  LoneRun(t)'
    <3>1. /\ OnItsWay(t)' = OnItsWay(t) /\ Ready(t)' = Ready(t)
      BY <1>6 DEF vars, local, files, OnItsWay, Ready, AtUsb, AtFileSystem, Fallback, Plugged,
                  Clean, OnRoot, Storage, Rated, Top
    <3>2. Measures(t)' = Measures(t)
      BY <1>6 DEF vars, local, files, Measures, Judged, Clean, Report, Storage, OnRoot, Fallback,
                  Rated, Deserved, Plugged, Passing
    <3> QED BY <2>1, <3>1, <3>2 DEF LoneRun
  <2> QED BY <2>2, <2>3
<1> QED BY <1>3, <1>4, <1>5, <1>6 DEF Next

\* On every board and in any order, a storage test that runs alone, no command of
\* which fails by itself, passes exactly the healthy devices of a board it can judge:
\* no mount, file or report of an earlier test, ended or cut off, failed or not,
\* changes its verdict (but for a USB test that finds a stick an ended program left
\* mounted).
THEOREM LoneVerdictRight == Spec => []SoloVerdictIsRight
<1>1. Init => SoloInv
  <2> SUFFICES ASSUME Init
               PROVE  LoneTest /\ StackInv /\ \A t \in Threads : LoneRun(t)
    BY DEF SoloInv
  <2>1. LoneTest /\ StackInv
    BY DEF Init, LoneTest, StackInv, Stacks, WithEmmc, WithStick
  <2>2. \A t \in Threads : LoneRun(t)
    BY IdleRun DEF Init
  <2> QED BY <2>1, <2>2
<1>2. IInv /\ SoloInv => SoloVerdictIsRight
  <2> SUFFICES ASSUME IInv, SoloInv, solo, NEW t \in Threads, pc[t] = "verdict",
                      ~broke[t], Judgeable(job[t]), job[t] \in Usb => "stick" \notin left
               PROVE  ok[t] <=> Healthy(job[t])
    BY DEF SoloVerdictIsRight
  <2>1. /\ ok[t] <=> Deserved(job[t])
        /\ job[t] = "usbc" => dir \/ ~Plugged("usbc")
    BY DEF SoloInv, LoneRun, Measures, Judged, Clean
  <2>2. TypeOK /\ job[t] \in StorageTest
    BY DEF IInv, TypeOK
  <2> QED BY <2>1, <2>2, DeservedIsRight
<1> QED BY <1>1, <1>2, SoloStep, Invariance, PTL DEF Spec
-----------------------------------------------------------------------------
\* The thread of TestThread that a run is.
StageOf == [t \in Threads |-> IF pc[t] \in {"idle", "created"} THEN pc[t] ELSE "running"]

\* A step within the test, that says nothing.
LEMMA Within ==
  ASSUME TypeOK, NEW t \in Threads, NEW l \in Label \ {"idle", "created"}, Goto(t, l),
         pc[t] \notin {"idle", "created"}
  PROVE  StageOf' = StageOf
BY DEF TypeOK, Goto, Label, StageOf

\* The runs are threads as TestThread describes them, in every run of the program.
THEOREM ThreadsImplemented == Spec => Promise!ThreadSpec
<1>1. Init => Promise!ThreadInit
  BY DEF Init, Promise!ThreadInit
<1>2. TypeOK /\ [Next]_vars => [Promise!ThreadNext]_(Promise!threadVars)
  <2> SUFFICES ASSUME TypeOK, [Next]_vars
               PROVE  Promise!ThreadNext \/ UNCHANGED <<StageOf, said>>
    BY DEF Promise!threadVars, StageOf
  <2>1. ASSUME NEW t \in Threads, NEW x \in StorageTest, Begin(t, x)
        PROVE  Promise!Start(t)
    BY <2>1 DEF Begin, Goto, TypeOK, Promise!Start
  <2>2. ASSUME NEW t \in Threads, Announce(t)
        PROVE  Promise!SayProgress(t)
    <3>1. First(job[t]) \in Label \ {"idle", "created"}
      BY DEF TypeOK, StorageTest, Usb, First, Label
    <3> QED BY <2>2, <3>1 DEF Announce, Goto, TypeOK, Promise!SayProgress
  <2>3. ASSUME NEW t \in Threads, Verdict(t)
        PROVE  Promise!SayVerdict(t)
    <3>1. \E r \in BOOLEAN : said' = [said EXCEPT ![t] = Promise!SetResAddedLogs(r)]
      BY <2>3 DEF TypeOK, Verdict, SetResAddedLogs, Promise!SetResAddedLogs
    <3> QED BY <2>3, <3>1 DEF Verdict, Goto, TypeOK, Promise!SayVerdict
  <2>4. ASSUME NEW t \in Threads, Step(t), ~Announce(t), ~Verdict(t)
        PROVE  UNCHANGED <<StageOf, said>>
    <3> USE DEF Label, Works, Fails
    <3>1. GiveUp(job[t]) \in Label \ {"idle", "created"}
      BY DEF GiveUp
    <3>2. AfterMeasuring(job[t]) \in Label \ {"idle", "created"}
      BY DEF TypeOK, StorageTest, Usb, AfterMeasuring
    <3>3. AfterFio(t) \in Label \ {"idle", "created"}
      BY DEF AfterFio
    <3>4. CASE Umount(t) \/ Lsusb(t) \/ CountUsb(t)
      BY <3>1, <3>4, Within DEF Umount, Lsusb, CountUsb
    <3>5. CASE Fsck(t)
      BY <3>5, Within DEF Fsck
    <3>6. CASE ReadFs(t)
      BY <3>6, Within DEF ReadFs
    <3>7. CASE Mkfs(t) \/ Mkdir(t)
      BY <3>7, Within DEF Mkfs, Mkdir
    <3>8. CASE Mount(t)
      BY <3>1, <3>8, Within DEF Mount
    <3>9. CASE Fio(t) \/ FioEnd(t) \/ ReadSpeed(t)
      BY <3>3, <3>9, Within DEF Fio, FioEnd, ReadSpeed
    <3>10. CASE Remove(t) \/ RmCheck(t)
      BY <3>2, <3>10, Within DEF Remove, RmCheck
    <3> QED BY <2>4, <3>4, <3>5, <3>6, <3>7, <3>8, <3>9, <3>10 DEF Step
  <2>5. CASE UNCHANGED vars
    BY <2>5 DEF vars, local, StageOf
  <2>6. CASE Quit
    BY <2>6 DEF Quit, Promise!ThreadNext, Promise!Quit
  <2> QED BY <2>1, <2>2, <2>3, <2>4, <2>5, <2>6 DEF Next, Step, Promise!ThreadNext
<1> QED BY <1>1, <1>2, TypeCorrect, PTL DEF Spec, Promise!ThreadSpec
=============================================================================
