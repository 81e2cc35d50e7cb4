# Models of the DS-RK3568 peripheral tester

The program (`src/`) is a Qt Quick window on an embedded board. Every row of the
window starts a test of one peripheral; the test runs on a detached thread, mostly by
calling shell commands, and reports to the window through a Qt signal. This directory
holds TLA+ modules of that program, the TLC configurations that check them and the
TLAPS proofs about them. `PROJECT.json` relates every definition to its source lines.

    tlc -config MCResultBoard.cfg MCResultBoard      # one run
    tlapm BoardProofs.tla                            # the proofs of one module

## 1. The system

| component | code | state it keeps | operations |
|---|---|---|---|
| window: rows | `qml/ExpoMain.qml`, `qml/ExpoRow.qml` | the text of each row, `success` | restart buttons, `parseSingleTest`, `fillTestResults` |
| test threads | `tester.cpp` `test*()` | locals of a detached `std::thread` | announce Progress, do the test, report a verdict |
| full run | `tester.cpp` `runTest`, `test`, `serializeResults` | `results` and its counters, shared by pool threads and the GUI thread | `test`, `printResults`, `saveResults`, `receiveAction` |
| storage tests | `tester.cpp` 314-539 | files `speed`, `check_usb`, `check_filesystem`; mounts on `/media/fatfs`; the eMMC's file system | EMMC, Micro SD, USB-C, USB 3 |
| UART tests | `tester.cpp` 710-793, `test_uart.*` | descriptors, the ports' buffers | UART7-8, UART3-9 |
| GPIO and SPI tests | `tester.cpp` 639-669, 958-1128 | the level of every exported pin | GPIO, SPI1, SPI2 |
| CAN test | `tester.cpp` 579-638, `canbus.*`, `can_thread.*` | state and bit rate of two links, sockets | CAN |
| Ethernet test | `tester.cpp` 817-865 | two network namespaces, two files, iperf processes | Ethernet |
| NVME, WLAN | `tester.cpp` 671-707 | none | one external script each |
| launchers, speaker, camera button | `tester.cpp` 262-311, 541-556, `qml/ExpoIcons.qml` | three `QProcess`es, labels, `buttonsRow.enabled`, what is visible | click, start, close, ended |
| camera pipeline | `camera_gst.*`, `main.cpp` 84-94 | a GStreamer pipeline | `Init`, `CameraPlay`, `CameraPause`, the destructor |
| CPU load | `check_cpu.*`, `tester.cpp` 198-226 | the last counters `time_` | `GetFreq`, once a second |
| start-up and shutdown | `main.cpp` | the objects on main's stack | construction, the event loop, destruction |
| logger, temperature | `logger.*`, `tester.cpp` `getTemp` | the log file | `messageOutput` on every thread; one file read |

How they interact. A click runs a handler on the GUI thread, which calls an invokable
of `Tester`; that starts a thread and returns at once. The thread's
`singleTestFinished` is emitted on a foreign thread and therefore *queued* to the GUI
thread, which delivers it later, in order, one handler at a time. `test()` runs on a
thread of Qt's pool, calls every test in turn, stores what the calls *return* (always
Progress, but for a race in `testEmmc`) and emits `testFinished` into the same queue.
Signals emitted on the GUI thread itself (`printResults`, `receiveAction`,
`statusProcess`) are delivered at once. The tests share nothing by intention, but a
great deal in fact: the working directory, a mount point, pins, links and ports, and
nothing stops a row from being pressed while its test runs. Closing the window ends
`exec()`; main destroys the tester, the engine, the application and the camera and
returns, and only that ends the threads of tests that are still under way, wherever
they are. What they did to the board (links, pins, mounts, namespaces, files) stays for
the next start of the program. At this commit nothing in
the window calls `runTest` (the call is commented out at `ExpoMain.qml:378`),
`printResults`, `saveResults` or `receiveAction`; they are part of the interface of
`Tester` and modelled as such.

What is hard: two runs of one test, or of two tests that share a device, interleaved
at any command; events that race each other to the window; commands that fail halfway;
the state one test leaves behind for the next; timeouts; a program that is closed in the
middle of a test and started again. `PROJECT.json` ("hazards")
lists them at their lines, with the properties that would notice.

## 2. The modules

    TestResult          result codes, SetResAddedLogs
    TestThread          what any test promises                     (abstract)
      StorageTests, GpioTest, CanTest, EthernetTest implement it (KeepsThreadPromise)
      UartTest          does not: a run may end the program
    RowLife             what a row promises a patient user         (abstract)
      ResultBoard       EXTENDS TestThread, implements RowLife (RowsKeepPromise)
        FullRun         EXTENDS ResultBoard
      Lifetime          main, the camera and the end of all of it; its threads are
                        TestThread's (proved)
    WindowButtons, CpuUsage   stand alone
    StorageProofs, UartProofs, GpioProofs, CanProofs, EthernetProofs, LifetimeProofs
                        theorems about the module they are named for
    BoardProofs         theorems about ResultBoard and FullRun
    WindowProofs        theorems about CpuUsage and WindowButtons
    MC<module>          constants of the runs

Composition works through TestThread. Each detailed module shows that, whatever its
runs do to each other, a run is "idle, created (started, has said nothing), running
(has said Progress), verdict, idle again", and that it gets there. ResultBoard and
FullRun build the window on exactly that, so they need not know what a test does.

**TestThread** - `stage` is how far a thread is, `said` the last value it gave to
`singleTestResult`. `Start`, `SayProgress` and `SayVerdict` are `testNvme` and
`testWlan`, whose body is one external script. `Quit` is the end of the program, and its
next start, seen from the threads: all are gone at once, in whatever stage.

**The program ended and started again.** StorageTests, GpioTest, CanTest and
EthernetTest have a `Quit` of their own, which may come between any two steps: threads,
descriptors and sockets are gone, links, pins, mounts, files, namespaces and background
processes stay, and `KeepsThreadPromise` maps it to TestThread's. The shell command a
thread was waiting for does not die with the program. It has ended, or is killed, before
the new program's tests begin, and both outcomes are in the model where they differ (the
report of fio and of fsck in StorageTests). iperf runs in the background and survives
(`Survivors`; bound: one process of a side). To keep the state spaces small GpioTest and
EthernetTest let no tests overlap *after* a restart (`restarted`); before it they do.
UartTest has no `Quit`: the last close of a port discards its buffers, so that what a
restart leaves is an initial state. Power loss is not modelled.

**ResultBoard** - `job`: the test of each thread; `queue`: undelivered
`singleTestFinished` events; `row`: what each row shows; `last`: history. `Click` is a
`restart.onClicked` handler as a whole: start the thread, then show the Progress the
call returns (the handler of the EMMC row does not show it). Since the handler runs on
the GUI thread no event is delivered in the middle of it, and the thread it has started
can only append to the queue: one step is enough. `Announce` and `Conclude` are the two
emissions of a thread, `Deliver` is `parseSingleTest`. The thread of `testEmmc` captures
the caller's local variable `res` by reference and uses it after the call has returned:
what its emissions carry is whatever is found there (`Carried`, constant `Strays`),
including an integer that is no result, which `ExpoRow.setValue` ignores.

**FullRun** - `at`, `next`, `ret`: where each pool thread is in `test()` and what the
current call will return; `frame`: whether the thread's captured variable still lives
in such a call; `results`, `counts`; `success` of the window. `Call` and `Return` are
separate steps because the thread started by a call runs meanwhile and, for EMMC, may
change what the call returns. `serializeResults` of a pool thread is three steps, `Clear`
(the counters to zero), `Count` (its loop) and `EmitFinished` (the map and the signal),
since another thread or the GUI thread may be in it at the same time and both count in
the members of the shared `results`; `alone` is history: nobody else has been.
`FullRunAssumption` says of the constants what `map_test_func` does: there are finitely
many tests, and neither "touchscreen" (a field of the summary only) nor "testFinished"
(the event) is the name of one.
`DeliverFinished` is `fillTestResults`; `PrintResults` is all of it, on the GUI thread.
`ReceiveAction` is called with the name of a test, whose row then says Success at once, or
with a name that contains "touched" and changes the summary only. The row "touchscreen",
which no test thread reports to, is left out.

**StorageTests** - `pc` names the command a thread is at. A command with redirected
output is two steps, because the shell truncates the file before the command starts;
`linked` remembers whether that file still has its name when the command writes to it.
`mounts` is the stack on `/media/fatfs`; `base` the mount fio works in. The device files
of a board do not change during a run of the model; rates are classes around the two
limits (10 and 60). `root` is the device the system runs from, whose speed `OnRoot` tests
and a test with nothing on `/media/fatfs` measure. lsusb, the fsck pipeline, mkfs, mount
and fio may fail by themselves, with or without their output: `broke` is history, and says
of a run that one of its commands did. `left` is history too: what a program that was
ended has left behind. `Healthy` says what the device itself deserves, and `Judgeable` on
which boards the code looks at that device and not at another.

**UartTest** - texts are two halves that a port delivers together or not (`whole`).
`Select` and `Read` are separate steps: what `select` announced may be gone when `read`
runs. `read` then returns -1, the buffer is resized to that, and the exception ends the
program (`aborted`). `StrayClose` is the destructor of a `Uart` that was never opened,
on an uninitialised descriptor.

**GpioTest** - `high`: the pins driven high; a plan lists the `gpio_pair_check` and
`init_gpio` calls of each test, in order; each access to sysfs is a step.
`WiringAssumption` is about the loopback plug of the board: no input hears an output of
another test, and on a fully wired plug no input hears a further output of its own test.
Without the first part another test's pulse could pass or fail a pair; without the
second a good plug with one wire too many fails, as an output that is high hides the
falling edge of the one that is checked. The boards of the run keep to it.

**CanTest** - each `ip link` command, each socket, the send, the receiving thread and
the join are steps; `alone` is history.

**EthernetTest** - `named`, `where`, `addressed`, `up`: the two namespaces and the
interfaces in them; `inside`, `keep`: the iperf processes, those in a namespace that has
its name and those that keep one that has lost it; `report` and `speedEth` are the files
"ethernet" and "speed_eth". The two background processes and the kernel act on their own
(`Listen`, `Connect`, `Finish`, `Cleanup`), a hand at the cable too (`Replug`). The waits
of the code are guards: `Listening` (50 ms for the server), `Slept` (20 s for the client),
`Settled` (50 ms for the kernel). `calm` and `measured` are history.

**WindowButtons** - `life` is what has become of a program, `state` what QProcess knows
of it; `closing` is the program `QProcess::close` waits for, which keeps the GUI thread.

**CpuUsage** - `stat`: /proc/stat; `time`: the member `time_`; `shown`: the loads, each the
pair of differences whose quotient the window shows; `ran`: history, what each CPU did
since the last reading. `Tick` is the kernel, `UpdateFreq` is `GetFreq`. The ten numbers of
a line are three classes. `Timing` and `Saturated` say what `>>` into 32 bits does: a
number that does not fit is replaced by the largest one and fails the stream, and what
is left of the vector keeps its values; the sums of `std::accumulate` wrap.

**Lifetime** - `at`: how far main is, from loading the QML file to `return`; `scene`: the
queued call of `CameraGST::Init`; `pipeline`: `pipeline_`, "wild" until `Init` sets it;
`alive`, `sound`, `stage`: the launched programs, the speaker's task, the test threads.
Undefined behaviour (an uninitialised pointer, a null root object, a signal of a destroyed tester)
is recorded in `fault` and may end the program at once or not. `quiet` is history: nothing
was under way when the window was closed.

Operators marked "Slip" are not part of any specification: each is a plausible mistake
in the code, used to confirm that a property notices it (PROJECT.json, "mutants").

## 3. What the runs check

| run | what it shows | instance | distinct states |
|---|---|---|---|
| board | rows end at the last verdict, never wait for nothing, are answered, and keep RowLife's promise | 2 threads, 3 rows (patient, impatient, EMMC), `Strays` everything | 157 thousand |
| fullrun | a summary no other one counts into has the counters of its own fields; a summary holds no verdict of a test other than EMMC; verdicts after a summary survive it | 2 threads, 1 pool thread, `emmc` before `gpio`, `Strays` the verdicts | 10.0 million |
| storage | tests run one by one pass exactly the devices that are there and fast, also after a restart, on the boards they can judge and unless a command fails by itself; passing needs something fast and, but for EMMC, commands that worked; the report file, the stick's mount and an ext4 eMMC are safe from overlaps; every run ends with one verdict | 2 threads, 6 boards, failing commands, restarts | 1.5 million |
| uart | a pair passes only when wired; single runs never abort, end, and pass a good pair | 2 threads, 2 pairs, 3 boards, replugged wires | 427 thousand |
| gpio | a run without another of its own test is right whatever other tests do and whatever a program that was ended left high; no pin is left high otherwise; every run ends | 2 threads, 5 boards, restarts | 1.5 million |
| can | passing needs a working bus; a lone run is right from any state of the links; the links end up configured; every run ends | 2 threads, 8 boards (links down or configured otherwise at boot), restarts | 16 thousand |
| ethernet | no false Success; a run left alone is right whatever runs before it did; after the last run no namespace, no iperf is left and both interfaces are back; every run ends | 2 threads, 3 boards, a replugged cable, restarts | 510 thousand |
| buttons | no program without its label; one sound at a time; the window and the speaker button come back | 2 of 3 launchers | 1.4 thousand |
| cpu | the loads shown are exact while every single counter fits, although sums and differences wrap | 2 CPUs, modulus 3, counters up to 4 | 78 thousand |
| lifetime | a program that is closed when drawn and with nothing under way does nothing undefined; no launched program survives; closing ends | 2 threads, 2 programs, 4 installations | 6.4 thousand |
| stuck_row | *violated*: with `test()`/`printResults` a row can say "Выполняется" when nothing is left | as fullrun | - |
| idle_label | *violated*: RUNNING can stay on a program that is not running | as buttons | - |

Bounds. Two threads give every overlap of two runs of one test or of two tests; the
properties speak of one row, one run or one pair of runs at a time. CAN was also run
with three threads. `MaxEvents` = 1 in `board` and `fullrun` only limits *clicks and
calls* while an event waits: each thread can still append two events and a pool thread
one, so that queues of several events of several rows occur. `MaxMounts` = 2 limits
only the *start* of an EMMC test: the stacks that occur include an EMMC mount over a stick and a
stick over an EMMC mount. In `cpu` two counters of 2 make a sum that wraps
at 3, and a counter of 3 or 4 one that does not fit at all. `MaxLine` = 3 limits only the
*start* of a run: one may begin while a whole text is still under way to its ports, and a
write is never held back. `fullrun` gives EMMC's events
only verdicts (with the caller's frame alive they carry the true one, after that any value
but this set is the widest that stays small); it uses a view that leaves out what no
guard reads and the symmetry of the threads; it checks no liveness property.
`uart` and `lifetime` turn the deadlock check off because an aborted or ended program
does stop. The type invariants of FullRun, UartTest and WindowButtons are stated in the modules
and hold on the same instances, but are not part of the runs.

Fairness. Weak fairness of each thread's next step: the operating system schedules
threads, and every command they wait for ends (`fio` and the scripts are assumed to).
Weak fairness of `Deliver`: the GUI thread returns to its event loop and handles what is
posted. Clicks, replugging and programs that end by themselves are never assumed to
happen. In EthernetTest the wait before the verdict (`Settle`) is strongly fair: a sleep
ends, although another run may meanwhile have put the interface where it was. In
WindowButtons `Answered` is strongly fair, since clicks on the launchers can keep the
GUI thread from its loop again and again but a posted event is not lost; a program ends
for certain only while `close` kills it. In Lifetime only main itself and the end of a sound
are fair: the window closes or not, and nothing is assumed of test threads and programs.
`Quit` is never assumed to happen, and a program that is restarted again and again fulfils
every promise of a test thread, as it does in the code.

What the overlaps do to the tests. The models say also what does *not* hold, and the
properties are stated around it: overlapping storage tests may fail a good device (they
share `speed` and `check_usb`), or pass it by what the other has measured; a USB test
without `/dev/sda` judges the root file system, and USB 3 fails a good stick as long as
`/media/fatfs` is missing; EMMC takes a third partition, and Micro SD demands one, as a sign
that the system runs from that device, and measures the root file system, whichever device
that is on (all in `Judgeable`); a command that fails by itself fails a good device
(`broke`); a wire from an output of one GPIO or SPI test to an input of another would let
either decide the other's verdict (`WiringAssumption` has none); overlapping Ethernet tests
may fail a good cable (`killall`);
two EMMC tests at once may reformat an ext4 eMMC (`NoReformat` needs `PatientEmmc`);
overlapping UART tests of one pair may abort the program (`SoloNeverAborts` needs
`solo`), and a text delivered in two pieces fails a good pair (`SoloPassesGoodPair`
needs `whole`); a stick that was left mounted by a program that was ended, and is then
covered by an EMMC test's mount, fails the next USB test (the exception in
`SoloVerdictIsRight`); counters of two summaries made at once are wrong
(`SummaryCountsItsFields` needs `alone`); closing the window before it is drawn, or during
a test, is undefined behaviour (the exceptions in `QuietLifeIsClean`); a CPU counter beyond 2^32
ticks makes the load wrong from then on (`AllFit`), and two readings within one tick show
0/0; `gpio_pair_check` leaves the output high when its input cannot be
initialised (`HighPinIsUnderTest` assumes all pins exist); the row of EMMC can show
anything (`Judged` excludes it).

Assumed of what is not in `src/`: mounts stack, a busy mount cannot be unmounted,
`mkfs.ext4` refuses a mounted device, `system("")` succeeds, umount, mkdir and rm do not
fail by themselves, the system runs from the third partition of the eMMC or of the SD card; a
serial line delivers before select's 50 ms are over and the last close of a port discards its buffer; a CAN
link takes a bit rate only while down, and loses its unsent frame and marks its sockets
when taken down; an input pin reads 1 exactly if an output wired to it is high; a
network namespace lives as long as it has a name or a process, a server listens within
50 ms and a client that gets through is done within 20 s; Qt posts the call of `Init` before it
shows the first picture, a scene graph is initialised once, `~QProcess` kills its program and
`~QGuiApplication` waits for the pool. These are the map's `external`
entries and stand in the headers of the modules.

## 4. What is proved

Every theorem holds for every value of the constants of its module, from the named
assumption on them alone, and is about `Spec`; each `FairSpec` implies its `Spec`. All the
inductive invariants were first checked with TLC.

**BoardProofs**, the window (`TypeCorrect`; `SettledRows`: `SettledRowShowsLastVerdict`;
`ProgressJustified`: `ProgressIsJustified`; `RowsKept`: the safety part of
`RowsKeepPromise`). The base is `BoardInv`: `TypeOK` with `JobsMatchThreads` (a
thread has a test exactly while it lives), without which a click could take a living
thread. Neither safety property is inductive, because neither says what the events in the
queue carry. `SettlingInv` adds that once no thread of a test is alive, the last event of it
in the queue carries the verdict reached last, and if there is none the row shows it
already: a verdict is appended in the step in which its thread ends, and a delivery moves
it to the row when it takes the last event. `JustifiedInv` adds that also a *queued*
Progress is justified, by a living thread or by a verdict behind it, or its delivery would
leave the row waiting; the queue is first in, first out and a thread says Progress before
its verdict. `RowsKept` maps each step of the window to a step of RowLife or a stutter: for
a patient user's row there is at most one thread (`OneThread`), a verdict in the queue is the
last event of its test (`VerdictIsLast`), and the row says Progress as long as the test is
under way, so that no Progress comes after the verdict and no second verdict follows.

**BoardProofs**, the full run (`FullTypeCorrect`: `FullTypeOK`, which no run checks;
`SummaryCounts`: `SummaryCountsItsFields`; `NoVerdictInSummary`: `SummaryHoldsNoVerdict`;
`LateVerdicts`: `LateVerdictsSurvive`), for any tests, order, number of threads and of pool
threads. Counts stay numbers because a summary has finitely many fields. `CountInv`
follows a lone `serializeResults` through its steps: the map it counts is the one it emits,
and nobody else clears or counts meanwhile. `NoVerdictInv` says of everything a summary
is made of (`ret`, `results`, the copies, the queued summaries) that it holds no verdict,
except for EMMC, whose thread may write into a call that has not returned (`FrameInv`).
`LateInv` is `Settling` for the tests that have reached a verdict since the last summary,
with the fact that makes it survive the delivery of a summary: behind every summary in the
queue comes an event of each such test (`Overtaken`).

**StorageProofs** (`TypeCorrect`; `SpeedTidy`: `SpeedFileTidy`; `StickUnmounted`:
`StickIsUnmounted`; `SuccessMeasured`: `SuccessWasMeasured`; `Unharmed`: `NoReformat`;
`LoneVerdictRight`: `SoloVerdictIsRight`), for any boards, any number of tests and any restarts. The type needs that
the mount fio reads from is still on the stack when it reports (`BaseIsMounted`: it is busy),
or its rate would not be one. `SpeedFileTidy` needs `WriterHasFile`: a fio that would
still write the report has a file to write it to, so that the test that removes the file
last leaves none. For `StickIsUnmounted` the stack must be known: where the system is on the
eMMC only the USB tests touch the mount point (`OnlyUsbMounts`), there is never more than
the one mount (`OneMount`: the device is busy), and what fio reads from it is for one of
them (`BelowIsUsb`). `SuccessWasMeasured` needs that a rate in the report is that of
something on the board, whoever wrote it (`ReportIsMeasured`), and that a test whose
command has failed is past its chance to pass (`FailureIsFinal`), but for EMMC, which
goes on after mkfs and mount.
`NoReformat` rests on one EMMC test at a time (`OneEmmc`) being the only one that
writes, reads and removes `check_filesystem` and that formats: what it reads is the file
system as it is, so that `mkfs` meets no ext4 (`LooksFirst`). `SoloVerdictIsRight` is the
longest of the arguments (`SoloInv`). Between the lone runs the mounts are one of four stacks: an
EMMC mount or none, on a stick or on nothing, and a stick is there only if a USB test
will unmount it or a program was ended with it mounted (`StackInv`). A lone run makes, or reads
afresh, all it relies on: it has measured nothing before its fio (`OnItsWay`), its device
is on top of the stack when fio starts (`Ready`), and so fio's report is about the storage
the code measures there, and its judgement is what that deserves (`Measures`, `Deserved`):
the fallback to the root file system included, as the invariant must follow the code. That
this is the verdict the *device* deserves, on a board that is `Judgeable`, is a step of its
own (`DeservedIsRight`). The same invariant was checked by TLC with one thread on every one
of the 2592 boards.

**CanProofs** (`TypeCorrect`; `PassNeedsBus`: `PassMeansBusWorks`; `LinksReady`:
`LinksReadyWhenIdle`; `LoneRunRight`: `LoneRunIsRight`), for any number of overlapping runs, any boards and any restarts. A
frame that is in flight or received needs a bus (`FrameNeedsBus`). The links need, of each
link, how far which runs are with it: a bit rate a run has set stays (`RateIsKept`, since the
code sets no other); a link that is up although a run is still to set its bit rate was
brought up at the test's (`UpAtTestRate`: a link refuses another while up, so that a later
refused command changes nothing); and a link that a run has brought up and another has taken
down will be brought up again (`UpOrOnTheWay`). Once no run is under way the last says
that all are up, the first at which rate. For `LoneRunRight` the run is followed step by step:
the links it has configured stay so (`LoneLinks`), its sockets are open and bound to links
that have stayed up since (`LoneSockets`), so that its frame is sent and received
(`LoneFrame`); nothing else acts on them (`OneAlone`).

**GpioProofs** (`TypeCorrect`; `PinsPutBack`: `HighPinIsUnderTest`; `LoneRunRight`:
`LoneRunIsRight`; `ThreadsImplemented`), for any number of runs and any restarts. The type needs that a run
never leaves its plan: the plans are sequences of 16 and 1 entries (`PlanIsSequence`), and
an idle run stands at the first (`FirstWhenIdle`). `HighPinIsUnderTest` is inductive with
these: only a run that has yet to lower the pin raises it, and a pin that a run lowers is low
for all. `LoneRunRight`, for every wiring within `WiringAssumption`, has two halves. If a
lone run has not failed, the pairs behind it are sound: an input that heard something while
its output was high, and does not hear it once that is low, heard that output (`Echo`,
`PassedAreSound`). If all its pairs are sound it has not failed: the outputs behind it are
low (`EarlierLow`, even those a peripheral was driving), so that each input hears its own output or
nothing (`DoingWell`).

**EthernetProofs** (`TypeCorrect`; `PassMeasured`: `PassWasMeasured`; `PutBack`:
`EverythingPutBack`; `LoneRunRight`: `LoneRunIsRight`; `ThreadsImplemented`), for any number of overlapping runs. The rate a
run reads comes from a file all runs share; but every run empties both files before it
reads them, so that what they hold then was measured since (`ReportIsNew`, `SpeedIsNew`),
and only a fast board fills them with a fast rate (`FastIsFast`). For `PutBack` the
invariant says of each step of cleaning up what another run may undo: as soon as one run
has come past killing the iperfs, deleting a name or waiting for the interface, what is
still there is there for a run that will come to that step (`IperfWillEnd`, `NameWillGo`,
`PortWillReturn`). The last run leaves nothing, and that is where `LoneRunRight` begins: the
next run finds both interfaces on the host (or, after a restart, none without a name, and no
client). Each of its commands then succeeds (`Configured`), its server is the only one and
listens (`Serving`), and what its client writes is what it reads (`Measuring`).

**UartProofs** (`TypeCorrect`; `PassWired`: `PassMeansWired`; `NeverAborts`:
`SoloNeverAborts`; `SoloPasses`: `SoloPassesGoodPair`), for any pairs, boards and wires. What is under way to a port or waits
in it came over a wire that is still plugged in (`LineIsWired`, `RxIsWired`): pulling it
loses what is under way, it is not pulled during a test, and a port that nobody holds
keeps nothing. A run that answers has heard its second port (`HalfWay`). `NeverAborts` needs
that a lone run holds both ports (`SoloHolds`; no other run holds one its stray `close`
could hit) and that what `select` announced waits until `read` (`SoloWillRead`). A line
that delivers whole texts carries whole texts (`WholeTexts`), without which not even the
type is kept. For `SoloPasses` nothing waits on any line while no text is due (`Quiet`, since a
port that is closed keeps nothing), and where one is due it is the one text the other port
wrote, on the line or in the buffer (`OneText`); only a pair that is not wired has failed
(`FailsUnsound`).

**WindowProofs**, the CPU load (`TypeCorrect`; `LoadExact`: `LoadIsExact`), for any number of CPUs, any
width of the integers and any bound on the kernel's counters. While every counter fits,
`time_` is, modulo the width, what the kernel has counted less what has been counted
since (`Accounted`); the difference of two remainders is then the difference of the
numbers, as there are fewer ticks than the width between two readings. The lemma `Largest`
gives the last line read its existence.

**WindowProofs**, the buttons (`LiveLabelled`: `LiveProgramIsLabelled`; `OneSound`:
`SpeakerIsExclusive`), for any set of launchers. Both are inductive once the variables have
their types: a label is hidden only when `close` has seen its program dead, and a press takes
the enabled button, a task becomes an answer and an answer gives the button back.

**LifetimeProofs** (`QuietLife`: `QuietLifeIsClean`; `NoSurvivor`: `NoProgramSurvives`;
`ThreadsImplemented`: `Spec => T!ThreadSpec`), for any threads, programs and installations.
Nothing is started once the window is closed (`QuietStays`, `ProgramsStayDead`), and a
window that is drawn has a pipeline that was set (`PipelineMade`). The last theorem is the
safety part of a refinement: main's return is TestThread's `Quit`, every other step of main
a stutter.

**The test threads.** `ThreadsImplemented` of StorageProofs, GpioProofs, CanProofs,
EthernetProofs and LifetimeProofs is the safety part of `KeepsThreadPromise`: `Spec`
implements TestThread's `ThreadSpec`, for any number of runs. Each proof maps `Begin`,
`Announce`, `Verdict` and `Quit` to the four actions of TestThread and every other step to
a stutter. That a run *ends* is the fairness part, and model-checked.

Every invariant and every action property of a passing run is a theorem. Only model-checked are
the liveness properties (`EveryRunIsAnswered`, `SoloEnds`, `WindowComesBack`, `ClosingEnds`) and
the fairness part of the refinements `KeepsThreadPromise` and `RowsKeepPromise`, which are out
of the prover's reach, and the two violations (`stuck_row`, `idle_label`), of which TLC gives a
counterexample.

## 5. Not modelled

The logger and the temperature display (nothing depends on them); `SpiTest`, `run_cmd` and its
relatives, `addGpio`, `addOutput`, `set_pwm`, `testPcie`, `testUSB`, `testCamera`,
`requestTestAction`, `Uart::run`, `SetRTS`, `GetCTS`, `SetPlaying` (no caller or a constant);
layout, colours and texts of the window; `tester.zip` (an older copy). Of two
`serializeResults` at the same time the model has the interleaving of their steps, not the
increments one loop may take from the other (a data race, and the counters are wrong either
way). The units of fio's report and a pin that vanishes after it was exported are left out
(see the hazards). A failed `SIOCGIFINDEX` is modelled in CanTest (`Bindings`): the socket is bound to
whatever the union holds.

## 6. Plan

1. Proofs: that UartTest's runs are threads of TestThread as long as none aborts, and that
   FullRun's window takes the steps of ResultBoard's but for a summary's delivery.
2. Composition: the rows of tests that share devices (storage) placed under ResultBoard.
3. Larger instances: three threads in `gpio` and `ethernet`, overlapping runs after a restart.
