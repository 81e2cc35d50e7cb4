------------------------------ MODULE Lifetime ------------------------------
(***************************************************************************)
(* The program from main to its end.  main makes the camera, the           *)
(* application, the engine and the tester, loads the window and runs the   *)
(* event loop; when the window is closed the four go in the opposite       *)
(* order.  Three kinds of activity may still be under way then: the        *)
(* programs the launchers have started, the speaker's sound on a thread of *)
(* the pool, and the detached threads of the tests, which nobody waits     *)
(* for: they go on, with a tester that is no more, until main has          *)
(* returned.  TestThread says what such a thread does.                     *)
(*                                                                         *)
(* Undefined behaviour is recorded in fault, and may or may not end the    *)
(* program.  Assumed of Qt: the event that Init is to run is posted before *)
(* the first picture is shown, and so before the first click; ~QProcess    *)
(* kills its program; ~QGuiApplication waits for the pool.                 *)
(***************************************************************************)

CONSTANTS Threads,      \* the detached test threads
          Programs,     \* what the launchers can start
          Parts,        \* the GStreamer elements Init asks for
          Hosts         \* the installations a program may find

VARIABLES host,
          at,           \* how far main is
          scene,        \* "none", "posted": Init waits in the queue, "drawn"
          pipeline,     \* "wild", "empty" or "linked"
          content,      \* whether the content is shown, and not the video
          alive,        \* the programs that run
          sound,        \* whether the speaker's task is on the pool
          stage, said,  \* the test threads
          quiet,        \* history: nothing was under way when the window was closed
          fault         \* history: the first undefined behaviour, or "none"

vars == <<host, at, scene, pipeline, content, alive, sound, stage, said, quiet, fault>>

Host == [window : BOOLEAN,      \* ExpoMain.qml can be loaded
         plugins : SUBSET Parts]        \* the elements that can be made

ASSUME LifetimeAssumption == Hosts \subseteq Host

T == INSTANCE TestThread

TypeOK ==
  /\ host \in Hosts
  /\ at \in {"load", "window", "exec", "~tester", "~engine", "~app", "~camera", "return",
             "exited", "crashed"}
  /\ scene \in {"none", "posted", "drawn"}
  /\ pipeline \in {"wild", "empty", "linked"}
  /\ content \in BOOLEAN
  /\ alive \in SUBSET Programs
  /\ sound \in BOOLEAN
  /\ T!ThreadTypeOK
  /\ quiet \in BOOLEAN
  /\ fault \in {"none", "no window", "wild pipeline", "dead tester"}

Ended == at \in {"exited", "crashed"}
TesterLives == at \in {"load", "window", "exec"}

\* Main goes on at a, or something undefined happens first and may end it all.
GoOn(a) == at' = a /\ UNCHANGED fault
Undefined(a, f) ==
  /\ at' \in {a, "crashed"}
  /\ fault' = IF fault = "none" THEN f ELSE fault

Gui == UNCHANGED <<scene, pipeline, content>>
Work == UNCHANGED <<alive, sound, stage, said, quiet>>
-----------------------------------------------------------------------------
\* camera_, app, engine and tester exist; pipeline_ is not initialised.
Init ==
  /\ host \in Hosts
  /\ at = "load"
  /\ scene = "none" /\ pipeline = "wild" /\ content = TRUE
  /\ alive = {} /\ sound = FALSE
  /\ T!ThreadInit
  /\ quiet = TRUE /\ fault = "none"

Load ==
  /\ at = "load"
  /\ GoOn("window")
  /\ Gui /\ Work /\ UNCHANGED host

\* The first root object, whether there is one or not, and the sink's widget;
\* the exit posted for a window that could not be loaded would run in exec.
Window ==
  /\ at = "window"
  /\ IF host.window THEN GoOn("exec")
     ELSE at' = "crashed" /\ fault' = "no window"
  /\ Gui /\ Work /\ UNCHANGED host

\* The event loop.
Running == at = "exec"

SceneGraphInitialized ==
  /\ Running /\ scene = "none"
  /\ scene' = "posted"
  /\ UNCHANGED <<host, at, pipeline, content, fault>> /\ Work

\* Slip: pipeline_ is set once all elements are there.
AssembleLast == IF host.plugins = Parts THEN "linked" ELSE pipeline

\* An element that is missing leaves the pipeline empty.
Assemble == IF host.plugins = Parts THEN "linked" ELSE "empty"

CameraInit ==
  /\ Running /\ scene = "posted"
  /\ scene' = "drawn"
  /\ pipeline' = Assemble
  /\ UNCHANGED <<host, at, content, fault>> /\ Work

Click == Running /\ scene = "drawn"

\* The camera button: CameraPlay or CameraPause.
Camera ==
  /\ Click
  /\ content' = ~content
  /\ IF pipeline = "wild" THEN Undefined("exec", "wild pipeline") ELSE GoOn("exec")
  /\ UNCHANGED <<host, scene, pipeline>> /\ Work

\* A launcher: its program is started, or closed.
Launch(p) ==
  /\ Click
  /\ alive' = IF p \in alive THEN alive \ {p} ELSE alive \cup {p}
  /\ UNCHANGED <<host, at, sound, stage, said, quiet, fault>> /\ Gui

\* The user leaves it.
Leave(p) ==
  /\ p \in alive
  /\ alive' = alive \ {p}
  /\ UNCHANGED <<host, at, sound, stage, said, quiet, fault>> /\ Gui

Speaker ==
  /\ Click /\ ~sound
  /\ sound' = TRUE
  /\ UNCHANGED <<host, at, alive, stage, said, quiet, fault>> /\ Gui

Begin(t) ==
  /\ Click
  /\ T!Start(t)
  /\ UNCHANGED <<host, at, alive, sound, quiet, fault>> /\ Gui
-----------------------------------------------------------------------------
\* singleTestResult: a signal of the tester is emitted.
Emit == IF TesterLives THEN GoOn(at) ELSE Undefined(at, "dead tester")

Played ==
  /\ sound /\ ~Ended
  /\ sound' = FALSE
  /\ Emit
  /\ UNCHANGED <<host, alive, stage, said, quiet>> /\ Gui

Thread(t) ==
  /\ ~Ended
  /\ T!SayProgress(t) \/ T!SayVerdict(t)
  /\ Emit
  /\ UNCHANGED <<host, alive, sound, quiet>> /\ Gui
-----------------------------------------------------------------------------
\* The window is closed, maybe before anything is drawn, and exec returns.
Close ==
  /\ Running
  /\ GoOn("~tester")
  /\ quiet' = (~sound /\ \A t \in Threads : stage[t] = "idle")
  /\ UNCHANGED <<host, alive, sound, stage, said>> /\ Gui

\* Slips: the programs are waited for; they are left to themselves.
CloseProgramsPatiently == alive = {} /\ alive' = {}
CloseProgramsDetached == UNCHANGED alive

\* ~QProcess kills what still runs.
ClosePrograms == alive' = {}

DestroyTester ==
  /\ at = "~tester"
  /\ ClosePrograms
  /\ GoOn("~engine")
  /\ UNCHANGED <<host, sound, stage, said, quiet>> /\ Gui

DestroyEngine ==
  /\ at = "~engine"
  /\ GoOn("~app")
  /\ Gui /\ Work /\ UNCHANGED host

DestroyApp ==
  /\ at = "~app" /\ ~sound
  /\ GoOn("~camera")
  /\ Gui /\ Work /\ UNCHANGED host

\* The pipeline is stopped and dropped, be it one or not.
DestroyCamera ==
  /\ at = "~camera"
  /\ IF pipeline = "wild" THEN Undefined("return", "wild pipeline") ELSE GoOn("return")
  /\ Gui /\ Work /\ UNCHANGED host

\* Main returns, and with it every thread ends.
Exit ==
  /\ at = "return"
  /\ T!Quit
  /\ GoOn("exited")
  /\ UNCHANGED <<host, alive, sound, quiet>> /\ Gui

Main ==
  Load \/ Window \/ DestroyTester \/ DestroyEngine \/ DestroyApp \/ DestroyCamera \/ Exit

Next ==
  \/ Main \/ SceneGraphInitialized \/ CameraInit \/ Camera \/ Speaker \/ Played \/ Close
  \/ \E p \in Programs : Launch(p) \/ Leave(p)
  \/ \E t \in Threads : Begin(t) \/ Thread(t)

Spec == Init /\ [][Next]_vars

\* Main goes on, and a sound comes to its end.  Nothing is assumed of the test
\* threads, and nothing of a program's user.
FairSpec == Spec /\ WF_vars(Main) /\ WF_vars(Played)
-----------------------------------------------------------------------------
\* A program whose window could be loaded, and is closed once it has been drawn
\* and while neither a test nor a sound is under way, never does anything
\* undefined, whatever elements of the camera are missing and whatever runs.
QuietLifeIsClean == fault # "none" => ~host.window \/ scene # "drawn" \/ ~quiet

\* No program a launcher started outlives a program that has come to its end.
NoProgramSurvives == at = "exited" => alive = {}

\* Once the window is closed the program ends, whatever its test threads and
\* the programs it has started are doing.
ClosingEnds == at = "~tester" ~> Ended
=============================================================================
