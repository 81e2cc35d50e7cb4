--------------------------- MODULE LifetimeProofs ---------------------------
(***************************************************************************)
(* The end of the program, for any number of test threads and programs and *)
(* for any installation: a quiet program ends cleanly, no program of a     *)
(* launcher survives it, and its test threads are those of TestThread from *)
(* the first to the last, the exit of main being what ends them.           *)
(***************************************************************************)
EXTENDS Lifetime, TLAPS

\* What is left of main once the window is closed, and once ~Tester is done.
Closed == at \in {"~tester", "~engine", "~app", "~camera", "return"}
TesterGone == at \in {"~engine", "~app", "~camera", "return", "exited"}

\* Init is run before the first click.
PipelineMade == scene = "drawn" => pipeline # "wild"

\* Nothing goes wrong while the window is open.
OpenIsClean == TesterLives => quiet /\ fault = "none"

\* Nothing is started once the window is closed.
QuietStays == Closed /\ quiet => ~sound /\ \A t \in Threads : stage[t] = "idle"
ProgramsStayDead == TesterGone => alive = {}

IInv ==
  TypeOK /\ PipelineMade /\ OpenIsClean /\ QuietStays /\ ProgramsStayDead /\ QuietLifeIsClean

LEMMA InitOK == Init => IInv
  BY DEF Init, IInv, TypeOK, PipelineMade, OpenIsClean, QuietStays, ProgramsStayDead,
         QuietLifeIsClean, Closed, TesterGone, TesterLives, T!ThreadInit, T!ThreadTypeOK, T!Stages, T!Result

LEMMA TypeStep == TypeOK /\ [Next]_vars => TypeOK'
<1> SUFFICES ASSUME TypeOK, [Next]_vars
             PROVE  TypeOK'
  OBVIOUS
<1> USE DEF TypeOK, T!ThreadTypeOK, T!Stages, T!Result, GoOn, Undefined, Gui, Work, Emit
<1>1. ASSUME NEW t \in Threads, Begin(t)
      PROVE  TypeOK'
  BY <1>1 DEF Begin, T!Start
<1>2. ASSUME NEW t \in Threads, Thread(t)
      PROVE  TypeOK'
  <2>1. T!ThreadTypeOK'
    BY <1>2 DEF Thread, T!SayProgress, T!SayVerdict, T!SetResAddedLogs
  <2>2. UNCHANGED <<host, alive, sound, quiet>> /\ Gui /\ Emit
    BY <1>2 DEF Thread
  <2> QED BY <2>1, <2>2
<1>3. CASE Exit
  BY <1>3 DEF Exit, T!Quit
<1>4. ASSUME NEW p \in Programs, Launch(p) \/ Leave(p)
      PROVE  TypeOK'
  <2>1. alive' \in SUBSET Programs
    BY <1>4, Zenon DEF Launch, Leave
  <2>2. UNCHANGED <<host, at, sound, stage, said, quiet, fault>> /\ Gui
    BY <1>4 DEF Launch, Leave
  <2> QED BY <2>1, <2>2
<1>5. CASE Load \/ DestroyEngine \/ DestroyApp
  BY <1>5 DEF Load, DestroyEngine, DestroyApp
<1>6. CASE Window \/ DestroyTester \/ DestroyCamera
  BY <1>6 DEF Window, DestroyTester, ClosePrograms, DestroyCamera
<1>7. CASE SceneGraphInitialized \/ CameraInit \/ Speaker \/ Played
  BY <1>7 DEF SceneGraphInitialized, CameraInit, Assemble, Speaker, Played
<1>8. CASE Camera
  BY <1>8 DEF Camera
<1>9. CASE Close
  <2>1. quiet' \in BOOLEAN
    BY <1>9, Zenon DEF Close
  <2> QED BY <1>9, <2>1 DEF Close
<1>10. CASE UNCHANGED vars
  BY <1>10 DEF vars
<1> QED BY <1>1, <1>2, <1>3, <1>4, <1>5, <1>6, <1>7, <1>8, <1>9, <1>10 DEF Next, Main

LEMMA StepOK == IInv /\ [Next]_vars => IInv'
<1> SUFFICES ASSUME IInv, [Next]_vars
             PROVE  IInv'
  OBVIOUS
<1>1. TypeOK'
  BY TypeStep DEF IInv
<1> USE DEF IInv, PipelineMade, OpenIsClean, QuietStays, ProgramsStayDead, QuietLifeIsClean, Closed,
            TesterGone, TesterLives, GoOn, Undefined, Gui, Work
<1>2. ASSUME NEW t \in Threads, Begin(t)
      PROVE  IInv'
  BY <1>1, <1>2 DEF Begin, Click, Running, T!Start
\* A thread that says something after ~Tester was under way when the window was
\* closed.
<1>3. ASSUME NEW t \in Threads, Thread(t)
      PROVE  IInv'
  <2>1. stage[t] # "idle"
    BY <1>3 DEF Thread, T!SayProgress, T!SayVerdict
  <2>2. /\ UNCHANGED <<host, alive, sound, quiet, scene, pipeline, content>>
        /\ Emit /\ ~Ended
    BY <1>3 DEF Thread
  <2>3. TesterLives \/ ~quiet
    BY <2>1, <2>2 DEF TypeOK, TesterLives, Ended
  <2>4. PipelineMade' /\ OpenIsClean' /\ ProgramsStayDead' /\ QuietLifeIsClean'
    BY <2>2, <2>3 DEF Emit, TesterLives, Ended
  <2>5. QuietStays'
    BY <2>1, <2>2, <2>3 DEF Emit, TesterLives, Ended
  <2> QED BY <1>1, <2>4, <2>5
<1>4. CASE Exit
  BY <1>1, <1>4 DEF Exit
<1>5. ASSUME NEW p \in Programs, Launch(p) \/ Leave(p)
      PROVE  IInv'
  BY <1>1, <1>5 DEF Launch, Leave, Click, Running
<1>6. CASE Load \/ DestroyEngine \/ DestroyApp
  BY <1>1, <1>6 DEF Load, DestroyEngine, DestroyApp
<1>7. CASE Window
  BY <1>1, <1>7 DEF Window
<1>8. CASE DestroyTester
  BY <1>1, <1>8 DEF DestroyTester, ClosePrograms
<1>9. CASE DestroyCamera
  BY <1>1, <1>9 DEF DestroyCamera
<1>10. CASE SceneGraphInitialized \/ CameraInit
  BY <1>1, <1>10 DEF SceneGraphInitialized, CameraInit, Assemble, Running
<1>11. CASE Camera \/ Speaker
  BY <1>1, <1>11 DEF Camera, Speaker, Click, Running
<1>12. CASE Played
  BY <1>1, <1>12 DEF Played, Emit, TesterLives, Ended, TypeOK
<1>13. CASE Close
  <2>1. quiet' => ~sound /\ \A t \in Threads : stage[t] = "idle"
    BY <1>13, Zenon DEF Close
  <2> QED BY <1>1, <1>13, <2>1 DEF Close, Running
<1>14. CASE UNCHANGED vars
  BY <1>1, <1>14 DEF vars
<1> QED
  BY <1>2, <1>3, <1>4, <1>5, <1>6, <1>7, <1>8, <1>9, <1>10, <1>11, <1>12, <1>13, <1>14
  DEF Next, Main

LEMMA Invariance == Spec => []IInv
  BY InitOK, StepOK, PTL DEF Spec
-----------------------------------------------------------------------------
\* Undefined behaviour needs a window that could not be loaded or was closed
\* before anything was drawn, or a test or a sound that outlives the tester.
THEOREM QuietLife == Spec => []QuietLifeIsClean
  BY Invariance, PTL DEF IInv

\* ~Tester kills what the launchers have started, and nothing is started after.
THEOREM NoSurvivor == Spec => []NoProgramSurvives
<1>1. IInv => NoProgramSurvives
  BY DEF IInv, ProgramsStayDead, TesterGone, NoProgramSurvives
<1> QED BY <1>1, Invariance, PTL

\* The test threads of a program, from its start to its end, are threads as
\* TestThread describes them.
THEOREM ThreadsImplemented == Spec => T!ThreadSpec
<1>1. Init => T!ThreadInit
  BY DEF Init
<1>2. [Next]_vars => [T!ThreadNext]_(T!threadVars)
  <2> SUFFICES ASSUME [Next]_vars
               PROVE  T!ThreadNext \/ UNCHANGED T!threadVars
    OBVIOUS
  <2> USE DEF T!ThreadNext, T!threadVars, Work
  <2>1. CASE Exit
    BY <2>1 DEF Exit
  <2>2. ASSUME NEW t \in Threads, Begin(t) \/ Thread(t)
        PROVE  T!ThreadNext
    BY <2>2 DEF Begin, Thread
  <2>3. ASSUME NEW p \in Programs, Launch(p) \/ Leave(p)
        PROVE  UNCHANGED T!threadVars
    BY <2>3 DEF Launch, Leave
  <2>4. CASE Load \/ Window \/ DestroyTester \/ DestroyEngine \/ DestroyApp \/ DestroyCamera
    BY <2>4 DEF Load, Window, DestroyTester, DestroyEngine, DestroyApp, DestroyCamera
  <2>5. CASE SceneGraphInitialized \/ CameraInit \/ Camera \/ Speaker \/ Played \/ Close
    BY <2>5 DEF SceneGraphInitialized, CameraInit, Camera, Speaker, Played, Close
  <2>6. CASE UNCHANGED vars
    BY <2>6 DEF vars
  <2> QED BY <2>1, <2>2, <2>3, <2>4, <2>5, <2>6 DEF Next, Main
<1> QED BY <1>1, <1>2, PTL DEF Spec, T!ThreadSpec
=============================================================================
