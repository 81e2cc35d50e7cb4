--------------------------- MODULE WindowButtons ----------------------------
(***************************************************************************)
(* The buttons of the window that are no test rows: the launchers, each of *)
(* which starts an external program or closes the one it started, the      *)
(* speaker button, and the camera button, which swaps the content of the   *)
(* window for the video.  The handlers run on the GUI thread; QProcess     *)
(* learns in the same thread's event loop that a program has started or    *)
(* ended, and QProcess::close keeps the thread until the program is dead.  *)
(* WindowProofs extends this module and CpuUsage, hence ButtonsInit etc.   *)
(***************************************************************************)
EXTENDS Naturals

CONSTANT Programs       \* "doom", "glmark", "load_cpu": launcher and process

VARIABLES life,         \* what has become of the last child of each launcher
          state,        \* QProcess::state of each launcher's process
          label,        \* whether its button says RUNNING
          closing,      \* the program the GUI thread is closing, or Nothing
          content,      \* whether the content is shown, and not the video
          enabled,      \* buttonsRow.enabled
          playing,      \* speaker tasks on the pool
          answers,      \* their events in the queue of the GUI thread
          tested        \* speaker_tested

launchers == <<life, state, label, closing>>
speaker == <<enabled, playing, answers, tested>>
buttonVars == <<launchers, content, speaker>>

Nothing == "nothing"

ASSUME ButtonsAssumption == Nothing \notin Programs

ButtonsTypeOK ==
  /\ life \in [Programs -> {"dead", "forked", "alive", "not found"}]
  /\ state \in [Programs -> {"NotRunning", "Starting", "Running"}]
  /\ label \in [Programs -> BOOLEAN]
  /\ closing \in Programs \cup {Nothing}
  /\ content \in BOOLEAN /\ enabled \in BOOLEAN /\ tested \in BOOLEAN
  /\ playing \in Nat /\ answers \in Nat

\* The GUI thread is back in its event loop.
GuiFree == closing = Nothing
-----------------------------------------------------------------------------
ButtonsInit ==
  /\ life = [p \in Programs |-> "dead"]
  /\ state = [p \in Programs |-> "NotRunning"]
  /\ label = [p \in Programs |-> FALSE]
  /\ closing = Nothing
  /\ content = TRUE
  /\ enabled = TRUE /\ playing = 0 /\ answers = 0 /\ tested = FALSE

\* Slip: a click toggles the label.
ToggleLabel(p) == [label EXCEPT ![p] = ~@]

ShowLabel(p) == [label EXCEPT ![p] = TRUE]

\* The button of a launcher: the label is shown, then startDOOM, startGLMARK or
\* startCPUTEST looks at the state of the process.
Launch(p) ==
  /\ GuiFree
  /\ label' = ShowLabel(p)
  /\ \/ /\ state[p] = "NotRunning"
        /\ state' = [state EXCEPT ![p] = "Starting"]
        /\ life' = [life EXCEPT ![p] = "forked"]
        /\ UNCHANGED closing
     \/ state[p] = "Running" /\ closing' = p /\ UNCHANGED <<life, state>>
     \/ state[p] = "Starting" /\ UNCHANGED <<life, state, closing>>
  /\ UNCHANGED <<content, speaker>>

\* close() returns once the program it has killed is dead; statusProcess is
\* emitted, and its handler hides the label.
Closed ==
  /\ ~GuiFree
  /\ life[closing] = "dead"
  /\ state' = [state EXCEPT ![closing] = "NotRunning"]
  /\ label' = [label EXCEPT ![closing] = FALSE]
  /\ closing' = Nothing
  /\ UNCHANGED <<life, content, speaker>>

\* The forked child executes the program, or finds that it cannot.
Exec(p) ==
  /\ life[p] = "forked"
  /\ \E fate \in {"alive", "not found"} : life' = [life EXCEPT ![p] = fate]
  /\ UNCHANGED <<state, label, closing, content, speaker>>

Die(p) ==
  /\ life[p] = "alive"
  /\ life' = [life EXCEPT ![p] = "dead"]
  /\ UNCHANGED <<state, label, closing, content, speaker>>

\* QProcess notices in the event loop; no handler is connected.
Started(p) ==
  /\ GuiFree
  /\ state[p] = "Starting" /\ life[p] # "forked"
  /\ state' = [state EXCEPT ![p] = IF life[p] = "not found" THEN "NotRunning" ELSE "Running"]
  /\ UNCHANGED <<life, label, closing, content, speaker>>

Finished(p) ==
  /\ GuiFree
  /\ state[p] = "Running" /\ life[p] = "dead"
  /\ state' = [state EXCEPT ![p] = "NotRunning"]
  /\ UNCHANGED <<life, label, closing, content, speaker>>
-----------------------------------------------------------------------------
\* Slip: the row of the button stays enabled.
SpeakerLeftEnabled ==
  /\ GuiFree /\ content /\ enabled
  /\ playing' = playing + 1
  /\ UNCHANGED <<launchers, content, enabled, answers, tested>>

\* The speaker button starts a task and disables itself with its row.
Speaker ==
  /\ GuiFree /\ content /\ enabled
  /\ playing' = playing + 1
  /\ enabled' = FALSE
  /\ UNCHANGED <<launchers, content, answers, tested>>

\* aplay is over: singleTestFinished("speaker") is posted.
Played ==
  /\ playing > 0
  /\ playing' = playing - 1
  /\ answers' = answers + 1
  /\ UNCHANGED <<launchers, content, enabled, tested>>

\* Slip: an answer that does not enable the button.
AnsweredQuietly ==
  /\ GuiFree /\ answers > 0
  /\ answers' = answers - 1
  /\ tested' = TRUE
  /\ UNCHANGED <<launchers, content, enabled, playing>>

\* parseSingleTest, for "speaker".
Answered ==
  /\ GuiFree /\ answers > 0
  /\ answers' = answers - 1
  /\ enabled' = TRUE /\ tested' = TRUE
  /\ UNCHANGED <<launchers, content, playing>>

\* The camera button: the content, the speaker button with it, gives way to the
\* video, or comes back.
Camera ==
  /\ GuiFree
  /\ content' = ~content
  /\ UNCHANGED <<launchers, speaker>>

ButtonsNext ==
  \/ \E p \in Programs : Launch(p) \/ Exec(p) \/ Die(p) \/ Started(p) \/ Finished(p)
  \/ Closed \/ Speaker \/ Played \/ Answered \/ Camera

ButtonsSpec == ButtonsInit /\ [][ButtonsNext]_buttonVars

\* The GUI thread runs and handles every posted event, however many clicks it
\* handles in between; aplay comes to the end of its sample; SIGKILL kills.
FairSpec ==
  /\ ButtonsSpec
  /\ WF_buttonVars(Closed) /\ WF_buttonVars(Played) /\ SF_buttonVars(Answered)
  /\ \A p \in Programs : WF_buttonVars(closing = p /\ Die(p))
-----------------------------------------------------------------------------
\* No program runs behind the user's back: whatever the order of clicks, starts
\* and deaths, a program that runs or is about to has its label.
LiveProgramIsLabelled == \A p \in Programs : life[p] \in {"forked", "alive"} => label[p]

\* At most one sound is played at a time, and the button is enabled exactly
\* when its last task has been answered.
SpeakerIsExclusive == playing + answers = IF enabled THEN 0 ELSE 1

\* Closing a program never costs the user the window, and the speaker button
\* comes back after every press.
WindowComesBack == (~GuiFree ~> GuiFree) /\ (~enabled ~> enabled)

\* The label RUNNING means that its process is running or starting, as far as
\* QProcess knows.
LabelMeansRunning == \A p \in Programs : label[p] => state[p] # "NotRunning"
=============================================================================
