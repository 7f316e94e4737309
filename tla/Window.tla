-------------------------------- MODULE Window --------------------------------
(***************************************************************************)
(* What pauses the film besides the user: the main window, which pauses it *)
(* when it is hidden and resumes it when it is shown (hideEvent and        *)
(* showEvent of src/common/mainwindow.cpp), and burst screenshots, which   *)
(* pause it, take a picture and step a frame by timer, and resume it when  *)
(* their dialog is closed.  Each of them toggles the pause from the state  *)
(* the program knows, which follows mpv's only when mpv has reported.      *)
(*                                                                         *)
(* The dialog is modal: while it is open the event loop runs inside the    *)
(* user's request, and the user makes no other.                            *)
(***************************************************************************)
EXTENDS Player

CONSTANTS
  PauseOnMinimize,  \* the setting of that name
  Shots             \* the number of pictures of a burst

ASSUME WindowAssumption ==
  /\ PauseOnMinimize \in BOOLEAN
  /\ Shots \in Nat \ {0}

VARIABLES
  visible,       \* the window is shown
  pausedOnHide,  \* MainWindow::_pausedOnHide
  dialog,        \* a BurstScreenshotsDialog is open
  shots,         \* its _count
  inBurst,       \* MpvProxy::_inBurstShotting
  timer,         \* _burstScreenshotTimer is active
  stepping,      \* mpv shows one frame and will pause again
  asked,         \* ghost: the user's last word was to pause
  overruled,     \* ghost: since then the closing of a dialog could go against it
  tidy           \* ghost: requests came when mpv had settled, the window was not
                 \* hidden behind an open dialog, and no dialog was closed early

burstVars == <<dialog, shots, inBurst, timer>>
windowVars == <<visible, pausedOnHide>>
allVars == <<vars, windowVars, burstVars, stepping, asked, overruled, tidy>>

WindowInit ==
  /\ Init
  /\ visible = TRUE
  /\ pausedOnHide = FALSE
  /\ dialog = FALSE
  /\ shots = 0
  /\ inBurst = FALSE
  /\ timer = FALSE
  /\ stepping = FALSE
  /\ asked = FALSE
  /\ overruled = FALSE
  /\ tidy = TRUE

-----------------------------------------------------------------------------

AllSettled == Settled /\ ~stepping
StaysTidy(well) == tidy' = (tidy /\ AllSettled /\ well)

\* A file that is ended is not stepped any more.
StepsOn == stepping' = (stepping /\ core' = "playing")

SetPause(p) ==
  /\ pause' = p
  /\ pauseChanged' = (pauseChanged \/ p # pause)

\* PlayerEngine::pauseResume()
Toggle == IF Idle THEN UNCHANGED <<pause, pauseChanged>> ELSE SetPause(state # "Paused")

\* What the steps of this module leave alone of the player.
playerRest == <<playlistVars, coreVars, events, state, thread, plan>>

-----------------------------------------------------------------------------
(* The window.                                                             *)

HideEvent ==
  /\ InLoop /\ visible
  /\ visible' = FALSE
  /\ IF PauseOnMinimize /\ state = "Playing"
     THEN pausedOnHide' = TRUE /\ Toggle
     ELSE UNCHANGED <<pausedOnHide, pause, pauseChanged>>
  /\ StaysTidy(~dialog)
  /\ UNCHANGED <<playerRest, fault, burstVars, stepping, asked, overruled>>

\* Whether showEvent() resumes the film, and what it remembers then.
ResumesAnyway == state # "Playing"
Resumes == pausedOnHide /\ state # "Playing"
StillRemembered == TRUE
RememberedAfter == FALSE

ShowEvent ==
  /\ InLoop /\ ~visible
  /\ visible' = TRUE
  /\ IF Resumes
     THEN pausedOnHide' = RememberedAfter /\ Toggle
     ELSE UNCHANGED <<pausedOnHide, pause, pauseChanged>>
  /\ StaysTidy(~dialog)
  /\ UNCHANGED <<playerRest, fault, burstVars, stepping, asked, overruled>>

-----------------------------------------------------------------------------
(* Burst screenshots.                                                      *)

FirstCount == 0

\* requestAction(BurstScreenshot): the dialog reads the current item's info, and
\* MpvProxy::burstScreenshot() begins unless a burst is going on or nothing plays.
\* It does not pause a film that the user paused, but its dialog will resume it.
OpenBurst ==
  /\ InLoop /\ visible /\ ~dialog
  /\ dialog' = TRUE
  /\ shots' = FirstCount
  /\ fault' = ReadCurrentInfo(infos, current)
  /\ IF inBurst \/ Idle
     THEN UNCHANGED <<inBurst, timer, pause, pauseChanged>>
     ELSE /\ IF state = "Paused" THEN UNCHANGED <<pause, pauseChanged>> ELSE Toggle
          /\ inBurst' = TRUE
          /\ timer' = TRUE
  /\ overruled' = (overruled \/ (asked /\ ~Idle))
  /\ StaysTidy(TRUE)
  /\ UNCHANGED <<playerRest, windowVars, stepping, asked>>

\* takeOneScreenshot() gives no picture when nothing is shown.
PictureThere == state # "Stopped" /\ core = "playing"

\* "frame-step": the file plays until it has shown a frame.
FrameStep ==
  IF core = "playing" /\ ~stopping
  THEN stepping' = TRUE /\ SetPause(FALSE)
  ELSE UNCHANGED <<stepping, pause, pauseChanged>>

\* OnScreenshot(): only an open dialog counts, and it ends the burst.
Uncounted == shots
Counted == IF dialog THEN shots + 1 ELSE shots
Enough == dialog /\ shots' >= Shots

\* stepBurstScreenshot(), in which the dialog counts the picture and may end the
\* burst; the timer is started again all the same, for one more step that does
\* nothing.
StepBurst ==
  /\ InLoop /\ timer
  /\ \/ /\ ~inBurst
        /\ timer' = FALSE
        /\ UNCHANGED <<shots, inBurst, stepping, pause, pauseChanged>>
     \/ /\ inBurst /\ ~PictureThere
        /\ inBurst' = FALSE
        /\ timer' = FALSE
        /\ UNCHANGED <<shots, stepping, pause, pauseChanged>>
     \/ /\ inBurst /\ PictureThere
        /\ shots' = Counted
        /\ inBurst' = ~Enough
        /\ FrameStep
        /\ timer' = TRUE
  /\ UNCHANGED <<playerRest, fault, dialog, windowVars, asked, overruled, tidy>>

\* The user closes the dialog, and requestAction() goes on: it toggles the pause,
\* whether the burst made it or not.
CloseDialog ==
  /\ InLoop /\ dialog
  /\ dialog' = FALSE
  /\ Toggle
  /\ StaysTidy(~inBurst)
  /\ UNCHANGED <<playerRest, fault, shots, inBurst, timer, windowVars, stepping, asked, overruled>>

-----------------------------------------------------------------------------

\* The player's own steps.  The user's word on the pause is void when nothing
\* plays any more.  A file that ends under a burst leaves the next one playing, and
\* the dialog, when it is closed, pauses it.
UserStep ==
  /\ User /\ visible /\ ~dialog
  /\ asked' = IF pause' # pause THEN pause' ELSE asked
  /\ overruled' = (overruled /\ pause' = pause)
  /\ StaysTidy(TRUE)
  /\ StepsOn
  /\ UNCHANGED <<windowVars, burstVars>>

EventStep ==
  /\ Handler \/ MpvStep
  /\ asked' = (asked /\ (core' = "idle" => pause'))
  /\ overruled' = (overruled \/ (dialog /\ core = "playing" /\ core' # "playing"))
  /\ StepsOn
  /\ UNCHANGED <<windowVars, burstVars, tidy>>

FrameStepped ==
  /\ stepping
  /\ stepping' = FALSE
  /\ SetPause(TRUE)
  /\ UNCHANGED <<playerRest, fault, windowVars, burstVars, asked, overruled, tidy>>

WindowNext ==
  \/ HideEvent
  \/ ShowEvent
  \/ OpenBurst
  \/ StepBurst
  \/ CloseDialog
  \/ UserStep
  \/ EventStep
  \/ FrameStepped

WindowSpec == WindowInit /\ [][WindowNext]_allVars

\* mpv, its events and the timer are served.
WindowFairness ==
  /\ WF_allVars(EventStep)
  /\ WF_allVars(FrameStepped)
  /\ WF_allVars(StepBurst)

FairWindowSpec == WindowSpec /\ WindowFairness

-----------------------------------------------------------------------------
(* Properties.                                                             *)

\* However often the window is hidden and shown and bursts are taken: in front of
\* the user the film is paused if that is what was asked for last, and plays if not,
\* provided that requests came when mpv had settled, and that since the user's last
\* word no burst was begun on the film the user had paused, and no film ended under
\* the dialog of one.  In these two cases requestAction() toggles a pause that the
\* burst had not made: the paused film plays, the next film is paused.
PlaysAsAsked ==
  tidy /\ ~overruled /\ InLoop /\ AllSettled /\ visible /\ ~dialog /\ ~inBurst /\ ~Idle =>
    (state = "Paused" <=> asked)

\* The window remembers that it paused the film only while it is hidden. Were it
\* to remember longer, a later showEvent() would undo a pause of the user.
RemembersWhileHidden == tidy /\ pausedOnHide => ~visible

\* A burst whose dialog stays open ends.
BurstEnds == (inBurst /\ dialog) ~> (~inBurst \/ ~dialog \/ fault # "none")
=============================================================================
