-------------------------------- MODULE Player --------------------------------
(***************************************************************************)
(* The player: PlaylistModel, PlayerEngine and MpvProxy, which run in one  *)
(* thread, over the mpv core, which runs beside them.                      *)
(*                                                                         *)
(* The main thread is either in Qt's event loop, where it takes one user   *)
(* request or one mpv event at a time, or it polls: waitLastEnd()          *)
(* (MpvProxy::pollingEndOfPlayback) takes events out of the queue and      *)
(* drops them until it meets the end of a file.                            *)
(*                                                                         *)
(* PlayerEngine::_state always follows MpvProxy::_state in the same step,  *)
(* so both are the variable state ("Stopped" is the engine's Idle).        *)
(***************************************************************************)
EXTENDS PlaylistModel, Mpv

CONSTANTS
  Patient,  \* the user only acts when mpv has settled
  UserOps   \* the requests the user makes in the checked instance

AllOps == {"next", "prev", "select", "remove", "clear", "append", "mode",
           "pause", "play"}

ASSUME PlayerAssumption ==
  /\ Patient \in BOOLEAN
  /\ UserOps \subseteq AllOps

VARIABLES
  state,   \* MpvProxy::_state
  thread,  \* "loop" or "poll"
  plan,    \* while it polls: what it does afterwards
  fault    \* the list access the program came to that has no such item, if any

vars == <<playlistVars, mpvVars, state, thread, plan, fault>>

Plans == [do : {"play", "stop", "clear", "nothing"}, last : Nat \cup {-1},
          current : Nat \cup {-1}, wait : BOOLEAN]

\* Every variable keeps its type: the state that the three classes share.
TypeOK ==
  /\ PlaylistTypeOK
  /\ MpvTypeOK
  /\ state \in {"Stopped", "Playing", "Paused"}
  /\ thread \in {"loop", "poll"}
  /\ plan \in Plans
  /\ fault \in {"none", "noCurrent", "staleCurrent", "noItem"}

Init ==
  /\ PlaylistInit
  /\ MpvInit
  /\ state = "Stopped"
  /\ thread = "loop"
  /\ plan = NoPlan
  /\ fault = "none"

-----------------------------------------------------------------------------
(* Pieces the handlers are made of.                                        *)

\* currentInfo() asserts that there is a current item, then takes it from _infos.
ReadCurrentInfo(list, i) ==
  CASE list = <<>> \/ i < 0 -> "noCurrent"
    [] list # <<>> /\ i >= Len(list) -> "staleCurrent"
    [] OTHER -> "none"

\* onBackendStateChanged() calls updateSubStyles(), which reads the info of
\* the current item unless the engine is idle.
SetState(s) ==
  /\ state' = s
  /\ fault' = IF s = state \/ s = "Stopped" THEN fault
              ELSE ReadCurrentInfo(infos, current)

\* requestPlay(): items()[id], and the file is handed to mpv.
RequestPlay(i) ==
  IF i \in Indices
  THEN Loadfile(Item(i)) /\ UNCHANGED fault
  ELSE fault' = "noItem" /\ UNCHANGED coreVars

\* What is left to do of a decision once nothing has to be waited for.
Finish(p) ==
  /\ thread' = "loop"
  /\ plan' = NoPlan
  /\ last' = p.last
  /\ current' = p.current
  /\ CASE p.do = "play" -> RequestPlay(p.current) /\ UNCHANGED listVars
       [] p.do = "clear" -> /\ infos' = <<>>
                            /\ StopCommand
                            /\ UNCHANGED <<playMode, playOrder, fault>>
       [] p.do = "stop" -> StopCommand /\ UNCHANGED <<listVars, fault>>
       [] OTHER -> UNCHANGED <<listVars, coreVars, fault>>

\* waitLastEnd() that does not send "stop".
WaitUnasked(p) ==
  /\ UNCHANGED coreVars
  /\ thread' = "poll"
  /\ plan' = p

\* waitLastEnd() on a player that is not stopped: "stop", and poll.
WaitLastEnd(p) ==
  /\ StopCommand
  /\ thread' = "poll"
  /\ plan' = p

\* A request of the user decided to do p.
Request(p) ==
  /\ IF p.wait /\ state # "Stopped"
     THEN WaitLastEnd(p) /\ UNCHANGED <<listVars, current, last, fault>>
     ELSE Finish(p)
  /\ UNCHANGED <<state, pause, events, pauseChanged>>

-----------------------------------------------------------------------------
(* Requests of the user, each one slot of the main thread.                 *)

InLoop == thread = "loop" /\ fault = "none"

UserMay(op) ==
  /\ InLoop
  /\ op \in UserOps
  /\ Patient => Settled

Idle == state = "Stopped"

\* PlayerEngine::next(), prev() and play()
PlayNext ==
  /\ UserMay("next")
  /\ count > 0
  /\ \E p \in NextPlans(TRUE, Idle) : Request(p)

PlayPrev ==
  /\ UserMay("prev")
  /\ count > 0
  /\ \E p \in PrevPlans(Idle) : Request(p)

StartPlay ==
  /\ UserMay("play")
  /\ Idle /\ count > 0
  /\ \E p \in NextPlans(TRUE, Idle) : Request(p)

\* playSelected() and playByName(), which both come to changeCurrent().
ChangeCurrent(pos) ==
  /\ UserMay("select")
  /\ pos \in Indices
  /\ Request(SelectPlan(pos))

\* remove(): the items behind the removed one move up.  Removing the current
\* item ends its playback; nothing else is played.  The main window then reads
\* the current item's info, unless the engine is idle or the list is empty.
RemoveItem(pos) ==
  /\ UserMay("remove")
  /\ pos \in Indices
  /\ infos' = RemoveAt(infos, pos + 1)
  /\ Reshuffle(playMode, count - 1)
  /\ UNCHANGED <<playMode, state, pause, events, pauseChanged>>
  /\ \/ /\ Idle
        /\ last' = -1
        /\ UNCHANGED <<current, coreVars, thread, plan, fault>>
     \/ /\ ~Idle /\ pos # current
        /\ current' = IndexAfterRemoval(current, pos)
        /\ last' = IF pos < current THEN LastWithin(current', count - 1) ELSE -1
        /\ fault' = IF count = 1 THEN fault ELSE ReadCurrentInfo(infos', current')
        /\ UNCHANGED <<coreVars, thread, plan>>
     \/ /\ ~Idle /\ pos = current
        /\ current' = -1
        /\ last' = LastWithin(pos, count - 1)
        /\ WaitLastEnd([NoPlan EXCEPT !.last = last'])
        /\ UNCHANGED fault

Clear ==
  /\ UserMay("clear")
  /\ Finish(ClearAll)
  /\ UNCHANGED <<state, pause, events, pauseChanged>>

AddPlayFile(url) ==
  /\ UserMay("append")
  /\ AppendUrl(url)
  /\ UNCHANGED <<mpvVars, state, thread, plan, fault>>

ChoosePlayMode(mode) ==
  /\ UserMay("mode")
  /\ SetPlayMode(mode)
  /\ UNCHANGED <<mpvVars, state, thread, plan, fault>>

\* pauseResume(): sets mpv's property from the state the program knows.
PauseResume ==
  /\ UserMay("pause")
  /\ ~Idle
  /\ pause' = (state # "Paused")
  /\ pauseChanged' = (pauseChanged \/ pause' # pause)
  /\ UNCHANGED <<playlistVars, coreVars, events, state, thread, plan, fault>>

User ==
  \/ PlayNext
  \/ PlayPrev
  \/ StartPlay
  \/ \E pos \in Indices : ChangeCurrent(pos) \/ RemoveItem(pos)
  \/ Clear
  \/ \E url \in Urls : AddPlayFile(url)
  \/ \E mode \in Modes : ChoosePlayMode(mode)
  \/ PauseResume

-----------------------------------------------------------------------------
(* handle_mpv_events(), one event.                                         *)

NextEvent(kind) ==
  /\ events # <<>>
  /\ Head(events) = kind
  /\ events' = Tail(events)

\* FILE_LOADED: the state, and fileLoaded(), on which the main window reads the
\* current item's info unless the list is empty.
OnFileLoaded ==
  /\ InLoop
  /\ NextEvent("loaded")
  /\ state' = "Playing"
  /\ fault' = IF state = "Playing" /\ count = 0 THEN fault
              ELSE ReadCurrentInfo(infos, current)
  /\ UNCHANGED <<playlistVars, coreVars, pause, pauseChanged, thread, plan>>

\* The slot of the playlist model for the engine's stateChanged(): an end that
\* nobody asked for means the file is over.  stop(), then the next item.
AdvanceAfterEnd ==
  IF count = 0
  THEN /\ current' = -1
       /\ UNCHANGED <<listVars, last, coreVars, thread, plan, fault>>
  ELSE \E p \in NextPlans(FALSE, TRUE) : Finish(p)

\* END_FILE and IDLE: the state; the playlist is told when it changes.
OnEnd(kind) ==
  /\ InLoop
  /\ NextEvent(kind)
  /\ state' = "Stopped"
  /\ IF state = "Stopped"
     THEN UNCHANGED <<playlistVars, coreVars, thread, plan, fault>>
     ELSE AdvanceAfterEnd
  /\ UNCHANGED <<pause, pauseChanged>>

\* A change of "pause" is reported when the queue is empty.  An idle core is
\* not left paused: the next file would not start.
NeverIdlePaused == FALSE
IdlePaused == pause /\ core = "idle"
AlwaysResumes == TRUE
MayResume == state # "Stopped"

OnPauseChanged ==
  /\ InLoop
  /\ events = <<>> /\ pauseChanged
  /\ IF IdlePaused
     THEN /\ pause' = FALSE
          /\ pauseChanged' = TRUE
          /\ UNCHANGED <<state, fault>>
     ELSE /\ pauseChanged' = FALSE
          /\ UNCHANGED pause
          /\ IF pause THEN SetState("Paused")
             ELSE IF MayResume THEN SetState("Playing")
             ELSE UNCHANGED <<state, fault>>
  /\ UNCHANGED <<playlistVars, coreVars, events, thread, plan>>

-----------------------------------------------------------------------------
(* pollingEndOfPlayback(), one event.                                      *)

Polling == thread = "poll"

PollDropsEvent ==
  /\ Polling
  /\ \/ /\ events # <<>> /\ Head(events) # "end"
        /\ events' = Tail(events)
        /\ UNCHANGED pauseChanged
     \/ /\ events = <<>> /\ pauseChanged
        /\ pauseChanged' = FALSE
        /\ UNCHANGED events
  /\ UNCHANGED <<playlistVars, coreVars, pause, state, thread, plan, fault>>

\* The playlist's slot ignores this end: the user asked for it.
PollMeetsEnd ==
  /\ Polling
  /\ NextEvent("end")
  /\ state' = "Stopped"
  /\ Finish(plan)
  /\ UNCHANGED <<pause, pauseChanged>>

Handler ==
  \/ OnFileLoaded
  \/ OnEnd("end")
  \/ OnEnd("idle")
  \/ OnPauseChanged
  \/ PollDropsEvent
  \/ PollMeetsEnd

MpvStep == MpvNext /\ UNCHANGED <<playlistVars, state, thread, plan, fault>>

Next == User \/ Handler \/ MpvStep

Spec == Init /\ [][Next]_vars

\* The event loop serves mpv, and mpv opens, fails or ends a file it was told
\* to; that a file plays to its end is not assumed of a paused one, nor that
\* the user does anything.
Fairness ==
  /\ WF_vars(Handler)
  /\ WF_vars(MpvStep)

FairSpec == Spec /\ Fairness

-----------------------------------------------------------------------------
(* Properties.                                                             *)

\* While the program believes that something plays, the end of a file is still
\* to come, so that pollingEndOfPlayback(), which leaves its loop at an end and
\* at nothing else, never waits for what cannot happen, whatever it drops.
EndWillCome == state # "Stopped" => EndIsDue

\* Once mpv has reported everything, the state the program derived from the
\* events, dropped ones included, is the state mpv is in.
SettledStateIsTrue ==
  InLoop /\ Settled =>
    state = IF core = "idle" THEN "Stopped" ELSE IF pause THEN "Paused" ELSE "Playing"

\* In shuffle mode the order is one of the present list, so that an item once
\* found in it has a next and a previous one that exist.
ShuffleOrderFitsList ==
  playMode = "ShufflePlay" /\ count > 0 =>
    playOrder \in Bijection(1 .. count, Indices)

\* The main thread comes back from every wait for the end of a file.
PollReturns == (thread = "poll") ~> (thread = "loop")

\* Left alone in ListLoop or ShufflePlay, a player that goes on playing plays
\* every item again and again, whatever the user and mpv did before: unless
\* requests made in haste left it with the ends of several files to read, each
\* of which it takes for the end of the last (see OneFileInFlight).
LoopPlaysEveryItem ==
  \A mode \in {"ListLoop", "ShufflePlay"}, url \in Urls :
    /\ <>[](playMode = mode /\ Contains(infos, url) /\ fault = "none" /\ FilesInFlight <= 1)
    /\ []<>(state = "Playing")
    /\ <>[][Handler \/ MpvStep]_vars
    => []<>(core = "playing" /\ file = url)

\* The player is a jukebox: the item _current points at is the one mpv plays.
ShownItem == IF current \in Indices THEN Item(current) ELSE None
PlayedFile == IF core = "playing" /\ ~stopping THEN file ELSE None
J == INSTANCE Jukebox WITH list <- infos, shown <- ShownItem, on <- PlayedFile
IsJukebox == J!Spec

\* An end on which the playlist moves on is the end of the file begun last: no
\* item the user has already chosen is skipped.
AdvanceOnlyAtLastEnd ==
  [][thread = "loop" /\ state # "Stopped" /\ state' = "Stopped" => core = "idle"]_vars

\* Whoever reads the info of the current item finds one.
CurrentInfoIsThere == fault \notin {"noCurrent", "staleCurrent"}

\* playlist_model.cpp asserts that currentInfo() is called with a current item.
CurrentInfoAsserted == fault # "noCurrent"

\* player_engine.h: the end of the last file is seen before the next is begun.
OneFileInFlight == FilesInFlight <= 1
=============================================================================
