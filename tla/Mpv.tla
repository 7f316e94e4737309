--------------------------------- MODULE Mpv ---------------------------------
(***************************************************************************)
(* The libmpv core as deepin-movie uses it (external: modelled from the    *)
(* commands MpvProxy sends, the properties it reads and the events it      *)
(* waits for).  The core runs in its own threads.  A command returns when  *)
(* the core has taken it, the file it ends or starts is reported later, in *)
(* a FIFO queue of events read with mpv_wait_event.  A change of an        *)
(* observed property is not queued but remembered in one bit, and reported *)
(* only when the queue is empty; the reader then asks for the value it has *)
(* at that moment.                                                         *)
(***************************************************************************)
EXTENDS Media, Integers, Sequences, FiniteSets

CONSTANTS
  LoadMayFail,  \* whether loading a file may end in an error
  MaxEvents     \* bound of the checked instances on the length of the queue

ASSUME MpvAssumption ==
  /\ LoadMayFail \in BOOLEAN
  /\ MaxEvents \in Nat

VARIABLES
  core,         \* what the core does with its file: nothing, opens it, plays it
  file,         \* the file the core is busy with
  stopping,     \* the core was told to end that file and has not yet
  nextFile,     \* the file it begins when it has
  pause,        \* the property "pause", which outlives the file
  events,       \* the queue of events nobody has read
  pauseChanged  \* a change of "pause" that nobody was told of

coreVars == <<core, file, stopping, nextFile>>
mpvVars == <<coreVars, pause, events, pauseChanged>>

Events == {"loaded", "end", "idle"}

MpvTypeOK ==
  /\ core \in {"idle", "loading", "playing"}
  /\ file \in Urls \cup {None}
  /\ stopping \in BOOLEAN
  /\ nextFile \in Urls \cup {None}
  /\ pause \in BOOLEAN
  /\ events \in Seq(Events)
  /\ pauseChanged \in BOOLEAN

MpvInit ==
  /\ core = "idle"
  /\ file = None
  /\ stopping = FALSE
  /\ nextFile = None
  /\ pause = FALSE
  /\ events = <<>>
  /\ pauseChanged = FALSE

-----------------------------------------------------------------------------
(* Commands, each a conjunct of an action of the program.                  *)

\* "loadfile <f>" (replace): begins f at once, or after the file it interrupts.
Loadfile(f) ==
  IF core = "idle"
  THEN /\ core' = "loading"
       /\ file' = f
       /\ UNCHANGED <<stopping, nextFile>>
  ELSE /\ stopping' = TRUE
       /\ nextFile' = f
       /\ UNCHANGED <<core, file>>

\* "stop": ends the file and empties mpv's own playlist; nothing to do when idle.
StopCommand ==
  IF core = "idle"
  THEN UNCHANGED coreVars
  ELSE /\ stopping' = TRUE
       /\ nextFile' = None
       /\ UNCHANGED <<core, file>>

-----------------------------------------------------------------------------
(* Steps of the core.                                                      *)

\* The file is ended: MPV_EVENT_END_FILE, then the next file or MPV_EVENT_IDLE.
EndOfFile ==
  /\ file' = nextFile
  /\ nextFile' = None
  /\ stopping' = FALSE
  /\ core' = IF nextFile = None THEN "idle" ELSE "loading"
  /\ events' = events \o (IF nextFile = None THEN <<"end", "idle">> ELSE <<"end">>)
  /\ pauseChanged' = TRUE
  /\ UNCHANGED pause

RoomForEvents == Len(events) + 2 <= MaxEvents

CoreFileLoaded ==
  /\ RoomForEvents
  /\ core = "loading" /\ ~stopping
  /\ core' = "playing"
  /\ events' = Append(events, "loaded")
  /\ pauseChanged' = TRUE
  /\ UNCHANGED <<file, stopping, nextFile, pause>>

CoreLoadFailed ==
  /\ RoomForEvents
  /\ LoadMayFail
  /\ core = "loading" /\ ~stopping
  /\ EndOfFile

CorePlayedToEnd ==
  /\ RoomForEvents
  /\ core = "playing" /\ ~stopping
  /\ ~pause
  /\ EndOfFile

CoreStopped ==
  /\ RoomForEvents
  /\ stopping
  /\ EndOfFile

MpvNext == CoreFileLoaded \/ CoreLoadFailed \/ CorePlayedToEnd \/ CoreStopped

\* The core has nothing to do but play on, and has reported everything.
Settled ==
  /\ events = <<>>
  /\ ~pauseChanged
  /\ ~stopping
  /\ core # "loading"

\* Some file was begun and its end has not been read from the queue.
EndIsDue == core # "idle" \/ \E i \in DOMAIN events : events[i] = "end"

\* The number of such files.
FilesInFlight ==
  Cardinality({i \in DOMAIN events : events[i] = "end"})
    + (IF core = "idle" THEN 0 ELSE 1)
=============================================================================
