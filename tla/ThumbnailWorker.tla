---------------------------- MODULE ThumbnailWorker ----------------------------
(***************************************************************************)
(* The preview of the progress bar: class ThumbnailWorker, a thread that   *)
(* takes pictures out of the film (src/common/thumbnail_worker.cpp), and   *)
(* the two slots of ToolboxProxy that ask for a picture and show it        *)
(* (src/widgets/toolbox_proxy.cpp).                                        *)
(*                                                                         *)
(* The worker's signal thumbGenerated reaches the main thread through Qt's *)
(* queue; by the time its slot runs, the playlist and the cache may have   *)
(* changed.  Each critical section of _thumbLock is one step.              *)
(***************************************************************************)
EXTENDS Media, Integers, SequencesExt, FiniteSetsExt

CONSTANTS
  Secs,        \* the positions the mouse rests at
  Sizes,       \* the sizes pictures have, 0 when none could be taken
  Threshold,   \* SIZE_THRESHOLD
  MaxHovers,   \* bound of the checked instances on the number of requests
  MayEnd       \* whether the film may end, or the list be cleared

ASSUME ThumbnailAssumption ==
  /\ Sizes \subseteq Nat /\ IsFiniteSet(Sizes)
  /\ Threshold \in Nat
  /\ MaxHovers \in Nat
  /\ MayEnd \in BOOLEAN

VARIABLES
  wq,         \* _wq: requests, the newest first
  cache,      \* _cache: the pictures taken
  cacheSize,  \* _cacheSize
  quit,       \* _quit
  pc,         \* where the worker is
  work,       \* its request
  signals,    \* thumbGenerated signals not delivered yet
  shown,      \* the url of the playlist's current item
  hover,      \* the last request made (_lastHoverValue)
  preview,    \* the request whose picture is shown
  fault       \* what the main thread read that is not there, if anything

workerVars == <<cache, cacheSize, pc, work>>
mainVars == <<shown, hover, preview, fault>>
vars == <<workerVars, mainVars, wq, quit, signals>>

\* A request: a place in a film.  id tells requests for the same place apart.
Requests == [url : Urls, secs : Secs, id : 1 .. MaxHovers]
NoRequest == [url |-> None, secs |-> None, id |-> 0]
Pictures == [url : Urls, secs : Secs, size : Sizes]

\* The worker, its queue and its cache keep their types.
TypeOK ==
  /\ wq \in Seq(Requests)
  /\ cache \subseteq Pictures
  /\ cacheSize \in Nat
  /\ quit \in BOOLEAN
  /\ pc \in {"wait", "clean", "look", "generate", "emit", "ended"}
  /\ work \in Requests \cup {NoRequest}
  /\ signals \in Seq(Requests)
  /\ shown \in Urls \cup {None}
  /\ hover \in Requests \cup {NoRequest}
  /\ preview \in Requests \cup {NoRequest}
  /\ fault \in {"none", "noCurrent", "noPicture"}

Init ==
  /\ wq = <<>>
  /\ cache = {}
  /\ cacheSize = 0
  /\ quit = FALSE
  /\ pc = "wait"
  /\ work = NoRequest
  /\ signals = <<>>
  /\ shown \in Urls
  /\ hover = NoRequest
  /\ preview = NoRequest
  /\ fault = "none"

-----------------------------------------------------------------------------
(* The worker.                                                             *)

PictureOf(r) == {p \in cache : p.url = r.url /\ p.secs = r.secs}

\* The newest request is taken and the others are dropped.
RemainingKept == Tail(wq)
Remaining == <<>>
TakeWork ==
  /\ pc = "wait" /\ wq # <<>>
  /\ work' = Head(wq)
  /\ wq' = Remaining
  /\ pc' = "clean"
  /\ UNCHANGED <<cache, cacheSize, mainVars, quit, signals>>

\* _quit is read every 40 ms while the queue is empty, and before the work is done.
LeaveFromClean == {"clean"}
LeaveFrom == {"wait", "clean"}
Leave ==
  /\ quit
  /\ pc \in LeaveFrom
  /\ pc' = "ended"
  /\ wq' = <<>>
  /\ UNCHANGED <<cache, cacheSize, work, mainVars, quit, signals>>

Full == cacheSize > Threshold

CleanCache ==
  /\ pc = "clean" /\ ~quit
  /\ IF Full
     THEN cache' = {} /\ cacheSize' = 0
     ELSE UNCHANGED <<cache, cacheSize>>
  /\ pc' = "look"
  /\ UNCHANGED <<work, mainVars, wq, quit, signals>>

AnyGenerated(r) == \E p \in cache : p.url = r.url
isThumbGenerated(r) == PictureOf(r) # {}

LookUp ==
  /\ pc = "look"
  /\ pc' = IF isThumbGenerated(work) THEN "emit" ELSE "generate"
  /\ UNCHANGED <<cache, cacheSize, work, mainVars, wq, quit, signals>>

\* genThumb() without the lock, then the picture is entered under it.
NotGrown(size) == cacheSize
Shrunk(size) == cacheSize - size
Grown(size) == cacheSize + size
EnterThumb ==
  /\ pc = "generate"
  /\ \E size \in Sizes :
       /\ cache' = cache \cup {[url |-> work.url, secs |-> work.secs, size |-> size]}
       /\ cacheSize' = Grown(size)
  /\ pc' = "emit"
  /\ UNCHANGED <<work, mainVars, wq, quit, signals>>

EmitGenerated ==
  /\ pc = "emit"
  /\ signals' = Append(signals, work)
  /\ pc' = "wait"
  /\ UNCHANGED <<cache, cacheSize, work, mainVars, wq, quit>>

Worker == TakeWork \/ Leave \/ CleanCache \/ LookUp \/ EnterThumb \/ EmitGenerated

-----------------------------------------------------------------------------
(* The main thread.                                                        *)

\* requestThumb(): newest first.
QueuedLast(r) == Append(wq, r)
Queued(r) == <<r>> \o wq

\* progressHoverChanged(), unless the engine is idle.
Hover(secs) ==
  /\ fault = "none" /\ ~quit
  /\ shown # None
  /\ hover.id < MaxHovers
  /\ hover' = [url |-> shown, secs |-> secs, id |-> hover.id + 1]
  /\ wq' = Queued(hover')
  /\ UNCHANGED <<workerVars, shown, preview, fault, quit, signals>>

\* The playlist moves on, or there is no current item any more.
ChangeShown(url) ==
  /\ fault = "none" /\ ~quit
  /\ url # shown
  /\ url = None => MayEnd
  /\ shown' = url
  /\ UNCHANGED <<workerVars, hover, preview, fault, wq, quit, signals>>

\* updateHoverPreview(): asks for the current item's info, and for the picture.
\* getThumb() takes what find() gives for the position, found or not.
UpdateHoverPreview ==
  /\ fault = "none" /\ ~quit
  /\ signals # <<>>
  /\ signals' = Tail(signals)
  /\ LET r == Head(signals) IN
       CASE shown = None -> fault' = "noCurrent" /\ UNCHANGED preview
         [] shown # None /\ r.url # shown -> UNCHANGED <<fault, preview>>
         [] OTHER ->
              IF PictureOf(r) = {} /\ \E p \in cache : p.url = r.url
              THEN fault' = "noPicture" /\ UNCHANGED preview
              ELSE preview' = r /\ UNCHANGED fault
  /\ UNCHANGED <<workerVars, shown, hover, wq, quit>>

\* ~ToolboxProxy(): stop(), and no further slot of it runs.
Stop ==
  /\ fault = "none" /\ ~quit
  /\ quit' = TRUE
  /\ UNCHANGED <<workerVars, mainVars, wq, signals>>

Next ==
  \/ Worker
  \/ \E secs \in Secs : Hover(secs)
  \/ \E url \in Urls \cup {None} : ChangeShown(url)
  \/ UpdateHoverPreview
  \/ Stop

Spec == Init /\ [][Next]_vars

\* The worker's thread runs and Qt delivers queued signals.
FairSpec == Spec /\ WF_vars(Worker) /\ WF_vars(UpdateHoverPreview)

-----------------------------------------------------------------------------
(* Properties.                                                             *)

\* The pictures kept take no more room than the threshold and one picture more:
\* the size counted is the size there is, through every cleaning.
CacheIsBounded ==
  /\ cacheSize = MapThenSumSet(LAMBDA p : p.size, cache)
  /\ cacheSize <= Threshold + Max(Sizes \cup {0})

\* However hovering, generating and delivering interleave, no preview is ever
\* replaced by that of an earlier request.
PreviewsInOrder == [][preview'.id >= preview.id]_vars

InFlight(id) ==
  \/ \E i \in DOMAIN wq : wq[i].id = id
  \/ pc # "wait" /\ work.id = id
  \/ \E i \in DOMAIN signals : signals[i].id = id

\* When the mouse comes to rest, the picture for the place it rests at is shown,
\* unless the film changes or the player quits meanwhile.
LastHoverIsPreviewed ==
  \A id \in 1 .. MaxHovers :
    (hover.id = id /\ InFlight(id))
      ~> (preview.id = id \/ hover.id # id \/ shown # hover.url
            \/ fault # "none" \/ quit)

\* A worker that was told to quit ends, whatever it is doing.
QuitEnds == quit ~> (pc = "ended")

\* getThumb() comes to a place that is not in the cache only for a request that
\* is no longer the last one the worker took: cleaning came between.  What was
\* taken last is always found.
MissingOnlyIfOutdated ==
  [][fault' = "noPicture" /\ fault = "none" => Head(signals).id < work.id]_vars
=============================================================================
