------------------------------ MODULE VpuPipeline ------------------------------
(***************************************************************************)
(* Playback on the VPU backend (src/backends/vpu/vpu_decoder.cpp and       *)
(* vpu_proxy.cpp): four threads and three queues.                          *)
(*                                                                         *)
(*   reader  VpuMainThread::run: reads packets, seeks, ends the decoders   *)
(*   audio   AudioDecoder::run                                             *)
(*   video   VpuDecoder::loop                                              *)
(*   main    VpuProxy: shows the frames, asks for seeks, stops             *)
(*                                                                         *)
(* A packet carries the number of seeks made before it was read and its    *)
(* position in the film.  What the VPU does with a packet is a choice: a   *)
(* frame, no frame yet, or an end of decoding.                             *)
(***************************************************************************)
EXTENDS PacketQueue, Integers, FiniteSets

CONSTANTS
  MayStop,      \* whether the user stops
  FilmEnds,     \* whether av_read_frame() may report the end of the file
  DecodersFail  \* whether a decoder may end by itself

ASSUME VpuAssumption == {MayStop, FilmEnds, DecodersFail} \subseteq BOOLEAN

Decoders == {"audio", "video"}
PacketsOf(d) == IF d = "audio" THEN "audioPackets" ELSE "videoPackets"

VARIABLES
  at,           \* where each thread is
  inHand,       \* the packet each thread has in hand
  pos,          \* the position of the file
  epoch,        \* the number of seeks made
  seekPending,  \* _seekPending
  quitFlags,    \* VpuMainThread::_quitFlags
  decoded,      \* for each decoder, the last packet decoded since its last flush
  fault         \* a thread that was deleted while it ran, if any

readerVars == <<pos, epoch>>
vars == <<queueVars, at, inHand, readerVars, seekPending, quitFlags, decoded, fault>>

ReaderPlaces == {"loop", "read", "putAudio", "putVideo", "seekFlushVideo", "seekPutVideo",
                 "seekFlushAudio", "seekPutAudio", "seekFlushFrames", "joinAudio", "joinVideo",
                 "ended"}
AudioPlaces == {"loop", "handle", "ended"}
VideoPlaces == {"loop", "handle", "put", "ended"}
MainPlaces == {"loop", "deque", "stopFlushAudio", "stopPutAudio", "stopFlushVideo",
               "stopPutVideo", "stopFlushFrames", "stopQuit", "join", "stopped"}
Places == ReaderPlaces \cup AudioPlaces \cup VideoPlaces \cup MainPlaces

\* The queues, the places of the four threads and what they have in hand.
TypeOK ==
  /\ data \in [Queues -> Seq(Packets)]
  /\ asleep \in [Threads -> Conditions \cup {Awake}]
  /\ woken \subseteq Threads
  /\ at \in [Threads -> Places]
  /\ at["reader"] \in ReaderPlaces
  /\ at["audio"] \in AudioPlaces
  /\ at["video"] \in VideoPlaces
  /\ at["main"] \in MainPlaces
  /\ inHand \in [Threads -> Packets]
  /\ pos \in 0 .. FilmLength
  /\ epoch \in 0 .. MaxSeeks
  /\ seekPending \in BOOLEAN
  /\ quitFlags \in BOOLEAN
  /\ decoded \in [Decoders -> Packets]
  /\ fault \in {"none", "deletedRunning"}

\* A decoder may fail to initialise.
Init ==
  /\ QueueInit
  /\ \E failed \in SUBSET (IF DecodersFail THEN Decoders ELSE {}) :
       at = [t \in Threads |-> IF t \in failed THEN "ended" ELSE "loop"]
  /\ inHand = [t \in Threads |-> Nil]
  /\ pos = 0
  /\ epoch = 0
  /\ seekPending = FALSE
  /\ quitFlags = FALSE
  /\ decoded = [d \in Decoders |-> Nil]
  /\ fault = "none"

-----------------------------------------------------------------------------
(* Steps of a thread on a queue.                                           *)

Is(t, place) == fault = "none" /\ at[t] = place
Goes(t, place) == at' = [at EXCEPT ![t] = place]

PutThen(t, place, k, v, next) ==
  /\ Is(t, place)
  /\ \/ PutWaits(t, k) /\ UNCHANGED at
     \/ PutCompletes(t, k, v) /\ Goes(t, next)

FlushThen(t, place, k, next) ==
  /\ Is(t, place)
  /\ Flush(t, k)
  /\ Goes(t, next)

-----------------------------------------------------------------------------
(* reader                                                                  *)

ReaderQuits ==
  /\ Is("reader", "loop")
  /\ quitFlags
  /\ Goes("reader", "joinAudio")
  /\ UNCHANGED <<queueVars, inHand, readerVars, seekPending, quitFlags, decoded, fault>>

\* av_seek_frame() comes to a place it chooses, or fails.
ReaderSeeks ==
  /\ Is("reader", "loop")
  /\ ~quitFlags /\ seekPending
  /\ \/ /\ epoch < MaxSeeks
        /\ epoch' = epoch + 1
        /\ pos' \in 0 .. FilmLength
        /\ Goes("reader", "seekFlushVideo")
        /\ UNCHANGED seekPending
     \/ /\ seekPending' = FALSE
        /\ Goes("reader", "read")
        /\ UNCHANGED readerVars
  /\ UNCHANGED <<queueVars, inHand, quitFlags, decoded, fault>>

AfterFlushOfAudioEarly == "seekFlushFrames"
AfterFlushOfAudio == "seekPutAudio"

SeekFlushes ==
  /\ \/ FlushThen("reader", "seekFlushVideo", "videoPackets", "seekPutVideo")
     \/ PutThen("reader", "seekPutVideo", "videoPackets", flushPkt, "seekFlushAudio")
     \/ FlushThen("reader", "seekFlushAudio", "audioPackets", AfterFlushOfAudio)
     \/ PutThen("reader", "seekPutAudio", "audioPackets", flushPkt, "seekFlushFrames")
  /\ UNCHANGED <<inHand, readerVars, seekPending, quitFlags, decoded, fault>>

SeekEndsUnflushed ==
  /\ Is("reader", "seekFlushFrames")
  /\ Goes("reader", "read")
  /\ seekPending' = FALSE
  /\ UNCHANGED <<queueVars, inHand, readerVars, quitFlags, decoded, fault>>

SeekEnds ==
  /\ FlushThen("reader", "seekFlushFrames", "videoFrames", "read")
  /\ seekPending' = FALSE
  /\ UNCHANGED <<inHand, readerVars, quitFlags, decoded, fault>>

ReaderGoesOn ==
  /\ Is("reader", "loop")
  /\ ~quitFlags /\ ~seekPending
  /\ Goes("reader", "read")
  /\ UNCHANGED <<queueVars, inHand, readerVars, seekPending, quitFlags, decoded, fault>>

\* Nothing is read while one of the queues is full: the reader sleeps 10 ms.
MayRead == ~IsFull("audioPackets") /\ ~IsFull("videoPackets")

ReaderNaps ==
  /\ Is("reader", "read")
  /\ ~MayRead
  /\ Goes("reader", "loop")
  /\ UNCHANGED <<queueVars, inHand, readerVars, seekPending, quitFlags, decoded, fault>>

\* The packet is one of the audio or of the video stream; another is dropped.
ReaderReads ==
  /\ Is("reader", "read")
  /\ MayRead
  /\ pos < FilmLength
  /\ pos' = pos + 1
  /\ inHand' = [inHand EXCEPT !["reader"] = Packet("data", epoch, pos + 1)]
  /\ \E next \in {"putAudio", "putVideo", "loop"} : Goes("reader", next)
  /\ UNCHANGED <<queueVars, epoch, seekPending, quitFlags, decoded, fault>>

ReaderPuts ==
  /\ \/ PutThen("reader", "putAudio", "audioPackets", inHand["reader"], "loop")
     \/ PutThen("reader", "putVideo", "videoPackets", inHand["reader"], "loop")
  /\ UNCHANGED <<inHand, readerVars, seekPending, quitFlags, decoded, fault>>

\* At the end of the file, and when it cannot be read, the loop is left; no
\* eofPkt is put.
ReaderMeetsEnd ==
  /\ Is("reader", "read")
  /\ MayRead
  /\ FilmEnds
  /\ Goes("reader", "joinAudio")
  /\ UNCHANGED <<queueVars, inHand, readerVars, seekPending, quitFlags, decoded, fault>>

\* Ten seconds are long for packets that last one: when they are over, whoever
\* could go on has done so, and the decoders have ended or sleep.
TenSecondsOver ==
  /\ \A d \in Decoders : at[d] = "ended" \/ ~MayGo(d)
  /\ data["videoFrames"] = <<>> \/ at["main"] \notin {"loop", "deque"}

\* A decoder is waited for and deleted, whether it has ended or not.
JoinThen(place, d, next) ==
  /\ Is("reader", place)
  /\ IF at[d] = "ended"
     THEN Goes("reader", next) /\ UNCHANGED fault
     ELSE TenSecondsOver /\ fault' = "deletedRunning" /\ UNCHANGED at

ReaderJoins ==
  /\ \/ JoinThen("joinAudio", "audio", "joinVideo")
     \/ JoinThen("joinVideo", "video", "ended")
  /\ UNCHANGED <<queueVars, inHand, readerVars, seekPending, quitFlags, decoded>>

Reader ==
  \/ ReaderQuits
  \/ ReaderSeeks
  \/ SeekFlushes
  \/ SeekEnds
  \/ ReaderGoesOn
  \/ ReaderNaps
  \/ ReaderReads
  \/ ReaderPuts
  \/ ReaderMeetsEnd
  \/ ReaderJoins

-----------------------------------------------------------------------------
(* audio and video                                                         *)

TakePacket(d) ==
  /\ Is(d, "loop")
  /\ \/ DequeWaits(d, PacketsOf(d)) /\ UNCHANGED <<at, inHand>>
     \/ \E p \in Packets : /\ DequeCompletes(d, PacketsOf(d), p)
                           /\ inHand' = [inHand EXCEPT ![d] = p]
                           /\ Goes(d, "handle")
  /\ UNCHANGED <<readerVars, seekPending, quitFlags, decoded, fault>>

\* What the packet's data is taken for: what is no packet may pass for any.
Looks(d) == LET kind == inHand[d].kind IN
            IF kind = "junk" THEN {"data", "eof", "flush"} ELSE {kind}

MeetEof(d) ==
  /\ Is(d, "handle")
  /\ "eof" \in Looks(d)
  /\ Goes(d, "ended")
  /\ UNCHANGED <<queueVars, inHand, readerVars, seekPending, quitFlags, decoded, fault>>

\* avcodec_flush_buffers()
FlushCodec(d) ==
  /\ Is(d, "handle")
  /\ "flush" \in Looks(d)
  /\ decoded' = [decoded EXCEPT ![d] = Nil]
  /\ Goes(d, "loop")
  /\ UNCHANGED <<queueVars, inHand, readerVars, seekPending, quitFlags, fault>>

\* The packet is decoded.  A frame of the video is put into a queue of its own.
MakesFramesToo(d) == TRUE
MakesFrames(d) == d = "video"

Decode(d) ==
  /\ Is(d, "handle")
  /\ "data" \in Looks(d)
  /\ decoded' = IF inHand[d].kind = "data"
                THEN [decoded EXCEPT ![d] = inHand[d]] ELSE decoded
  /\ \/ Goes(d, "loop")
     \/ MakesFrames(d) /\ Goes(d, "put")
     \/ d = "video" /\ DecodersFail /\ Goes(d, "ended")
  /\ UNCHANGED <<queueVars, inHand, readerVars, seekPending, quitFlags, fault>>

\* sendFrame(), after which the VPU may have come to its end.
SendFrame ==
  /\ \/ PutThen("video", "put", "videoFrames", inHand["video"], "loop")
     \/ DecodersFail /\ PutThen("video", "put", "videoFrames", inHand["video"], "ended")
  /\ UNCHANGED <<inHand, readerVars, seekPending, quitFlags, decoded, fault>>

Decoder(d) == TakePacket(d) \/ MeetEof(d) \/ FlushCodec(d) \/ Decode(d)

-----------------------------------------------------------------------------
(* main                                                                    *)

\* video_refresh_timer() looks whether there is a frame, then takes it.
SeesFrameAlways == TRUE
SeesFrame == data["videoFrames"] # <<>>

Refresh ==
  /\ Is("main", "loop")
  /\ at["reader"] # "ended"
  /\ SeesFrame
  /\ Goes("main", "deque")
  /\ UNCHANGED <<queueVars, inHand, readerVars, seekPending, quitFlags, decoded, fault>>

ShowFrame ==
  /\ Is("main", "deque")
  /\ \/ DequeWaits("main", "videoFrames") /\ UNCHANGED <<at, inHand>>
     \/ \E p \in Packets : /\ DequeCompletes("main", "videoFrames", p)
                           /\ inHand' = [inHand EXCEPT !["main"] = p]
                           /\ Goes("main", "loop")
  /\ UNCHANGED <<readerVars, seekPending, quitFlags, decoded, fault>>

\* seekForward() and seekBackward(), while no seek is pending.
RequestSeek ==
  /\ Is("main", "loop")
  /\ ~seekPending /\ epoch < MaxSeeks
  /\ seekPending' = TRUE
  /\ UNCHANGED <<queueVars, at, inHand, readerVars, quitFlags, decoded, fault>>

\* stop(): no frame is shown any more; VpuMainThread::stop(), in its order.
BeginStop ==
  /\ Is("main", "loop")
  /\ MayStop
  /\ Goes("main", "stopFlushAudio")
  /\ UNCHANGED <<queueVars, inHand, readerVars, seekPending, quitFlags, decoded, fault>>

StopQueues ==
  /\ \/ FlushThen("main", "stopFlushAudio", "audioPackets", "stopPutAudio")
     \/ PutThen("main", "stopPutAudio", "audioPackets", eofPkt, "stopFlushVideo")
     \/ FlushThen("main", "stopFlushVideo", "videoPackets", "stopPutVideo")
     \/ PutThen("main", "stopPutVideo", "videoPackets", eofPkt, "stopFlushFrames")
     \/ FlushThen("main", "stopFlushFrames", "videoFrames", "stopQuit")
  /\ UNCHANGED <<inHand, readerVars, seekPending, quitFlags, decoded, fault>>

SetQuit ==
  /\ Is("main", "stopQuit")
  /\ quitFlags' = TRUE
  /\ Goes("main", "join")
  /\ UNCHANGED <<queueVars, inHand, readerVars, seekPending, decoded, fault>>

\* The reader is waited for and deleted.  stop() waits ten times a second and then
\* deletes it in any case; that it still runs by then is left out.
JoinReader ==
  /\ Is("main", "join")
  /\ at["reader"] = "ended"
  /\ Goes("main", "stopped")
  /\ UNCHANGED <<queueVars, inHand, readerVars, seekPending, quitFlags, decoded, fault>>

Main ==
  \/ Refresh
  \/ ShowFrame
  \/ StopQueues
  \/ SetQuit
  \/ JoinReader

Next ==
  \/ Reader
  \/ \E d \in Decoders : Decoder(d)
  \/ SendFrame
  \/ Main
  \/ RequestSeek
  \/ BeginStop

Spec == Init /\ [][Next]_vars

\* Each thread runs when it can; the user need not do anything.
Fairness ==
  /\ WF_vars(Reader)
  /\ WF_vars(Decoder("audio"))
  /\ WF_vars(Decoder("video") \/ SendFrame)
  /\ WF_vars(Main)

FairSpec == Spec /\ Fairness

-----------------------------------------------------------------------------
(* Properties.                                                             *)

Stopping == at["main"] \notin {"loop", "deque"}
Seeking == at["reader"] \in {"seekFlushVideo", "seekPutVideo", "seekFlushAudio", "seekPutAudio",
                             "seekFlushFrames"}

\* put() does not look again after its wait.  As long as one thread puts, no
\* queue ever holds more than its capacity; when stop() puts its eofPkt too,
\* one more.
QueuesBounded ==
  \A k \in Queues : Len(data[k]) <= Capacity(k) + IF Stopping THEN 1 ELSE 0

\* Until stop() empties the queues, flush marks included, a decoder is between two
\* flushes only given packets read after the same seek, in the order of the film:
\* nothing of before a seek is mixed into what comes after it.
DecodedInOrder ==
  [][\A d \in Decoders :
       ~Stopping /\ decoded'[d] # decoded[d] /\ decoded[d] # Nil /\ decoded'[d] # Nil
         => /\ decoded'[d].epoch = decoded[d].epoch
            /\ decoded'[d].pos > decoded[d].pos]_vars

\* After a seek at most one picture of before it can still be shown: the one the
\* video decoder was at work on.
Stale(p) == p.kind = "data" /\ p.epoch < epoch
OneStaleFrame ==
  ~Seeking =>
    Cardinality({i \in DOMAIN data["videoFrames"] : Stale(data["videoFrames"][i])})
      + (IF at["video"] \in {"handle", "put"} /\ Stale(inHand["video"]) THEN 1 ELSE 0) <= 1

\* The main thread looks before it takes a frame.  Only the flush of a seek can
\* come between and leave it asleep in the queue of frames.
SleepsOnlyAfterSeek == asleep["main"] = Empty("videoFrames") => epoch > 0

\* However full the queues get, no decoder is left for ever with packets that it
\* does not take, as long as it has not ended.
DecodersCatchUp ==
  \A d \in Decoders : []<>(data[PacketsOf(d)] = <<>> \/ at[d] = "ended")

\* A decoder whose eofPkt is there when stop() is done, and no seek is pending to
\* discard it, ends; the video decoder may sleep instead with a frame that nobody
\* will take.
EofEndsDecoders ==
  \A d \in Decoders :
    (at["main"] = "join" /\ ~seekPending /\ \E i \in DOMAIN data[PacketsOf(d)] :
                                                data[PacketsOf(d)][i] = eofPkt)
      ~> \/ at[d] = "ended"
         \/ d = "video" /\ asleep[d] = Full("videoFrames")
=============================================================================
