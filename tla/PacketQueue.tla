------------------------------ MODULE PacketQueue ------------------------------
(***************************************************************************)
(* The queues between the threads of the VPU backend: AVPacketQueue and    *)
(* VideoPacketQueue of src/backends/vpu/vpu_decoder.{h,cpp}.  Each has a   *)
(* mutex and two conditions.  put() waits on a full queue and deque() on   *)
(* an empty one, both once: a thread that was woken goes on without        *)
(* looking again, and takes something that is no packet from a queue that  *)
(* was emptied meanwhile.                                                  *)
(*                                                                         *)
(* The operators below are parts of the threads' actions.  A thread that   *)
(* wakes up must get the mutex before it goes on: others may come first.   *)
(***************************************************************************)
EXTENDS Naturals, Sequences

CONSTANTS
  AudioCapacity, VideoCapacity, FramesCapacity,
  MaxSeeks,   \* bound of the checked instances on the number of seeks
  FilmLength  \* the number of packets in the file

ASSUME PacketQueueAssumption ==
  /\ {AudioCapacity, VideoCapacity, FramesCapacity} \subseteq Nat \ {0}
  /\ MaxSeeks \in Nat /\ FilmLength \in Nat

Threads == {"reader", "audio", "video", "main"}
Queues == {"audioPackets", "videoPackets", "videoFrames"}

\* capacity, as VpuMainThread::run sets it
Capacity(k) == CASE k = "audioPackets" -> AudioCapacity
                 [] k = "videoPackets" -> VideoCapacity
                 [] OTHER -> FramesCapacity

\* A packet of the film carries the number of seeks made before it was read and
\* its position; a frame is the packet it was decoded from.  junk is what
\* deque() returns from an empty queue: av_init_packet() leaves data unset.
Packet(kind, e, p) == [kind |-> kind, epoch |-> e, pos |-> p]
Nil == Packet("none", 0, 0)
eofPkt == Packet("eof", 0, 0)
flushPkt == Packet("flush", 0, 0)
junk == Packet("junk", 0, 0)
Packets == [kind : {"data", "eof", "flush", "junk", "none"}, epoch : 0 .. MaxSeeks,
            pos : 0 .. FilmLength]

VARIABLES
  data,    \* data, for each queue
  asleep,  \* for each thread the condition it waits on, if any
  woken    \* the threads that were woken and have not gone on yet

queueVars == <<data, asleep, woken>>

Awake == [queue |-> "none", cond |-> "none"]
Empty(k) == [queue |-> k, cond |-> "empty_cond"]
Full(k) == [queue |-> k, cond |-> "full_cond"]
Conditions == {Empty(k) : k \in Queues} \cup {Full(k) : k \in Queues}

QueueInit ==
  /\ data = [k \in Queues |-> <<>>]
  /\ asleep = [t \in Threads |-> Awake]
  /\ woken = {}

MayGo(t) == asleep[t] = Awake

\* wakeAll(), in a step of thread t, which is itself awake.
WakeAll(t, c) ==
  /\ asleep' = [u \in Threads |-> IF asleep[u] = c THEN Awake ELSE asleep[u]]
  /\ woken' = (woken \ {t}) \cup {u \in Threads : asleep[u] = c}

Sleep(t, c) ==
  /\ asleep' = [asleep EXCEPT ![t] = c]
  /\ UNCHANGED <<data, woken>>

FullPast(k) == Len(data[k]) > Capacity(k)
IsFull(k) == Len(data[k]) >= Capacity(k)

PutWaits(t, k) ==
  /\ MayGo(t)
  /\ IsFull(k) /\ t \notin woken
  /\ Sleep(t, Full(k))

\* The consumers of an empty queue are woken.
WakesProducer(k) == Full(k)
WokenByPut(k) == Empty(k)

PutCompletes(t, k, v) ==
  /\ MayGo(t)
  /\ ~IsFull(k) \/ t \in woken
  /\ data' = [data EXCEPT ![k] = Append(@, v)]
  /\ WakeAll(t, WokenByPut(k))

DequeWaits(t, k) ==
  /\ MayGo(t)
  /\ data[k] = <<>> /\ t \notin woken
  /\ Sleep(t, Empty(k))

\* The producers of a full queue are woken.
WakesConsumer(k) == Empty(k)
WokenByDeque(k) == Full(k)

\* The thread gets v.
DequeCompletes(t, k, v) ==
  /\ MayGo(t)
  /\ \/ /\ data[k] # <<>> /\ v = Head(data[k])
        /\ data' = [data EXCEPT ![k] = Tail(@)]
     \/ /\ data[k] = <<>> /\ t \in woken /\ v = junk
        /\ UNCHANGED data
  /\ WakeAll(t, WokenByDeque(k))

Flush(t, k) ==
  /\ MayGo(t)
  /\ data' = [data EXCEPT ![k] = <<>>]
  /\ WakeAll(t, Full(k))
=============================================================================
