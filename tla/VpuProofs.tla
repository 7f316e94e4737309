------------------------------ MODULE VpuProofs ------------------------------
(***************************************************************************)
(* Theorems about the VPU pipeline, for all capacities, every film and     *)
(* every number of seeks.                                                  *)
(***************************************************************************)
EXTENDS VpuPipeline, SequenceTheorems, FiniteSetTheorems, TLAPS

(***************************************************************************)
(* Types.                                                                  *)
(***************************************************************************)

\* The part of TypeOK about the queues, and that about places.
QueueTypeOK ==
  /\ data \in [Queues -> Seq(Packets)]
  /\ asleep \in [Threads -> Conditions \cup {Awake}]
  /\ woken \subseteq Threads

PlaceTypeOK ==
  /\ at \in [Threads -> Places]
  /\ at["reader"] \in ReaderPlaces
  /\ at["audio"] \in AudioPlaces
  /\ at["video"] \in VideoPlaces
  /\ at["main"] \in MainPlaces

RestTypeOK ==
  /\ inHand \in [Threads -> Packets]
  /\ pos \in 0 .. FilmLength
  /\ epoch \in 0 .. MaxSeeks
  /\ seekPending \in BOOLEAN
  /\ quitFlags \in BOOLEAN
  /\ decoded \in [Decoders -> Packets]
  /\ fault \in {"none", "deletedRunning"}

\* The three parts are TypeOK.
LEMMA TypeParts ==
  /\ TypeOK <=> QueueTypeOK /\ PlaceTypeOK /\ RestTypeOK
  /\ TypeOK' <=> QueueTypeOK' /\ PlaceTypeOK' /\ RestTypeOK'
BY DEF TypeOK, QueueTypeOK, PlaceTypeOK, RestTypeOK

\* The marks are packets.
LEMMA MarksType == {Nil, eofPkt, flushPkt, junk} \subseteq Packets
BY PacketQueueAssumption DEF Nil, eofPkt, flushPkt, junk, Packet, Packets

\* The conditions are told apart.
LEMMA ConditionsDiffer ==
  /\ \A k : Empty(k) # Awake /\ Full(k) # Awake
  /\ \A k, q : Empty(k) # Full(q) /\ (Full(k) = Full(q) => k = q)
BY DEF Empty, Full, Awake

\* Every operation on a queue leaves queues, sleepers and the woken well typed.
LEMMA QueueType ==
  ASSUME QueueTypeOK, NEW t \in Threads, NEW k \in Queues, NEW v \in Packets
  PROVE  /\ PutWaits(t, k) \/ DequeWaits(t, k) => QueueTypeOK'
         /\ PutCompletes(t, k, v) => QueueTypeOK'
         /\ DequeCompletes(t, k, v) => QueueTypeOK'
         /\ Flush(t, k) => QueueTypeOK'
<1>1. Full(k) \in Conditions /\ Empty(k) \in Conditions
  BY DEF Conditions
<1>2. \A c : WakeAll(t, c) =>
        asleep' \in [Threads -> Conditions \cup {Awake}] /\ woken' \subseteq Threads
  BY DEF WakeAll, QueueTypeOK
<1>3. PutWaits(t, k) \/ DequeWaits(t, k) => QueueTypeOK'
  BY <1>1 DEF PutWaits, DequeWaits, Sleep, QueueTypeOK
<1>4. PutCompletes(t, k, v) => QueueTypeOK'
  BY <1>2 DEF PutCompletes, QueueTypeOK
<1>5. DequeCompletes(t, k, v) => QueueTypeOK'
  <2>1. data[k] # <<>> => Tail(data[k]) \in Seq(Packets)
    BY HeadTailProperties DEF QueueTypeOK
  <2>2. QED
    BY <1>2, <2>1 DEF DequeCompletes, QueueTypeOK
<1>6. Flush(t, k) => QueueTypeOK'
  BY <1>2 DEF Flush, QueueTypeOK
<1>7. QED
  BY <1>3, <1>4, <1>5, <1>6

\* Before the threads run the types hold.
LEMMA TypeInit == Init => TypeOK
<1> SUFFICES ASSUME Init PROVE TypeOK
  OBVIOUS
<1>1. QueueTypeOK
  BY DEF Init, QueueInit, QueueTypeOK
<1>2. PlaceTypeOK
  <2>1. PICK failed \in SUBSET (IF DecodersFail THEN Decoders ELSE {}) :
          at = [t \in Threads |-> IF t \in failed THEN "ended" ELSE "loop"]
    BY DEF Init
  <2>2. "reader" \notin failed /\ "main" \notin failed
    BY <2>1 DEF Decoders
  <2>3. QED
    BY <2>1, <2>2 DEF PlaceTypeOK, Places, Threads, ReaderPlaces, AudioPlaces, VideoPlaces, MainPlaces
<1>3. RestTypeOK
  <2>1. Nil \in Packets /\ 0 \in 0 .. FilmLength /\ 0 \in 0 .. MaxSeeks
    BY MarksType, PacketQueueAssumption
  <2>2. QED
    BY <2>1 DEF Init, RestTypeOK
<1>4. QED
  BY <1>1, <1>2, <1>3, TypeParts

\* A thread that goes on leaves the others where they are.
LEMMA GoesPlaces ==
  ASSUME PlaceTypeOK, NEW t \in Threads, NEW place \in Places, Goes(t, place)
  PROVE  /\ at' \in [Threads -> Places]
         /\ at'[t] = place
         /\ \A u \in Threads \ {t} : at'[u] = at[u]
BY DEF PlaceTypeOK, Goes

\* Putting, and flushing, then going on.
LEMMA PutThenType ==
  ASSUME TypeOK, NEW t \in Threads, NEW place, NEW k \in Queues, NEW v \in Packets, NEW next,
         PutThen(t, place, k, v, next)
  PROVE  QueueTypeOK' /\ (at' = at \/ Goes(t, next))
BY TypeParts, QueueType DEF PutThen

LEMMA FlushThenType ==
  ASSUME TypeOK, NEW t \in Threads, NEW place, NEW k \in Queues, NEW next,
         FlushThen(t, place, k, next)
  PROVE  QueueTypeOK' /\ Goes(t, next)
BY TypeParts, QueueType, MarksType DEF FlushThen

\* No step of a thread breaks the types.
LEMMA TypeStep == TypeOK /\ [Next]_vars => TypeOK'
<1> SUFFICES ASSUME TypeOK, [Next]_vars PROVE TypeOK'
  OBVIOUS
<1> USE DEF Threads, Queues, Decoders
<1>a. QueueTypeOK /\ PlaceTypeOK /\ RestTypeOK
  BY TypeParts
<1>b. UNCHANGED queueVars => QueueTypeOK'
  BY <1>a DEF QueueTypeOK, queueVars
<1>c. \A p \in ReaderPlaces : Goes("reader", p) => PlaceTypeOK'
  BY <1>a, GoesPlaces DEF PlaceTypeOK, Places, ReaderPlaces
<1>d. \A p \in AudioPlaces : Goes("audio", p) => PlaceTypeOK'
  BY <1>a, GoesPlaces DEF PlaceTypeOK, Places, AudioPlaces
<1>e. \A p \in VideoPlaces : Goes("video", p) => PlaceTypeOK'
  BY <1>a, GoesPlaces DEF PlaceTypeOK, Places, VideoPlaces
<1>f. \A p \in MainPlaces : Goes("main", p) => PlaceTypeOK'
  BY <1>a, GoesPlaces DEF PlaceTypeOK, Places, MainPlaces
<1>g. UNCHANGED at => PlaceTypeOK'
  BY <1>a DEF PlaceTypeOK
<1>1. CASE ReaderQuits
  BY <1>1, <1>a, <1>b, <1>c, TypeParts DEF ReaderQuits, RestTypeOK, readerVars, ReaderPlaces
<1>2. CASE ReaderSeeks
  <2>1. QueueTypeOK' /\ PlaceTypeOK'
    BY <1>2, <1>b, <1>c DEF ReaderSeeks, ReaderPlaces
  <2>2. RestTypeOK'
    <3>1. epoch < MaxSeeks => epoch + 1 \in 0 .. MaxSeeks
      BY <1>a, PacketQueueAssumption DEF RestTypeOK
    <3>2. QED
      BY <1>2, <1>a, <3>1 DEF ReaderSeeks, RestTypeOK, readerVars
  <2>3. QED
    BY <2>1, <2>2, TypeParts
<1>3. CASE SeekFlushes
  <2>1. RestTypeOK'
    BY <1>3, <1>a DEF SeekFlushes, RestTypeOK, readerVars
  <2>2. QueueTypeOK' /\ PlaceTypeOK'
    BY <1>3, <1>c, <1>g, PutThenType, FlushThenType, MarksType
       DEF SeekFlushes, AfterFlushOfAudio, ReaderPlaces
  <2>3. QED
    BY <2>1, <2>2, TypeParts
<1>4. CASE SeekEnds
  <2>1. RestTypeOK'
    BY <1>4, <1>a DEF SeekEnds, RestTypeOK, readerVars
  <2>2. QueueTypeOK' /\ PlaceTypeOK'
    BY <1>4, <1>c, FlushThenType DEF SeekEnds, ReaderPlaces
  <2>3. QED
    BY <2>1, <2>2, TypeParts
<1>5. CASE ReaderGoesOn
  BY <1>5, <1>a, <1>b, <1>c, TypeParts DEF ReaderGoesOn, RestTypeOK, readerVars, ReaderPlaces
<1>6. CASE ReaderNaps
  BY <1>6, <1>a, <1>b, <1>c, TypeParts DEF ReaderNaps, RestTypeOK, readerVars, ReaderPlaces
<1>7. CASE ReaderReads
  <2>1. QueueTypeOK' /\ PlaceTypeOK'
    BY <1>7, <1>b, <1>c DEF ReaderReads, ReaderPlaces
  <2>2. pos' \in 0 .. FilmLength /\ Packet("data", epoch, pos + 1) \in Packets
    BY <1>7, <1>a, PacketQueueAssumption DEF ReaderReads, RestTypeOK, Packet, Packets
  <2>3. RestTypeOK'
    BY <1>7, <1>a, <2>2 DEF ReaderReads, RestTypeOK
  <2>4. QED
    BY <2>1, <2>3, TypeParts
<1>8. CASE ReaderPuts
  <2>1. RestTypeOK'
    BY <1>8, <1>a DEF ReaderPuts, RestTypeOK, readerVars
  <2>2. inHand["reader"] \in Packets
    BY <1>a DEF RestTypeOK
  <2>3. QueueTypeOK' /\ PlaceTypeOK'
    BY <1>8, <1>c, <1>g, <2>2, PutThenType DEF ReaderPuts, ReaderPlaces
  <2>4. QED
    BY <2>1, <2>3, TypeParts
<1>9. CASE ReaderMeetsEnd
  BY <1>9, <1>a, <1>b, <1>c, TypeParts DEF ReaderMeetsEnd, RestTypeOK, readerVars, ReaderPlaces
<1>10. CASE ReaderJoins
  <2>1. QueueTypeOK' /\ PlaceTypeOK'
    BY <1>10, <1>b, <1>c, <1>g DEF ReaderJoins, JoinThen, ReaderPlaces
  <2>2. RestTypeOK'
    BY <1>10, <1>a DEF ReaderJoins, JoinThen, RestTypeOK, readerVars
  <2>3. QED
    BY <2>1, <2>2, TypeParts
<1>11. ASSUME NEW d \in Decoders, TakePacket(d) PROVE TypeOK'
  <2>0. PacketsOf(d) \in Queues /\ d \in Threads
    BY DEF PacketsOf
  <2>1. CASE DequeWaits(d, PacketsOf(d)) /\ UNCHANGED <<at, inHand>>
    BY <1>11, <1>a, <1>g, <2>0, <2>1, QueueType, MarksType, TypeParts
       DEF TakePacket, RestTypeOK, readerVars
  <2>2. ASSUME NEW p \in Packets, DequeCompletes(d, PacketsOf(d), p),
               inHand' = [inHand EXCEPT ![d] = p], Goes(d, "handle")
        PROVE  TypeOK'
    <3>1. QueueTypeOK'
      BY <1>a, <2>0, <2>2, QueueType
    <3>2. PlaceTypeOK'
      BY <1>d, <1>e, <2>2 DEF AudioPlaces, VideoPlaces
    <3>3. RestTypeOK'
      BY <1>11, <1>a, <2>2 DEF TakePacket, RestTypeOK, readerVars
    <3>4. QED
      BY <3>1, <3>2, <3>3, TypeParts
  <2>3. QED
    BY <1>11, <2>1, <2>2 DEF TakePacket
<1>12. ASSUME NEW d \in Decoders, MeetEof(d) PROVE TypeOK'
  BY <1>12, <1>a, <1>b, <1>d, <1>e, TypeParts
     DEF MeetEof, RestTypeOK, readerVars, AudioPlaces, VideoPlaces
<1>13. ASSUME NEW d \in Decoders, FlushCodec(d) PROVE TypeOK'
  BY <1>13, <1>a, <1>b, <1>d, <1>e, TypeParts, MarksType
     DEF FlushCodec, RestTypeOK, readerVars, AudioPlaces, VideoPlaces
<1>14. ASSUME NEW d \in Decoders, Decode(d) PROVE TypeOK'
  <2>1. QueueTypeOK'
    BY <1>14, <1>b DEF Decode
  <2>2. PlaceTypeOK'
    BY <1>14, <1>d, <1>e DEF Decode, MakesFrames, AudioPlaces, VideoPlaces
  <2>3. RestTypeOK'
    BY <1>14, <1>a DEF Decode, RestTypeOK, readerVars
  <2>4. QED
    BY <2>1, <2>2, <2>3, TypeParts
<1>15. CASE SendFrame
  <2>1. inHand["video"] \in Packets
    BY <1>a DEF RestTypeOK
  <2>2. QueueTypeOK' /\ PlaceTypeOK'
    BY <1>15, <1>e, <1>g, <2>1, PutThenType DEF SendFrame, VideoPlaces
  <2>3. RestTypeOK'
    BY <1>15, <1>a DEF SendFrame, RestTypeOK, readerVars
  <2>4. QED
    BY <2>2, <2>3, TypeParts
<1>16. CASE Refresh
  BY <1>16, <1>a, <1>b, <1>f, TypeParts DEF Refresh, RestTypeOK, readerVars, MainPlaces
<1>17. CASE ShowFrame
  <2>1. CASE DequeWaits("main", "videoFrames") /\ UNCHANGED <<at, inHand>>
    BY <1>17, <1>a, <1>g, <2>1, QueueType, MarksType, TypeParts
       DEF ShowFrame, RestTypeOK, readerVars
  <2>2. ASSUME NEW p \in Packets, DequeCompletes("main", "videoFrames", p),
               inHand' = [inHand EXCEPT !["main"] = p], Goes("main", "loop")
        PROVE  TypeOK'
    <3>1. QueueTypeOK' /\ PlaceTypeOK'
      BY <1>a, <1>f, <2>2, QueueType DEF MainPlaces
    <3>2. RestTypeOK'
      BY <1>17, <1>a, <2>2 DEF ShowFrame, RestTypeOK, readerVars
    <3>3. QED
      BY <3>1, <3>2, TypeParts
  <2>3. QED
    BY <1>17, <2>1, <2>2 DEF ShowFrame
<1>18. CASE RequestSeek
  BY <1>18, <1>a, <1>b, <1>g, TypeParts DEF RequestSeek, RestTypeOK, readerVars
<1>19. CASE BeginStop
  BY <1>19, <1>a, <1>b, <1>f, TypeParts DEF BeginStop, RestTypeOK, readerVars, MainPlaces
<1>20. CASE StopQueues
  <2>1. RestTypeOK'
    BY <1>20, <1>a DEF StopQueues, RestTypeOK, readerVars
  <2>2. QueueTypeOK' /\ PlaceTypeOK'
    BY <1>20, <1>f, <1>g, PutThenType, FlushThenType, MarksType DEF StopQueues, MainPlaces
  <2>3. QED
    BY <2>1, <2>2, TypeParts
<1>21. CASE SetQuit
  BY <1>21, <1>a, <1>b, <1>f, TypeParts DEF SetQuit, RestTypeOK, readerVars, MainPlaces
<1>22. CASE JoinReader
  BY <1>22, <1>a, <1>b, <1>f, TypeParts DEF JoinReader, RestTypeOK, readerVars, MainPlaces
<1>23. CASE UNCHANGED vars
  BY <1>23 DEF vars, queueVars, readerVars, TypeOK
<1>24. QED
  BY <1>1, <1>2, <1>3, <1>4, <1>5, <1>6, <1>7, <1>8, <1>9, <1>10, <1>11, <1>12, <1>13, <1>14,
     <1>15, <1>16, <1>17, <1>18, <1>19, <1>20, <1>21, <1>22, <1>23
     DEF Next, Reader, Decoder, Main

\* The queues, the places of the threads and what they have in hand keep their types.
THEOREM TypeCorrect == Spec => []TypeOK
<1>1. Init => TypeOK
  BY TypeInit
<1>2. TypeOK /\ [Next]_vars => TypeOK'
  BY TypeStep
<1>3. QED
  BY <1>1, <1>2, PTL DEF Spec

(***************************************************************************)
(* The bound of the queues.                                                *)
(***************************************************************************)

\* The queue a thread puts into at its place.
Puts(t, k) ==
  \/ t = "reader" /\ k = "audioPackets" /\ at[t] \in {"putAudio", "seekPutAudio"}
  \/ t = "reader" /\ k = "videoPackets" /\ at[t] \in {"putVideo", "seekPutVideo"}
  \/ t = "video" /\ k = "videoFrames" /\ at[t] = "put"

\* stop() has put its mark into the queue.
Marked(k) ==
  \/ k = "audioPackets" /\ at["main"] \in {"stopFlushVideo", "stopPutVideo", "stopFlushFrames",
                                          "stopQuit", "join", "stopped"}
  \/ k = "videoPackets" /\ at["main"] \in {"stopFlushFrames", "stopQuit", "join", "stopped"}

\* What put() can leave in a queue.
Room(k) == Capacity(k) + IF Marked(k) THEN 1 ELSE 0

Bounded == \A k \in Queues : Len(data[k]) <= Room(k)

\* The reader looked at both queues before it read the packet, or flushed the
\* queue: there is room, unless stop() has put its mark since.
ReaderHasRoom ==
  \A k \in Queues : Puts("reader", k) /\ ~Marked(k) => Len(data[k]) < Capacity(k)

\* So the reader only waits, and is only woken, in a marked queue.
ReaderSleeps ==
  /\ asleep["reader"] # Awake =>
       \E k \in Queues : asleep["reader"] = Full(k) /\ Puts("reader", k) /\ Marked(k)
  /\ "reader" \in woken => \E k \in Queues : Puts("reader", k) /\ Marked(k)

\* Where the video decoder can wait; it does not handle a packet as one woken.
VideoSleeps ==
  /\ asleep["video"] # Awake =>
       \/ at["video"] = "loop" /\ asleep["video"] = Empty("videoPackets")
       \/ at["video"] = "put" /\ asleep["video"] = Full("videoFrames")
  /\ at["video"] = "handle" => "video" \notin woken

\* Who was woken and does not look again has room all the same.
WokenHasRoom ==
  \A t \in {"reader", "video"}, k \in Queues :
    Puts(t, k) /\ t \in woken => Len(data[k]) < Room(k)

\* The inductive invariant.
IInv == Bounded /\ ReaderHasRoom /\ ReaderSleeps /\ VideoSleeps /\ WokenHasRoom

\* Taking from a queue, or emptying it, for the bound.
TakeEffect(t, k) ==
  /\ asleep[t] = Awake
  /\ \A q \in Queues \ {k} : Len(data'[q]) = Len(data[q])
  /\ Len(data'[k]) < Len(data[k]) \/ Len(data'[k]) = 0
  /\ WakeAll(t, Full(k))

\* Putting into a queue, for the bound.
PutEffect(t, k) ==
  /\ asleep[t] = Awake
  /\ \A q \in Queues \ {k} : Len(data'[q]) = Len(data[q])
  /\ Len(data'[k]) = Len(data[k]) + 1
  /\ Len(data[k]) < Capacity(k) \/ t \in woken
  /\ WakeAll(t, Empty(k))

\* Lengths and capacities are numbers, and no capacity is 0.
LEMMA Numbers ==
  /\ \A k \in Queues : Capacity(k) \in Nat \ {0}
  /\ TypeOK => \A k \in Queues : Len(data[k]) \in Nat
  /\ TypeOK' => \A k \in Queues : Len(data'[k]) \in Nat
<1>1. \A k \in Queues : Capacity(k) \in Nat \ {0}
  BY PacketQueueAssumption DEF Queues, Capacity
<1>2. TypeOK => \A k \in Queues : Len(data[k]) \in Nat
  BY LenProperties DEF TypeOK
<1>3. TypeOK' => \A k \in Queues : Len(data'[k]) \in Nat
  BY LenProperties DEF TypeOK
<1>4. QED
  BY <1>1, <1>2, <1>3

\* deque() and flush() have the first effect, put() the second.
LEMMA Effects ==
  ASSUME TypeOK, NEW t \in Threads, NEW k \in Queues, NEW v \in Packets
  PROVE  /\ DequeCompletes(t, k, v) => TakeEffect(t, k)
         /\ Flush(t, k) => TakeEffect(t, k) /\ Len(data'[k]) = 0
         /\ PutCompletes(t, k, v) => PutEffect(t, k)
<1>1. data \in [Queues -> Seq(Packets)]
  BY DEF TypeOK
<1>2. DequeCompletes(t, k, v) => TakeEffect(t, k)
  <2>1. ASSUME data[k] # <<>> PROVE Len(Tail(data[k])) < Len(data[k])
    BY <1>1, <2>1, HeadTailProperties, LenProperties
  <2>2. Len(<<>>) = 0
    OBVIOUS
  <2>3. QED
    BY <1>1, <2>1, <2>2 DEF DequeCompletes, TakeEffect, MayGo, WokenByDeque
<1>3. Flush(t, k) => TakeEffect(t, k) /\ Len(data'[k]) = 0
  BY <1>1 DEF Flush, TakeEffect, MayGo
<1>4. PutCompletes(t, k, v) => PutEffect(t, k)
  <2>1. Len(Append(data[k], v)) = Len(data[k]) + 1
    BY <1>1, AppendProperties
  <2>2. Len(data[k]) \in Nat /\ Capacity(k) \in Nat
    BY Numbers
  <2>3. QED
    BY <1>1, <2>1, <2>2 DEF PutCompletes, PutEffect, MayGo, WokenByPut, IsFull
<1>5. QED
  BY <1>2, <1>3, <1>4

\* Who takes from a queue, or empties it, keeps the invariant, unless it goes on
\* to put into another queue.
LEMMA TakeKeeps ==
  ASSUME TypeOK, TypeOK', IInv, NEW t \in Threads, NEW k \in Queues, TakeEffect(t, k),
         \A q \in Queues : Marked(q)' <=> Marked(q),
         \A u \in {"reader", "video"} \ {t} : at'[u] = at[u],
         t = "reader" => \A q \in Queues : Puts("reader", q)' => q = k /\ Len(data'[k]) = 0,
         t = "video" => at'["video"] = "handle"
  PROVE  IInv'
<1> USE Numbers
<1>1. \A u \in Threads :
        /\ asleep'[u] = IF asleep[u] = Full(k) THEN Awake ELSE asleep[u]
        /\ u \in woken' <=> (u \in woken /\ u # t) \/ asleep[u] = Full(k)
  BY DEF TakeEffect, WakeAll
<1>2. asleep[t] = Awake /\ asleep'[t] = Awake /\ t \notin woken'
  BY <1>1, ConditionsDiffer DEF TakeEffect
<1>3. \A q \in Queues : Len(data'[q]) <= Len(data[q]) \/ Len(data'[q]) = 0
  BY DEF TakeEffect
<1>4. \A q \in Queues : Room(q)' = Room(q) /\ Room(q) \in Nat \ {0}
  BY DEF Room
<1>5. \A u \in {"reader", "video"} \ {t}, q \in Queues : Puts(u, q)' <=> Puts(u, q)
  BY DEF Puts
<1>6. Bounded'
  BY <1>3, <1>4 DEF IInv, Bounded
<1>7. ReaderHasRoom'
  <2>1. SUFFICES ASSUME NEW q \in Queues, Puts("reader", q)', ~Marked(q)'
                 PROVE  Len(data'[q]) < Capacity(q)
    BY DEF ReaderHasRoom
  <2>2. CASE t = "reader"
    BY <2>1, <2>2
  <2>3. CASE t # "reader"
    BY <1>3, <1>5, <2>1, <2>3 DEF IInv, ReaderHasRoom
  <2>4. QED
    BY <2>2, <2>3
<1>8. ReaderSleeps'
  <2>1. CASE t = "reader"
    BY <1>2, <2>1 DEF ReaderSleeps
  <2>2. CASE t # "reader"
    BY <1>1, <1>5, <2>2, ConditionsDiffer DEF IInv, ReaderSleeps, Threads
  <2>3. QED
    BY <2>1, <2>2
<1>9. VideoSleeps'
  <2>1. CASE t = "video"
    BY <1>2, <2>1 DEF VideoSleeps
  <2>2. CASE t # "video"
    BY <1>1, <2>2, ConditionsDiffer DEF IInv, VideoSleeps, Threads
  <2>3. QED
    BY <2>1, <2>2
<1>10. WokenHasRoom'
  <2>1. SUFFICES ASSUME NEW u \in {"reader", "video"}, NEW q \in Queues, Puts(u, q)', u \in woken'
                 PROVE  Len(data'[q]) < Room(q)'
    BY DEF WokenHasRoom
  <2>2. u # t /\ u \in Threads /\ Puts(u, q)
    BY <1>2, <1>5, <2>1 DEF Threads
  <2>3. CASE u \in woken
    BY <1>3, <1>4, <2>2, <2>3 DEF IInv, WokenHasRoom
  <2>4. CASE asleep[u] = Full(k)
    <3>1. q = k
      BY <2>2, <2>4, ConditionsDiffer DEF IInv, ReaderSleeps, VideoSleeps, Puts
    <3>2. QED
      BY <1>4, <1>6, <3>1 DEF TakeEffect, IInv, Bounded
  <2>5. QED
    BY <1>1, <2>1, <2>2, <2>3, <2>4
<1>11. QED
  BY <1>6, <1>7, <1>8, <1>9, <1>10 DEF IInv

\* So does who puts into a queue, of which stop() makes the bound one more.
LEMMA PutKeeps ==
  ASSUME TypeOK, TypeOK', IInv, NEW t \in {"reader", "video", "main"}, NEW k \in Queues,
         PutEffect(t, k),
         t # "main" => Puts(t, k),
         t = "main" => ~Marked(k),
         \A q \in Queues : Marked(q)' <=> Marked(q) \/ (t = "main" /\ q = k),
         \A u \in {"reader", "video"} \ {t} : at'[u] = at[u],
         t # "main" => \A q \in Queues : ~Puts(t, q)',
         t = "video" => at'["video"] \in {"loop", "ended"}
  PROVE  IInv'
<1> USE Numbers
<1>1. \A u \in Threads :
        /\ asleep'[u] = IF asleep[u] = Empty(k) THEN Awake ELSE asleep[u]
        /\ u \in woken' <=> (u \in woken /\ u # t) \/ asleep[u] = Empty(k)
  BY DEF PutEffect, WakeAll
<1>2. t \in Threads /\ asleep[t] = Awake /\ asleep'[t] = Awake /\ t \notin woken'
  BY <1>1, ConditionsDiffer DEF PutEffect, Threads
<1>3. Len(data'[k]) = Len(data[k]) + 1 /\ \A q \in Queues \ {k} : Len(data'[q]) = Len(data[q])
  BY DEF PutEffect
<1>4. /\ \A q \in Queues : Room(q) \in Nat /\ Room(q) >= Capacity(q)
      /\ \A q \in Queues : t # "main" \/ q # k => Room(q)' = Room(q)
      /\ t = "main" => Room(k)' = Room(k) + 1
  BY DEF Room
<1>5. \A u \in {"reader", "video"}, q \in Queues : Puts(u, q)' => Puts(u, q) /\ u # t
  BY DEF Puts
<1>6. \A u \in {"reader", "video"}, q \in Queues :
        u # t /\ Puts(u, q) /\ t # "main" => q # k
  BY DEF Puts
<1>7. \A u \in {"reader", "video"} \ {t}, q \in Queues : Puts(u, q) => Puts(u, q)'
  BY DEF Puts
<1>8. Bounded'
  <2>1. t # "main" => Len(data[k]) < Room(k)
    BY <1>4 DEF PutEffect, IInv, WokenHasRoom
  <2>2. QED
    BY <1>3, <1>4, <2>1 DEF IInv, Bounded
<1>9. ReaderHasRoom'
  <2>1. SUFFICES ASSUME NEW q \in Queues, Puts("reader", q)', ~Marked(q)'
                 PROVE  Len(data'[q]) < Capacity(q)
    BY DEF ReaderHasRoom
  <2>2. q # k
    BY <1>5, <1>6, <2>1
  <2>3. QED
    BY <1>3, <1>5, <2>1, <2>2 DEF IInv, ReaderHasRoom
<1>10. ReaderSleeps'
  <2>1. CASE t = "reader"
    BY <1>2, <2>1 DEF ReaderSleeps
  <2>2. CASE t # "reader"
    BY <1>1, <1>7, <2>2, ConditionsDiffer DEF IInv, ReaderSleeps, Threads
  <2>3. QED
    BY <2>1, <2>2
<1>11. VideoSleeps'
  <2>1. CASE t = "video"
    BY <1>2, <2>1 DEF VideoSleeps
  <2>2. CASE t # "video"
    BY <1>1, <2>2, ConditionsDiffer DEF IInv, VideoSleeps, Threads
  <2>3. QED
    BY <2>1, <2>2
<1>12. WokenHasRoom'
  <2>1. SUFFICES ASSUME NEW u \in {"reader", "video"}, NEW q \in Queues, Puts(u, q)', u \in woken'
                 PROVE  Len(data'[q]) < Room(q)'
    BY DEF WokenHasRoom
  <2>2. u # t /\ u \in Threads /\ Puts(u, q)
    BY <1>5, <2>1 DEF Threads
  <2>3. u \in woken
    BY <1>1, <2>1, <2>2, ConditionsDiffer DEF IInv, ReaderSleeps, VideoSleeps, Puts
  <2>4. QED
    BY <1>3, <1>4, <1>6, <2>2, <2>3 DEF IInv, WokenHasRoom
<1>13. QED
  BY <1>8, <1>9, <1>10, <1>11, <1>12 DEF IInv

\* And who goes to sleep, the reader in a queue that stop() marked, the video
\* decoder where it takes or puts.
LEMMA SleepKeeps ==
  ASSUME TypeOK, IInv, NEW t \in Threads, NEW c, Sleep(t, c), UNCHANGED at,
         t = "reader" => \E k \in Queues : c = Full(k) /\ Puts(t, k) /\ Marked(k),
         t = "video" => \/ at[t] = "loop" /\ c = Empty("videoPackets")
                        \/ at[t] = "put" /\ c = Full("videoFrames")
  PROVE  IInv'
<1>1. UNCHANGED <<data, woken, at>> /\ \A u \in Threads : asleep'[u] = IF u = t THEN c ELSE asleep[u]
  BY DEF Sleep, TypeOK
<1>2. \A q : (Marked(q)' <=> Marked(q)) /\ \A u : Puts(u, q)' <=> Puts(u, q)
  BY <1>1 DEF Marked, Puts
<1>3. Bounded' /\ ReaderHasRoom' /\ WokenHasRoom'
  BY <1>1, <1>2 DEF IInv, Bounded, Room, ReaderHasRoom, WokenHasRoom
<1>4. ReaderSleeps'
  BY <1>1, <1>2 DEF IInv, ReaderSleeps, Threads
<1>5. VideoSleeps'
  BY <1>1 DEF IInv, VideoSleeps, Threads
<1>6. QED
  BY <1>3, <1>4, <1>5 DEF IInv

\* And who leaves the queues alone: the reader only comes to put where there is
\* room, and the video decoder not as one that was woken.
LEMMA MoveKeeps ==
  ASSUME IInv, UNCHANGED queueVars,
         \A q \in Queues : Marked(q)' <=> Marked(q),
         \A q \in Queues : Puts("reader", q)' =>
            Puts("reader", q) \/ (Len(data[q]) < Capacity(q) /\ "reader" \notin woken),
         \A q \in Queues : Puts("reader", q) => Puts("reader", q)',
         \/ at'["video"] = at["video"]
         \/ at["video"] = "handle" /\ at'["video"] \in {"loop", "put", "ended"}
  PROVE  IInv'
<1>1. UNCHANGED <<data, woken, asleep>>
  BY DEF queueVars
<1>2. Bounded' /\ ReaderHasRoom'
  BY <1>1 DEF IInv, Bounded, Room, ReaderHasRoom
<1>3. ReaderSleeps'
  BY <1>1 DEF IInv, ReaderSleeps
<1>4. VideoSleeps'
  BY <1>1 DEF IInv, VideoSleeps
<1>5. \A q \in Queues : Puts("video", q)' /\ "video" \in woken => Puts("video", q)
  BY DEF IInv, VideoSleeps, Puts
<1>6. WokenHasRoom'
  BY <1>1, <1>5 DEF IInv, WokenHasRoom, Room
<1>7. QED
  BY <1>2, <1>3, <1>4, <1>6 DEF IInv

\* A step that goes on moves one thread.
LEMMA GoesOne ==
  ASSUME TypeOK, NEW t \in Threads, NEW place, Goes(t, place)
  PROVE  at'[t] = place /\ \A u \in Threads \ {t} : at'[u] = at[u]
BY DEF TypeOK, Goes

\* Marks depend on where the main thread is, and nothing else does.
LEMMA MarkedElsewhere == at'["main"] = at["main"] => \A q : Marked(q)' <=> Marked(q)
BY DEF Marked

\* The reader or the video decoder puts, or waits for it.
LEMMA ReaderOrVideoPuts ==
  ASSUME TypeOK, TypeOK', IInv, NEW t \in {"reader", "video"}, NEW k \in Queues, NEW v \in Packets,
         NEW place, NEW next, PutThen(t, place, k, v, next), Puts(t, k),
         t = "reader" => next \in {"loop", "seekFlushAudio", "seekFlushFrames"},
         t = "video" => next \in {"loop", "ended"}
  PROVE  IInv'
<1>1. t \in Threads /\ next \in Places
  BY DEF Threads, Places, ReaderPlaces, VideoPlaces
<1>2. CASE PutWaits(t, k) /\ UNCHANGED at
  <2>1. Sleep(t, Full(k)) /\ ~(Len(data[k]) < Capacity(k))
    BY <1>2, Numbers DEF PutWaits, IsFull
  <2>2. t = "reader" => Marked(k)
    BY <2>1 DEF IInv, ReaderHasRoom
  <2>3. t = "video" => at[t] = "put" /\ k = "videoFrames"
    BY DEF Puts
  <2>4. QED
    BY <1>1, <1>2, <2>1, <2>2, <2>3, SleepKeeps
<1>3. CASE PutCompletes(t, k, v) /\ Goes(t, next)
  <2>1. PutEffect(t, k)
    BY <1>1, <1>3, Effects
  <2>2. at'[t] = next /\ \A u \in Threads \ {t} : at'[u] = at[u]
    BY <1>1, <1>3, GoesOne
  <2>3. \A q : Marked(q)' <=> Marked(q)
    BY <2>2, MarkedElsewhere DEF Threads
  <2>4. \A q \in Queues : ~Puts(t, q)'
    BY <2>2 DEF Puts
  <2>5. QED
    BY <2>1, <2>2, <2>3, <2>4, PutKeeps DEF Threads
<1>4. QED
  BY <1>2, <1>3 DEF PutThen

\* stop() puts its mark, or waits for it.
LEMMA MainPuts ==
  ASSUME TypeOK, TypeOK', IInv, NEW k \in Queues, NEW v \in Packets, NEW place, NEW next,
         PutThen("main", place, k, v, next),
         \/ place = "stopPutAudio" /\ k = "audioPackets" /\ next = "stopFlushVideo"
         \/ place = "stopPutVideo" /\ k = "videoPackets" /\ next = "stopFlushFrames"
  PROVE  IInv'
<1>1. "main" \in Threads /\ next \in Places
  BY DEF Threads, Places, MainPlaces
<1>2. CASE PutWaits("main", k) /\ UNCHANGED at
  BY <1>1, <1>2, SleepKeeps DEF PutWaits
<1>3. CASE PutCompletes("main", k, v) /\ Goes("main", next)
  <2>1. PutEffect("main", k)
    BY <1>1, <1>3, Effects
  <2>2. at["main"] = place /\ at'["main"] = next /\ \A u \in Threads \ {"main"} : at'[u] = at[u]
    BY <1>1, <1>3, GoesOne DEF PutThen, Is
  <2>3. ~Marked(k) /\ \A q \in Queues : Marked(q)' <=> Marked(q) \/ q = k
    BY <2>2 DEF Marked, Queues
  <2>4. QED
    BY <2>1, <2>2, <2>3, PutKeeps DEF Threads
<1>4. QED
  BY <1>2, <1>3 DEF PutThen

\* A queue is emptied, by the reader in a seek or by stop().
LEMMA SomeoneFlushes ==
  ASSUME TypeOK, TypeOK', IInv, NEW t \in {"reader", "main"}, NEW k \in Queues, NEW place,
         NEW next \in Places, FlushThen(t, place, k, next),
         t = "reader" => \/ next \in {"read", "seekFlushFrames"}
                         \/ next = "seekPutVideo" /\ k = "videoPackets"
                         \/ next = "seekPutAudio" /\ k = "audioPackets",
         t = "main" => \/ place = "stopFlushAudio" /\ next = "stopPutAudio"
                       \/ place = "stopFlushVideo" /\ next = "stopPutVideo"
                       \/ place = "stopFlushFrames" /\ next = "stopQuit"
  PROVE  IInv'
<1>1. t \in Threads
  BY DEF Threads
<1>2. TakeEffect(t, k) /\ Len(data'[k]) = 0
  BY <1>1, Effects, MarksType DEF FlushThen
<1>3. at[t] = place /\ at'[t] = next /\ \A u \in Threads \ {t} : at'[u] = at[u]
  BY <1>1, GoesOne DEF FlushThen, Is
<1>4. \A q \in Queues : Marked(q)' <=> Marked(q)
  <2>1. CASE t = "reader"
    BY <1>3, <2>1, MarkedElsewhere DEF Threads
  <2>2. CASE t = "main"
    BY <1>3, <2>2 DEF Marked
  <2>3. QED
    BY <2>1, <2>2
<1>5. t = "reader" => \A q \in Queues : Puts("reader", q)' => q = k /\ Len(data'[k]) = 0
  BY <1>2, <1>3 DEF Puts
<1>6. QED
  BY <1>1, <1>2, <1>3, <1>4, <1>5, TakeKeeps DEF Threads

\* A decoder, or the main thread, takes a packet, or waits for one.
LEMMA SomeoneTakes ==
  ASSUME TypeOK, TypeOK', IInv, NEW t \in {"audio", "video", "main"}, NEW k \in Queues,
         NEW v \in Packets, NEW next \in Places, at[t] \in {"loop", "deque"},
         t = "video" => k = "videoPackets" /\ next = "handle",
         t = "main" => next = "loop",
         \/ DequeWaits(t, k) /\ UNCHANGED at
         \/ DequeCompletes(t, k, v) /\ Goes(t, next)
  PROVE  IInv'
<1>1. t \in Threads
  BY DEF Threads
<1>2. CASE DequeWaits(t, k) /\ UNCHANGED at
  <2>1. t = "video" => at[t] = "loop"
    BY DEF TypeOK, VideoPlaces
  <2>2. QED
    BY <1>1, <1>2, <2>1, SleepKeeps DEF DequeWaits
<1>3. CASE DequeCompletes(t, k, v) /\ Goes(t, next)
  <2>1. TakeEffect(t, k)
    BY <1>1, <1>3, Effects
  <2>2. at'[t] = next /\ \A u \in Threads \ {t} : at'[u] = at[u]
    BY <1>1, <1>3, GoesOne
  <2>3. \A q \in Queues : Marked(q)' <=> Marked(q)
    BY <2>2, MarkedElsewhere DEF Threads, Marked
  <2>4. QED
    BY <1>1, <2>1, <2>2, <2>3, TakeKeeps DEF Threads
<1>4. QED
  BY <1>2, <1>3

\* The queues are empty and nobody sleeps before the threads run.
LEMMA BoundInit == Init => IInv
<1> SUFFICES ASSUME Init PROVE IInv
  OBVIOUS
<1>1. /\ data = [k \in Queues |-> <<>>]
      /\ asleep = [t \in Threads |-> Awake]
      /\ woken = {}
  BY DEF Init, QueueInit
<1>2. at["reader"] = "loop" /\ at["main"] = "loop"
  <2>1. PICK failed \in SUBSET (IF DecodersFail THEN Decoders ELSE {}) :
          at = [t \in Threads |-> IF t \in failed THEN "ended" ELSE "loop"]
    BY DEF Init
  <2>2. QED
    BY <2>1 DEF Decoders, Threads
<1>3. \A k \in Queues : Len(data[k]) = 0 /\ ~Puts("reader", k) /\ ~Marked(k)
  BY <1>1, <1>2 DEF Puts, Marked
<1>4. asleep["reader"] = Awake /\ asleep["video"] = Awake
  BY <1>1 DEF Threads
<1>5. QED
  BY <1>1, <1>3, <1>4, Numbers
     DEF IInv, Bounded, Room, ReaderHasRoom, ReaderSleeps, VideoSleeps, WokenHasRoom

\* No step of a thread breaks the invariant.
LEMMA BoundStep == TypeOK /\ TypeOK' /\ IInv /\ [Next]_vars => IInv'
<1> SUFFICES ASSUME TypeOK, TypeOK', IInv, [Next]_vars PROVE IInv'
  OBVIOUS
<1>p. /\ ReaderPlaces \subseteq Places /\ AudioPlaces \subseteq Places
      /\ VideoPlaces \subseteq Places /\ MainPlaces \subseteq Places
  BY DEF Places
<1>q. Queues = {"audioPackets", "videoPackets", "videoFrames"}
  BY DEF Queues
<1>r. eofPkt \in Packets /\ flushPkt \in Packets /\ inHand \in [Threads -> Packets]
  BY MarksType DEF TypeOK
<1>s. ASSUME UNCHANGED queueVars, NEW p \in ReaderPlaces, Goes("reader", p),
             \A q \in Queues : ~Puts("reader", q),
             p \in {"putAudio", "putVideo", "seekPutAudio", "seekPutVideo"} =>
                Len(data["audioPackets"]) < Capacity("audioPackets") /\
                Len(data["videoPackets"]) < Capacity("videoPackets")
      PROVE  IInv'
  <2>1. at'["reader"] = p /\ at'["video"] = at["video"] /\ at'["main"] = at["main"]
    BY <1>p, <1>s, GoesOne DEF Threads
  <2>2. "reader" \notin woken
    BY <1>s DEF IInv, ReaderSleeps
  <2>3. \A q \in Queues : Puts("reader", q)' => Len(data[q]) < Capacity(q)
    BY <1>s, <2>1 DEF Puts
  <2>4. QED
    BY <1>s, <2>1, <2>2, <2>3, MarkedElsewhere, MoveKeeps
<1>u. ASSUME UNCHANGED queueVars, NEW d \in Decoders, NEW p \in {"loop", "put", "ended"},
             d = "audio" => p # "put", at[d] = "handle", Goes(d, p)
      PROVE  IInv'
  <2>1. p \in Places /\ d \in Threads
    BY <1>u DEF Places, VideoPlaces, Decoders, Threads
  <2>2. /\ at'["reader"] = at["reader"] /\ at'["main"] = at["main"]
        /\ at'["video"] = IF d = "video" THEN p ELSE at["video"]
    BY <1>u, <2>1, GoesOne DEF Threads, Decoders
  <2>3. \A q : Puts("reader", q)' <=> Puts("reader", q)
    BY <2>2 DEF Puts
  <2>4. QED
    BY <1>u, <2>2, <2>3, MarkedElsewhere, MoveKeeps
<1>v. ASSUME UNCHANGED queueVars, NEW p \in MainPlaces, Goes("main", p),
             \A q \in Queues : Marked(q)' <=> Marked(q)
      PROVE  IInv'
  <2>1. at'["reader"] = at["reader"] /\ at'["video"] = at["video"]
    BY <1>p, <1>v, GoesOne DEF Threads
  <2>2. \A q : Puts("reader", q)' <=> Puts("reader", q)
    BY <2>1 DEF Puts
  <2>3. QED
    BY <1>v, <2>1, <2>2, MoveKeeps
<1>w. ASSUME UNCHANGED <<queueVars, at>> PROVE IInv'
  <2>1. \A q : (Marked(q)' <=> Marked(q)) /\ (Puts("reader", q)' <=> Puts("reader", q))
    BY <1>w DEF Marked, Puts
  <2>2. QED
    BY <1>w, <2>1, MoveKeeps
<1>1. CASE Reader
  <2>1. CASE \/ ReaderQuits \/ ReaderSeeks \/ ReaderGoesOn \/ ReaderNaps \/ ReaderMeetsEnd
    <3>1. at["reader"] \in {"loop", "read"} /\ \A q \in Queues : ~Puts("reader", q)
      BY <2>1 DEF ReaderQuits, ReaderSeeks, ReaderGoesOn, ReaderNaps, ReaderMeetsEnd, Is, Puts
    <3>2. /\ UNCHANGED queueVars
          /\ \E p \in {"loop", "read", "seekFlushVideo", "joinAudio"} : Goes("reader", p)
      BY <2>1 DEF ReaderQuits, ReaderSeeks, ReaderGoesOn, ReaderNaps, ReaderMeetsEnd
    <3>3. QED
      BY <1>s, <3>1, <3>2 DEF ReaderPlaces
  <2>2. CASE ReaderReads
    <3>1. /\ Len(data["audioPackets"]) < Capacity("audioPackets")
          /\ Len(data["videoPackets"]) < Capacity("videoPackets")
      BY <1>q, <2>2, Numbers DEF ReaderReads, MayRead, IsFull
    <3>2. \A q \in Queues : ~Puts("reader", q)
      BY <2>2 DEF ReaderReads, Is, Puts
    <3>3. QED
      BY <1>s, <2>2, <3>1, <3>2 DEF ReaderReads, ReaderPlaces
  <2>3. CASE ReaderJoins
    <3>1. at["reader"] \in {"joinAudio", "joinVideo"} /\ \A q \in Queues : ~Puts("reader", q)
      BY <2>3 DEF ReaderJoins, JoinThen, Is, Puts
    <3>2. /\ UNCHANGED queueVars
          /\ UNCHANGED at \/ \E p \in {"joinVideo", "ended"} : Goes("reader", p)
      BY <2>3 DEF ReaderJoins, JoinThen
    <3>3. QED
      BY <1>s, <1>w, <3>1, <3>2 DEF ReaderPlaces
  <2>4. CASE ReaderPuts
    <3>1. inHand["reader"] \in Packets
      BY <1>r DEF Threads
    <3>2. CASE PutThen("reader", "putAudio", "audioPackets", inHand["reader"], "loop")
      <4>1. Puts("reader", "audioPackets")
        BY <3>2 DEF PutThen, Is, Puts
      <4>2. QED
        BY <1>q, <3>1, <3>2, <4>1, ReaderOrVideoPuts
    <3>3. CASE PutThen("reader", "putVideo", "videoPackets", inHand["reader"], "loop")
      <4>1. Puts("reader", "videoPackets")
        BY <3>3 DEF PutThen, Is, Puts
      <4>2. QED
        BY <1>q, <3>1, <3>3, <4>1, ReaderOrVideoPuts
    <3>4. QED
      BY <2>4, <3>2, <3>3 DEF ReaderPuts
  <2>5. CASE SeekFlushes \/ SeekEnds
    <3>1. ASSUME NEW k \in Queues, NEW place,
                 PutThen("reader", place, k, flushPkt, "seekFlushAudio") \/
                 PutThen("reader", place, k, flushPkt, "seekFlushFrames"),
                 \/ place = "seekPutVideo" /\ k = "videoPackets"
                 \/ place = "seekPutAudio" /\ k = "audioPackets"
          PROVE  IInv'
      <4>1. Puts("reader", k)
        BY <3>1 DEF PutThen, Is, Puts
      <4>2. QED
        BY <1>r, <3>1, <4>1, ReaderOrVideoPuts
    <3>2. ASSUME NEW k \in Queues, NEW place, NEW next \in ReaderPlaces,
                 FlushThen("reader", place, k, next),
                 \/ next = "read"
                 \/ next = "seekPutVideo" /\ k = "videoPackets"
                 \/ next = "seekPutAudio" /\ k = "audioPackets"
          PROVE  IInv'
      BY <1>p, <3>2, SomeoneFlushes
    <3>3. QED
      BY <1>q, <2>5, <3>1, <3>2 DEF SeekFlushes, SeekEnds, AfterFlushOfAudio, ReaderPlaces
  <2>6. QED
    BY <1>1, <2>1, <2>2, <2>3, <2>4, <2>5 DEF Reader
<1>2. ASSUME NEW d \in Decoders, Decoder(d) PROVE IInv'
  <2>1. CASE TakePacket(d)
    <3>1. /\ d \in {"audio", "video", "main"} /\ at[d] = "loop"
          /\ PacketsOf(d) \in Queues
          /\ d = "video" => PacketsOf(d) = "videoPackets"
          /\ "handle" \in Places
      BY <1>p, <1>q, <2>1 DEF TakePacket, Is, PacketsOf, Decoders, AudioPlaces
    <3>2. \E v \in Packets : \/ DequeWaits(d, PacketsOf(d)) /\ UNCHANGED at
                             \/ DequeCompletes(d, PacketsOf(d), v) /\ Goes(d, "handle")
      BY <1>r, <2>1 DEF TakePacket
    <3>3. QED
      BY <1>2, <3>1, <3>2, SomeoneTakes DEF Decoders
  <2>2. CASE MeetEof(d) \/ FlushCodec(d) \/ Decode(d)
    <3>1. /\ at[d] = "handle" /\ UNCHANGED queueVars
          /\ \E p \in {"loop", "put", "ended"} : (d = "audio" => p # "put") /\ Goes(d, p)
      BY <2>2 DEF MeetEof, FlushCodec, Decode, MakesFrames, Is
    <3>2. QED
      BY <1>2, <1>u, <3>1
  <2>3. QED
    BY <1>2, <2>1, <2>2 DEF Decoder
<1>3. CASE SendFrame
  <2>1. Puts("video", "videoFrames") /\ inHand["video"] \in Packets
    BY <1>3, <1>r DEF SendFrame, PutThen, Is, Puts, Threads
  <2>2. QED
    BY <1>3, <1>q, <2>1, ReaderOrVideoPuts DEF SendFrame
<1>4. CASE Main
  <2>1. CASE Refresh \/ SetQuit \/ JoinReader
    <3>1. /\ UNCHANGED queueVars
          /\ \/ at["main"] = "loop" /\ Goes("main", "deque")
             \/ at["main"] = "stopQuit" /\ Goes("main", "join")
             \/ at["main"] = "join" /\ Goes("main", "stopped")
      BY <2>1 DEF Refresh, SetQuit, JoinReader, Is
    <3>2. PICK p \in {"deque", "join", "stopped"} :
            /\ Goes("main", p)
            /\ p = "deque" => at["main"] = "loop"
            /\ p # "deque" => at["main"] \in {"stopQuit", "join"}
      BY <3>1
    <3>3. p \in MainPlaces /\ at'["main"] = p
      BY <1>p, <3>2, GoesOne DEF MainPlaces, Threads
    <3>4. \A q \in Queues : Marked(q)' <=> Marked(q)
      BY <3>2, <3>3 DEF Marked
    <3>5. QED
      BY <1>v, <3>1, <3>2, <3>3, <3>4
  <2>2. CASE ShowFrame
    <3>1. at["main"] = "deque" /\ "loop" \in Places
      BY <1>p, <2>2 DEF ShowFrame, Is, MainPlaces
    <3>2. \E v \in Packets : \/ DequeWaits("main", "videoFrames") /\ UNCHANGED at
                             \/ DequeCompletes("main", "videoFrames", v) /\ Goes("main", "loop")
      BY <1>r, <2>2 DEF ShowFrame
    <3>3. QED
      BY <1>q, <3>1, <3>2, SomeoneTakes
  <2>3. CASE StopQueues
    <3>1. ASSUME NEW place, NEW k \in Queues, NEW next \in MainPlaces,
                 FlushThen("main", place, k, next),
                 \/ place = "stopFlushAudio" /\ next = "stopPutAudio"
                 \/ place = "stopFlushVideo" /\ next = "stopPutVideo"
                 \/ place = "stopFlushFrames" /\ next = "stopQuit"
          PROVE  IInv'
      BY <1>p, <3>1, SomeoneFlushes
    <3>2. CASE \/ PutThen("main", "stopPutAudio", "audioPackets", eofPkt, "stopFlushVideo")
               \/ PutThen("main", "stopPutVideo", "videoPackets", eofPkt, "stopFlushFrames")
      BY <1>q, <1>r, <3>2, MainPuts
    <3>3. QED
      BY <1>q, <2>3, <3>1, <3>2 DEF StopQueues, MainPlaces
  <2>4. QED
    BY <1>4, <2>1, <2>2, <2>3 DEF Main
<1>5. CASE RequestSeek
  BY <1>5, <1>w DEF RequestSeek
<1>6. CASE BeginStop
  <2>1. UNCHANGED queueVars /\ at["main"] = "loop" /\ Goes("main", "stopFlushAudio")
    BY <1>6 DEF BeginStop, Is
  <2>2. "stopFlushAudio" \in MainPlaces
    BY DEF MainPlaces
  <2>3. at'["main"] = "stopFlushAudio"
    BY <1>p, <2>1, <2>2, GoesOne DEF Threads
  <2>4. \A q \in Queues : Marked(q)' <=> Marked(q)
    BY <2>1, <2>3 DEF Marked
  <2>5. QED
    BY <1>v, <2>1, <2>2, <2>4
<1>7. CASE UNCHANGED vars
  BY <1>7, <1>w DEF vars
<1>8. QED
  BY <1>1, <1>2, <1>3, <1>4, <1>5, <1>6, <1>7 DEF Next

\* put() appends without a second look after its wait.  Still a queue never
\* holds more than its capacity, or one more, stop()'s mark, once the pipeline
\* is being stopped: whatever the capacities, the film and the seeks.
THEOREM NeverOverfull == Spec => []QueuesBounded
<1>1. Init => TypeOK /\ IInv
  BY TypeInit, BoundInit
<1>2. TypeOK /\ IInv /\ [Next]_vars => (TypeOK /\ IInv)'
  BY TypeStep, BoundStep
<1>3. TypeOK /\ IInv => QueuesBounded
  BY Numbers DEF IInv, Bounded, Room, Marked, QueuesBounded, Stopping
<1>4. QED
  BY <1>1, <1>2, <1>3, PTL DEF Spec

(***************************************************************************)
(* The order of decoding.                                                  *)
(*                                                                         *)
(* A decoder's line is what it decoded last, what it has in hand and what  *)
(* waits in its queue.  Between two flush marks of the line every packet   *)
(* follows the one before; behind the last mark all are of the last seek.  *)
(***************************************************************************)

\* What is no packet of the film and no flush mark.
Neutral(p) == p.kind \notin {"data", "flush"}

\* No flush mark lies between the positions i and j of the line L, which ends at n.
NoFlush(L, n, i, j) == \A m \in -1 .. n : i < m /\ m < j => L[m].kind # "flush"

\* Packet q comes after p in the film, read after the same seek.
Follows(p, q) == q.epoch = p.epoch /\ q.pos > p.pos

\* Packets of the line without a flush mark between them follow one another.
InLine(L, n) ==
  \A i, j \in -1 .. n :
    i < j /\ L[i].kind = "data" /\ L[j].kind = "data" /\ NoFlush(L, n, i, j)
      => Follows(L[i], L[j])

\* Packets behind the last flush mark are of seek number e and before position p.
Current(L, n, e, p) ==
  \A i \in -1 .. n :
    L[i].kind = "data" /\ NoFlush(L, n, i, n + 1) => L[i].epoch = e /\ L[i].pos < p

\* Appending to a line what is no packet, what is next in the film, or a flush mark.
LEMMA LineAppended ==
  ASSUME NEW n \in Nat, NEW L \in [-1 .. n -> Packets], NEW M \in [-1 .. n + 1 -> Packets],
         \A i \in -1 .. n : M[i] = L[i]
  PROVE  /\ InLine(L, n) /\ M[n + 1].kind # "data" => InLine(M, n + 1)
         /\ \A e, p : InLine(L, n) /\ Current(L, n, e, p)
                      /\ M[n + 1].epoch = e /\ M[n + 1].pos = p => InLine(M, n + 1)
         /\ M[n + 1].kind = "flush" => \A e, p : Current(M, n + 1, e, p)
         /\ \A e \in Nat, p \in Nat : Current(L, n, e, p) /\ M[n + 1].epoch = e /\ M[n + 1].pos = p
                      => Current(M, n + 1, e, p + 1)
<1>1. /\ -1 .. n \subseteq -1 .. n + 1 /\ n + 1 \in -1 .. n + 1
      /\ \A i \in -1 .. n + 1 : i \in -1 .. n \/ i = n + 1
      /\ \A i \in -1 .. n : i < n + 1
  OBVIOUS
<1>2. ASSUME NEW i \in -1 .. n, NEW j \in -1 .. n, NoFlush(M, n + 1, i, j)
      PROVE  NoFlush(L, n, i, j)
  BY <1>1, <1>2 DEF NoFlush
<1>3. ASSUME NEW i \in -1 .. n, NoFlush(M, n + 1, i, n + 1) \/ NoFlush(M, n + 1, i, n + 2)
      PROVE  NoFlush(L, n, i, n + 1)
  BY <1>1, <1>3 DEF NoFlush
<1>4. ASSUME InLine(L, n), M[n + 1].kind # "data" PROVE InLine(M, n + 1)
  BY <1>1, <1>2, <1>4 DEF InLine
<1>5. ASSUME NEW e, NEW p, InLine(L, n), Current(L, n, e, p), M[n + 1].epoch = e, M[n + 1].pos = p
      PROVE InLine(M, n + 1)
  <2>1. SUFFICES ASSUME NEW i \in -1 .. n + 1, NEW j \in -1 .. n + 1, i < j, M[i].kind = "data",
                        M[j].kind = "data", NoFlush(M, n + 1, i, j)
                 PROVE  Follows(M[i], M[j])
    BY DEF InLine
  <2>2. i \in -1 .. n
    BY <2>1
  <2>3. CASE j \in -1 .. n
    BY <1>2, <1>5, <2>1, <2>2, <2>3 DEF InLine
  <2>4. CASE j = n + 1
    <3>1. L[i].epoch = e /\ L[i].pos < p
      BY <1>3, <1>5, <2>1, <2>2, <2>4 DEF Current
    <3>2. L[i].pos \in Int /\ p \in Int
      BY <1>1, <1>5, <2>2, PacketQueueAssumption DEF Packets
    <3>3. QED
      BY <1>5, <2>2, <2>4, <3>1, <3>2 DEF Follows
  <2>5. QED
    BY <1>1, <2>1, <2>3, <2>4
<1>6. ASSUME M[n + 1].kind = "flush", NEW e, NEW p PROVE Current(M, n + 1, e, p)
  <2>1. \A i \in -1 .. n : ~NoFlush(M, n + 1, i, n + 2)
    BY <1>1, <1>6 DEF NoFlush
  <2>2. QED
    BY <1>1, <1>6, <2>1 DEF Current
<1>7. ASSUME NEW e \in Nat, NEW p \in Nat, Current(L, n, e, p), M[n + 1].epoch = e,
             M[n + 1].pos = p
      PROVE  Current(M, n + 1, e, p + 1)
  <2>1. \A i \in -1 .. n : L[i].pos \in Int
    BY PacketQueueAssumption DEF Packets
  <2>2. QED
    BY <1>1, <1>3, <1>7, <2>1 DEF Current
<1>8. QED
  BY <1>4, <1>5, <1>6, <1>7

\* Taking what waits first into the hand.
LEMMA LineTaken ==
  ASSUME NEW n \in Nat, NEW L \in [-1 .. n + 1 -> Packets], NEW M \in [-1 .. n -> Packets],
         M[-1] = L[-1], L[0].kind # "flush", \A i \in 0 .. n : M[i] = L[i + 1]
  PROVE  /\ InLine(L, n + 1) => InLine(M, n)
         /\ \A e, p : Current(L, n + 1, e, p) => Current(M, n, e, p)
<1> DEFINE f(i) == IF i = -1 THEN -1 ELSE i + 1
<1>1. \A i \in -1 .. n : f(i) \in -1 .. n + 1 /\ M[i] = L[f(i)]
  OBVIOUS
<1>2. \A i, j \in -1 .. n : i < j => f(i) < f(j)
  OBVIOUS
<1>3. \A m \in -1 .. n + 1 : m # 0 => \E i \in -1 .. n : f(i) = m
  <2>1. ASSUME NEW m \in -1 .. n + 1, m # 0 PROVE \E i \in -1 .. n : f(i) = m
    <3>1. CASE m = -1
      BY <3>1
    <3>2. CASE m # -1
      <4>1. m - 1 \in -1 .. n /\ f(m - 1) = m
        BY <2>1, <3>2
      <4>2. QED
        BY <4>1
    <3>3. QED
      BY <3>1, <3>2
  <2>2. QED
    BY <2>1
<1>4. \A i, j \in -1 .. n : f(i) < f(j) => i < j
  OBVIOUS
<1>5. \A i \in -1 .. n : f(i) \in Int /\ f(i) < n + 2
  OBVIOUS
<1> HIDE DEF f
<1>6. ASSUME NEW i \in -1 .. n, NEW j \in -1 .. n, NoFlush(M, n, i, j)
      PROVE  NoFlush(L, n + 1, f(i), f(j))
  BY <1>1, <1>3, <1>4, <1>6 DEF NoFlush
<1>7. ASSUME NEW i \in -1 .. n, NoFlush(M, n, i, n + 1)
      PROVE  NoFlush(L, n + 1, f(i), n + 2)
  <2>1. SUFFICES ASSUME NEW m \in -1 .. n + 1, f(i) < m, L[m].kind = "flush" PROVE FALSE
    BY DEF NoFlush
  <2>2. PICK k \in -1 .. n : f(k) = m
    BY <1>3, <2>1
  <2>3. i < k /\ k < n + 1
    BY <1>4, <2>1, <2>2
  <2>4. QED
    BY <1>1, <1>7, <2>1, <2>2, <2>3 DEF NoFlush
<1>8. InLine(L, n + 1) => InLine(M, n)
  BY <1>1, <1>2, <1>6 DEF InLine
<1>9. \A e, p : Current(L, n + 1, e, p) => Current(M, n, e, p)
  BY <1>1, <1>7 DEF Current
<1>10. QED
  BY <1>8, <1>9

\* Leaving out what is no flush mark.
LEMMA LineThinned ==
  ASSUME NEW n \in Nat, NEW L \in [-1 .. n -> Packets], NEW M \in [-1 .. n -> Packets],
         \A i \in -1 .. n : M[i] = L[i] \/ (Neutral(M[i]) /\ L[i].kind # "flush")
  PROVE  /\ InLine(L, n) => InLine(M, n)
         /\ \A e, p : Current(L, n, e, p) => Current(M, n, e, p)
<1>1. ASSUME NEW i, NEW j, NoFlush(M, n, i, j)
      PROVE  NoFlush(L, n, i, j)
  BY <1>1 DEF NoFlush
<1>2. \A i \in -1 .. n : M[i].kind = "data" => M[i] = L[i]
  BY DEF Neutral
<1>3. QED
  BY <1>1, <1>2 DEF InLine, Current

\* Leaving out all before what waits in the queue.
LEMMA LineBegun ==
  ASSUME NEW n \in Nat, NEW L \in [-1 .. n -> Packets], NEW M \in [-1 .. n -> Packets],
         Neutral(M[-1]), Neutral(M[0]), \A i \in 1 .. n : M[i] = L[i]
  PROVE  /\ InLine(L, n) => InLine(M, n)
         /\ \A e, p : Current(L, n, e, p) => Current(M, n, e, p)
<1>1. \A i \in -1 .. n : i \in 1 .. n \/ Neutral(M[i])
  OBVIOUS
<1>2. \A i \in -1 .. n : M[i].kind = "data" => i \in 1 .. n /\ M[i] = L[i]
  BY <1>1 DEF Neutral
<1>3. ASSUME NEW i \in 1 .. n, NEW j, NoFlush(M, n, i, j)
      PROVE  NoFlush(L, n, i, j)
  <2>1. \A m \in -1 .. n : i < m => m \in 1 .. n
    OBVIOUS
  <2>2. QED
    BY <1>3, <2>1 DEF NoFlush
<1>4. QED
  BY <1>2, <1>3 DEF InLine, Current

\* Decoding what is in hand.
LEMMA LineDecoded ==
  ASSUME NEW n \in Nat, NEW L \in [-1 .. n -> Packets], NEW M \in [-1 .. n -> Packets],
         M[-1] = L[0], Neutral(M[0]), \A i \in 1 .. n : M[i] = L[i]
  PROVE  /\ InLine(L, n) => InLine(M, n)
         /\ \A e, p : Current(L, n, e, p) => Current(M, n, e, p)
<1> DEFINE f(i) == IF i = -1 THEN 0 ELSE i
<1>1. \A i \in -1 .. n : i # 0 => f(i) \in 0 .. n /\ f(i) \in -1 .. n /\ M[i] = L[f(i)]
  OBVIOUS
<1>2. \A i, j \in -1 .. n : i # 0 /\ j # 0 /\ i < j => f(i) < f(j)
  OBVIOUS
<1>3. ASSUME NEW i \in -1 .. n, NEW j \in Int, i # 0, NoFlush(M, n, i, j)
      PROVE  NoFlush(L, n, f(i), j)
  <2>1. \A m \in -1 .. n : f(i) < m => m \in 1 .. n /\ i < m
    BY <1>3
  <2>2. QED
    BY <1>3, <2>1 DEF NoFlush
<1>4. \A j \in -1 .. n : j # 0 /\ j # -1 => f(j) = j
  OBVIOUS
<1>5. \A i \in -1 .. n : M[i].kind = "data" => i # 0
  BY DEF Neutral
<1> HIDE DEF f
<1>6. InLine(L, n) => InLine(M, n)
  <2>1. SUFFICES ASSUME InLine(L, n), NEW i \in -1 .. n, NEW j \in -1 .. n, i < j,
                        M[i].kind = "data", M[j].kind = "data", NoFlush(M, n, i, j)
                 PROVE  Follows(M[i], M[j])
    BY DEF InLine
  <2>2. i # 0 /\ j # 0 /\ j # -1
    BY <1>5, <2>1
  <2>3. f(i) \in -1 .. n /\ f(j) = j /\ f(i) < j /\ M[i] = L[f(i)] /\ M[j] = L[j]
    BY <1>1, <1>2, <1>4, <2>1, <2>2
  <2>4. NoFlush(L, n, f(i), j)
    BY <1>3, <2>1, <2>2
  <2>5. QED
    BY <2>1, <2>3, <2>4 DEF InLine
<1>7. \A e, p : Current(L, n, e, p) => Current(M, n, e, p)
  BY <1>1, <1>3, <1>5 DEF Current
<1>8. QED
  BY <1>6, <1>7

\* How much waits for a decoder, what it is at work on, and its line: position -1
\* holds what it decoded last, 0 what it has in hand, the others what waits.
Waiting(d) == Len(data[PacketsOf(d)])
InWork(d) == IF at[d] = "handle" THEN inHand[d] ELSE Nil
Line(d) ==
  [i \in -1 .. Waiting(d) |-> IF i = -1 THEN decoded[d]
                              ELSE IF i = 0 THEN InWork(d) ELSE data[PacketsOf(d)][i]]

\* The reader has made a seek and not put the flush mark for this decoder yet.
Unmarked(d) ==
  \/ at["reader"] \in {"seekFlushVideo", "seekPutVideo"}
  \/ d = "audio" /\ at["reader"] \in {"seekFlushAudio", "seekPutAudio"}

\* The position the next packet put into a queue will have at least.
NextPos == IF at["reader"] \in {"putAudio", "putVideo"} THEN pos ELSE pos + 1

\* The order of one line; and of all, until stop() begins, with what the reader holds.
LineInv(d) ==
  /\ InLine(Line(d), Waiting(d))
  /\ ~Unmarked(d) => Current(Line(d), Waiting(d), epoch, NextPos)
ReaderHolds ==
  at["reader"] \in {"putAudio", "putVideo"} => inHand["reader"] = Packet("data", epoch, pos)
DecodedIsData == \A d \in Decoders : decoded[d] # Nil => decoded[d].kind = "data"
OrderInv ==
  /\ ReaderHolds
  /\ DecodedIsData
  /\ ~Stopping => \A d \in Decoders : LineInv(d)

\* The line of a decoder consists of packets.
LineType(d) ==
  /\ Waiting(d) \in Nat /\ Line(d) \in [-1 .. Waiting(d) -> Packets]
  /\ data[PacketsOf(d)] \in Seq(Packets) /\ DOMAIN data[PacketsOf(d)] = 1 .. Waiting(d)
  /\ decoded[d] \in Packets /\ inHand[d] \in Packets
  /\ epoch \in Nat /\ pos \in Nat /\ NextPos \in Nat

\* A decoder is a thread with a queue of its own; nothing in hand is no mark.
LEMMA DecoderIsThread ==
  /\ \A d \in Decoders : PacketsOf(d) \in Queues /\ d \in Threads
  /\ Nil \in Packets /\ Neutral(Nil)
<1>1. \A d \in Decoders : PacketsOf(d) \in Queues /\ d \in Threads
  BY DEF PacketsOf, Queues, Decoders, Threads
<1>2. Nil \in Packets /\ Neutral(Nil)
  BY MarksType DEF Neutral, Nil, Packet
<1>3. QED
  BY <1>1, <1>2

\* A decoder's line has that type whenever the state has its types.
LEMMA LineTypeNow == TypeOK => \A d \in Decoders : LineType(d)
<1> SUFFICES ASSUME TypeOK, NEW d \in Decoders
             PROVE  LineType(d)
  OBVIOUS
<1>1. PacketsOf(d) \in Queues /\ d \in Threads
  BY DecoderIsThread
<1>2. data[PacketsOf(d)] \in Seq(Packets)
  BY <1>1 DEF TypeOK
<1>3. Waiting(d) \in Nat /\ DOMAIN data[PacketsOf(d)] = 1 .. Waiting(d)
      /\ \A i \in 1 .. Waiting(d) : data[PacketsOf(d)][i] \in Packets
  BY <1>2 DEF Waiting
<1>4. decoded[d] \in Packets /\ inHand[d] \in Packets
  BY <1>1 DEF TypeOK
<1>5. Line(d) \in [-1 .. Waiting(d) -> Packets]
  <2>1. \A i \in -1 .. Waiting(d) : i # -1 /\ i # 0 => i \in 1 .. Waiting(d)
    BY <1>3
  <2>2. QED
    BY <1>3, <1>4, <2>1, DecoderIsThread DEF Line, InWork
<1>6. epoch \in Nat /\ pos \in Nat /\ NextPos \in Nat
  BY PacketQueueAssumption DEF TypeOK, NextPos
<1>7. QED
  BY <1>2, <1>3, <1>4, <1>5, <1>6 DEF LineType

\* And it does after each step.
LEMMA LineTypeNext ==
  ASSUME NEW d \in Decoders
  PROVE  TypeOK' => LineType(d)'
<1>1. TypeOK => LineType(d)
  BY LineTypeNow
<1>2. QED
  BY <1>1, PTL

\* A later position bounds what an earlier one does.
LEMMA CurrentLater ==
  ASSUME NEW n \in Nat, NEW L \in [-1 .. n -> Packets], NEW e, NEW p \in Nat, NEW q \in Nat,
         p <= q, Current(L, n, e, p)
  PROVE  Current(L, n, e, q)
<1>1. \A i \in -1 .. n : L[i].pos \in Int
  BY PacketQueueAssumption DEF Packets
<1>2. QED
  BY <1>1 DEF Current

\* What the reader has ahead of it.
Ahead(d) == Unmarked(d)' \/ (~Unmarked(d) /\ epoch' = epoch /\ NextPos' >= NextPos)

\* Steps that leave a decoder's line alone.
LEMMA LineQuiet ==
  ASSUME TypeOK, TypeOK', NEW d \in Decoders, LineInv(d),
         data'[PacketsOf(d)] = data[PacketsOf(d)], decoded'[d] = decoded[d],
         InWork(d)' = InWork(d), Ahead(d)
  PROVE  LineInv(d)'
<1>1. Waiting(d)' = Waiting(d) /\ Line(d)' = Line(d)
  BY DEF Waiting, Line
<1>2. /\ Waiting(d) \in Nat /\ Line(d) \in [-1 .. Waiting(d) -> Packets]
      /\ NextPos \in Nat /\ NextPos' \in Nat
  BY LineTypeNow, LineTypeNext, DecoderIsThread DEF LineType
<1>3. ~Unmarked(d)' => Current(Line(d), Waiting(d), epoch', NextPos')
  BY <1>2, CurrentLater DEF Ahead, LineInv
<1>4. QED
  BY <1>1, <1>3 DEF LineInv

\* The reader puts a mark or the packet in its hand.
LEMMA LinePut ==
  ASSUME TypeOK, TypeOK', NEW d \in Decoders, LineInv(d), NEW v \in Packets,
         data'[PacketsOf(d)] = Append(data[PacketsOf(d)], v),
         decoded'[d] = decoded[d], InWork(d)' = InWork(d), epoch' = epoch,
         \/ v.kind = "flush"
         \/ ~Unmarked(d) /\ v.epoch = epoch /\ v.pos = NextPos /\ NextPos' = NextPos + 1
  PROVE  LineInv(d)'
<1> DEFINE n == Waiting(d)
           L == Line(d)
           M == Line(d)'
<1>1. /\ n \in Nat /\ L \in [-1 .. n -> Packets] /\ NextPos \in Nat /\ epoch \in Nat
      /\ data[PacketsOf(d)] \in Seq(Packets)
      /\ Waiting(d)' \in Nat /\ M \in [-1 .. Waiting(d)' -> Packets]
  BY LineTypeNow, LineTypeNext, DecoderIsThread DEF LineType
<1>2. /\ Waiting(d)' = n + 1
      /\ \A i \in 1 .. n : data'[PacketsOf(d)][i] = data[PacketsOf(d)][i]
      /\ data'[PacketsOf(d)][n + 1] = v
  BY <1>1, AppendProperties DEF Waiting
<1>3. (\A i \in -1 .. n : M[i] = L[i]) /\ M[n + 1] = v
  <2>1. /\ -1 .. n \subseteq -1 .. n + 1 /\ n + 1 \in -1 .. n + 1 /\ n + 1 # -1 /\ n + 1 # 0
        /\ \A i \in -1 .. n : i # -1 /\ i # 0 => i \in 1 .. n
    BY <1>1
  <2>2. M = [i \in -1 .. n + 1 |-> IF i = -1 THEN decoded'[d]
                                   ELSE IF i = 0 THEN InWork(d)' ELSE data'[PacketsOf(d)][i]]
    BY <1>2 DEF Line
  <2>3. L = [i \in -1 .. n |-> IF i = -1 THEN decoded[d]
                               ELSE IF i = 0 THEN InWork(d) ELSE data[PacketsOf(d)][i]]
    BY DEF Line
  <2> HIDE DEF n, L, M
  <2>4. QED
    BY <1>2, <2>1, <2>2, <2>3
<1>4. M \in [-1 .. n + 1 -> Packets]
  BY <1>1, <1>2
<1> HIDE DEF n, L, M
<1>5. CASE v.kind = "flush"
  <2>1. InLine(M, n + 1) /\ Current(M, n + 1, epoch', NextPos')
    BY <1>1, <1>3, <1>4, <1>5, LineAppended DEF LineInv, n, L
  <2>2. QED
    BY <1>2, <2>1 DEF LineInv, M
<1>6. CASE ~Unmarked(d) /\ v.epoch = epoch /\ v.pos = NextPos /\ NextPos' = NextPos + 1
  <2>1. Current(L, n, epoch, NextPos) /\ InLine(L, n)
    BY <1>6 DEF LineInv, n, L
  <2>2. InLine(M, n + 1) /\ Current(M, n + 1, epoch, NextPos + 1)
    BY <1>1, <1>3, <1>4, <1>6, <2>1, LineAppended
  <2>3. QED
    BY <1>2, <1>6, <2>2 DEF LineInv, M
<1>7. QED
  BY <1>5, <1>6

\* The reader empties the queue.
LEMMA LineEmptied ==
  ASSUME TypeOK, TypeOK', NEW d \in Decoders, LineInv(d),
         data'[PacketsOf(d)] = <<>>, decoded'[d] = decoded[d], InWork(d)' = InWork(d),
         Unmarked(d)'
  PROVE  LineInv(d)'
<1>1. /\ Waiting(d) \in Nat /\ Line(d) \in [-1 .. Waiting(d) -> Packets]
  BY LineTypeNow, LineTypeNext, DecoderIsThread DEF LineType
<1>2. Waiting(d)' = 0 /\ Line(d)' \in [-1 .. 0 -> Packets]
  BY LineTypeNow, LineTypeNext DEF Waiting, LineType
<1>3. -1 \in -1 .. Waiting(d) /\ 0 \in -1 .. Waiting(d)
      /\ Line(d)'[-1] = Line(d)[-1] /\ Line(d)'[0] = Line(d)[0]
  BY <1>1, <1>2 DEF Line
<1>4. \A i, j \in -1 .. 0 : i < j => i = -1 /\ j = 0
  OBVIOUS
<1>5. NoFlush(Line(d), Waiting(d), -1, 0)
  BY DEF NoFlush
<1>6. InLine(Line(d)', 0)
  BY <1>3, <1>4, <1>5 DEF InLine, LineInv
<1>7. QED
  BY <1>2, <1>6 DEF LineInv

\* A decoder takes a packet, or what is none.
LEMMA LineTakes ==
  ASSUME TypeOK, TypeOK', NEW d \in Decoders, LineInv(d), NEW p \in Packets,
         DequeCompletes(d, PacketsOf(d), p), inHand' = [inHand EXCEPT ![d] = p],
         at[d] = "loop", Goes(d, "handle"), UNCHANGED <<decoded, epoch, pos>>
  PROVE  LineInv(d)'
<1> DEFINE k == PacketsOf(d)
<1>1. /\ Waiting(d) \in Nat /\ Line(d) \in [-1 .. Waiting(d) -> Packets]
      /\ k \in Queues /\ d \in Threads /\ data[k] \in Seq(Packets) /\ Neutral(Nil)
      /\ Waiting(d)' \in Nat /\ Line(d)' \in [-1 .. Waiting(d)' -> Packets]
  BY LineTypeNow, LineTypeNext, DecoderIsThread DEF LineType
<1>2. at'[d] = "handle" /\ inHand'[d] = p /\ at'["reader"] = at["reader"]
  BY <1>1 DEF TypeOK, Goes, Decoders, Threads
<1>3. InWork(d)' = p /\ InWork(d) = Nil
  BY <1>2 DEF InWork
<1>4. NextPos' = NextPos /\ (Unmarked(d)' <=> Unmarked(d)) /\ epoch' = epoch
  BY <1>2 DEF NextPos, Unmarked
<1>5. CASE data[k] # <<>>
  <2>1. /\ p = Head(data[k]) /\ data'[k] = Tail(data[k])
    BY <1>1, <1>5 DEF DequeCompletes, TypeOK
  <2>2. /\ Waiting(d) = Waiting(d)' + 1 /\ p = data[k][1]
        /\ \A i \in 1 .. Waiting(d)' : data'[k][i] = data[k][i + 1]
    BY <1>1, <1>5, <2>1, HeadTailProperties DEF Waiting
  <2>3. /\ Line(d)'[-1] = Line(d)[-1] /\ Line(d)[0].kind # "flush"
        /\ \A i \in 0 .. Waiting(d)' : Line(d)'[i] = Line(d)[i + 1]
    <3>1. Line(d)'[-1] = Line(d)[-1] /\ Line(d)[0] = Nil
      BY <1>1, <1>3, <2>2 DEF Line
    <3>2. \A i \in 0 .. Waiting(d)' : Line(d)'[i] = Line(d)[i + 1]
      BY <1>1, <1>3, <2>2 DEF Line
    <3>3. QED
      BY <1>1, <3>1, <3>2 DEF Neutral
  <2>4. Line(d) \in [-1 .. Waiting(d)' + 1 -> Packets]
    BY <1>1, <2>2
  <2>5. /\ InLine(Line(d), Waiting(d)) => InLine(Line(d)', Waiting(d)')
        /\ \A e, q : Current(Line(d), Waiting(d), e, q) => Current(Line(d)', Waiting(d)', e, q)
    <3> DEFINE n == Waiting(d)'
               L == Line(d)
               M == Line(d)'
    <3>1. /\ n \in Nat /\ L \in [-1 .. n + 1 -> Packets] /\ M \in [-1 .. n -> Packets]
          /\ M[-1] = L[-1] /\ L[0].kind # "flush" /\ \A i \in 0 .. n : M[i] = L[i + 1]
      BY <1>1, <2>3, <2>4
    <3>2. Waiting(d) = n + 1
      BY <2>2
    <3> HIDE DEF n, L, M
    <3>3. /\ InLine(L, n + 1) => InLine(M, n)
          /\ \A e, q : Current(L, n + 1, e, q) => Current(M, n, e, q)
      BY <3>1, LineTaken
    <3>4. QED
      BY <3>2, <3>3 DEF n, L, M
  <2>6. QED
    BY <1>4, <2>5 DEF LineInv
<1>6. CASE data[k] = <<>>
  <2>1. p = junk /\ data' = data
    BY <1>6 DEF DequeCompletes
  <2>2. Waiting(d)' = Waiting(d)
    BY <2>1 DEF Waiting
  <2>3. Neutral(p)
    BY <2>1 DEF Neutral, junk, Packet
  <2>4. \A i \in -1 .. Waiting(d) : Line(d)'[i] = Line(d)[i] \/ 
               (Neutral(Line(d)'[i]) /\ Line(d)[i].kind # "flush")
    <3>1. \A i \in -1 .. Waiting(d) : i # 0 => Line(d)'[i] = Line(d)[i]
      BY <1>1, <2>1, <2>2 DEF Line
    <3>2. Line(d)'[0] = p /\ Line(d)[0] = Nil
      BY <1>1, <1>3, <2>2 DEF Line
    <3>3. QED
      BY <1>1, <2>3, <3>1, <3>2 DEF Neutral
  <2>5. /\ InLine(Line(d), Waiting(d)) => InLine(Line(d)', Waiting(d)')
        /\ \A e, q : Current(Line(d), Waiting(d), e, q) => Current(Line(d)', Waiting(d)', e, q)
    <3> DEFINE n == Waiting(d)
               L == Line(d)
               M == Line(d)'
    <3>1. /\ n \in Nat /\ L \in [-1 .. n -> Packets] /\ M \in [-1 .. n -> Packets]
          /\ \A i \in -1 .. n : M[i] = L[i] \/ (Neutral(M[i]) /\ L[i].kind # "flush")
      BY <1>1, <2>2, <2>4
    <3> HIDE DEF n, L, M
    <3>2. /\ InLine(L, n) => InLine(M, n)
          /\ \A e, q : Current(L, n, e, q) => Current(M, n, e, q)
      BY <3>1, LineThinned
    <3>3. QED
      BY <2>2, <3>2 DEF n, L, M
  <2>6. QED
    BY <1>4, <2>5 DEF LineInv
<1>7. QED
  BY <1>5, <1>6

\* A decoder is done with what it has in hand.
LEMMA LineHandles ==
  ASSUME TypeOK, TypeOK', NEW d \in Decoders, LineInv(d), DecodedIsData,
         MeetEof(d) \/ FlushCodec(d) \/ Decode(d)
  PROVE  /\ LineInv(d)'
         /\ decoded'[d] # Nil => decoded'[d].kind = "data"
         /\ decoded'[d] # decoded[d] /\ decoded[d] # Nil /\ decoded'[d] # Nil
               => Follows(decoded[d], decoded'[d])
<1>1. /\ Waiting(d) \in Nat /\ Line(d) \in [-1 .. Waiting(d) -> Packets]
      /\ d \in Threads /\ Neutral(Nil)
      /\ Line(d)' \in [-1 .. Waiting(d)' -> Packets]
  BY LineTypeNow, LineTypeNext, DecoderIsThread DEF LineType
<1>2. /\ at[d] = "handle" /\ data' = data /\ UNCHANGED <<epoch, pos>>
      /\ \E q \in {"ended", "loop", "put"} : Goes(d, q)
      /\ inHand[d].kind \in {"data", "eof", "flush", "junk"}
      /\ FlushCodec(d) \/ Decode(d) \/ decoded' = decoded
  BY DEF MeetEof, FlushCodec, Decode, MakesFrames, Is, queueVars, readerVars, Looks
<1>3. at'[d] # "handle" /\ at'["reader"] = at["reader"]
  BY <1>1, <1>2 DEF TypeOK, Goes, Decoders, Threads
<1>4. InWork(d) = inHand[d] /\ InWork(d)' = Nil
  BY <1>2, <1>3 DEF InWork
<1>5. NextPos' = NextPos /\ (Unmarked(d)' <=> Unmarked(d)) /\ epoch' = epoch
  BY <1>2, <1>3 DEF NextPos, Unmarked
<1>6. Waiting(d)' = Waiting(d)
  BY <1>2 DEF Waiting
<1>7. /\ -1 \in -1 .. Waiting(d) /\ 0 \in -1 .. Waiting(d)
      /\ Line(d)[-1] = decoded[d] /\ Line(d)'[-1] = decoded'[d]
      /\ Line(d)[0] = inHand[d] /\ Line(d)'[0] = Nil
      /\ \A i \in 1 .. Waiting(d) : Line(d)'[i] = Line(d)[i]
  BY <1>1, <1>2, <1>4, <1>6 DEF Line
<1>8. \A i \in -1 .. Waiting(d) : i = -1 \/ i = 0 \/ i \in 1 .. Waiting(d)
  BY <1>1
<1>10. CASE decoded' = decoded /\ inHand[d].kind # "flush"
  <2>1. \A i \in -1 .. Waiting(d) : Line(d)'[i] = Line(d)[i] \/ 
               (Neutral(Line(d)'[i]) /\ Line(d)[i].kind # "flush")
    BY <1>1, <1>7, <1>8, <1>10
  <2>2. LineInv(d)'
    <3> DEFINE n == Waiting(d)
               L == Line(d)
               M == Line(d)'
    <3>1. /\ n \in Nat /\ L \in [-1 .. n -> Packets] /\ M \in [-1 .. n -> Packets]
          /\ \A i \in -1 .. n : M[i] = L[i] \/ (Neutral(M[i]) /\ L[i].kind # "flush")
      BY <1>1, <1>6, <2>1
    <3> HIDE DEF n, L, M
    <3>2. /\ InLine(L, n) => InLine(M, n)
          /\ \A e, q : Current(L, n, e, q) => Current(M, n, e, q)
      BY <3>1, LineThinned
    <3>3. QED
      BY <1>5, <1>6, <3>2 DEF n, L, M, LineInv
  <2>3. QED
    BY <1>10, <2>2 DEF DecodedIsData
<1>11. CASE FlushCodec(d)
  <2>1. decoded'[d] = Nil /\ inHand[d].kind \in {"flush", "junk"}
    BY <1>11 DEF FlushCodec, Looks, TypeOK
  <2>2. LineInv(d)'
    <3> DEFINE n == Waiting(d)
               L == Line(d)
               M == Line(d)'
    <3>1. /\ n \in Nat /\ L \in [-1 .. n -> Packets] /\ M \in [-1 .. n -> Packets]
          /\ Neutral(M[-1]) /\ Neutral(M[0]) /\ \A i \in 1 .. n : M[i] = L[i]
      BY <1>1, <1>6, <1>7, <2>1
    <3> HIDE DEF n, L, M
    <3>2. /\ InLine(L, n) => InLine(M, n)
          /\ \A e, q : Current(L, n, e, q) => Current(M, n, e, q)
      BY <3>1, LineBegun
    <3>3. QED
      BY <1>5, <1>6, <3>2 DEF n, L, M, LineInv
  <2>3. QED
    BY <2>1, <2>2
<1>12. CASE Decode(d) /\ inHand[d].kind = "data"
  <2>1. decoded'[d] = inHand[d]
    BY <1>12 DEF Decode, TypeOK
  <2>2. LineInv(d)'
    BY <1>1, <1>5, <1>6, <1>7, <2>1, LineDecoded DEF LineInv
  <2>3. decoded[d] # Nil => Follows(decoded[d], inHand[d])
    <3>1. NoFlush(Line(d), Waiting(d), -1, 0)
      BY DEF NoFlush
    <3>2. QED
      BY <1>7, <1>12, <3>1 DEF InLine, LineInv, DecodedIsData
  <2>4. QED
    BY <1>12, <2>1, <2>2, <2>3
<1>13. Decode(d) => \/ decoded' = decoded /\ inHand[d].kind # "flush"
                   \/ inHand[d].kind = "data"
  BY <1>2 DEF Decode, Looks
<1>14. MeetEof(d) => decoded' = decoded /\ inHand[d].kind # "flush"
  BY DEF MeetEof, Looks
<1>15. QED
  BY <1>10, <1>11, <1>12, <1>13, <1>14

\* What put(), deque() and flush() do to the other queues, and to this one.
LEMMA QueueEffects ==
  ASSUME TypeOK, NEW t \in Threads, NEW k \in Queues
  PROVE  /\ PutWaits(t, k) \/ DequeWaits(t, k) => data' = data
         /\ \A v : PutCompletes(t, k, v) => data' = [data EXCEPT ![k] = Append(@, v)]
         /\ Flush(t, k) => data' = [data EXCEPT ![k] = <<>>]
         /\ \A v : DequeCompletes(t, k, v) => \A q \in Queues \ {k} : data'[q] = data[q]
BY DEF TypeOK, PutWaits, DequeWaits, Sleep, PutCompletes, Flush, DequeCompletes

\* The reader's steps keep a decoder's line.
LEMMA LineReader ==
  ASSUME TypeOK, TypeOK', NEW d \in Decoders, LineInv(d), ReaderHolds, Reader
  PROVE  LineInv(d)'
<1>a. d \in Threads \ {"reader"} /\ "reader" \in Threads
      /\ {"audioPackets", "videoPackets", "videoFrames"} \subseteq Queues
      /\ \/ d = "audio" /\ PacketsOf(d) = "audioPackets"
         \/ d = "video" /\ PacketsOf(d) = "videoPackets"
  BY DEF Decoders, Threads, Queues, PacketsOf
<1>b. ASSUME UNCHANGED inHand \/ ReaderReads, at'[d] = at[d] PROVE InWork(d)' = InWork(d)
  <2>1. inHand'[d] = inHand[d]
    BY <1>a, <1>b DEF ReaderReads, TypeOK
  <2>2. QED
    BY <1>b, <2>1 DEF InWork
<1>c. data \in [Queues -> Seq(Packets)]
  BY DEF TypeOK
<1>d. pos \in Nat /\ epoch \in Nat /\ pos' \in Nat
  BY PacketQueueAssumption DEF TypeOK
<1>1. CASE \/ ReaderQuits \/ ReaderGoesOn \/ ReaderNaps \/ ReaderMeetsEnd \/ ReaderJoins
  <2>1. /\ UNCHANGED <<data, decoded, inHand, pos, epoch>>
        /\ at["reader"] \in {"loop", "read", "joinAudio", "joinVideo"}
        /\ at' = at \/ \E p \in {"loop", "read", "joinAudio", "joinVideo", "ended"} : Goes("reader", p)
    BY <1>1 DEF ReaderQuits, ReaderGoesOn, ReaderNaps, ReaderMeetsEnd, ReaderJoins, JoinThen, Is,
                readerVars, queueVars
  <2>2. /\ at'["reader"] \in {"loop", "read", "joinAudio", "joinVideo", "ended"}
        /\ at'[d] = at[d]
    BY <1>a, <2>1, GoesOne
  <2>3. Ahead(d)
    BY <1>d, <2>1, <2>2 DEF Ahead, Unmarked, NextPos
  <2>4. QED
    BY <1>b, <2>1, <2>2, <2>3, LineQuiet
<1>2. CASE ReaderSeeks
  <2>1. /\ UNCHANGED <<data, decoded, inHand>> /\ at["reader"] = "loop"
        /\ \/ Goes("reader", "seekFlushVideo")
           \/ Goes("reader", "read") /\ UNCHANGED <<pos, epoch>>
    BY <1>2 DEF ReaderSeeks, Is, readerVars, queueVars
  <2>2. at'[d] = at[d]
    BY <1>a, <2>1, GoesOne
  <2>3. \/ at'["reader"] = "seekFlushVideo"
        \/ at'["reader"] = "read" /\ UNCHANGED <<pos, epoch>>
    <3>1. ASSUME NEW p, Goes("reader", p) PROVE at'["reader"] = p
      BY <1>a, <3>1, GoesOne
    <3>2. QED
      BY <2>1, <3>1
  <2>4. ASSUME at'["reader"] = "seekFlushVideo" PROVE Ahead(d)
    BY <2>4 DEF Ahead, Unmarked
  <2>5. ASSUME at'["reader"] = "read", UNCHANGED <<pos, epoch>> PROVE Ahead(d)
    BY <1>d, <2>1, <2>5 DEF Ahead, Unmarked, NextPos
  <2>6. QED
    BY <1>b, <2>1, <2>2, <2>3, <2>4, <2>5, LineQuiet
<1>3. CASE ReaderReads
  <2>1. /\ UNCHANGED <<data, decoded, epoch>> /\ at["reader"] = "read" /\ pos' = pos + 1
        /\ \E p \in {"putAudio", "putVideo", "loop"} : Goes("reader", p)
    BY <1>3 DEF ReaderReads, Is, queueVars
  <2>2. at'[d] = at[d] /\ at'["reader"] \in {"putAudio", "putVideo", "loop"}
    BY <1>a, <2>1, GoesOne
  <2>3. Ahead(d)
    BY <1>d, <2>1, <2>2 DEF Ahead, Unmarked, NextPos
  <2>4. QED
    BY <1>3, <1>b, <2>1, <2>2, <2>3, LineQuiet
<1>4. CASE ReaderPuts
  <2>1. UNCHANGED <<decoded, inHand, pos, epoch>>
    BY <1>4 DEF ReaderPuts, readerVars
  <2>2. PICK k \in {"audioPackets", "videoPackets"}, place \in {"putAudio", "putVideo"} :
             PutThen("reader", place, k, inHand["reader"], "loop")
    BY <1>4 DEF ReaderPuts
  <2>3. at["reader"] = place /\ inHand["reader"] = Packet("data", epoch, pos)
    BY <2>2 DEF PutThen, Is, ReaderHolds
  <2>4. CASE PutWaits("reader", k) /\ UNCHANGED at
    <3>1. data' = data
      BY <1>a, <2>2, <2>4, QueueEffects
    <3>2. Ahead(d)
      BY <1>d, <2>1, <2>3, <2>4 DEF Ahead, Unmarked, NextPos
    <3>3. QED
      BY <1>b, <2>1, <2>4, <3>1, <3>2, LineQuiet
  <2>5. CASE PutCompletes("reader", k, inHand["reader"]) /\ Goes("reader", "loop")
    <3>1. at'["reader"] = "loop" /\ at'[d] = at[d]
      BY <1>a, <2>5, GoesOne
    <3>2. data' = [data EXCEPT ![k] = Append(@, inHand["reader"])]
      BY <1>a, <2>2, <2>5, QueueEffects
    <3>3. NextPos = pos /\ NextPos' = pos + 1 /\ ~Unmarked(d) /\ ~Unmarked(d)'
      BY <2>1, <2>2, <2>3, <3>1 DEF NextPos, Unmarked
    <3>4. CASE k = PacketsOf(d)
      <4>1. data'[PacketsOf(d)] = Append(data[PacketsOf(d)], inHand["reader"])
        BY <1>a, <1>c, <3>2, <3>4
      <4>2. inHand["reader"] \in Packets /\ inHand["reader"].epoch = epoch /\ inHand["reader"].pos = pos
        BY <1>a, <2>3 DEF TypeOK, Packet
      <4>3. QED
        BY <1>b, <2>1, <3>1, <3>3, <4>1, <4>2, LinePut
    <3>5. CASE k # PacketsOf(d)
      <4>1. data'[PacketsOf(d)] = data[PacketsOf(d)]
        BY <1>a, <1>c, <3>2, <3>5
      <4>2. Ahead(d)
        BY <1>d, <2>1, <3>3 DEF Ahead
      <4>3. QED
        BY <1>b, <2>1, <3>1, <4>1, <4>2, LineQuiet
    <3>6. QED
      BY <3>4, <3>5
  <2>6. QED
    BY <2>2, <2>4, <2>5 DEF PutThen
<1>5. CASE SeekFlushes \/ SeekEnds
  <2>1. UNCHANGED <<decoded, inHand, pos, epoch>>
    BY <1>5 DEF SeekFlushes, SeekEnds, readerVars
  <2>2. ASSUME NEW k \in Queues, NEW place, NEW next, FlushThen("reader", place, k, next),
               \/ place = "seekFlushVideo" /\ k = "videoPackets" /\ next = "seekPutVideo"
               \/ place = "seekFlushAudio" /\ k = "audioPackets" /\ next = "seekPutAudio"
               \/ place = "seekFlushFrames" /\ k = "videoFrames" /\ next = "read"
        PROVE  LineInv(d)'
    <3>1. at["reader"] = place /\ at'["reader"] = next /\ at'[d] = at[d]
      BY <1>a, <2>2, GoesOne DEF FlushThen, Is
    <3>2. data' = [data EXCEPT ![k] = <<>>]
      BY <1>a, <2>2, QueueEffects DEF FlushThen
    <3>3. CASE k = PacketsOf(d)
      <4>1. data'[PacketsOf(d)] = <<>>
        BY <1>a, <1>c, <3>2, <3>3
      <4>2. Unmarked(d)'
        BY <1>a, <2>2, <3>1, <3>3 DEF Unmarked
      <4>3. QED
        BY <1>b, <2>1, <3>1, <4>1, <4>2, LineEmptied
    <3>4. CASE k # PacketsOf(d)
      <4>1. data'[PacketsOf(d)] = data[PacketsOf(d)]
        BY <1>a, <1>c, <3>2, <3>4
      <4>2. Ahead(d)
        BY <1>a, <1>d, <2>1, <2>2, <3>1, <3>4 DEF Ahead, Unmarked, NextPos
      <4>3. QED
        BY <1>b, <2>1, <3>1, <4>1, <4>2, LineQuiet
    <3>5. QED
      BY <3>3, <3>4
  <2>3. ASSUME NEW k \in Queues, NEW place, NEW next, PutThen("reader", place, k, flushPkt, next),
               \/ place = "seekPutVideo" /\ k = "videoPackets" /\ next = "seekFlushAudio"
               \/ place = "seekPutAudio" /\ k = "audioPackets" /\ next = "seekFlushFrames"
        PROVE  LineInv(d)'
    <3>1. at["reader"] = place /\ flushPkt \in Packets /\ flushPkt.kind = "flush"
      BY <2>3, MarksType DEF PutThen, Is, flushPkt, Packet
    <3>2. CASE PutWaits("reader", k) /\ UNCHANGED at
      <4>1. data' = data
        BY <1>a, <3>2, QueueEffects
      <4>2. Ahead(d)
        BY <1>d, <2>1, <3>2 DEF Ahead, Unmarked, NextPos
      <4>3. QED
        BY <1>b, <2>1, <3>2, <4>1, <4>2, LineQuiet
    <3>3. CASE PutCompletes("reader", k, flushPkt) /\ Goes("reader", next)
      <4>1. at'["reader"] = next /\ at'[d] = at[d]
        BY <1>a, <3>3, GoesOne
      <4>2. data' = [data EXCEPT ![k] = Append(@, flushPkt)]
        BY <1>a, <3>3, QueueEffects
      <4>3. CASE k = PacketsOf(d)
        <5>1. data'[PacketsOf(d)] = Append(data[PacketsOf(d)], flushPkt)
          BY <1>a, <1>c, <4>2, <4>3
        <5>2. QED
          BY <1>b, <2>1, <3>1, <4>1, <5>1, LinePut
      <4>4. CASE k # PacketsOf(d)
        <5>1. data'[PacketsOf(d)] = data[PacketsOf(d)]
          BY <1>a, <1>c, <4>2, <4>4
        <5>2. Ahead(d)
          BY <1>a, <1>d, <2>1, <2>3, <3>1, <4>1, <4>4 DEF Ahead, Unmarked, NextPos
        <5>3. QED
          BY <1>b, <2>1, <4>1, <5>1, <5>2, LineQuiet
      <4>5. QED
        BY <4>3, <4>4
    <3>4. QED
      BY <2>3, <3>2, <3>3 DEF PutThen
  <2>4. QED
    BY <1>5, <1>a, <2>2, <2>3 DEF SeekFlushes, SeekEnds, AfterFlushOfAudio
<1>6. QED
  BY <1>1, <1>2, <1>3, <1>4, <1>5 DEF Reader

\* A step of another thread, that leaves a decoder's queue and hand alone.
LEMMA LineElsewhere ==
  ASSUME TypeOK, TypeOK', NEW d \in Decoders, LineInv(d),
         data'[PacketsOf(d)] = data[PacketsOf(d)], decoded'[d] = decoded[d],
         InWork(d)' = InWork(d), at'["reader"] = at["reader"], UNCHANGED readerVars
  PROVE  LineInv(d)'
<1>1. pos \in Nat
  BY PacketQueueAssumption DEF TypeOK
<1>2. Ahead(d)
  BY <1>1 DEF Ahead, Unmarked, NextPos, readerVars
<1>3. QED
  BY <1>2, LineQuiet

\* A decoder's steps keep the lines of both; what it decodes follows.
LEMMA LineDecoder ==
  ASSUME TypeOK, TypeOK', NEW d \in Decoders, LineInv(d), DecodedIsData,
         NEW e \in Decoders, Decoder(e)
  PROVE  /\ LineInv(d)'
         /\ decoded'[d] # Nil => decoded'[d].kind = "data"
         /\ decoded'[d] # decoded[d] /\ decoded[d] # Nil /\ decoded'[d] # Nil
               => Follows(decoded[d], decoded'[d])
<1>1. /\ d \in Threads /\ e \in Threads \ {"reader"} /\ "reader" \in Threads
      /\ PacketsOf(d) \in Queues /\ PacketsOf(e) \in Queues
      /\ d # e => PacketsOf(d) # PacketsOf(e)
  BY DEF Decoders, Threads, PacketsOf, Queues
<1>2. CASE d # e
  <2>1. UNCHANGED at \/ \E p : Goes(e, p)
    BY DEF Decoder, TakePacket, MeetEof, FlushCodec, Decode
  <2>2. at'[d] = at[d] /\ at'["reader"] = at["reader"]
    BY <1>1, <1>2, <2>1, GoesOne
  <2>3. inHand'[d] = inHand[d] /\ decoded'[d] = decoded[d] /\ UNCHANGED readerVars
    BY <1>1, <1>2 DEF Decoder, TakePacket, MeetEof, FlushCodec, Decode, TypeOK
  <2>4. data'[PacketsOf(d)] = data[PacketsOf(d)]
    <3>1. CASE TakePacket(e)
      BY <1>1, <1>2, <3>1, QueueEffects DEF TakePacket
    <3>2. CASE MeetEof(e) \/ FlushCodec(e) \/ Decode(e)
      BY <3>2 DEF MeetEof, FlushCodec, Decode, queueVars
    <3>3. QED
      BY <3>1, <3>2 DEF Decoder
  <2>5. InWork(d)' = InWork(d)
    BY <2>2, <2>3 DEF InWork
  <2>6. QED
    BY <2>2, <2>3, <2>4, <2>5, LineElsewhere DEF DecodedIsData
<1>3. CASE d = e
  <2>1. CASE MeetEof(d) \/ FlushCodec(d) \/ Decode(d)
    BY <2>1, LineHandles
  <2>2. CASE TakePacket(d)
    <3>1. decoded' = decoded /\ UNCHANGED readerVars /\ at[d] = "loop"
      BY <2>2 DEF TakePacket, Is
    <3>2. CASE DequeWaits(d, PacketsOf(d)) /\ UNCHANGED <<at, inHand>>
      <4>1. data' = data
        BY <1>1, <3>2, QueueEffects
      <4>2. InWork(d)' = InWork(d)
        BY <3>2 DEF InWork
      <4>3. QED
        BY <3>1, <3>2, <4>1, <4>2, LineElsewhere DEF DecodedIsData
    <3>3. ASSUME NEW p \in Packets, DequeCompletes(d, PacketsOf(d), p),
                 inHand' = [inHand EXCEPT ![d] = p], Goes(d, "handle")
          PROVE  LineInv(d)'
      BY <3>1, <3>3, LineTakes DEF readerVars
    <3>4. LineInv(d)'
      BY <2>2, <3>2, <3>3 DEF TakePacket
    <3>5. QED
      BY <3>1, <3>4 DEF DecodedIsData
  <2>3. QED
    BY <1>3, <2>1, <2>2 DEF Decoder
<1>4. QED
  BY <1>2, <1>3

\* The steps of the main thread and the sending of a frame, before stop() begins.
LEMMA LineMain ==
  ASSUME TypeOK, TypeOK', NEW d \in Decoders, LineInv(d), ~Stopping, ~Stopping',
         SendFrame \/ Main \/ RequestSeek \/ BeginStop \/ UNCHANGED vars
  PROVE  LineInv(d)'
<1>1. /\ d \in Threads /\ "reader" \in Threads /\ "video" \in Threads /\ "main" \in Threads
      /\ d # "main" /\ PacketsOf(d) \in Queues \ {"videoFrames"} /\ "videoFrames" \in Queues
  BY DEF Decoders, Threads, PacketsOf, Queues
<1>2. data \in [Queues -> Seq(Packets)]
  BY DEF TypeOK
<1>3. UNCHANGED readerVars /\ decoded' = decoded
  BY DEF SendFrame, Main, Refresh, ShowFrame, StopQueues, SetQuit, JoinReader, RequestSeek,
         BeginStop, vars
<1>4. CASE SendFrame
  <2>1. /\ inHand' = inHand /\ at["video"] = "put"
        /\ UNCHANGED at \/ \E p \in {"loop", "ended"} : Goes("video", p)
    BY <1>4 DEF SendFrame, PutThen, Is
  <2>2. at'["video"] # "handle" /\ at'["reader"] = at["reader"] /\ (d # "video" => at'[d] = at[d])
    BY <1>1, <2>1, GoesOne
  <2>3. InWork(d)' = InWork(d)
    BY <2>1, <2>2 DEF InWork
  <2>4. data'[PacketsOf(d)] = data[PacketsOf(d)]
    BY <1>1, <1>2, <1>4, QueueEffects DEF SendFrame, PutThen
  <2>5. QED
    BY <1>3, <2>2, <2>3, <2>4, LineElsewhere
<1>5. CASE Main \/ RequestSeek \/ BeginStop \/ UNCHANGED vars
  <2>1. ~StopQueues
    BY DEF StopQueues, FlushThen, PutThen, Is, Stopping
  <2>2. UNCHANGED at \/ \E p : Goes("main", p)
    BY <1>5, <2>1 DEF Main, Refresh, ShowFrame, SetQuit, JoinReader, RequestSeek, BeginStop, vars
  <2>3. at'[d] = at[d] /\ at'["reader"] = at["reader"]
    BY <1>1, <2>2, GoesOne
  <2>4. inHand'[d] = inHand[d]
    BY <1>1, <1>5, <2>1 DEF Main, Refresh, ShowFrame, SetQuit, JoinReader, RequestSeek, BeginStop,
                            vars, TypeOK
  <2>5. data'[PacketsOf(d)] = data[PacketsOf(d)]
    <3>1. CASE ShowFrame
      BY <1>1, <3>1, QueueEffects DEF ShowFrame
    <3>2. CASE ~ShowFrame
      BY <1>5, <2>1, <3>2 DEF Main, Refresh, SetQuit, JoinReader, RequestSeek, BeginStop, vars,
                              queueVars
    <3>3. QED
      BY <3>1, <3>2
  <2>6. InWork(d)' = InWork(d)
    BY <2>3, <2>4 DEF InWork
  <2>7. QED
    BY <1>3, <2>3, <2>5, <2>6, LineElsewhere
<1>6. QED
  BY <1>4, <1>5

\* Nothing is in line at first.
LEMMA OrderInit == Init => OrderInv
<1> SUFFICES ASSUME Init PROVE OrderInv
  OBVIOUS
<1>1. /\ data = [k \in Queues |-> <<>>] /\ decoded = [d \in Decoders |-> Nil]
      /\ inHand = [t \in Threads |-> Nil]
      /\ at \in [Threads -> {"loop", "ended"}]
  BY DEF Init, QueueInit
<1>2. ASSUME NEW d \in Decoders PROVE LineInv(d)
  <2>1. Waiting(d) = 0 /\ decoded[d] = Nil /\ InWork(d) = Nil /\ at["reader"] \in {"loop", "ended"}
    BY <1>1, <1>2, DecoderIsThread DEF Waiting, InWork, Threads
  <2>2. \A i \in -1 .. 0 : Line(d)[i] = Nil
    BY <2>1 DEF Line
  <2>3. Nil.kind # "data"
    BY DEF Nil, Packet
  <2>4. QED
    BY <2>1, <2>2, <2>3 DEF LineInv, InLine, Current
<1>3. ReaderHolds /\ DecodedIsData
  BY <1>1 DEF ReaderHolds, DecodedIsData, Threads
<1>4. QED
  BY <1>2, <1>3 DEF OrderInv

\* The reader's packet is the one it read last.
LEMMA ReaderHoldsStep == TypeOK /\ ReaderHolds /\ [Next]_vars => ReaderHolds'
<1> SUFFICES ASSUME TypeOK, ReaderHolds, [Next]_vars PROVE ReaderHolds'
  OBVIOUS
<1>1. "reader" \in Threads /\ "video" \in Threads /\ "main" \in Threads
      /\ Decoders \subseteq Threads \ {"reader"}
  BY DEF Threads, Decoders
<1>2. CASE ReaderReads
  <2>1. inHand'["reader"] = Packet("data", epoch', pos')
    BY <1>1, <1>2 DEF ReaderReads, TypeOK
  <2>2. QED
    BY <2>1 DEF ReaderHolds
<1>3. CASE Reader /\ ~ReaderReads
  <2>1. UNCHANGED inHand
    BY <1>3 DEF Reader, ReaderQuits, ReaderSeeks, SeekFlushes, SeekEnds, ReaderGoesOn, ReaderNaps,
                ReaderPuts, ReaderMeetsEnd, ReaderJoins
  <2>2. \/ UNCHANGED <<at, epoch, pos>>
        \/ \E p \in ReaderPlaces \ {"putAudio", "putVideo"} : Goes("reader", p)
    BY <1>3 DEF Reader, ReaderQuits, ReaderSeeks, SeekFlushes, SeekEnds, ReaderGoesOn, ReaderNaps,
                ReaderPuts, ReaderMeetsEnd, ReaderJoins, PutThen, FlushThen, JoinThen, readerVars,
                ReaderPlaces, AfterFlushOfAudio
  <2>3. ASSUME NEW p, Goes("reader", p) PROVE at'["reader"] = p
    BY <1>1, <2>3, GoesOne
  <2>4. QED
    BY <2>1, <2>2, <2>3 DEF ReaderHolds
<1>4. CASE (\E d \in Decoders : Decoder(d)) \/ SendFrame \/ Main \/ RequestSeek \/ BeginStop
           \/ UNCHANGED vars
  <2>1. UNCHANGED readerVars
    BY <1>4 DEF Decoder, TakePacket, MeetEof, FlushCodec, Decode, SendFrame, Main, Refresh, ShowFrame,
                StopQueues, SetQuit, JoinReader, RequestSeek, BeginStop, vars
  <2>2. UNCHANGED at \/ \E t \in Threads \ {"reader"}, p \in Places : Goes(t, p)
    <3>1. ASSUME NEW d \in Decoders, Decoder(d)
          PROVE  UNCHANGED at \/ \E p \in Places : Goes(d, p)
      BY <3>1 DEF Decoder, TakePacket, MeetEof, FlushCodec, Decode, Places, VideoPlaces
    <3>2. SendFrame => UNCHANGED at \/ \E p \in Places : Goes("video", p)
      BY DEF SendFrame, PutThen, Places, VideoPlaces
    <3>3. Main \/ RequestSeek \/ BeginStop => UNCHANGED at \/ \E p \in Places : Goes("main", p)
      BY DEF Main, Refresh, ShowFrame, StopQueues, SetQuit, JoinReader, RequestSeek, BeginStop,
             PutThen, FlushThen, Places, MainPlaces
    <3>4. QED
      BY <1>1, <1>4, <3>1, <3>2, <3>3 DEF vars
  <2>3. at'["reader"] = at["reader"]
    BY <1>1, <2>2, GoesOne
  <2>4. inHand'["reader"] = inHand["reader"]
    <3>1. UNCHANGED inHand \/ \E t \in Threads \ {"reader"}, p \in Packets : inHand' = [inHand EXCEPT ![t] = p]
      BY <1>1, <1>4 DEF Decoder, TakePacket, MeetEof, FlushCodec, Decode, SendFrame, Main, Refresh,
                  ShowFrame, StopQueues, SetQuit, JoinReader, RequestSeek, BeginStop, vars, Threads
    <3>2. QED
      BY <1>1, <3>1 DEF TypeOK
  <2>5. QED
    BY <2>1, <2>3, <2>4 DEF ReaderHolds, readerVars
<1>5. QED
  BY <1>2, <1>3, <1>4 DEF Next

\* stop() is not taken back.
LEMMA StoppingStays == TypeOK /\ [Next]_vars /\ Stopping => Stopping'
<1> SUFFICES ASSUME TypeOK, [Next]_vars, Stopping PROVE Stopping'
  OBVIOUS
<1>1. "main" \in Threads /\ Decoders \cup {"reader", "video"} \subseteq Threads \ {"main"}
  BY DEF Threads, Decoders
<1>2. \/ UNCHANGED at
      \/ \E t \in Threads \ {"main"}, p \in Places : Goes(t, p)
      \/ \E p \in MainPlaces \ {"loop", "deque"} : Goes("main", p)
  <2>1. Reader => UNCHANGED at \/ \E p \in Places : Goes("reader", p)
    BY DEF Reader, ReaderQuits, ReaderSeeks, SeekFlushes, SeekEnds, ReaderGoesOn, ReaderNaps,
           ReaderReads, ReaderPuts, ReaderMeetsEnd, ReaderJoins, PutThen, FlushThen, JoinThen,
           AfterFlushOfAudio, Places, ReaderPlaces
  <2>2. ASSUME NEW d \in Decoders, Decoder(d)
        PROVE  UNCHANGED at \/ \E p \in Places : Goes(d, p)
    BY <2>2 DEF Decoder, TakePacket, MeetEof, FlushCodec, Decode, Places, VideoPlaces
  <2>3. SendFrame => UNCHANGED at \/ \E p \in Places : Goes("video", p)
    BY DEF SendFrame, PutThen, Places, VideoPlaces
  <2>4. Main \/ RequestSeek \/ BeginStop
           => UNCHANGED at \/ \E p \in MainPlaces \ {"loop", "deque"} : Goes("main", p)
    BY DEF Main, Refresh, ShowFrame, StopQueues, SetQuit, JoinReader, RequestSeek, BeginStop,
           PutThen, FlushThen, MainPlaces, Is, Stopping
  <2>5. QED
    BY <1>1, <2>1, <2>2, <2>3, <2>4 DEF Next, vars
<1>3. ASSUME NEW t \in Threads \ {"main"}, NEW p, Goes(t, p) PROVE at'["main"] = at["main"]
  BY <1>1, <1>3, GoesOne
<1>4. ASSUME NEW p, Goes("main", p) PROVE at'["main"] = p
  BY <1>1, <1>4, GoesOne
<1>5. QED
  BY <1>2, <1>3, <1>4 DEF Stopping

\* No step breaks the order, and what is decoded next follows.
LEMMA OrderStep ==
  ASSUME TypeOK, TypeOK', OrderInv, [Next]_vars
  PROVE  /\ OrderInv'
         /\ \A d \in Decoders :
              ~Stopping /\ decoded'[d] # decoded[d] /\ decoded[d] # Nil /\ decoded'[d] # Nil
                => Follows(decoded[d], decoded'[d])
<1>1. ReaderHolds'
  BY ReaderHoldsStep DEF OrderInv
<1>2. ASSUME NEW e \in Decoders, Decoder(e), NEW d \in Decoders, decoded'[d] # Nil
      PROVE  decoded'[d].kind = "data"
  <2>1. \/ decoded' = decoded
        \/ decoded' = [decoded EXCEPT ![e] = Nil]
        \/ inHand[e].kind = "data" /\ decoded' = [decoded EXCEPT ![e] = inHand[e]]
    BY <1>2 DEF Decoder, TakePacket, MeetEof, FlushCodec, Decode
  <2>2. QED
    BY <1>2, <2>1 DEF OrderInv, DecodedIsData, TypeOK
<1>3. ASSUME ~\E e \in Decoders : Decoder(e) PROVE decoded' = decoded
  BY <1>3 DEF Next, vars, Reader, ReaderQuits, ReaderSeeks, SeekFlushes, SeekEnds, ReaderGoesOn,
       ReaderNaps, ReaderReads, ReaderPuts, ReaderMeetsEnd, ReaderJoins, SendFrame, Main, Refresh,
       ShowFrame, StopQueues, SetQuit, JoinReader, RequestSeek, BeginStop
<1>4. DecodedIsData'
  BY <1>2, <1>3 DEF OrderInv, DecodedIsData
<1>5. ~Stopping' => ~Stopping
  BY StoppingStays
<1>6. ASSUME ~Stopping, NEW d \in Decoders PROVE LineInv(d) /\ DecodedIsData /\ ReaderHolds
  BY <1>6 DEF OrderInv
<1>7. ASSUME NEW d \in Decoders, ~Stopping' PROVE LineInv(d)'
  <2>1. CASE Reader
    BY <1>5, <1>6, <1>7, <2>1, LineReader
  <2>2. CASE \E e \in Decoders : Decoder(e)
    BY <1>5, <1>6, <1>7, <2>2, LineDecoder
  <2>3. CASE SendFrame \/ Main \/ RequestSeek \/ BeginStop \/ UNCHANGED vars
    BY <1>5, <1>6, <1>7, <2>3, LineMain
  <2>4. QED
    BY <2>1, <2>2, <2>3 DEF Next
<1>8. ASSUME NEW d \in Decoders, ~Stopping, decoded'[d] # decoded[d], decoded[d] # Nil,
             decoded'[d] # Nil
      PROVE  Follows(decoded[d], decoded'[d])
  BY <1>3, <1>6, <1>8, LineDecoder
<1>9. QED
  BY <1>1, <1>4, <1>7, <1>8 DEF OrderInv

\* Until stop() empties the queues, what a decoder decodes between two flushes was
\* read after one and the same seek and in the order of the film, however the
\* threads interleave and whatever the seeks discard.
THEOREM DecodesInOrder == Spec => DecodedInOrder
<1>1. Init => TypeOK /\ OrderInv
  BY TypeInit, OrderInit
<1>2. TypeOK /\ OrderInv /\ [Next]_vars => (TypeOK /\ OrderInv)'
  BY TypeStep, OrderStep
<1>3. TypeOK /\ OrderInv /\ [Next]_vars =>
        [\A d \in Decoders :
           ~Stopping /\ decoded'[d] # decoded[d] /\ decoded[d] # Nil /\ decoded'[d] # Nil
             => /\ decoded'[d].epoch = decoded[d].epoch
                /\ decoded'[d].pos > decoded[d].pos]_vars
  BY TypeStep, OrderStep DEF Follows
<1>4. QED
  BY <1>1, <1>2, <1>3, PTL DEF Spec, DecodedInOrder

(***************************************************************************)
(* Stale frames.                                                           *)
(***************************************************************************)

\* The positions in a queue of what was read before seek number e.
Old(q, e) == {i \in DOMAIN q : q[i].kind = "data" /\ q[i].epoch < e}
AtMostOne(S) == \A i, j \in S : i = j

StaleHand == at["video"] \in {"handle", "put"} /\ Stale(inHand["video"])

\* Once the video's queue was flushed, no packet in it is stale.
Fresh == at["reader"] # "seekFlushVideo" => Old(data["videoPackets"], epoch) = {}

\* Between seeks one frame or packet of before is on its way to the screen.
FewStale ==
  ~Seeking =>
    /\ AtMostOne(Old(data["videoFrames"], epoch))
    /\ StaleHand => Old(data["videoFrames"], epoch) = {}

StaleInv == Fresh /\ FewStale

\* Taking, putting and emptying, for what is old in a queue.
LEMMA OldTaken ==
  ASSUME NEW q \in Seq(Packets), q # <<>>, NEW e
  PROVE  /\ Old(q, e) = {} => Old(Tail(q), e) = {}
         /\ AtMostOne(Old(q, e)) => AtMostOne(Old(Tail(q), e))
<1>1. Len(q) \in Nat \ {0} /\ Len(Tail(q)) = Len(q) - 1
      /\ \A i \in 1 .. Len(Tail(q)) : Tail(q)[i] = q[i + 1]
      /\ DOMAIN q = 1 .. Len(q) /\ DOMAIN Tail(q) = 1 .. Len(q) - 1
  BY EmptySeq, HeadTailProperties
<1>2. \A i \in Old(Tail(q), e) : i \in Int /\ i + 1 \in Old(q, e)
  BY <1>1 DEF Old
<1>3. QED
  BY <1>2 DEF AtMostOne

\* The same for an element appended.
LEMMA OldPut ==
  ASSUME NEW q \in Seq(Packets), NEW v \in Packets, NEW e
  PROVE  /\ Old(q, e) = {} => AtMostOne(Old(Append(q, v), e))
         /\ ~(v.kind = "data" /\ v.epoch < e) => Old(Append(q, v), e) = Old(q, e)
<1>1. Len(q) \in Nat /\ DOMAIN q = 1 .. Len(q) /\ DOMAIN Append(q, v) = 1 .. Len(q) + 1
      /\ Append(q, v)[Len(q) + 1] = v /\ \A i \in 1 .. Len(q) : Append(q, v)[i] = q[i]
  BY AppendProperties
<1>2. \A i : i \in Old(Append(q, v), e) => i \in Old(q, e) \/ i = Len(q) + 1
  BY <1>1 DEF Old
<1>3. Old(q, e) \subseteq Old(Append(q, v), e)
  BY <1>1 DEF Old
<1>4. Len(q) + 1 \in Old(Append(q, v), e) => v.kind = "data" /\ v.epoch < e
  BY <1>1 DEF Old
<1>5. QED
  BY <1>2, <1>3, <1>4 DEF AtMostOne

\* Nothing is old in an empty queue.
LEMMA OldNone == \A e : Old(<<>>, e) = {}
BY DEF Old

\* What the queues of the video can become in a step that makes no seek.
LEMMA StaleKept ==
  ASSUME TypeOK, StaleInv, epoch' = epoch,
         at["reader"] = "seekFlushVideo" =>
            at'["reader"] = "seekFlushVideo" \/ data'["videoPackets"] = <<>>,
         Seeking => Seeking' \/ data'["videoFrames"] = <<>>,
         \/ data'["videoPackets"] \in {data["videoPackets"], <<>>}
         \/ data["videoPackets"] # <<>> /\ data'["videoPackets"] = Tail(data["videoPackets"])
         \/ \E v \in Packets : /\ ~Stale(v)
                               /\ data'["videoPackets"] = Append(data["videoPackets"], v),
         \/ /\ StaleHand' => StaleHand \/ Seeking'
            /\ \/ data'["videoFrames"] \in {data["videoFrames"], <<>>}
               \/ data["videoFrames"] # <<>> /\ data'["videoFrames"] = Tail(data["videoFrames"])
         \/ /\ ~StaleHand'
            /\ \/ data'["videoFrames"] = data["videoFrames"]
               \/ \E v \in Packets : /\ Stale(v) => StaleHand
                                     /\ data'["videoFrames"] = Append(data["videoFrames"], v)
  PROVE  StaleInv'
<1> DEFINE q == data["videoPackets"]
           f == data["videoFrames"]
<1>1. q \in Seq(Packets) /\ f \in Seq(Packets)
  BY DEF TypeOK, Queues
<1>2. Fresh'
  <2>1. SUFFICES ASSUME at'["reader"] # "seekFlushVideo" PROVE Old(q', epoch) = {}
    BY DEF Fresh
  <2>2. CASE q' = <<>>
    BY <2>2, OldNone
  <2>3. CASE q' # <<>>
    <3>1. Old(q, epoch) = {}
      BY <2>1, <2>3 DEF Fresh, StaleInv
    <3>2. q' = q \/ (q # <<>> /\ q' = Tail(q)) \/ \E v \in Packets : ~Stale(v) /\ q' = Append(q, v)
      BY <2>3
    <3>3. CASE q' = q
      BY <3>1, <3>3
    <3>4. CASE q # <<>> /\ q' = Tail(q)
      BY <1>1, <3>1, <3>4, OldTaken
    <3>5. ASSUME NEW v \in Packets, ~Stale(v), q' = Append(q, v) PROVE Old(q', epoch) = {}
      BY <1>1, <3>1, <3>5, OldPut DEF Stale
    <3>6. QED
      BY <3>2, <3>3, <3>4, <3>5
  <2>4. QED
    BY <2>2, <2>3
<1>3. FewStale'
  <2>1. SUFFICES ASSUME ~Seeking'
                 PROVE  AtMostOne(Old(f', epoch)) /\ (StaleHand' => Old(f', epoch) = {})
    BY DEF FewStale
  <2>2. CASE f' = <<>>
    BY <2>2, OldNone DEF AtMostOne
  <2>3. CASE f' # <<>>
    <3>1. AtMostOne(Old(f, epoch)) /\ (StaleHand => Old(f, epoch) = {})
      BY <2>1, <2>3 DEF FewStale, StaleInv
    <3>2. CASE f' = f /\ (StaleHand' => StaleHand \/ Seeking')
      BY <2>1, <3>1, <3>2
    <3>3. CASE f # <<>> /\ f' = Tail(f) /\ (StaleHand' => StaleHand \/ Seeking')
      BY <1>1, <2>1, <3>1, <3>3, OldTaken
    <3>4. ASSUME NEW v \in Packets, Stale(v) => StaleHand, f' = Append(f, v), ~StaleHand'
          PROVE  AtMostOne(Old(f', epoch))
      BY <1>1, <3>1, <3>4, OldPut DEF Stale
    <3>5. QED
      BY <2>3, <3>2, <3>3, <3>4
  <2>4. QED
    BY <2>2, <2>3
<1>4. QED
  BY <1>2, <1>3 DEF StaleInv

\* A step that leaves the video's queues and hand alone.
LEMMA StaleQuiet ==
  ASSUME TypeOK, StaleInv, UNCHANGED <<data, epoch>>, at'["reader"] = at["reader"],
         StaleHand' => StaleHand
  PROVE  StaleInv'
BY StaleKept DEF Seeking

\* The reader's steps, which make the seeks and flush the queues.
LEMMA StaleReader ==
  ASSUME TypeOK, StaleInv, ReaderHolds, Reader
  PROVE  StaleInv'
<1>a. "reader" \in Threads /\ "video" \in Threads \ {"reader"}
      /\ {"audioPackets", "videoPackets", "videoFrames"} \subseteq Queues
  BY DEF Threads, Queues
<1>b. ASSUME UNCHANGED at \/ \E p \in ReaderPlaces : Goes("reader", p)
      PROVE  at'["video"] = at["video"]
  BY <1>a, <1>b, GoesOne
<1>c. ASSUME NEW p, Goes("reader", p) PROVE at'["reader"] = p /\ at'["video"] = at["video"]
  BY <1>a, <1>c, GoesOne
<1>d. ASSUME inHand'["video"] = inHand["video"], epoch' = epoch, at'["video"] = at["video"]
      PROVE  StaleHand' => StaleHand
  BY <1>d DEF StaleHand, Stale
<1>1. CASE ReaderQuits \/ ReaderGoesOn \/ ReaderNaps \/ ReaderReads \/ ReaderMeetsEnd \/ ReaderJoins
  <2>1. /\ UNCHANGED <<data, epoch>> /\ ~Seeking
        /\ \/ UNCHANGED at
           \/ \E p \in {"joinAudio", "joinVideo", "ended", "read", "loop", "putAudio", "putVideo"} :
                Goes("reader", p)
    BY <1>1 DEF ReaderQuits, ReaderGoesOn, ReaderNaps, ReaderReads, ReaderMeetsEnd, ReaderJoins,
                JoinThen, Is, readerVars, queueVars, Seeking
  <2>2. at'["video"] = at["video"] /\ ~Seeking'
    BY <2>1, <1>c DEF Seeking
  <2>3. inHand'["video"] = inHand["video"]
    BY <1>1, <1>a DEF ReaderQuits, ReaderGoesOn, ReaderNaps, ReaderReads, ReaderMeetsEnd, ReaderJoins,
                TypeOK
  <2>4. QED
    BY <1>d, <2>1, <2>2, <2>3, StaleKept DEF Seeking
<1>2. CASE ReaderSeeks
  <2>1. CASE Goes("reader", "seekFlushVideo")
    BY <1>c, <2>1 DEF StaleInv, Fresh, FewStale, Seeking
  <2>2. CASE ~Goes("reader", "seekFlushVideo")
    <3>1. UNCHANGED <<data, epoch, inHand>> /\ Goes("reader", "read") /\ ~Seeking
      BY <1>2, <2>2 DEF ReaderSeeks, readerVars, queueVars, Is, Seeking
    <3>2. at'["reader"] = "read" /\ at'["video"] = at["video"]
      BY <1>c, <3>1
    <3>3. QED
      BY <1>d, <3>1, <3>2, StaleKept DEF Seeking
  <2>3. QED
    BY <2>1, <2>2
<1>3. ASSUME NEW place, NEW k \in Queues \ {"videoFrames"}, NEW v \in Packets, NEW next, ~Stale(v),
             PutThen("reader", place, k, v, next), UNCHANGED <<inHand, epoch>>,
             \/ place = "seekPutVideo" /\ next = "seekFlushAudio"
             \/ place = "seekPutAudio" /\ next = "seekFlushFrames"
             \/ place \in {"putAudio", "putVideo"} /\ next = "loop"
      PROVE  StaleInv'
  <2>1. at["reader"] = place /\ (Seeking <=> place \in {"seekPutVideo", "seekPutAudio"})
    BY <1>3 DEF PutThen, Is, Seeking
  <2>2. CASE PutWaits("reader", k) /\ UNCHANGED at
    <3>1. UNCHANGED data
      BY <1>a, <1>3, <2>2, QueueEffects
    <3>2. QED
      BY <1>3, <1>d, <2>2, <3>1, StaleQuiet
  <2>3. CASE PutCompletes("reader", k, v) /\ Goes("reader", next)
    <3>1. data' = [data EXCEPT ![k] = Append(@, v)]
      BY <1>a, <1>3, <2>3, QueueEffects
    <3>2. /\ data'["videoFrames"] = data["videoFrames"]
          /\ data'["videoPackets"] = data["videoPackets"]
             \/ data'["videoPackets"] = Append(data["videoPackets"], v)
      BY <1>a, <1>3, <3>1 DEF TypeOK
    <3>3. at'["reader"] = next /\ at'["video"] = at["video"]
      BY <1>c, <2>3
    <3>4. Seeking => Seeking'
      BY <1>3, <2>1, <3>3 DEF Seeking
    <3>5. QED
      BY <1>3, <1>d, <2>1, <3>2, <3>3, <3>4, StaleKept
  <2>4. QED
    BY <1>3, <2>2, <2>3 DEF PutThen
<1>4. CASE ReaderPuts
  <2>1. inHand["reader"] \in Packets
    BY <1>a DEF TypeOK
  <2>2. at["reader"] \in {"putAudio", "putVideo"} => ~Stale(inHand["reader"])
    <3>1. epoch \in Nat
      BY PacketQueueAssumption DEF TypeOK
    <3>2. QED
      BY <3>1 DEF ReaderHolds, Stale, Packet
  <2>3. QED
    BY <1>a, <1>3, <1>4, <2>1, <2>2 DEF ReaderPuts, PutThen, Is, readerVars
<1>5. ASSUME NEW place, NEW k \in Queues, NEW next,
             FlushThen("reader", place, k, next), UNCHANGED <<inHand, epoch>>,
             \/ place = "seekFlushVideo" /\ k = "videoPackets" /\ next = "seekPutVideo"
             \/ place = "seekFlushAudio" /\ k = "audioPackets" /\ next = "seekPutAudio"
             \/ place = "seekFlushFrames" /\ k = "videoFrames" /\ next = "read"
      PROVE  StaleInv'
  <2>1. at["reader"] = place /\ at'["reader"] = next /\ at'["video"] = at["video"]
    BY <1>5, <1>c DEF FlushThen, Is
  <2>2. data' = [data EXCEPT ![k] = <<>>]
    BY <1>a, <1>5, QueueEffects DEF FlushThen
  <2>3. /\ data'["videoFrames"] \in {data["videoFrames"], <<>>}
        /\ data'["videoPackets"] \in {data["videoPackets"], <<>>}
        /\ place = "seekFlushVideo" => data'["videoPackets"] = <<>>
        /\ place = "seekFlushFrames" => data'["videoFrames"] = <<>>
    BY <1>a, <1>5, <2>2 DEF TypeOK
  <2>4. Seeking => Seeking' \/ data'["videoFrames"] = <<>>
    BY <1>5, <2>1, <2>3 DEF Seeking
  <2>5. QED
    BY <1>5, <1>d, <2>1, <2>3, <2>4, StaleKept
<1>6. CASE SeekFlushes \/ SeekEnds
  <2>1. ~Stale(flushPkt) /\ flushPkt \in Packets
    BY MarksType DEF Stale, flushPkt, Packet
  <2>2. UNCHANGED <<inHand, epoch>>
    BY <1>6 DEF SeekFlushes, SeekEnds, readerVars
  <2>3. {"audioPackets", "videoPackets"} \subseteq Queues \ {"videoFrames"}
    BY <1>a
  <2>4. CASE FlushThen("reader", "seekFlushVideo", "videoPackets", "seekPutVideo")
             \/ FlushThen("reader", "seekFlushAudio", "audioPackets", "seekPutAudio")
             \/ FlushThen("reader", "seekFlushFrames", "videoFrames", "read")
    BY <1>a, <1>5, <2>2, <2>4
  <2>5. CASE PutThen("reader", "seekPutVideo", "videoPackets", flushPkt, "seekFlushAudio")
    BY <1>3, <2>1, <2>2, <2>3, <2>5
  <2>6. CASE PutThen("reader", "seekPutAudio", "audioPackets", flushPkt, "seekFlushFrames")
    BY <1>3, <2>1, <2>2, <2>3, <2>6
  <2>7. QED
    BY <1>6, <2>4, <2>5, <2>6 DEF SeekFlushes, SeekEnds, AfterFlushOfAudio
<1>7. QED
  BY <1>1, <1>2, <1>4, <1>6 DEF Reader

\* A decoder's steps: what the video decoder takes is fresh.
LEMMA StaleDecoder ==
  ASSUME TypeOK, TypeOK', StaleInv, NEW d \in Decoders, Decoder(d)
  PROVE  StaleInv'
<1>a. d \in Threads \ {"reader"} /\ "reader" \in Threads /\ PacketsOf(d) \in Queues
      /\ PacketsOf(d) # "videoFrames" /\ {"videoFrames", "videoPackets"} \subseteq Queues
      /\ "video" \in Threads /\ (d = "video" <=> PacketsOf(d) = "videoPackets")
  BY DEF Decoders, Threads, PacketsOf, Queues
<1>b. ASSUME NEW p, Goes(d, p)
      PROVE  at'[d] = p /\ at'["reader"] = at["reader"] /\ (d # "video" => at'["video"] = at["video"])
  BY <1>a, <1>b, GoesOne
<1>1. CASE MeetEof(d) \/ FlushCodec(d) \/ Decode(d)
  <2>1. UNCHANGED <<data, epoch, inHand>> /\ at[d] = "handle" /\ \E p : Goes(d, p)
    BY <1>1 DEF MeetEof, FlushCodec, Decode, queueVars, readerVars, Is
  <2>2. StaleHand' => StaleHand
    BY <1>b, <2>1 DEF StaleHand, Stale
  <2>3. QED
    BY <1>b, <2>1, <2>2, StaleQuiet
<1>2. CASE TakePacket(d)
  <2>1. UNCHANGED epoch
    BY <1>2 DEF TakePacket, readerVars
  <2>2. CASE DequeWaits(d, PacketsOf(d)) /\ UNCHANGED <<at, inHand>>
    BY <1>a, <2>1, <2>2, QueueEffects, StaleQuiet DEF StaleHand, Stale
  <2>3. ASSUME NEW p \in Packets, DequeCompletes(d, PacketsOf(d), p),
               inHand' = [inHand EXCEPT ![d] = p], Goes(d, "handle")
        PROVE  StaleInv'
    <3>1. /\ \A q \in Queues \ {PacketsOf(d)} : data'[q] = data[q]
          /\ at'["reader"] = at["reader"]
      BY <1>a, <1>b, <2>3, QueueEffects
    <3>2. data \in [Queues -> Seq(Packets)]
      BY DEF TypeOK
    <3>3. CASE d = "audio"
      <4>1. data'["videoPackets"] = data["videoPackets"] /\ data'["videoFrames"] = data["videoFrames"]
        BY <1>a, <3>1, <3>3
      <4>2. StaleHand' => StaleHand
        BY <1>a, <1>b, <2>1, <2>3, <3>3 DEF StaleHand, Stale, TypeOK
      <4>3. QED
        BY <2>1, <3>1, <4>1, <4>2, StaleKept DEF Seeking
    <3>4. CASE d = "video"
      <4>1. \/ data["videoPackets"] # <<>> /\ p = Head(data["videoPackets"])
               /\ data'["videoPackets"] = Tail(data["videoPackets"])
            \/ p = junk /\ data'["videoPackets"] = data["videoPackets"]
        BY <1>a, <2>3, <3>2, <3>4 DEF DequeCompletes
      <4>2. Stale(p) => at["reader"] = "seekFlushVideo"
        <5>1. CASE p = junk
          BY <5>1 DEF Stale, junk, Packet
        <5>2. CASE data["videoPackets"] # <<>> /\ p = Head(data["videoPackets"])
          <6>1. 1 \in DOMAIN data["videoPackets"] /\ p = data["videoPackets"][1]
            BY <1>a, <3>2, <5>2
          <6>2. QED
            BY <6>1 DEF StaleInv, Fresh, Old, Stale
        <5>3. QED
          BY <4>1, <5>1, <5>2
      <4>3. StaleHand' => Seeking'
        BY <1>a, <2>1, <2>3, <3>1, <3>4, <4>2 DEF StaleHand, Stale, Seeking, TypeOK
      <4>4. data'["videoFrames"] = data["videoFrames"]
        BY <1>a, <3>1
      <4>5. QED
        BY <2>1, <3>1, <4>1, <4>3, <4>4, StaleKept DEF Seeking
    <3>5. QED
      BY <3>3, <3>4 DEF Decoders
  <2>4. QED
    BY <1>2, <2>2, <2>3 DEF TakePacket
<1>3. QED
  BY <1>1, <1>2 DEF Decoder

\* The sending of a frame, and the steps of the main thread.
LEMMA StaleMain ==
  ASSUME TypeOK, TypeOK', StaleInv, SendFrame \/ Main \/ RequestSeek \/ BeginStop \/ UNCHANGED vars
  PROVE  StaleInv'
<1>a. {"reader", "video", "main"} \subseteq Threads
      /\ {"videoFrames", "videoPackets", "audioPackets"} \subseteq Queues
  BY DEF Threads, Queues
<1>b. data \in [Queues -> Seq(Packets)] /\ inHand["video"] \in Packets
  BY <1>a DEF TypeOK
<1>c. UNCHANGED epoch
  BY DEF SendFrame, Main, Refresh, ShowFrame, StopQueues, SetQuit, JoinReader, RequestSeek,
         BeginStop, vars, readerVars
<1>1. CASE SendFrame
  <2>1. PICK next \in {"loop", "ended"} :
             PutThen("video", "put", "videoFrames", inHand["video"], next)
    BY <1>1 DEF SendFrame
  <2>2. at["video"] = "put" /\ UNCHANGED inHand
    BY <1>1, <2>1 DEF SendFrame, PutThen, Is
  <2>3. CASE PutWaits("video", "videoFrames") /\ UNCHANGED at
    BY <1>a, <1>c, <2>2, <2>3, QueueEffects, StaleQuiet DEF StaleHand, Stale
  <2>4. CASE PutCompletes("video", "videoFrames", inHand["video"]) /\ Goes("video", next)
    <3>1. data' = [data EXCEPT !["videoFrames"] = Append(@, inHand["video"])]
      BY <1>a, <2>4, QueueEffects
    <3>2. data'["videoFrames"] = Append(data["videoFrames"], inHand["video"])
          /\ data'["videoPackets"] = data["videoPackets"]
      BY <1>a, <1>b, <3>1
    <3>3. at'["video"] = next /\ at'["reader"] = at["reader"]
      BY <1>a, <2>4, GoesOne
    <3>4. ~StaleHand' /\ (Stale(inHand["video"]) => StaleHand)
      BY <2>1, <2>2, <3>3 DEF StaleHand
    <3>5. QED
      BY <1>b, <1>c, <3>2, <3>3, <3>4, StaleKept DEF Seeking
  <2>5. QED
    BY <2>1, <2>3, <2>4 DEF PutThen
<1>2. CASE Main \/ RequestSeek \/ BeginStop \/ UNCHANGED vars
  <2>1. UNCHANGED at \/ \E p : Goes("main", p)
    BY <1>2 DEF Main, Refresh, ShowFrame, StopQueues, SetQuit, JoinReader, RequestSeek, BeginStop,
                vars, PutThen, FlushThen
  <2>2. at'["reader"] = at["reader"] /\ at'["video"] = at["video"]
    BY <1>a, <2>1, GoesOne
  <2>3. inHand'["video"] = inHand["video"]
    BY <1>2, <1>a DEF Main, Refresh, ShowFrame, StopQueues, SetQuit, JoinReader, RequestSeek,
                BeginStop, vars, TypeOK
  <2>4. StaleHand' => StaleHand
    BY <1>c, <2>2, <2>3 DEF StaleHand, Stale
  <2>5. CASE ShowFrame
    <3>1. CASE DequeWaits("main", "videoFrames")
      BY <1>a, <1>c, <2>2, <2>4, <3>1, QueueEffects, StaleQuiet
    <3>2. ASSUME NEW p, DequeCompletes("main", "videoFrames", p) PROVE StaleInv'
      <4>1. data'["videoPackets"] = data["videoPackets"]
        BY <1>a, <3>2, QueueEffects
      <4>2. \/ data'["videoFrames"] = data["videoFrames"]
            \/ data["videoFrames"] # <<>> /\ data'["videoFrames"] = Tail(data["videoFrames"])
        BY <1>a, <1>b, <3>2 DEF DequeCompletes
      <4>3. QED
        BY <1>c, <2>2, <2>4, <4>1, <4>2, StaleKept DEF Seeking
    <3>3. QED
      BY <2>5, <3>1, <3>2 DEF ShowFrame
  <2>6. CASE StopQueues
    <3>1. ASSUME NEW k \in Queues, Flush("main", k) PROVE StaleInv'
      <4>1. data' = [data EXCEPT ![k] = <<>>]
        BY <1>a, <3>1, QueueEffects
      <4>2. /\ data'["videoPackets"] \in {data["videoPackets"], <<>>}
            /\ data'["videoFrames"] \in {data["videoFrames"], <<>>}
        BY <1>a, <1>b, <4>1
      <4>3. QED
        BY <1>c, <2>2, <2>4, <4>2, StaleKept DEF Seeking
    <3>2. ASSUME NEW k \in {"audioPackets", "videoPackets"},
                 PutWaits("main", k) \/ PutCompletes("main", k, eofPkt)
          PROVE  StaleInv'
      <4>1. data' = data \/ data' = [data EXCEPT ![k] = Append(@, eofPkt)]
        BY <1>a, <3>2, QueueEffects
      <4>2. /\ data'["videoPackets"] = data["videoPackets"]
               \/ data'["videoPackets"] = Append(data["videoPackets"], eofPkt)
            /\ data'["videoFrames"] = data["videoFrames"]
        BY <1>a, <1>b, <3>2, <4>1
      <4>3. eofPkt \in Packets /\ ~Stale(eofPkt)
        BY MarksType DEF Stale, eofPkt, Packet
      <4>4. QED
        BY <1>c, <2>2, <2>4, <4>2, <4>3, StaleKept DEF Seeking
    <3>3. QED
      BY <1>a, <2>6, <3>1, <3>2 DEF StopQueues, FlushThen, PutThen
  <2>7. CASE ~ShowFrame /\ ~StopQueues
    <3>1. UNCHANGED data
      BY <1>2, <2>7 DEF Main, Refresh, SetQuit, JoinReader, RequestSeek, BeginStop, vars, queueVars
    <3>2. QED
      BY <1>c, <2>2, <2>4, <3>1, StaleQuiet
  <2>8. QED
    BY <2>5, <2>6, <2>7
<1>3. QED
  BY <1>1, <1>2

\* Nothing is stale at first.
LEMMA StaleInit == Init => StaleInv
<1> SUFFICES ASSUME Init PROVE StaleInv
  OBVIOUS
<1>1. data["videoPackets"] = <<>> /\ data["videoFrames"] = <<>>
  BY DEF Init, QueueInit, Queues
<1>2. QED
  BY <1>1, OldNone DEF StaleInv, Fresh, FewStale, AtMostOne

\* The positions counted are those of stale frames.
LEMMA FewStaleSays == TypeOK /\ StaleInv => OneStaleFrame
<1> SUFFICES ASSUME TypeOK, StaleInv, ~Seeking
             PROVE  Cardinality({i \in DOMAIN data["videoFrames"] : Stale(data["videoFrames"][i])})
                      + (IF StaleHand THEN 1 ELSE 0) <= 1
  BY DEF OneStaleFrame, StaleHand
<1> DEFINE S == Old(data["videoFrames"], epoch)
<1>1. S = {i \in DOMAIN data["videoFrames"] : Stale(data["videoFrames"][i])}
  BY DEF Old, Stale
<1>2. AtMostOne(S) /\ (StaleHand => S = {})
  BY DEF StaleInv, FewStale
<1>3. CASE S = {}
  BY <1>1, <1>3, FS_EmptySet
<1>4. CASE S # {}
  <2>1. PICK i \in S : S = {i}
    BY <1>2, <1>4 DEF AtMostOne
  <2>2. Cardinality(S) = 1 /\ ~StaleHand
    BY <1>2, <1>4, <2>1, FS_Singleton
  <2>3. QED
    BY <1>1, <2>2
<1>5. QED
  BY <1>3, <1>4

\* After a seek at most one picture of before it is still shown, for every length of
\* the film and of the queues.
THEOREM AtMostOneStale == Spec => []OneStaleFrame
<1>1. Init => TypeOK /\ OrderInv /\ StaleInv
  BY TypeInit, OrderInit, StaleInit
<1>2. TypeOK /\ OrderInv /\ StaleInv /\ [Next]_vars => (TypeOK /\ OrderInv /\ StaleInv)'
  <2> SUFFICES ASSUME TypeOK, OrderInv, StaleInv, [Next]_vars PROVE (TypeOK /\ OrderInv /\ StaleInv)'
    OBVIOUS
  <2>1. TypeOK' /\ OrderInv'
    BY TypeStep, OrderStep
  <2>2. StaleInv'
    BY <2>1, StaleReader, StaleDecoder, StaleMain DEF Next, OrderInv
  <2>3. QED
    BY <2>1, <2>2
<1>3. QED
  BY <1>1, <1>2, FewStaleSays, PTL DEF Spec

(***************************************************************************)
(* The sleep of the main thread.                                           *)
(***************************************************************************)

\* The main thread found a frame before it went to take one; only the flush of a
\* seek takes the frames from under it.
AfterSeek ==
  /\ Seeking => epoch > 0
  /\ SleepsOnlyAfterSeek
  /\ at["main"] = "deque" => data["videoFrames"] # <<>> \/ epoch > 0

\* How asleep threads come to be: by waiting on a queue.
LEMMA SleepEffects ==
  ASSUME TypeOK, NEW t \in Threads, NEW k \in Queues
  PROVE  /\ PutWaits(t, k) => asleep' = [asleep EXCEPT ![t] = Full(k)]
         /\ DequeWaits(t, k) => asleep' = [asleep EXCEPT ![t] = Empty(k)]
         /\ \A v : PutCompletes(t, k, v) => \A u \in Threads : asleep'[u] \in {asleep[u], Awake}
         /\ \A v : DequeCompletes(t, k, v) => \A u \in Threads : asleep'[u] \in {asleep[u], Awake}
         /\ Flush(t, k) => \A u \in Threads : asleep'[u] \in {asleep[u], Awake}
BY DEF TypeOK, PutWaits, DequeWaits, Sleep, PutCompletes, Flush, DequeCompletes, WakeAll

\* At first nobody sleeps.
LEMMA SleepInit == Init => AfterSeek
<1> SUFFICES ASSUME Init PROVE AfterSeek
  OBVIOUS
<1>1. asleep["main"] = Awake /\ at["main"] \in {"loop", "ended"} /\ at["reader"] \in {"loop", "ended"}
  BY DEF Init, QueueInit, Threads
<1>2. QED
  BY <1>1, ConditionsDiffer DEF AfterSeek, SleepsOnlyAfterSeek, Seeking

\* A step that neither puts the main thread to sleep nor moves it to a frame.
LEMMA SleepKept ==
  ASSUME AfterSeek, epoch \in Nat, epoch' = epoch, Seeking' => Seeking,
         asleep'["main"] \in {asleep["main"], Awake} \cup {Full(k) : k \in Queues},
         at'["main"] = "deque" =>
            \/ data'["videoFrames"] # <<>> \/ epoch > 0
            \/ at["main"] = "deque" /\ data'["videoFrames"] = data["videoFrames"]
  PROVE  AfterSeek'
BY ConditionsDiffer DEF AfterSeek, SleepsOnlyAfterSeek

\* The reader's steps: it empties the frames only in a seek.
LEMMA SleepReader ==
  ASSUME TypeOK, TypeOK', AfterSeek, Reader
  PROVE  AfterSeek'
<1>a. "reader" \in Threads /\ "main" \in Threads \ {"reader"}
      /\ {"audioPackets", "videoPackets", "videoFrames"} \subseteq Queues
  BY DEF Threads, Queues
<1>b. epoch \in Nat /\ epoch' \in Nat
  BY PacketQueueAssumption DEF TypeOK
<1>c. ASSUME NEW p, Goes("reader", p) PROVE at'["reader"] = p /\ at'["main"] = at["main"]
  BY <1>a, <1>c, GoesOne
<1>1. CASE ReaderQuits \/ ReaderGoesOn \/ ReaderNaps \/ ReaderReads \/ ReaderMeetsEnd \/ ReaderJoins
  <2>1. /\ UNCHANGED <<data, asleep, epoch>>
        /\ \/ UNCHANGED at
           \/ \E p \in {"joinAudio", "joinVideo", "ended", "read", "loop", "putAudio", "putVideo"} :
                Goes("reader", p)
    BY <1>1 DEF ReaderQuits, ReaderGoesOn, ReaderNaps, ReaderReads, ReaderMeetsEnd, ReaderJoins,
                JoinThen, Is, readerVars, queueVars
  <2>2. at'["main"] = at["main"] /\ (Seeking' => Seeking)
    BY <2>1, <1>c DEF Seeking
  <2>3. QED
    BY <1>b, <2>1, <2>2, SleepKept
<1>2. CASE ReaderSeeks
  <2>1. UNCHANGED <<data, asleep>>
        /\ (epoch' = epoch + 1 \/ (epoch' = epoch /\ Goes("reader", "read")))
        /\ \E p : Goes("reader", p)
    BY <1>2 DEF ReaderSeeks, readerVars, queueVars
  <2>2. at'["main"] = at["main"]
    BY <1>c, <2>1
  <2>3. CASE epoch' = epoch + 1
    BY <1>b, <2>3 DEF AfterSeek, SleepsOnlyAfterSeek
  <2>4. CASE epoch' = epoch /\ Goes("reader", "read")
    <3>1. ~Seeking'
      BY <1>c, <2>4 DEF Seeking
    <3>2. QED
      BY <1>b, <2>1, <2>2, <2>4, <3>1, SleepKept
  <2>5. QED
    BY <2>1, <2>3, <2>4
<1>3. CASE SeekFlushes \/ SeekEnds
  <2>1. Seeking /\ UNCHANGED epoch /\ epoch > 0
    BY <1>3 DEF SeekFlushes, SeekEnds, PutThen, FlushThen, Is, Seeking, AfterSeek, readerVars
  <2>2. PICK k \in Queues : \/ PutWaits("reader", k) \/ PutCompletes("reader", k, flushPkt)
                            \/ Flush("reader", k)
    BY <1>3, <1>a DEF SeekFlushes, SeekEnds, PutThen, FlushThen
  <2>3. asleep'["main"] \in {asleep["main"], Awake}
    BY <1>a, <2>2, SleepEffects DEF TypeOK
  <2>4. QED
    BY <1>b, <2>1, <2>3, SleepKept
<1>4. CASE ReaderPuts
  <2>1. PICK k \in Queues \ {"videoFrames"} :
             /\ PutWaits("reader", k) \/ PutCompletes("reader", k, inHand["reader"])
             /\ UNCHANGED at \/ Goes("reader", "loop")
    BY <1>4, <1>a DEF ReaderPuts, PutThen
  <2>2. asleep'["main"] \in {asleep["main"], Awake}
    BY <1>a, <2>1, SleepEffects DEF TypeOK
  <2>3. data'["videoFrames"] = data["videoFrames"]
    BY <1>a, <2>1, QueueEffects DEF TypeOK
  <2>4. at'["main"] = at["main"] /\ (Seeking' => Seeking)
    BY <1>c, <2>1 DEF Seeking
  <2>5. UNCHANGED epoch
    BY <1>4 DEF ReaderPuts, readerVars
  <2>6. QED
    BY <1>b, <2>2, <2>3, <2>4, <2>5, SleepKept
<1>5. QED
  BY <1>1, <1>2, <1>3, <1>4 DEF Reader

\* A decoder's steps leave the frames alone.
LEMMA SleepDecoder ==
  ASSUME TypeOK, AfterSeek, NEW d \in Decoders, Decoder(d)
  PROVE  AfterSeek'
<1>a. d \in Threads /\ {"reader", "main"} \subseteq Threads \ {d} /\ PacketsOf(d) \in Queues
      /\ "videoFrames" \in Queues \ {PacketsOf(d)}
  BY DEF Threads, Decoders, PacketsOf, Queues
<1>b. epoch \in Nat /\ UNCHANGED epoch
  BY PacketQueueAssumption DEF TypeOK, Decoder, TakePacket, MeetEof, FlushCodec, Decode, readerVars
<1>1. at'["reader"] = at["reader"] /\ at'["main"] = at["main"]
  <2>1. UNCHANGED at \/ \E p : Goes(d, p)
    BY DEF Decoder, TakePacket, MeetEof, FlushCodec, Decode
  <2>2. QED
    BY <1>a, <2>1, GoesOne
<1>2. data'["videoFrames"] = data["videoFrames"] /\ asleep'["main"] \in {asleep["main"], Awake}
  <2>1. CASE TakePacket(d)
    BY <1>a, <2>1, QueueEffects, SleepEffects DEF TakePacket, TypeOK
  <2>2. CASE MeetEof(d) \/ FlushCodec(d) \/ Decode(d)
    BY <2>2 DEF MeetEof, FlushCodec, Decode, queueVars
  <2>3. QED
    BY <2>1, <2>2 DEF Decoder
<1>3. QED
  BY <1>b, <1>1, <1>2, SleepKept DEF Seeking

\* The sending of a frame, and the steps of the main thread.
LEMMA SleepMain ==
  ASSUME TypeOK, AfterSeek, SendFrame \/ Main \/ RequestSeek \/ BeginStop \/ UNCHANGED vars
  PROVE  AfterSeek'
<1>a. {"reader", "video", "main"} \subseteq Threads
      /\ {"videoFrames", "videoPackets", "audioPackets"} \subseteq Queues
  BY DEF Threads, Queues
<1>b. epoch \in Nat /\ UNCHANGED epoch
  BY PacketQueueAssumption DEF TypeOK, SendFrame, Main, Refresh, ShowFrame, StopQueues, SetQuit,
     JoinReader, RequestSeek, BeginStop, vars, readerVars
<1>c. ASSUME NEW p, Goes("main", p) PROVE at'["main"] = p
  BY <1>a, <1>c, GoesOne
<1>d. Seeking' <=> Seeking
  <2>1. UNCHANGED at \/ \E t \in Threads \ {"reader"} : \E p : Goes(t, p)
    <3>1. "video" \in Threads \ {"reader"} /\ "main" \in Threads \ {"reader"}
      BY <1>a
    <3>2. QED
      BY <3>1 DEF SendFrame, Main, Refresh, ShowFrame, StopQueues, SetQuit, JoinReader, RequestSeek,
              BeginStop, vars, PutThen, FlushThen
  <2>2. QED
    BY <1>a, <2>1, GoesOne DEF Seeking
<1>1. CASE SendFrame
  <2>1. PutWaits("video", "videoFrames") \/ PutCompletes("video", "videoFrames", inHand["video"])
    BY <1>1 DEF SendFrame, PutThen
  <2>2. asleep'["main"] \in {asleep["main"], Awake}
    BY <1>a, <2>1, SleepEffects DEF TypeOK
  <2>3. \/ data'["videoFrames"] = data["videoFrames"]
        \/ data'["videoFrames"] = Append(data["videoFrames"], inHand["video"])
    BY <1>a, <2>1, QueueEffects DEF TypeOK
  <2>4. Append(data["videoFrames"], inHand["video"]) # <<>>
    BY <1>a, AppendProperties DEF TypeOK
  <2>5. UNCHANGED at \/ \E p : Goes("video", p)
    BY <1>1 DEF SendFrame, PutThen
  <2>6. at'["main"] = at["main"]
    BY <1>a, <2>5, GoesOne
  <2>7. QED
    BY <1>b, <1>d, <2>2, <2>3, <2>4, <2>6, SleepKept
<1>2. CASE ShowFrame
  <2>1. at["main"] = "deque"
    BY <1>2 DEF ShowFrame, Is
  <2>2. CASE DequeWaits("main", "videoFrames") /\ UNCHANGED at
    <3>1. data["videoFrames"] = <<>> /\ data' = data
      BY <1>a, <2>2, QueueEffects DEF DequeWaits
    <3>2. epoch > 0
      BY <2>1, <3>1 DEF AfterSeek
    <3>3. QED
      BY <1>b, <1>d, <3>2 DEF AfterSeek, SleepsOnlyAfterSeek
  <2>3. ASSUME NEW p, DequeCompletes("main", "videoFrames", p), Goes("main", "loop") PROVE AfterSeek'
    <3>1. asleep'["main"] \in {asleep["main"], Awake}
      BY <1>a, <2>3, SleepEffects
    <3>2. QED
      BY <1>b, <1>c, <1>d, <2>3, <3>1, SleepKept
  <2>4. QED
    BY <1>2, <2>2, <2>3 DEF ShowFrame
<1>3. CASE StopQueues
  <2>1. PICK k \in Queues : \/ PutWaits("main", k) \/ PutCompletes("main", k, eofPkt)
                            \/ Flush("main", k)
    BY <1>3, <1>a DEF StopQueues, PutThen, FlushThen
  <2>2. asleep'["main"] \in {asleep["main"], Awake} \cup {Full(q) : q \in Queues}
    BY <1>a, <2>1, SleepEffects DEF TypeOK
  <2>3. at'["main"] # "deque"
    <3>1. \/ UNCHANGED at /\ at["main"] # "deque"
          \/ \E p \in MainPlaces \ {"loop", "deque"} : Goes("main", p)
      BY <1>3 DEF StopQueues, PutThen, FlushThen, Is, MainPlaces
    <3>2. QED
      BY <1>c, <3>1
  <2>4. QED
    BY <1>b, <1>d, <2>2, <2>3, SleepKept
<1>4. CASE Refresh
  <2>1. UNCHANGED <<data, asleep>> /\ data["videoFrames"] # <<>>
    BY <1>4 DEF Refresh, SeesFrame, queueVars
  <2>2. QED
    BY <1>b, <1>d, <2>1, SleepKept
<1>5. CASE SetQuit \/ JoinReader \/ RequestSeek \/ BeginStop \/ UNCHANGED vars
  <2>1. /\ UNCHANGED <<data, asleep>>
        /\ UNCHANGED at \/ \E p \in MainPlaces \ {"loop", "deque"} : Goes("main", p)
    BY <1>5 DEF SetQuit, JoinReader, RequestSeek, BeginStop, vars, queueVars, MainPlaces
  <2>2. at'["main"] = "deque" => at["main"] = "deque"
    BY <1>c, <2>1
  <2>3. QED
    BY <1>b, <1>d, <2>1, <2>2, SleepKept
<1>6. QED
  BY <1>1, <1>2, <1>3, <1>4, <1>5 DEF Main

\* The main thread never waits for a frame that no seek took from it.
THEOREM MainSleepsAfterSeek == Spec => []SleepsOnlyAfterSeek
<1>1. Init => TypeOK /\ AfterSeek
  BY TypeInit, SleepInit
<1>2. TypeOK /\ AfterSeek /\ [Next]_vars => (TypeOK /\ AfterSeek)'
  <2> SUFFICES ASSUME TypeOK, AfterSeek, [Next]_vars PROVE (TypeOK /\ AfterSeek)'
    OBVIOUS
  <2>1. TypeOK'
    BY TypeStep
  <2>2. AfterSeek'
    BY <2>1, SleepReader, SleepDecoder, SleepMain DEF Next
  <2>3. QED
    BY <2>1, <2>2
<1>3. AfterSeek => SleepsOnlyAfterSeek
  BY DEF AfterSeek
<1>4. QED
  BY <1>1, <1>2, <1>3, PTL DEF Spec
=============================================================================
