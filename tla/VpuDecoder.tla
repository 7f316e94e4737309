----------------------------- MODULE VpuDecoder -----------------------------
(***************************************************************************)
(* The decoders' use of the one VPU: VpuDecoder::loop, seqInit and         *)
(* flushVideoBuffer, the VPU API calls they make, the lock of the core and *)
(* the record of the instance whose command is pending, which live in      *)
(* memory that all processes of the player share.  A decoder is an         *)
(* instance of the VPU API; several run when the player is allowed to      *)
(* start more than once.                                                   *)
(*                                                                         *)
(* What the VPU makes of the bytes is a choice: it reads some, asks for    *)
(* more (the BIT_BUF_EMPTY interrupt, its command unfinished) or finishes  *)
(* with a result.  SEQ_INIT parses the header, PIC_RUN decodes a picture.  *)
(***************************************************************************)
EXTENDS BitstreamRing, FiniteSets, FiniteSetsExt, Sequences, SequencesExt

CONSTANTS Instances,      \* the slots of the instance pool
          None,           \* no instance
          Frames,         \* the indexes of the registered frame buffers
          Packets,        \* the sizes of the pieces a packet is written in
          ImpatientLock,  \* some holder keeps the lock beyond vdi_lock's limits
          Vc1Films,       \* some film is VC-1 (vc1BframeDisplayValid)
          SlowVpu         \* some command takes longer than VPU_DEC_TIMEOUT

ASSUME DecoderAssumption ==
  /\ None \notin Instances
  /\ Packets \subseteq Seq(Nat \ {0})
  /\ ImpatientLock \in BOOLEAN
  /\ Vc1Films \in BOOLEAN /\ SlowVpu \in BOOLEAN
  /\ "none" \notin Frames /\ "end" \notin Frames  \* displays of no picture

VARIABLES lock,       \* who holds vpu_mutex
          pending,    \* pendingInst
          vpu,        \* the command the VPU executes, for whom, waiting for data?
          irq,        \* BIT_INT_REASON
          endBit,     \* the stream-end bit of BIT_BIT_STREAM_PARAM
          rdReg,      \* the VPU's read and write pointers
          wrReg,
          shownReg,   \* the VPU's frame display flags
          result,     \* what the last command returned
          dec,        \* the decoders
          disturbed   \* history: a lock was taken away, a command timed out or was
                      \* left unfinished, or a header met a memory violation

core == <<lock, pending>>
device == <<vpu, irq, endBit, rdReg, wrReg, shownReg, result>>
vars == <<core, device, dec, disturbed>>

Interrupts == {"bufEmpty", "seqInit", "picRun"}
Reasons == Interrupts \cup {"none", "timeout"}  \* int_reason; "timeout" is -1, every bit set

Idle == [cmd |-> "none", inst |-> None, starved |-> FALSE]
Nothing == [ok |-> "ok", decoded |-> "none", display |-> "none"]

NoDecoder == [pc |-> "closed", reason |-> "none", fill |-> 0, ring |-> EmptyRing,
              end |-> FALSE, last |-> FALSE, inited |-> FALSE, quit |-> FALSE,
              shown |-> {}, clears |-> {}, queue |-> <<>>, vsync |-> FALSE,
              hides |-> FALSE, hidden |-> {}]

Init == /\ lock = None /\ pending = None
        /\ vpu = Idle /\ irq = "none" /\ endBit = FALSE
        /\ rdReg = 0 /\ wrReg = 0 /\ shownReg = {} /\ result = Nothing
        /\ dec = [i \in Instances |-> NoDecoder]
        /\ disturbed = FALSE

At(i, pc) == dec[i].pc = pc

Goes(i, pc) == dec' = [dec EXCEPT ![i].pc = pc]

(* bsfillSize is only ever compared with one and two units. *)
Filled(n) == IF n > 2 * Gbu THEN 2 * Gbu ELSE n

----------------------------------------------------------------------------
(* A film begins: the instance is taken from the pool.  That of a VC-1 film hides
   pictures at first (vc1BframeDisplayValid is 0), see GetOutputInfo. *)
Open(i) ==
  /\ At(i, "closed")
  /\ lock = None
  /\ \E vc1 \in {FALSE, Vc1Films} :
       dec' = [dec EXCEPT ![i] = [NoDecoder EXCEPT !.pc = "rest", !.hides = vc1]]
  /\ endBit' = FALSE /\ rdReg' = 0 /\ wrReg' = 0
  /\ UNCHANGED <<core, vpu, irq, shownReg, result, disturbed>>

(* Where the reader is, as the host knows it. *)
ReadPos(i) == IF pending = i THEN rdReg ELSE dec[i].ring.rd

(* A piece too large for the buffer ends the writing with an error; one that
   finds too little room is dropped without one. *)
WritePiece(at, size, w) ==
  IF ~w.ok THEN w
  ELSE IF size > RingSize THEN [w EXCEPT !.ok = FALSE]
  ELSE IF Room(at, w.ring.wr) < size THEN w
  ELSE IF Refuses(at, w.ring.wr, size) THEN [w EXCEPT !.ok = FALSE]
  ELSE [w EXCEPT !.ring = Put(w.ring, at, size), !.size = @ + size]

Written(i, packet) ==
  FoldLeft(LAMBDA w, size : WritePiece(ReadPos(i), size, w),
           [ok |-> TRUE, size |-> 0, ring |-> dec[i].ring], packet)

(* seqInit before its loop: a new command, or more data for the old one. *)
SeqStep(d) == IF d.reason \notin {"bufEmpty", "timeout"} THEN "issueSeq"
              ELSE IF d.fill < 2 * Gbu THEN "rest" ELSE "waitSeq"

(* flushVideoBuffer before its loop.  After a timeout the field bit is set too:
   the reason is wiped and no command is given. *)
WipedAlways(d) == [d EXCEPT !.reason = "none"]
Wiped(d) == IF d.reason = "timeout" THEN [d EXCEPT !.reason = "none"] ELSE d
LeavesOnQuit(d) == IF d.quit THEN "closing" ELSE "rest"
Leaves(d) == IF d.last \/ d.quit THEN "closing" ELSE "rest"
PicStep(d) == IF d.reason \notin {"bufEmpty", "timeout"} THEN "start"
              ELSE IF d.fill < Gbu THEN Leaves(d) ELSE "waitPic"
PicNext(d) == [Wiped(d) EXCEPT !.pc = PicStep(d)]

WipesInterrupt(d) == irq' = IF d.reason = "timeout" THEN "none" ELSE irq

(* A packet: it is written into the ring, then the header or a picture is the
   VPU's to decode.  buildVideoPacket returns nothing at its end, so that what
   its caller compares with zero may be anything. *)
TakePacket(i) ==
  \E packet \in Packets, negative \in BOOLEAN :
    LET w == Written(i, packet)
        d == [dec[i] EXCEPT !.ring = w.ring, !.fill = Filled(@ + w.size)]
    IN /\ At(i, "rest")
       /\ IF ~w.ok \/ negative
          THEN dec' = [dec EXCEPT ![i] = [d EXCEPT !.pc = "closing"]] /\ UNCHANGED irq
          ELSE IF d.inited
          THEN dec' = [dec EXCEPT ![i] = PicNext(d)] /\ WipesInterrupt(d)
          ELSE dec' = [dec EXCEPT ![i] = [d EXCEPT !.pc = SeqStep(d)]] /\ UNCHANGED irq
       /\ wrReg' = IF pending = i THEN w.ring.wr ELSE wrReg
       /\ vpu' = [vpu EXCEPT !.starved = @ /\ ~(vpu.inst = i /\ pending = i /\ w.size > 0)]
       /\ UNCHANGED <<core, endBit, rdReg, shownReg, result, disturbed>>

(* VPU_DecUpdateBitstreamBuffer(handle, 0): the stream ends here. *)
EndsStream(i) == endBit' = (endBit \/ pending = i)

(* The end mark: one last call of flushVideoBuffer, header or not. *)
TakeEof(i) ==
  LET d == [dec[i] EXCEPT !.fill = 2 * Gbu, !.end = TRUE, !.last = TRUE]
  IN /\ At(i, "rest")
     /\ dec' = [dec EXCEPT ![i] = PicNext(d)]
     /\ WipesInterrupt(d)
     /\ EndsStream(i)
     /\ UNCHANGED <<core, vpu, rdReg, wrReg, shownReg, result, disturbed>>

(* The flush mark of a seek: the queued pictures go back to the VPU. *)
TakeFlush(i) ==
  /\ At(i, "rest")
  /\ dec' = [dec EXCEPT ![i].clears = @ \cup ToSet(dec[i].queue), ![i].queue = <<>>]
  /\ UNCHANGED <<core, device, disturbed>>

----------------------------------------------------------------------------
(* Ending without VPU_DecClose: ERR_DEC_INIT. *)
GivesUp(i) == Goes(i, "release")

(* The lock is free, but a command is still on record: the call fails. *)
Busy(i) == lock = None /\ pending # None

Issues(i, cmd) ==
  /\ lock' = i /\ pending' = i
  /\ vpu' = [cmd |-> cmd, inst |-> i, starved |-> FALSE]
  /\ rdReg' = dec[i].ring.rd /\ wrReg' = dec[i].ring.wr
  /\ endBit' = dec[i].end

IssueSeqInit(i) ==
  /\ At(i, "issueSeq")
  /\ lock = None
  /\ \/ /\ pending # None \/ dec[i].ring.rd = dec[i].ring.wr
        /\ GivesUp(i)
        /\ UNCHANGED <<core, device, disturbed>>
     \/ /\ pending = None /\ dec[i].ring.rd # dec[i].ring.wr
        /\ Issues(i, "SEQ_INIT")
        /\ shownReg' = {}
        /\ Goes(i, "waitSeq")
        /\ UNCHANGED <<irq, result, disturbed>>

(* VPU_WaitInterrupt and VPU_ClearInterrupt: whoever waits takes what there is. *)
WaitSeqInit(i) ==
  /\ At(i, "waitSeq")
  /\ irq # "none"
  /\ irq' = "none"
  /\ dec' = [dec EXCEPT ![i].reason = irq,
                        ![i].fill = IF irq = "bufEmpty" THEN 0 ELSE @,
                        ![i].pc = CASE irq = "bufEmpty" -> "rest"
                                    [] irq = "seqInit" -> "completeSeq"
                                    [] OTHER -> @]
  /\ UNCHANGED <<core, vpu, endBit, rdReg, wrReg, shownReg, result, disturbed>>

(* The command is over for the API: nothing pending, the lock given back. *)
ReleasesLockOnly == lock' = None /\ UNCHANGED pending
Releases == lock' = None /\ pending' = None

(* The host's copy of what the VPU keeps. *)
Synced(d) == [d EXCEPT !.ring = ReadUpTo(@, rdReg), !.shown = shownReg, !.end = endBit]

(* A memory violation gives back the lock and leaves the command on record. *)
CompleteSeqInit(i) ==
  /\ At(i, "completeSeq")
  /\ \/ /\ pending # i
        /\ Releases /\ GivesUp(i) /\ UNCHANGED disturbed
     \/ /\ pending = i /\ result.ok = "violation"
        /\ lock' = None /\ UNCHANGED pending
        /\ disturbed' = TRUE
        /\ dec' = [dec EXCEPT ![i] = [Synced(dec[i]) EXCEPT !.pc = "release"]]
     \/ /\ pending = i /\ result.ok # "violation"
        /\ Releases /\ UNCHANGED disturbed
        /\ dec' = [dec EXCEPT ![i] = [Synced(dec[i]) EXCEPT
                     !.pc = IF result.ok = "ok" THEN "register" ELSE "release"]]
  /\ UNCHANGED device

(* SET_FRAME_BUF is issued and waited for under the lock.  The packet in hand
   then goes on to flushVideoBuffer. *)
RegisterFrameBuffer(i) ==
  /\ At(i, "register")
  /\ lock = None
  /\ \/ GivesUp(i)
     \/ /\ pending = None
        /\ dec' = [dec EXCEPT ![i] = PicNext([@ EXCEPT !.inited = TRUE])]
  /\ UNCHANGED <<core, device, disturbed>>

(* A picture is begun; the frame buffers shown and cleared since go back to the
   VPU.  A failure ends the decoder by way of VPU_DecClose. *)
StartOneFrame(i) ==
  /\ At(i, "start")
  /\ \/ /\ ~dec[i].inited \/ Busy(i)
        /\ Goes(i, "closing")
        /\ UNCHANGED <<core, device, disturbed>>
     \/ /\ dec[i].inited /\ lock = None /\ pending = None
        /\ Issues(i, "PIC_RUN")
        /\ shownReg' = dec[i].shown \ dec[i].clears
        /\ dec' = [dec EXCEPT ![i].pc = "waitPic", ![i].clears = {}]
        /\ UNCHANGED <<irq, result, disturbed>>

(* A decoder that goes for another packet keeps its command and the lock. *)
KeepsCommand == UNCHANGED core

WaitPicture(i) ==
  /\ At(i, "waitPic")
  /\ irq # "none"
  /\ irq' = "none"
  /\ dec' = [dec EXCEPT ![i].reason = irq,
                        ![i].fill = IF irq = "bufEmpty" THEN 0 ELSE @,
                        ![i].pc = CASE irq = "bufEmpty" -> Leaves(dec[i])
                                    [] irq = "picRun" -> "output"
                                    [] OTHER -> @]
  /\ KeepsCommand
  /\ UNCHANGED <<vpu, endBit, rdReg, wrReg, shownReg, result, disturbed>>

(* The VPU still has something to do for the waiting decoder. *)
Answers(i) == \/ irq # "none"
              \/ vpu.inst = i /\ (vpu.starved => endBit)

MayTimeOut(i) == irq = "none" /\ (SlowVpu \/ ~Answers(i))

(* No interrupt for VPU_DEC_TIMEOUT: -1 has the bit of BIT_BUF_EMPTY, so the
   header goes on waiting for data; a picture is given up with VPU_SWReset, which
   gives back the lock whoever holds it. *)
TimeOut(i) ==
  /\ MayTimeOut(i)
  /\ dec[i].pc \in {"waitSeq", "waitPic"}
  /\ dec' = [dec EXCEPT ![i].reason = "timeout", ![i].fill = 0,
                        ![i].pc = IF @ = "waitSeq" THEN "rest" ELSE Leaves(dec[i])]
  /\ IF At(i, "waitPic") THEN Releases /\ vpu' = Idle ELSE UNCHANGED <<core, vpu>>
  /\ disturbed' = TRUE
  /\ UNCHANGED <<irq, endBit, rdReg, wrReg, shownReg, result>>

----------------------------------------------------------------------------
(* The picture at the head of the display queue has been shown. *)
GivesBack(d) == IF d.vsync /\ d.queue # <<>>
                THEN [d EXCEPT !.vsync = FALSE, !.queue = Tail(@), !.clears = @ \cup {Head(d.queue)}]
                ELSE [d EXCEPT !.vsync = FALSE]

(* BIT has no picture to be displayed. *)
WithoutPicture(d) ==
  LET g == IF d.vsync THEN GivesBack(d) ELSE d
  IN [g EXCEPT !.vsync = @ \/ (result.decoded = "none" /\ g.queue # <<>>),
               !.pc = Leaves(d)]

(* The picture of the end mark is queued but not sent. *)
WithPicture(d, display) ==
  LET q == IF display = "end" THEN [d EXCEPT !.quit = TRUE]
           ELSE [d EXCEPT !.queue = Append(@, display)]
  IN IF d.last THEN [GivesBack(q) EXCEPT !.pc = "closing"] ELSE [q EXCEPT !.pc = "sending"]

(* What the VPU did, as the decoder gets to know it.  Until a picture of another
   type than B has come, VPU_DecGetOutputInfo says of a VC-1 film that nothing is
   displayed, whatever the VPU displays: such a picture is kept in hidden (history). *)
Told(d, hides) ==
  [d EXCEPT !.ring = ReadUpTo(@, rdReg), !.shown = shownReg, !.hides = hides,
            !.hidden = IF hides THEN @ \cup ({result.display} \cap Frames) ELSE @]

GetOutputInfo(i) ==
  /\ At(i, "output")
  /\ Releases
  /\ IF pending # i \/ result.ok = "violation"
     THEN Goes(i, "closing")
     ELSE \E ofTypeB \in BOOLEAN :
            LET hides == dec[i].hides /\ ofTypeB
                d == Told(dec[i], hides)
            IN dec' = [dec EXCEPT ![i] = IF hides \/ result.display = "none"
                                         THEN WithoutPicture(d)
                                         ELSE WithPicture(d, result.display)]
  /\ UNCHANGED <<device, disturbed>>

(* sendFrame converts the picture and puts it into the queue of frames, where it
   may have to wait, and raises the flag that the picture is shown. *)
NeverSetsVsync == FALSE
SetsVsync == TRUE
Sent(d) == [d EXCEPT !.vsync = @ \/ SetsVsync, !.pc = Leaves(d)]
SendFrame(i) ==
  /\ At(i, "sending")
  /\ dec' = [dec EXCEPT ![i] = GivesBack(Sent(dec[i]))]
  /\ UNCHANGED <<core, device, disturbed>>

----------------------------------------------------------------------------
(* ERR_DEC_OPEN: a busy VPU is told that the stream ends and waited for, even
   if another decoder's command keeps it busy. *)
LeaveLoop(i) ==
  /\ At(i, "closing")
  /\ IF vpu = Idle THEN Goes(i, "close") /\ UNCHANGED endBit
     ELSE /\ EndsStream(i)
          /\ dec' = [dec EXCEPT ![i].end = TRUE, ![i].pc = "spin"]
  /\ disturbed' = (disturbed \/ pending = i)
  /\ UNCHANGED <<core, vpu, irq, rdReg, wrReg, shownReg, result>>

SpinEnds(i) ==
  /\ At(i, "spin")
  /\ vpu = Idle
  /\ Goes(i, "close")
  /\ UNCHANGED <<core, device, disturbed>>

(* VPU_DecClose, and vdi_release in VPU_DeInit, which takes the lock too. *)
Close(i) ==
  /\ At(i, "close")
  /\ lock = None
  /\ dec' = [dec EXCEPT ![i] = [NoDecoder EXCEPT !.pc = "freed"]]
  /\ UNCHANGED <<core, device, disturbed>>

(* An instance that was never closed stays in use: its slot is lost. *)
DeInit(i) ==
  /\ dec[i].pc \in {"freed", "release"}
  /\ lock = None
  /\ dec' = [dec EXCEPT ![i].pc = IF @ = "freed" THEN "closed" ELSE "lost"]
  /\ UNCHANGED <<core, device, disturbed>>

WantsLock(i) == \/ dec[i].pc \in {"closed", "issueSeq", "register", "close", "freed", "release"}
                \/ At(i, "start") /\ dec[i].inited

(* vdi_lock loses its patience: after a second if the VPU is idle, after five
   even if it is not.  The wait for one's own lock always gets there. *)
ForceLock(i) ==
  /\ WantsLock(i)
  /\ lock # None
  /\ IF lock = i THEN vpu = Idle ELSE ImpatientLock
  /\ Releases
  /\ IF vpu = Idle THEN UNCHANGED <<irq, endBit>> ELSE irq' = "none" /\ endBit' = TRUE
  /\ disturbed' = (disturbed \/ lock # i)
  /\ UNCHANGED <<vpu, rdReg, wrReg, shownReg, result, dec>>

----------------------------------------------------------------------------
(* The VPU.  It takes bytes in order and needs a unit of them to go on.  An
   interrupt stays until the host has received it (VPU_ClearInterrupt), and the
   VPU with it.  The reading ends where the VPU knows the data to end. *)
Unread == Between(rdReg, wrReg)
Reads(n) == rdReg' = After(rdReg, n)

VpuStarves ==
  /\ vpu # Idle /\ ~vpu.starved /\ ~endBit /\ irq = "none"
  /\ \E n \in 0 .. Unread : Unread - n < Gbu /\ Reads(n)
  /\ vpu' = [vpu EXCEPT !.starved = TRUE]
  /\ irq' = "bufEmpty"
  /\ UNCHANGED <<core, endBit, wrReg, shownReg, result, dec, disturbed>>

MayFinish == irq = "none" /\ (vpu.starved => endBit)

VpuParsesHeader ==
  /\ vpu.cmd = "SEQ_INIT" /\ MayFinish
  /\ \E n \in 0 .. Unread : Reads(n)
  /\ \E ok \in {"ok", "fails", "violation"} : result' = [Nothing EXCEPT !.ok = ok]
  /\ vpu' = Idle /\ irq' = "seqInit"
  /\ UNCHANGED <<core, endBit, wrReg, shownReg, dec, disturbed>>

(* A picture goes into a buffer that is not shown, if there is one; a decoded
   picture, this or an earlier one, may be displayed. *)
VpuDecodes ==
  /\ vpu.cmd = "PIC_RUN" /\ MayFinish
  /\ \E n \in 0 .. Unread : Reads(n)
  /\ \E ok \in {"ok", "violation"},
        decoded \in (Frames \ shownReg) \cup {"none"},
        display \in (Frames \ shownReg) \cup {"none"} \cup (IF endBit THEN {"end"} ELSE {}) :
       /\ result' = [ok |-> ok, decoded |-> decoded, display |-> display]
       /\ shownReg' = shownReg \cup ({display} \cap Frames)
  /\ vpu' = Idle /\ irq' = "picRun"
  /\ UNCHANGED <<core, endBit, wrReg, dec, disturbed>>

Vpu == VpuStarves \/ VpuParsesHeader \/ VpuDecodes

(* What a decoder does by itself, once it has its packet. *)
Works(i) == \/ IssueSeqInit(i) \/ WaitSeqInit(i) \/ CompleteSeqInit(i) \/ RegisterFrameBuffer(i)
            \/ StartOneFrame(i) \/ WaitPicture(i) \/ TimeOut(i)
            \/ GetOutputInfo(i) \/ SendFrame(i)
            \/ LeaveLoop(i) \/ SpinEnds(i) \/ Close(i) \/ DeInit(i) \/ ForceLock(i)

Decoder(i) == \/ Open(i) \/ TakePacket(i) \/ TakeEof(i) \/ TakeFlush(i) \/ Works(i)

Next == Vpu \/ \E i \in Instances : Decoder(i)

Spec == Init /\ [][Next]_vars

Fairness == WF_vars(Vpu) /\ \A i \in Instances : WF_vars(Works(i))

FairSpec == Spec /\ Fairness

----------------------------------------------------------------------------
Places == {"closed", "rest", "issueSeq", "waitSeq", "completeSeq", "register", "start",
           "waitPic", "output", "sending", "closing", "spin", "close", "freed", "release", "lost"}

RingType == [rd : Offsets, wr : Offsets, stored : Int]

DecoderType ==
  [pc : Places, reason : Reasons, fill : 0 .. 2 * Gbu, ring : RingType,
   end : BOOLEAN, last : BOOLEAN, inited : BOOLEAN, quit : BOOLEAN,
   shown : SUBSET Frames, clears : SUBSET Frames, queue : Seq(Frames), vsync : BOOLEAN,
   hides : BOOLEAN, hidden : SUBSET Frames]

(* Every variable has its type, the offsets stay inside the buffer, and the
   count of filled bytes never runs negative. *)
TypeOK ==
  /\ lock \in Instances \cup {None}
  /\ pending \in Instances \cup {None}
  /\ vpu \in {Idle} \cup [cmd : {"SEQ_INIT", "PIC_RUN"}, inst : Instances, starved : BOOLEAN]
  /\ irq \in Interrupts \cup {"none"}
  /\ endBit \in BOOLEAN
  /\ rdReg \in Offsets /\ wrReg \in Offsets
  /\ shownReg \subseteq Frames
  /\ result \in [ok : {"ok", "fails", "violation"}, decoded : Frames \cup {"none"},
                 display : Frames \cup {"none", "end"}]
  /\ dec \in [Instances -> DecoderType]
  /\ disturbed \in BOOLEAN

(* However the writes wrapped and the VPU advanced, the two pointers tell how many
   bytes are stored (a full ring is never taken for an empty one), and the VPU,
   while it works for the decoder, reads between them: nothing that it has still to
   read was ever overwritten.  (WriteBsBufFromBufHelper and the margin of
   VPU_DecGetBitstreamBuffer.)  A decoder that has given up may still be on record
   after a memory violation; the next to open sets the VPU's pointers for itself. *)
GaveUp(i) == dec[i].pc \in {"release", "lost"}

UnreadIsKept ==
  \A i \in Instances :
    LET r == dec[i].ring
    IN /\ r.stored = Between(r.rd, r.wr)
       /\ r.stored <= RingSize - 2 * Gbu - 1
       /\ pending = i /\ ~GaveUp(i) =>
            /\ wrReg = r.wr
            /\ Between(r.rd, rdReg) + Between(rdReg, r.wr) = r.stored

(* While nothing went wrong, the core's lock is held exactly as long as a command
   is on record, and the VPU only ever works for the decoder that is on record:
   the lock is kept from VPU_DecStartOneFrame to VPU_DecGetOutputInfo, over the
   packets fetched in between. *)
LockGuardsCommand ==
  ~disturbed => /\ lock = pending
                /\ vpu.inst \in {None, pending}

(* Between two packets int_reason alone says whether the decoder still has a
   command to feed: it is "buffer empty" exactly when its command is on record. *)
KnowsItsCommand ==
  ~disturbed => \A i \in Instances :
     At(i, "rest") => (pending = i <=> dec[i].reason = "bufEmpty")

(* Between two packets, no command being on record, every picture that the decoder
   was told of is given back to the VPU, seeks included: the display queue is empty and
   the next command clears each flag.  The frame buffers lost are those of the B
   pictures a VC-1 film begins with, of which VPU_DecGetOutputInfo says nothing
   (vpuapi.c:2557): their flags stay set until the instance is closed. *)
PicturesGoBack ==
  ~disturbed => \A i \in Instances :
     At(i, "rest") =>
       /\ dec[i].queue = <<>>
       /\ dec[i].reason # "bufEmpty" => dec[i].shown \ dec[i].clears = dec[i].hidden

(* While nothing went wrong, a command is given only to an idle VPU. *)
CommandsExclusive ==
  [][\A i \in Instances : vpu'.inst = i /\ vpu.inst # i /\ ~disturbed => vpu = Idle]_vars

(* A decoder that was given the end mark closes its instance. *)
EofCloses == \A i \in Instances : dec[i].last ~> At(i, "closed")
=============================================================================
