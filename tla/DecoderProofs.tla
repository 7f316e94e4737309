---------------------------- MODULE DecoderProofs ----------------------------
(***************************************************************************)
(* Theorems about the decoders that share the VPU, for any number of them, *)
(* any packets, any size of the ring and any frame buffers:                *)
(*   - as long as no lock was taken away, nothing timed out and no command *)
(*     was left unfinished, the lock of the core and the record of the     *)
(*     pending instance say who the VPU works for;                         *)
(*   - whatever happens, what was written for a decoder and not read by the *)
(*     VPU stays in its ring;                                              *)
(*   - as long as nothing went wrong, every picture it is told of goes back *)
(*     to the VPU.                                                         *)
(***************************************************************************)
EXTENDS VpuDecoder, WellFoundedInduction, TLAPS

(***************************************************************************)
(* What the state looks like: as much of the types as the argument needs.  *)
(***************************************************************************)
Fields == {"pc", "reason", "fill", "ring", "end", "last", "inited", "quit",
           "shown", "clears", "queue", "vsync", "hides", "hidden"}

IsDec(d) == d = [f \in Fields |-> d[f]]

DecShape == /\ dec = [i \in Instances |-> dec[i]]
            /\ \A i \in Instances : IsDec(dec[i])

VpuShape == /\ vpu \in {Idle} \cup [cmd : {"SEQ_INIT", "PIC_RUN"}, inst : Instances,
                                    starved : BOOLEAN]
            /\ irq \in Interrupts \cup {"none"}

(***************************************************************************)
(* The inductive invariant.  The place of a decoder, and between packets   *)
(* its int_reason, tell whether the command on record is its own.          *)
(***************************************************************************)
\* The places at which a decoder has a command.
CommandPlaces == {"waitSeq", "waitPic", "completeSeq", "output"}

\* The places at which it has none.  ("rest" and "closing" are in neither set.)
FreePlaces == {"closed", "issueSeq", "register", "start", "sending", "spin", "close",
               "freed", "release", "lost"}

\* The places where the command's interrupt has been received.
AnsweredPlaces == {"completeSeq", "output"}

\* The places after it, from which the decoder may go to rest.
OnTheWay == {"completeSeq", "output", "sending", "register"}

Knows(i) ==
  /\ dec[i].reason # "timeout"
  /\ dec[i].pc = "rest" => (pending = i <=> dec[i].reason = "bufEmpty")
  /\ dec[i].pc \in CommandPlaces => pending = i
  /\ dec[i].pc \in FreePlaces => pending # i
  /\ dec[i].pc \in AnsweredPlaces => vpu = Idle /\ irq = "none"
  /\ dec[i].pc \in OnTheWay => dec[i].reason # "bufEmpty"

LockAndCommand == lock = pending /\ vpu.inst \in {None, pending}

InterruptOwned == /\ irq # "none" => pending # None
                  /\ irq \in {"seqInit", "picRun"} => vpu = Idle

Orderly == LockAndCommand /\ InterruptOwned /\ \A i \in Instances : Knows(i)

IInv == DecShape /\ VpuShape /\ (~disturbed => Orderly)

(***************************************************************************)
(* How a decoder moves.                                                    *)
(***************************************************************************)
\* Decoder i alone changes, to that place and that reason.
Moves(i, p, r) ==
  /\ DecShape'
  /\ dec'[i].pc = p /\ dec'[i].reason = r
  /\ \A j \in Instances \ {i} : dec'[j] = dec[j]

\* A decoder is replaced by another of the right shape.
LEMMA Moving ==
  ASSUME DecShape, NEW i \in Instances, NEW d, IsDec(d), dec' = [dec EXCEPT ![i] = d]
  PROVE  Moves(i, d.pc, d.reason)
BY DEF DecShape, Moves

\* The same, one that is put to another place besides.
LEMMA MovingTo ==
  ASSUME DecShape, NEW i \in Instances, NEW d, IsDec(d), NEW p,
         dec' = [dec EXCEPT ![i] = [d EXCEPT !.pc = p]]
  PROVE  Moves(i, p, d.reason)
<1> DEFINE e == [d EXCEPT !.pc = p]
<1>1. IsDec(e) /\ e.pc = p /\ e.reason = d.reason
  BY DEF IsDec, Fields
<1>2. dec' = [dec EXCEPT ![i] = e]
  OBVIOUS
<1> HIDE DEF e
<1>3. Moves(i, e.pc, e.reason)
  BY <1>1, <1>2, Moving
<1> QED BY <1>1, <1>3

\* Only its place changes.
LEMMA Going ==
  ASSUME DecShape, NEW i \in Instances, NEW p, Goes(i, p)
  PROVE  Moves(i, p, dec[i].reason)
<1> DEFINE d == dec[i]
<1>1. dec' = [dec EXCEPT ![i] = [d EXCEPT !.pc = p]]
  BY DEF Goes
<1>2. IsDec(d)
  BY DEF DecShape
<1> HIDE DEF d
<1>3. Moves(i, p, d.reason)
  BY <1>1, <1>2, MovingTo
<1> QED BY <1>3 DEF d

\* flushVideoBuffer before its loop: the reason is kept, unless it is a timeout.
LEMMA PicNextShape ==
  ASSUME NEW d, IsDec(d)
  PROVE  /\ IsDec(PicNext(d))
         /\ PicNext(d).pc = PicStep(d)
         /\ PicNext(d).reason = IF d.reason = "timeout" THEN "none" ELSE d.reason
BY DEF Fields, IsDec, PicNext, Wiped

LEMMA GivesBackShape ==
  ASSUME NEW d, IsDec(d)
  PROVE  IsDec(GivesBack(d)) /\ GivesBack(d).pc = d.pc /\ GivesBack(d).reason = d.reason
BY DEF Fields, IsDec, GivesBack

LEMMA WithoutPictureShape ==
  ASSUME NEW d, IsDec(d)
  PROVE  /\ IsDec(WithoutPicture(d))
         /\ WithoutPicture(d).pc = Leaves(d)
         /\ WithoutPicture(d).reason = d.reason
BY GivesBackShape DEF Fields, IsDec, WithoutPicture

LEMMA WithPictureShape ==
  ASSUME NEW d, IsDec(d), NEW f
  PROVE  /\ IsDec(WithPicture(d, f))
         /\ WithPicture(d, f).pc \in {"closing", "sending"}
         /\ WithPicture(d, f).reason = d.reason
<1> DEFINE q == IF f = "end" THEN [d EXCEPT !.quit = TRUE]
                ELSE [d EXCEPT !.queue = Append(@, f)]
<1>1. IsDec(q) /\ q.reason = d.reason
  BY DEF Fields, IsDec
<1>2. IsDec(GivesBack(q)) /\ GivesBack(q).reason = d.reason
  BY <1>1, GivesBackShape
<1>3. WithPicture(d, f) = IF d.last THEN [GivesBack(q) EXCEPT !.pc = "closing"]
                                    ELSE [q EXCEPT !.pc = "sending"]
  BY DEF WithPicture
<1> HIDE DEF q
<1> QED BY <1>1, <1>2, <1>3 DEF Fields, IsDec

\* What the decoder is told changes its copies of what the VPU keeps, and what it hides.
LEMMA ToldShape ==
  ASSUME NEW d, IsDec(d), NEW h
  PROVE  /\ IsDec(Told(d, h)) /\ Told(d, h).reason = d.reason /\ Told(d, h).last = d.last
         /\ Told(d, h).ring = ReadUpTo(d.ring, rdReg) /\ Told(d, h).shown = shownReg
         /\ Told(d, h).vsync = d.vsync /\ Told(d, h).queue = d.queue /\ Told(d, h).clears = d.clears
         /\ Told(d, h).inited = d.inited
         /\ Told(d, h).hidden = IF h THEN d.hidden \cup ({result.display} \cap Frames) ELSE d.hidden
<1> DEFINE r == ReadUpTo(d.ring, rdReg)
           n == d.hidden \cup ({result.display} \cap Frames)
<1>1. Told(d, h) = [d EXCEPT !.ring = r, !.shown = shownReg, !.hides = h,
                             !.hidden = IF h THEN n ELSE d.hidden]
  BY DEF Told, IsDec, Fields
<1> HIDE DEF r, n
<1>2. QED
  BY <1>1 DEF IsDec, Fields, r, n

\* Whatever is written into the ring, place and reason stay.
LEMMA FillingShape ==
  ASSUME NEW d, IsDec(d), NEW r, NEW n
  PROVE  /\ IsDec([d EXCEPT !.ring = r, !.fill = n])
         /\ [d EXCEPT !.ring = r, !.fill = n].reason = d.reason
BY DEF IsDec, Fields

(***************************************************************************)
(* What a step needs for the decoders that do not move.                    *)
(***************************************************************************)
LEMMA OthersKnow ==
  ASSUME NEW j \in Instances, Knows(j), dec'[j] = dec[j],
         pending' = pending \/ (pending # j /\ pending' # j),
         pending = j => vpu' = vpu /\ irq' = irq
  PROVE  Knows(j)'
BY DEF Knows, CommandPlaces, AnsweredPlaces

\* What a step of decoder i leaves to the others.
Spares(i) ==
  \A j \in Instances \ {i} :
    /\ pending' = pending \/ (pending # j /\ pending' # j)
    /\ pending = j => vpu' = vpu /\ irq' = irq

\* A step of decoder i keeps the invariant if it leaves it and the core in order.
LEMMA StepKeeps ==
  ASSUME IInv, NEW i \in Instances, NEW p, NEW r, Moves(i, p, r), VpuShape',
         disturbed => disturbed',
         ~disturbed /\ ~disturbed' => /\ LockAndCommand' /\ InterruptOwned'
                                     /\ Knows(i)' /\ Spares(i)
  PROVE  IInv'
<1>1. DecShape' /\ \A j \in Instances \ {i} : dec'[j] = dec[j]
  BY DEF Moves
<1>2. ASSUME ~disturbed' PROVE Orderly'
  <2>1. /\ Orderly /\ LockAndCommand' /\ InterruptOwned' /\ Knows(i)' /\ Spares(i)
    BY <1>2 DEF IInv
  <2>2. ASSUME NEW j \in Instances \ {i} PROVE Knows(j)'
    BY <1>1, <2>1, OthersKnow DEF Spares, Orderly
  <2> QED BY <2>1, <2>2 DEF Orderly
<1> QED BY <1>1, <1>2 DEF IInv

(***************************************************************************)
(* The actions.                                                            *)
(***************************************************************************)
\* A step that leaves the core, the device's command and the past alone.
LEMMA QuietStep ==
  ASSUME IInv, NEW i \in Instances, NEW p, NEW r, Moves(i, p, r),
         UNCHANGED <<lock, pending, vpu, irq, disturbed>>,
         ~disturbed => Knows(i)'
  PROVE  IInv'
<1>1. VpuShape'
  BY DEF IInv, VpuShape
<1>2. ~disturbed => LockAndCommand' /\ InterruptOwned' /\ Spares(i)
  BY DEF IInv, Orderly, LockAndCommand, InterruptOwned, Spares
<1> QED BY <1>1, <1>2, StepKeeps

LEMMA OpenKeeps ==
  ASSUME IInv, NEW i \in Instances, Open(i)
  PROVE  IInv'
<1>0. PICK vc1 \in BOOLEAN :
        dec' = [dec EXCEPT ![i] = [NoDecoder EXCEPT !.pc = "rest", !.hides = vc1]]
  BY DecoderAssumption DEF Open
<1> DEFINE d == [NoDecoder EXCEPT !.pc = "rest", !.hides = vc1]
<1>1. IsDec(d) /\ d.pc = "rest" /\ d.reason = "none"
  BY DEF NoDecoder, IsDec, Fields
<1>2. Moves(i, "rest", "none")
  BY <1>0, <1>1, Moving DEF IInv
<1>3. ~disturbed => Knows(i)'
  BY <1>2 DEF IInv, Orderly, Knows, Moves, Open, At, FreePlaces, CommandPlaces,
              AnsweredPlaces, OnTheWay, core
<1> QED BY <1>2, <1>3, QuietStep DEF Open, core

\* What a packet leaves as it is, whatever is written.
LEMMA TakePacketKeeps ==
  ASSUME IInv, NEW i \in Instances, TakePacket(i)
  PROVE  IInv'
<1>1. PICK packet \in Packets, negative \in BOOLEAN :
        LET w == Written(i, packet)
            d == [dec[i] EXCEPT !.ring = w.ring, !.fill = Filled(@ + w.size)]
        IN /\ At(i, "rest")
           /\ IF ~w.ok \/ negative
              THEN dec' = [dec EXCEPT ![i] = [d EXCEPT !.pc = "closing"]] /\ UNCHANGED irq
              ELSE IF d.inited
              THEN dec' = [dec EXCEPT ![i] = PicNext(d)] /\ WipesInterrupt(d)
              ELSE dec' = [dec EXCEPT ![i] = [d EXCEPT !.pc = SeqStep(d)]] /\ UNCHANGED irq
           /\ wrReg' = IF pending = i THEN w.ring.wr ELSE wrReg
           /\ vpu' = [vpu EXCEPT !.starved = @ /\ ~(vpu.inst = i /\ pending = i /\ w.size > 0)]
           /\ UNCHANGED <<core, endBit, rdReg, shownReg, result, disturbed>>
  BY DEF TakePacket
<1> DEFINE w == Written(i, packet)
           fed == vpu.inst = i /\ pending = i /\ w.size > 0
           d == [dec[i] EXCEPT !.ring = w.ring, !.fill = Filled(@ + w.size)]
<1>2. IsDec(d) /\ d.reason = dec[i].reason /\ dec[i].pc = "rest"
  <2>1. IsDec(dec[i]) /\ dec[i].pc = "rest"
    BY <1>1 DEF IInv, DecShape, At
  <2> DEFINE old == dec[i]
             n == Filled(old.fill + w.size)
             r == w.ring
  <2>2. d = [old EXCEPT !.ring = r, !.fill = n]
    BY <2>1 DEF IsDec, Fields
  <2>3. IsDec(old)
    BY <2>1
  <2> HIDE DEF d, n, r, old
  <2>4. IsDec(d) /\ d.reason = old.reason
    BY <2>2, <2>3, FillingShape
  <2> QED BY <2>1, <2>4 DEF old
<1>3. /\ VpuShape' /\ vpu'.inst = vpu.inst
      /\ vpu = Idle => vpu' = vpu
      /\ vpu.inst # i => vpu' = vpu
  <2>1. vpu' = [vpu EXCEPT !.starved = @ /\ ~fed]
    BY <1>1
  <2>2. fed \in BOOLEAN /\ (fed => vpu.inst = i)
    OBVIOUS
  <2>3. irq' \in Interrupts \cup {"none"}
    BY <1>1 DEF IInv, VpuShape, WipesInterrupt
  <2> HIDE DEF fed
  <2>4. CASE vpu = Idle
    <3>1. vpu' = Idle
      BY <2>1, <2>4, Zenon DEF Idle
    <3> QED BY <2>3, <2>4, <3>1 DEF VpuShape
  <2>5. CASE vpu # Idle
    <3>1. vpu \in [cmd : {"SEQ_INIT", "PIC_RUN"}, inst : Instances, starved : BOOLEAN]
      BY <2>5 DEF IInv, VpuShape
    <3>2. vpu' \in [cmd : {"SEQ_INIT", "PIC_RUN"}, inst : Instances, starved : BOOLEAN]
          /\ vpu'.inst = vpu.inst /\ (~fed => vpu' = vpu)
      BY <2>1, <2>2, <3>1
    <3> QED BY <2>2, <2>3, <2>5, <3>2 DEF VpuShape
  <2> QED BY <2>4, <2>5
<1>4. UNCHANGED <<core, disturbed>>
  BY <1>1
<1>5. ~disturbed => /\ Knows(i) /\ LockAndCommand' /\ Spares(i)
                    /\ (irq' = irq => InterruptOwned')
  <2> SUFFICES ASSUME ~disturbed
               PROVE  /\ Knows(i) /\ LockAndCommand' /\ Spares(i) 
                      /\ (irq' = irq => InterruptOwned')
    OBVIOUS
  <2>1. Orderly
    BY DEF IInv
  <2>2. LockAndCommand'
    BY <1>3, <1>4, <2>1 DEF Orderly, LockAndCommand, core
  <2>3. irq' = irq => InterruptOwned'
    BY <1>3, <1>4, <2>1 DEF Orderly, InterruptOwned, core
  <2>4. irq' = irq
    BY <1>1, <1>2, <2>1 DEF Orderly, Knows, WipesInterrupt
  <2>5. Spares(i)
    BY <1>3, <1>4, <2>1, <2>4, DecoderAssumption DEF Orderly, LockAndCommand, Spares, core
  <2> QED BY <2>1, <2>2, <2>3, <2>5 DEF Orderly
<1>6. CASE ~w.ok \/ negative
  <2>1. Moves(i, "closing", dec[i].reason)
    <3>1. dec' = [dec EXCEPT ![i] = [d EXCEPT !.pc = "closing"]]
      BY <1>1, <1>6
    <3> HIDE DEF d
    <3> QED BY <1>2, <3>1, MovingTo DEF IInv
  <2>2. irq' = irq
    BY <1>1, <1>6
  <2>3. ~disturbed => Knows(i)'
    BY <1>5, <2>1 DEF Knows, Moves, CommandPlaces, FreePlaces, AnsweredPlaces, OnTheWay
  <2> QED BY <1>3, <1>4, <1>5, <2>1, <2>2, <2>3, StepKeeps
<1>7. CASE ~(~w.ok \/ negative) /\ d.inited
  <2>1. dec' = [dec EXCEPT ![i] = PicNext(d)] /\ WipesInterrupt(d)
    BY <1>1, <1>7
  <2> HIDE DEF d
  <2> DEFINE e == PicNext(d)
             r == IF dec[i].reason = "timeout" THEN "none" ELSE dec[i].reason
  <2>2. Moves(i, PicStep(d), r)
    <3>1. IsDec(e) /\ e.pc = PicStep(d) /\ e.reason = r
      BY <1>2, PicNextShape
    <3>2. dec' = [dec EXCEPT ![i] = e]
      BY <2>1
    <3> HIDE DEF e
    <3>3. Moves(i, e.pc, e.reason)
      BY <3>1, <3>2, Moving DEF IInv
    <3> QED BY <3>1, <3>3
  <2>3. ~disturbed => irq' = irq
    BY <1>2, <1>5, <2>1 DEF Knows, WipesInterrupt
  <2>4. ~disturbed => Knows(i)'
    BY <1>2, <1>4, <1>5, <2>2 DEF Knows, Moves, PicStep, Leaves, core, CommandPlaces,
                                  FreePlaces, AnsweredPlaces, OnTheWay
  <2> QED BY <1>3, <1>4, <1>5, <2>2, <2>3, <2>4, StepKeeps
<1>8. CASE ~(~w.ok \/ negative) /\ ~d.inited
  <2>1. dec' = [dec EXCEPT ![i] = [d EXCEPT !.pc = SeqStep(d)]] /\ UNCHANGED irq
    BY <1>1, <1>8
  <2> HIDE DEF d
  <2>2. Moves(i, SeqStep(d), dec[i].reason)
    BY <1>2, <2>1, MovingTo DEF IInv
  <2>3. ~disturbed => Knows(i)'
    BY <1>2, <1>4, <1>5, <2>2 DEF Knows, Moves, SeqStep, core, CommandPlaces,
                                  FreePlaces, AnsweredPlaces, OnTheWay
  <2> QED BY <1>3, <1>4, <1>5, <2>1, <2>2, <2>3, StepKeeps
<1> QED BY <1>6, <1>7, <1>8

LEMMA TakeEofKeeps ==
  ASSUME IInv, NEW i \in Instances, TakeEof(i)
  PROVE  IInv'
<1> DEFINE d == [dec[i] EXCEPT !.fill = 2 * Gbu, !.end = TRUE, !.last = TRUE]
           e == PicNext(d)
           r == IF dec[i].reason = "timeout" THEN "none" ELSE dec[i].reason
<1>1. IsDec(d) /\ d.reason = dec[i].reason /\ dec[i].pc = "rest"
  BY DEF IInv, DecShape, IsDec, Fields, TakeEof, At
<1>2. dec' = [dec EXCEPT ![i] = e] /\ WipesInterrupt(d) /\ UNCHANGED <<core, vpu, disturbed>>
  BY DEF TakeEof
<1> HIDE DEF d
<1>3. IsDec(e) /\ e.pc = PicStep(d) /\ e.reason = r
  BY <1>1, PicNextShape
<1> HIDE DEF e
<1>4. Moves(i, PicStep(d), r)
  <2>1. Moves(i, e.pc, e.reason)
    BY <1>2, <1>3, Moving DEF IInv
  <2> QED BY <1>3, <2>1
<1>5. VpuShape'
  BY <1>2 DEF IInv, VpuShape, WipesInterrupt
<1>6. ~disturbed => LockAndCommand' /\ InterruptOwned' /\ Knows(i)' /\ Spares(i)
  <2> SUFFICES ASSUME ~disturbed
               PROVE  LockAndCommand' /\ InterruptOwned' /\ Knows(i)' /\ Spares(i)
    OBVIOUS
  <2>1. Orderly /\ Knows(i)
    BY DEF IInv, Orderly
  <2>2. UNCHANGED <<lock, pending, vpu, irq>>
    BY <1>1, <1>2, <2>1 DEF Knows, WipesInterrupt, core
  <2>3. LockAndCommand' /\ InterruptOwned' /\ Spares(i)
    BY <2>1, <2>2 DEF Orderly, LockAndCommand, InterruptOwned, Spares
  <2>4. Knows(i)'
    BY <1>1, <1>4, <2>1, <2>2 DEF Knows, Moves, PicStep, Leaves, CommandPlaces,
                                  FreePlaces, AnsweredPlaces, OnTheWay
  <2> QED BY <2>3, <2>4
<1> QED BY <1>2, <1>4, <1>5, <1>6, StepKeeps

LEMMA TakeFlushKeeps ==
  ASSUME IInv, NEW i \in Instances, TakeFlush(i)
  PROVE  IInv'
<1> DEFINE d == [dec[i] EXCEPT !.clears = @ \cup ToSet(dec[i].queue), !.queue = <<>>]
<1>1. IsDec(d) /\ d.reason = dec[i].reason /\ d.pc = dec[i].pc
  BY DEF IInv, DecShape, IsDec, Fields
<1>2. dec' = [dec EXCEPT ![i] = d]
  BY DEF TakeFlush
<1>3. UNCHANGED <<lock, pending, vpu, irq, disturbed>>
  BY DEF TakeFlush, core, device
<1> HIDE DEF d
<1>4. Moves(i, dec[i].pc, dec[i].reason)
  <2>1. Moves(i, d.pc, d.reason)
    BY <1>1, <1>2, Moving DEF IInv
  <2> QED BY <1>1, <2>1
<1>5. ~disturbed => Knows(i)'
  BY <1>3, <1>4 DEF IInv, Orderly, Knows, Moves
<1> QED BY <1>3, <1>4, <1>5, QuietStep

\* A command is given by a decoder that has none, when none is on record.
LEMMA IssueKeeps ==
  ASSUME IInv, NEW i \in Instances, NEW cmd \in {"SEQ_INIT", "PIC_RUN"},
         pending = None, Issues(i, cmd), UNCHANGED <<irq, disturbed>>,
         NEW p \in {"waitSeq", "waitPic"}, Moves(i, p, dec[i].reason)
  PROVE  IInv'
<1>1. VpuShape'
  BY DEF IInv, VpuShape, Issues
<1>2. ASSUME ~disturbed PROVE LockAndCommand' /\ InterruptOwned' /\ Knows(i)' /\ Spares(i)
  <2>1. Orderly /\ Knows(i) /\ irq = "none"
    BY <1>2 DEF IInv, Orderly, InterruptOwned
  <2>2. LockAndCommand' /\ InterruptOwned' /\ Spares(i)
    BY <2>1, DecoderAssumption DEF Issues, LockAndCommand, InterruptOwned, Spares
  <2>3. Knows(i)'
    BY <2>1 DEF Knows, Moves, Issues, CommandPlaces, FreePlaces, AnsweredPlaces, OnTheWay
  <2> QED BY <2>2, <2>3
<1> QED BY <1>1, <1>2, StepKeeps

\* A decoder without a command goes to a place where it needs none.
LEMMA GoingFree ==
  ASSUME IInv, NEW i \in Instances, NEW p \in FreePlaces \cup {"closing"}, Goes(i, p),
         dec[i].pc \in FreePlaces,
         p \in OnTheWay => dec[i].reason # "bufEmpty",
         UNCHANGED <<lock, pending, vpu, irq, disturbed>>
  PROVE  IInv'
<1>1. Moves(i, p, dec[i].reason)
  BY Going DEF IInv
<1>2. ~disturbed => Knows(i)'
  BY <1>1 DEF IInv, Orderly, Knows, Moves, CommandPlaces, FreePlaces, AnsweredPlaces, OnTheWay
<1> QED BY <1>1, <1>2, QuietStep

LEMMA IssueSeqInitKeeps ==
  ASSUME IInv, NEW i \in Instances, IssueSeqInit(i)
  PROVE  IInv'
<1>1. dec[i].pc = "issueSeq"
  BY DEF IssueSeqInit, At
<1>2. CASE GivesUp(i) /\ UNCHANGED <<core, device, disturbed>>
  BY <1>1, <1>2, GoingFree DEF GivesUp, core, device, FreePlaces, OnTheWay
<1>3. CASE /\ pending = None /\ Issues(i, "SEQ_INIT") /\ Goes(i, "waitSeq")
           /\ UNCHANGED <<irq, result, disturbed>>
  <2>1. Moves(i, "waitSeq", dec[i].reason)
    BY <1>3, Going DEF IInv
  <2> QED BY <1>3, <2>1, IssueKeeps
<1> QED BY <1>2, <1>3 DEF IssueSeqInit

\* A waiting decoder receives an interrupt: it goes for data, or has its answer.
LEMMA ReceiveKeeps ==
  ASSUME IInv, NEW i \in Instances, dec[i].pc \in {"waitSeq", "waitPic"},
         irq # "none", irq' = "none", UNCHANGED <<lock, pending, vpu, disturbed>>,
         NEW p, Moves(i, p, irq),
         irq = "bufEmpty" => p \in {"rest", "closing"},
         irq # "bufEmpty" => p \in AnsweredPlaces \cup {dec[i].pc}
  PROVE  IInv'
<1>1. VpuShape'
  BY DEF IInv, VpuShape
<1>2. ASSUME ~disturbed PROVE LockAndCommand' /\ InterruptOwned' /\ Knows(i)' /\ Spares(i)
  <2>1. Orderly /\ Knows(i)
    BY <1>2 DEF IInv, Orderly
  <2>2. pending = i
    BY <2>1 DEF Knows, CommandPlaces
  <2>3. LockAndCommand' /\ InterruptOwned' /\ Spares(i)
    BY <2>1, <2>2 DEF Orderly, LockAndCommand, InterruptOwned, Spares
  <2>4. irq # "bufEmpty" => vpu = Idle
    BY <2>1 DEF IInv, VpuShape, Interrupts, Orderly, InterruptOwned
  <2>5. irq # "timeout"
    BY DEF IInv, VpuShape, Interrupts
  <2>6. Knows(i)'
    <3>1. dec'[i].pc = p /\ dec'[i].reason = irq /\ pending' = i
      BY <2>2 DEF Moves
    <3>2. CASE irq = "bufEmpty"
      BY <2>5, <3>1, <3>2 DEF Knows, CommandPlaces, FreePlaces, AnsweredPlaces, OnTheWay
    <3>3. CASE irq # "bufEmpty"
      BY <2>4, <2>5, <3>1, <3>3 DEF Knows, CommandPlaces, FreePlaces, AnsweredPlaces, OnTheWay
    <3> QED BY <3>2, <3>3
  <2> QED BY <2>3, <2>6
<1> QED BY <1>1, <1>2, StepKeeps

LEMMA WaitSeqInitKeeps ==
  ASSUME IInv, NEW i \in Instances, WaitSeqInit(i)
  PROVE  IInv'
<1> DEFINE f == IF irq = "bufEmpty" THEN 0 ELSE dec[i].fill
           p == CASE irq = "bufEmpty" -> "rest"
                  [] irq = "seqInit" -> "completeSeq"
                  [] OTHER -> dec[i].pc
           d == [dec[i] EXCEPT !.reason = irq, !.fill = f, !.pc = p]
<1>1. /\ dec[i].pc = "waitSeq" /\ irq # "none" /\ irq' = "none"
      /\ UNCHANGED <<lock, pending, vpu, disturbed>>
  BY DEF WaitSeqInit, At, core
<1>2. /\ irq = "bufEmpty" => p \in {"rest", "closing"}
      /\ irq # "bufEmpty" => p \in AnsweredPlaces \cup {dec[i].pc}
  BY DEF AnsweredPlaces
<1>3. dec' = [dec EXCEPT ![i] = d]
  BY DEF WaitSeqInit
<1> HIDE DEF p, f
<1>4. IsDec(d) /\ d.pc = p /\ d.reason = irq
  BY DEF IInv, DecShape, IsDec, Fields
<1> HIDE DEF d
<1>5. Moves(i, p, irq)
  <2>1. Moves(i, d.pc, d.reason)
    BY <1>3, <1>4, Moving DEF IInv
  <2> QED BY <1>4, <2>1
<1> QED BY <1>1, <1>2, <1>5, ReceiveKeeps

LEMMA WaitPictureKeeps ==
  ASSUME IInv, NEW i \in Instances, WaitPicture(i)
  PROVE  IInv'
<1> DEFINE f == IF irq = "bufEmpty" THEN 0 ELSE dec[i].fill
           p == CASE irq = "bufEmpty" -> Leaves(dec[i])
                  [] irq = "picRun" -> "output"
                  [] OTHER -> dec[i].pc
           d == [dec[i] EXCEPT !.reason = irq, !.fill = f, !.pc = p]
<1>1. /\ dec[i].pc = "waitPic" /\ irq # "none" /\ irq' = "none"
      /\ UNCHANGED <<lock, pending, vpu, disturbed>>
  BY DEF WaitPicture, KeepsCommand, At, core
<1>2. /\ irq = "bufEmpty" => p \in {"rest", "closing"}
      /\ irq # "bufEmpty" => p \in AnsweredPlaces \cup {dec[i].pc}
  BY DEF AnsweredPlaces, Leaves
<1>3. dec' = [dec EXCEPT ![i] = d]
  BY DEF WaitPicture
<1> HIDE DEF p, f
<1>4. IsDec(d) /\ d.pc = p /\ d.reason = irq
  BY DEF IInv, DecShape, IsDec, Fields
<1> HIDE DEF d
<1>5. Moves(i, p, irq)
  <2>1. Moves(i, d.pc, d.reason)
    BY <1>3, <1>4, Moving DEF IInv
  <2> QED BY <1>4, <2>1
<1> QED BY <1>1, <1>2, <1>5, ReceiveKeeps

\* A decoder that has its answer gives the lock back and goes on without a command.
LEMMA ReleaseKeeps ==
  ASSUME IInv, NEW i \in Instances, dec[i].pc \in AnsweredPlaces, Releases,
         UNCHANGED <<vpu, irq, disturbed>>,
         NEW p \in {"release", "register", "rest", "closing", "sending"},
         Moves(i, p, dec[i].reason)
  PROVE  IInv'
<1>1. VpuShape'
  BY DEF IInv, VpuShape
<1>2. ASSUME ~disturbed PROVE LockAndCommand' /\ InterruptOwned' /\ Knows(i)' /\ Spares(i)
  <2>1. Orderly /\ Knows(i)
    BY <1>2 DEF IInv, Orderly
  <2>2. pending = i /\ vpu = Idle /\ irq = "none" /\ dec[i].reason # "bufEmpty"
    BY <2>1 DEF Knows, CommandPlaces, AnsweredPlaces, OnTheWay
  <2>3. LockAndCommand' /\ InterruptOwned' /\ Spares(i)
    BY <2>2, DecoderAssumption DEF Releases, Idle, LockAndCommand, InterruptOwned, Spares
  <2>4. Knows(i)'
    BY <2>1, <2>2, DecoderAssumption
       DEF Releases, Knows, Moves, CommandPlaces, FreePlaces, AnsweredPlaces, OnTheWay
  <2> QED BY <2>3, <2>4
<1> QED BY <1>1, <1>2, StepKeeps

\* What the host copies from the VPU changes neither place nor reason.
LEMMA SyncedShape ==
  ASSUME NEW d, IsDec(d)
  PROVE  IsDec(Synced(d)) /\ Synced(d).pc = d.pc /\ Synced(d).reason = d.reason
BY DEF Synced, IsDec, Fields

LEMMA CompleteSeqInitKeeps ==
  ASSUME IInv, NEW i \in Instances, CompleteSeqInit(i)
  PROVE  IInv'
<1> DEFINE old == dec[i]
           d == Synced(old)
<1>1. dec[i].pc \in AnsweredPlaces /\ UNCHANGED <<vpu, irq>>
  BY DEF CompleteSeqInit, At, AnsweredPlaces, device
<1>2. IsDec(d) /\ d.reason = dec[i].reason
  <2>1. IsDec(old)
    BY DEF IInv, DecShape
  <2> HIDE DEF old
  <2>2. IsDec(d) /\ d.reason = old.reason
    BY <2>1, SyncedShape
  <2> QED BY <2>2 DEF old
<1>3. CASE pending # i /\ Releases /\ GivesUp(i) /\ UNCHANGED disturbed
  <2>1. Moves(i, "release", dec[i].reason)
    BY <1>3, Going DEF IInv, GivesUp
  <2> QED BY <1>1, <1>3, <2>1, ReleaseKeeps
<1>4. CASE /\ lock' = None /\ UNCHANGED pending
           /\ disturbed' = TRUE
           /\ dec' = [dec EXCEPT ![i] = [Synced(dec[i]) EXCEPT !.pc = "release"]]
  <2> HIDE DEF d
  <2>1. dec' = [dec EXCEPT ![i] = [d EXCEPT !.pc = "release"]]
    BY <1>4 DEF d
  <2>2. Moves(i, "release", d.reason)
    BY <1>2, <2>1, MovingTo DEF IInv
  <2>3. VpuShape'
    BY <1>1 DEF IInv, VpuShape
  <2> QED BY <1>4, <2>2, <2>3, StepKeeps
<1>5. CASE /\ Releases /\ UNCHANGED disturbed
           /\ dec' = [dec EXCEPT ![i] = [Synced(dec[i]) EXCEPT
                        !.pc = IF result.ok = "ok" THEN "register" ELSE "release"]]
  <2> DEFINE p == IF result.ok = "ok" THEN "register" ELSE "release"
  <2>1. dec' = [dec EXCEPT ![i] = [d EXCEPT !.pc = p]]
    BY <1>5
  <2>2. p \in {"release", "register", "rest", "closing", "sending"}
    OBVIOUS
  <2> HIDE DEF d, p
  <2>3. Moves(i, p, dec[i].reason)
    BY <1>2, <2>1, MovingTo DEF IInv
  <2> QED BY <1>1, <1>5, <2>2, <2>3, ReleaseKeeps
<1> QED BY <1>3, <1>4, <1>5 DEF CompleteSeqInit

LEMMA RegisterFrameBufferKeeps ==
  ASSUME IInv, NEW i \in Instances, RegisterFrameBuffer(i)
  PROVE  IInv'
<1>1. dec[i].pc = "register" /\ UNCHANGED <<lock, pending, vpu, irq, disturbed>>
  BY DEF RegisterFrameBuffer, At, core, device
<1>2. CASE GivesUp(i)
  BY <1>1, <1>2, GoingFree DEF GivesUp, FreePlaces, OnTheWay
<1>3. CASE /\ pending = None
           /\ dec' = [dec EXCEPT ![i] = PicNext([@ EXCEPT !.inited = TRUE])]
  <2> DEFINE d == [dec[i] EXCEPT !.inited = TRUE]
             e == PicNext(d)
             r == IF dec[i].reason = "timeout" THEN "none" ELSE dec[i].reason
  <2>1. IsDec(d) /\ d.reason = dec[i].reason
    BY DEF IInv, DecShape, IsDec, Fields
  <2>2. dec' = [dec EXCEPT ![i] = e]
    BY <1>3
  <2> HIDE DEF d
  <2>3. IsDec(e) /\ e.pc = PicStep(d) /\ e.reason = r
    BY <2>1, PicNextShape
  <2> HIDE DEF e
  <2>4. Moves(i, PicStep(d), r)
    <3>1. Moves(i, e.pc, e.reason)
      BY <2>2, <2>3, Moving DEF IInv
    <3> QED BY <2>3, <3>1
  <2>5. ASSUME ~disturbed PROVE Knows(i)'
    <3>1. dec[i].reason \notin {"bufEmpty", "timeout"}
      BY <1>1, <2>5 DEF IInv, Orderly, Knows, OnTheWay
    <3>2. PicStep(d) = "start" /\ r = dec[i].reason
      BY <2>1, <3>1 DEF PicStep
    <3> QED BY <1>1, <1>3, <2>4, <3>1, <3>2, DecoderAssumption
            DEF Knows, Moves, CommandPlaces, FreePlaces, AnsweredPlaces, OnTheWay
  <2> QED BY <1>1, <2>4, <2>5, QuietStep
<1> QED BY <1>2, <1>3 DEF RegisterFrameBuffer

LEMMA StartOneFrameKeeps ==
  ASSUME IInv, NEW i \in Instances, StartOneFrame(i)
  PROVE  IInv'
<1>1. dec[i].pc = "start"
  BY DEF StartOneFrame, At
<1>2. CASE Goes(i, "closing") /\ UNCHANGED <<core, device, disturbed>>
  BY <1>1, <1>2, GoingFree DEF core, device, FreePlaces, OnTheWay
<1>3. CASE /\ pending = None /\ Issues(i, "PIC_RUN")
           /\ dec' = [dec EXCEPT ![i].pc = "waitPic", ![i].clears = {}]
           /\ UNCHANGED <<irq, result, disturbed>>
  <2> DEFINE d == [dec[i] EXCEPT !.pc = "waitPic", !.clears = {}]
  <2>1. IsDec(d) /\ d.pc = "waitPic" /\ d.reason = dec[i].reason
    BY DEF IInv, DecShape, IsDec, Fields
  <2>2. dec' = [dec EXCEPT ![i] = d]
    BY <1>3
  <2> HIDE DEF d
  <2>3. Moves(i, "waitPic", dec[i].reason)
    <3>1. Moves(i, d.pc, d.reason)
      BY <2>1, <2>2, Moving DEF IInv
    <3> QED BY <2>1, <3>1
  <2> QED BY <1>3, <2>3, IssueKeeps
<1> QED BY <1>2, <1>3 DEF StartOneFrame

LEMMA TimeOutKeeps ==
  ASSUME IInv, NEW i \in Instances, TimeOut(i)
  PROVE  IInv'
<1> DEFINE p == IF dec[i].pc = "waitSeq" THEN "rest" ELSE Leaves(dec[i])
           d == [dec[i] EXCEPT !.reason = "timeout", !.fill = 0, !.pc = p]
<1>1. dec' = [dec EXCEPT ![i] = d] /\ disturbed' = TRUE
  BY DEF TimeOut
<1>2. VpuShape'
  BY DEF TimeOut, IInv, VpuShape
<1> HIDE DEF p
<1>3. IsDec(d)
  BY DEF IInv, DecShape, IsDec, Fields
<1> HIDE DEF d
<1>4. Moves(i, d.pc, d.reason)
  BY <1>1, <1>3, Moving DEF IInv
<1> QED BY <1>1, <1>2, <1>4, StepKeeps

LEMMA GetOutputInfoKeeps ==
  ASSUME IInv, NEW i \in Instances, GetOutputInfo(i)
  PROVE  IInv'
<1>1. dec[i].pc \in AnsweredPlaces /\ Releases /\ UNCHANGED <<vpu, irq, disturbed>>
  BY DEF GetOutputInfo, At, AnsweredPlaces, device
<1>2. CASE Goes(i, "closing")
  <2>1. Moves(i, "closing", dec[i].reason)
    BY <1>2, Going DEF IInv
  <2> QED BY <1>1, <2>1, ReleaseKeeps
<1>3. \A h : IsDec(Told(dec[i], h)) /\ Told(dec[i], h).reason = dec[i].reason
  BY ToldShape DEF IInv, DecShape
<1>4. ASSUME NEW h, dec' = [dec EXCEPT ![i] = WithoutPicture(Told(dec[i], h))] PROVE IInv'
  <2> DEFINE d == Told(dec[i], h)
             e == WithoutPicture(d)
  <2> HIDE DEF d
  <2>1. IsDec(e) /\ e.pc = Leaves(d) /\ e.reason = dec[i].reason
    BY <1>3, WithoutPictureShape DEF d
  <2>2. dec' = [dec EXCEPT ![i] = e]
    BY <1>4 DEF d
  <2> HIDE DEF e
  <2>3. Moves(i, e.pc, e.reason)
    BY <2>1, <2>2, Moving DEF IInv
  <2>4. e.pc \in {"release", "register", "rest", "closing", "sending"}
    BY <2>1 DEF Leaves
  <2> QED BY <1>1, <2>1, <2>3, <2>4, ReleaseKeeps
<1>5. ASSUME NEW h, dec' = [dec EXCEPT ![i] = WithPicture(Told(dec[i], h), result.display)]
      PROVE  IInv'
  <2> DEFINE d == Told(dec[i], h)
             e == WithPicture(d, result.display)
  <2> HIDE DEF d
  <2>1. IsDec(e) /\ e.pc \in {"closing", "sending"} /\ e.reason = dec[i].reason
    BY <1>3, WithPictureShape DEF d
  <2>2. dec' = [dec EXCEPT ![i] = e]
    BY <1>5 DEF d
  <2> HIDE DEF e
  <2>3. Moves(i, e.pc, e.reason)
    BY <2>1, <2>2, Moving DEF IInv
  <2> QED BY <1>1, <2>1, <2>3, ReleaseKeeps
<1> QED BY <1>2, <1>4, <1>5 DEF GetOutputInfo

\* The flag is up and the frame is in the queue.
LEMMA SentShape ==
  ASSUME NEW d, IsDec(d)
  PROVE  IsDec(Sent(d)) /\ Sent(d).pc = Leaves(d) /\ Sent(d).reason = d.reason
BY DEF Sent, IsDec, Fields

LEMMA SendFrameKeeps ==
  ASSUME IInv, NEW i \in Instances, SendFrame(i)
  PROVE  IInv'
<1> DEFINE p == Leaves(dec[i])
           d == Sent(dec[i])
           e == GivesBack(d)
<1>1. /\ dec[i].pc = "sending" /\ dec' = [dec EXCEPT ![i] = e]
      /\ UNCHANGED <<lock, pending, vpu, irq, disturbed>>
  BY DEF SendFrame, At, core, device
<1>2. p \in {"rest", "closing"}
  BY DEF Leaves
<1> HIDE DEF p
<1>3. IsDec(d) /\ d.pc = p /\ d.reason = dec[i].reason
  BY SentShape DEF IInv, DecShape, p
<1> HIDE DEF d
<1>4. IsDec(e) /\ e.pc = p /\ e.reason = dec[i].reason
  BY <1>3, GivesBackShape
<1> HIDE DEF e
<1>5. Moves(i, p, dec[i].reason)
  <2>1. Moves(i, e.pc, e.reason)
    BY <1>1, <1>4, Moving DEF IInv
  <2> QED BY <1>4, <2>1
<1>6. ~disturbed => Knows(i)'
  BY <1>1, <1>2, <1>5 DEF IInv, Orderly, Knows, Moves, CommandPlaces, FreePlaces,
                          AnsweredPlaces, OnTheWay
<1> QED BY <1>1, <1>5, <1>6, QuietStep

LEMMA LeaveLoopKeeps ==
  ASSUME IInv, NEW i \in Instances, LeaveLoop(i)
  PROVE  IInv'
<1>1. /\ dec[i].pc = "closing" /\ UNCHANGED <<lock, pending, vpu, irq>>
      /\ disturbed' = (disturbed \/ pending = i)
  BY DEF LeaveLoop, At, core
<1>2. \E p \in {"close", "spin"} : Moves(i, p, dec[i].reason)
  <2>1. CASE Goes(i, "close")
    BY <2>1, Going DEF IInv
  <2>2. CASE dec' = [dec EXCEPT ![i].end = TRUE, ![i].pc = "spin"]
    <3> DEFINE d == [dec[i] EXCEPT !.end = TRUE, !.pc = "spin"]
    <3>1. IsDec(d) /\ d.pc = "spin" /\ d.reason = dec[i].reason
      BY DEF IInv, DecShape, IsDec, Fields
    <3>2. dec' = [dec EXCEPT ![i] = d]
      BY <2>2
    <3> HIDE DEF d
    <3>3. Moves(i, d.pc, d.reason)
      BY <3>1, <3>2, Moving DEF IInv
    <3> QED BY <3>1, <3>3
  <2> QED BY <2>1, <2>2 DEF LeaveLoop
<1>3. PICK p \in {"close", "spin"} : Moves(i, p, dec[i].reason)
  BY <1>2
<1>4. VpuShape'
  BY <1>1 DEF IInv, VpuShape
<1>5. ~disturbed /\ ~disturbed' =>
        LockAndCommand' /\ InterruptOwned' /\ Knows(i)' /\ Spares(i)
  BY <1>1, <1>3 DEF IInv, Orderly, LockAndCommand, InterruptOwned, Spares, Knows, Moves,
                    CommandPlaces, FreePlaces, AnsweredPlaces, OnTheWay
<1> QED BY <1>1, <1>3, <1>4, <1>5, StepKeeps

\* The last steps of a decoder.
LEMMA EndingKeeps ==
  ASSUME IInv, NEW i \in Instances, SpinEnds(i) \/ Close(i) \/ DeInit(i)
  PROVE  IInv'
<1>1. /\ dec[i].pc \in {"spin", "close", "freed", "release"}
      /\ UNCHANGED <<lock, pending, vpu, irq, disturbed>>
  BY DEF SpinEnds, Close, DeInit, At, core, device
<1>2. CASE SpinEnds(i)
  BY <1>1, <1>2, GoingFree DEF SpinEnds, FreePlaces, OnTheWay
<1>3. CASE Close(i)
  <2> DEFINE d == [NoDecoder EXCEPT !.pc = "freed"]
  <2>1. IsDec(d) /\ d.pc = "freed" /\ d.reason = "none"
    BY DEF NoDecoder, IsDec, Fields
  <2>2. dec' = [dec EXCEPT ![i] = d]
    BY <1>3 DEF Close
  <2> HIDE DEF d
  <2>3. Moves(i, "freed", "none")
    <3>1. Moves(i, d.pc, d.reason)
      BY <2>1, <2>2, Moving DEF IInv
    <3> QED BY <2>1, <3>1
  <2>4. ~disturbed => Knows(i)'
    BY <1>1, <2>3 DEF IInv, Orderly, Knows, Moves, CommandPlaces, FreePlaces,
                      AnsweredPlaces, OnTheWay
  <2> QED BY <1>1, <2>3, <2>4, QuietStep
<1>4. CASE DeInit(i)
  <2> DEFINE p == IF dec[i].pc = "freed" THEN "closed" ELSE "lost"
  <2>1. Goes(i, p) /\ p \in {"closed", "lost"}
    BY <1>4 DEF DeInit, Goes
  <2> HIDE DEF p
  <2> QED BY <1>1, <2>1, GoingFree DEF FreePlaces, OnTheWay
<1> QED BY <1>2, <1>3, <1>4

LEMMA ForceLockKeeps ==
  ASSUME IInv, NEW i \in Instances, ForceLock(i)
  PROVE  IInv'
<1>1. DecShape' /\ VpuShape'
  BY DEF ForceLock, IInv, DecShape, VpuShape
<1>2. disturbed'
  <2> SUFFICES ASSUME ~disturbed PROVE lock # i
    BY DEF ForceLock
  <2>1. pending # i
    BY DEF IInv, Orderly, Knows, ForceLock, WantsLock, At, FreePlaces
  <2> QED BY <2>1 DEF IInv, Orderly, LockAndCommand
<1> QED BY <1>1, <1>2 DEF IInv

\* The VPU asks for data, or is done, while the decoder on record waits for it.
LEMMA VpuKeeps ==
  ASSUME IInv, Vpu
  PROVE  IInv'
<1>1. vpu # Idle /\ irq = "none" /\ UNCHANGED <<core, dec, disturbed>>
  BY DEF Vpu, VpuStarves, VpuParsesHeader, VpuDecodes, MayFinish, Idle, core
<1>2. /\ vpu \in [cmd : {"SEQ_INIT", "PIC_RUN"}, inst : Instances, starved : BOOLEAN]
      /\ vpu.inst # None
  BY <1>1, DecoderAssumption DEF IInv, VpuShape
<1>3. \/ vpu' = [vpu EXCEPT !.starved = TRUE] /\ irq' = "bufEmpty"
      \/ vpu' = Idle /\ irq' \in {"seqInit", "picRun"}
  BY DEF Vpu, VpuStarves, VpuParsesHeader, VpuDecodes
<1>4. VpuShape'
  BY <1>2, <1>3 DEF VpuShape, Interrupts
<1>5. ASSUME ~disturbed PROVE Orderly'
  <2>1. Orderly /\ pending # None /\ vpu.inst = pending
    BY <1>2, <1>5 DEF IInv, Orderly, LockAndCommand
  <2>2. LockAndCommand' /\ InterruptOwned'
    BY <1>1, <1>2, <1>3, <2>1 DEF Orderly, LockAndCommand, InterruptOwned, core, Idle
  <2>3. ASSUME NEW j \in Instances PROVE Knows(j)'
    BY <1>1, <2>1 DEF Orderly, Knows, core
  <2> QED BY <2>2, <2>3 DEF Orderly
<1> QED BY <1>1, <1>4, <1>5 DEF IInv, DecShape

(***************************************************************************)
(* The theorems.                                                           *)
(***************************************************************************)
LEMMA InitOrderly == Init => IInv
<1> SUFFICES ASSUME Init PROVE IInv
  OBVIOUS
<1>1. DecShape
  BY DEF Init, DecShape, NoDecoder, IsDec, Fields
<1>2. VpuShape
  BY DEF Init, VpuShape
<1>3. ASSUME NEW i \in Instances PROVE Knows(i)
  BY <1>3, DecoderAssumption DEF Init, Knows, NoDecoder, CommandPlaces, FreePlaces,
                                 AnsweredPlaces, OnTheWay
<1>4. LockAndCommand /\ InterruptOwned
  BY DEF Init, LockAndCommand, InterruptOwned, Idle
<1> QED BY <1>1, <1>2, <1>3, <1>4 DEF IInv, Orderly

LEMMA NextKeeps == IInv /\ [Next]_vars => IInv'
<1> SUFFICES ASSUME IInv, [Next]_vars PROVE IInv'
  OBVIOUS
<1>1. CASE UNCHANGED vars
  BY <1>1 DEF vars, core, device, IInv, DecShape, VpuShape, Orderly, LockAndCommand,
              InterruptOwned, Knows
<1>2. CASE Vpu
  BY <1>2, VpuKeeps
<1>3. ASSUME NEW i \in Instances, Decoder(i) PROVE IInv'
  BY <1>3, OpenKeeps, TakePacketKeeps, TakeEofKeeps, TakeFlushKeeps, IssueSeqInitKeeps,
     WaitSeqInitKeeps, CompleteSeqInitKeeps, RegisterFrameBufferKeeps, StartOneFrameKeeps,
     WaitPictureKeeps, TimeOutKeeps, GetOutputInfoKeeps, SendFrameKeeps, LeaveLoopKeeps,
     EndingKeeps, ForceLockKeeps
     DEF Decoder, Works
<1> QED BY <1>1, <1>2, <1>3 DEF Next

LEMMA Invariance == Spec => []IInv
BY InitOrderly, NextKeeps, PTL DEF Spec

(* For any number of decoders: until something goes wrong, the lock is held exactly
   as long as a command is on record, and the VPU works for the decoder on record
   only (from VPU_DecStartOneFrame to VPU_DecGetOutputInfo). *)
THEOREM LockHoldsCommand == Spec => []LockGuardsCommand
<1>1. IInv => LockGuardsCommand
  BY DEF IInv, Orderly, LockAndCommand, LockGuardsCommand
<1> QED BY <1>1, Invariance, PTL

(* For any number of decoders: between two packets, int_reason tells a decoder whether
   the command on record is its own (seqInit, flushVideoBuffer). *)
THEOREM ReasonTells == Spec => []KnowsItsCommand
<1>1. IInv => KnowsItsCommand
  BY DEF IInv, Orderly, Knows, KnowsItsCommand, At
<1> QED BY <1>1, Invariance, PTL

\* A step gives the VPU a command only if none is on record.
LEMMA OneCommand ==
  ASSUME IInv, [Next]_vars
  PROVE  [\A i \in Instances : vpu'.inst = i /\ vpu.inst # i /\ ~disturbed => vpu = Idle]_vars
<1> SUFFICES ASSUME NEW i \in Instances, vpu'.inst = i, vpu.inst # i, ~disturbed
             PROVE  vpu = Idle
  OBVIOUS
<1>1. vpu.inst = None => vpu = Idle
  BY DecoderAssumption DEF IInv, VpuShape
<1>2. pending = None => vpu.inst = None
  BY DEF IInv, Orderly, LockAndCommand
<1>3. vpu' # vpu /\ vpu' # Idle
  BY DecoderAssumption DEF Idle
<1>4. ASSUME NEW j \in Instances, TakePacket(j) PROVE FALSE
  <2>1. \E fed \in BOOLEAN : vpu' = [vpu EXCEPT !.starved = @ /\ ~fed]
    BY <1>4 DEF TakePacket
  <2>2. vpu'.inst = vpu.inst
    BY <2>1 DEF IInv, VpuShape, Idle
  <2> QED BY <2>2
<1>5. ~VpuStarves
  <2>1. VpuStarves => vpu'.inst = vpu.inst
    BY DEF VpuStarves, IInv, VpuShape, Idle
  <2> QED BY <2>1
<1>6. ~VpuParsesHeader /\ ~VpuDecodes
  BY <1>3 DEF VpuParsesHeader, VpuDecodes
<1>7. ASSUME NEW j \in Instances, Decoder(j), ~TakePacket(j) PROVE pending = None
  BY <1>3, <1>7
     DEF Decoder, Works, Open, TakeEof, TakeFlush, IssueSeqInit, WaitSeqInit, CompleteSeqInit,
         RegisterFrameBuffer, StartOneFrame, WaitPicture, TimeOut, GetOutputInfo, SendFrame,
         LeaveLoop, SpinEnds, Close, DeInit, ForceLock, core, device
<1> QED BY <1>1, <1>2, <1>3, <1>4, <1>5, <1>6, <1>7 DEF Next, Vpu, vars, device

(* For any number of decoders: until something goes wrong, a command is given only to an
   idle VPU (VPU_DecIssueSeqInit, VPU_DecStartOneFrame). *)
THEOREM OneCommandAtATime == Spec => CommandsExclusive
<1>1. IInv /\ [Next]_vars =>
        [\A i \in Instances : vpu'.inst = i /\ vpu.inst # i /\ ~disturbed => vpu = Idle]_vars
  BY OneCommand
<1> QED BY <1>1, Invariance, PTL DEF Spec, CommandsExclusive

(***************************************************************************)
(* Induction.  The provers take no lemma with an operator as parameter, so *)
(* it is stated for sets: a set that holds 0 and the successor of each of  *)
(* its numbers holds them all.  With it, what every piece of a packet keeps, *)
(* the fold over the pieces keeps.                                         *)
(***************************************************************************)
LEMMA NatInduct ==
  ASSUME NEW S, 0 \in S, \A n \in Nat : n \in S => n + 1 \in S
  PROVE  Nat \subseteq S
<1>1. SUFFICES ASSUME Nat \ S # {} PROVE FALSE
  OBVIOUS
<1> DEFINE R == OpToRel(<, Nat)
<1>2. /\ \A x, y \in Nat : y < x => <<y, x>> \in R
      /\ IsWellFoundedOn(R, Nat)
  BY NatLessThanWellFounded DEF OpToRel
<1> HIDE DEF R
<1>3. PICK x \in Nat \ S : \A y \in Nat \ S : ~(<<y, x>> \in R)
  BY <1>1, <1>2, WFMin
<1>4. x \in Nat /\ x # 0
  BY <1>3
<1>5. x - 1 \in Nat /\ x - 1 < x
  BY <1>4
<1>6. x - 1 \in S
  BY <1>2, <1>3, <1>5
<1>7. QED
  BY <1>3, <1>5, <1>6

LEMMA LastIsMax ==
  ASSUME NEW m \in Nat, NEW s \in SUBSET (1 .. m + 1), m + 1 \in s
  PROVE  Max(s) = m + 1 /\ s \ {m + 1} \in SUBSET (1 .. m)
<1>1. \A x \in s : x \in Int /\ x <= m + 1
  OBVIOUS
<1>2. Max(s) \in s /\ \A y \in s : Max(s) >= y
  <2>1. \E x \in s : \A y \in s : x >= y
    BY <1>1
  <2>2. QED
    BY <2>1 DEF Max
<1>3. Max(s) = m + 1
  <2>1. Max(s) \in Int /\ Max(s) <= m + 1
    BY <1>1, <1>2
  <2>2. Max(s) >= m + 1
    BY <1>2
  <2>3. QED
    BY <2>1, <2>2
<1>4. s \ {m + 1} \subseteq 1 .. m
  OBVIOUS
<1>5. QED
  BY <1>3, <1>4

\* What is written of the pieces whose numbers are in s, by what is written of fewer.
Piece(at, base, packet, f, s) ==
  IF s = {} THEN base ELSE WritePiece(at, packet[Max(s)], f[s \ {Max(s)}])

LEMMA PiecesExist ==
  ASSUME NEW at, NEW base, NEW packet, NEW n \in Nat
  PROVE  \E f : f = [s \in SUBSET (1 .. n) |-> Piece(at, base, packet, f, s)]
<1> DEFINE Fold(m, f) == f = [s \in SUBSET (1 .. m) |-> Piece(at, base, packet, f, s)]
           S == {m \in Nat : \E f : Fold(m, f)}
<1>1. 0 \in S
  <2> DEFINE f == [s \in SUBSET (1 .. 0) |-> base]
  <2>1. Fold(0, f)
    BY DEF Piece
  <2>2. QED
    BY <2>1
<1>2. ASSUME NEW m \in Nat, m \in S PROVE m + 1 \in S
  <2>1. PICK f : Fold(m, f)
    BY <1>2
  <2> DEFINE g == [s \in SUBSET (1 .. m + 1) |->
                     IF m + 1 \in s THEN WritePiece(at, packet[m + 1], f[s \ {m + 1}]) ELSE f[s]]
  <2>2. \A s \in SUBSET (1 .. m) : s \in SUBSET (1 .. m + 1) /\ m + 1 \notin s
    OBVIOUS
  <2>3. \A s \in SUBSET (1 .. m) : g[s] = f[s]
    BY <2>2
  <2>4. ASSUME NEW s \in SUBSET (1 .. m + 1) PROVE g[s] = Piece(at, base, packet, g, s)
    <3>1. CASE m + 1 \in s
      BY <2>3, <3>1, LastIsMax DEF Piece
    <3>2. CASE m + 1 \notin s
      <4>1. s \in SUBSET (1 .. m)
        BY <3>2
      <4>2. g[s] = Piece(at, base, packet, f, s)
        BY <2>1, <2>3, <4>1
      <4>3. s # {} => g[s \ {Max(s)}] = f[s \ {Max(s)}]
        BY <2>3, <4>1
      <4> HIDE DEF g
      <4>4. QED
        BY <4>2, <4>3 DEF Piece
    <3>3. QED
      BY <3>1, <3>2
  <2>5. Fold(m + 1, g)
    <3>1. g = [s \in SUBSET (1 .. m + 1) |-> g[s]]
      OBVIOUS
    <3> HIDE DEF g
    <3>2. QED
      BY <2>4, <3>1
  <2> HIDE DEF g
  <2>6. QED
    BY <2>5
<1>3. n \in S
  <2> HIDE DEF S
  <2>1. QED
    BY <1>1, <1>2, NatInduct
<1>4. QED
  BY <1>3

LEMMA PiecesKeep ==
  ASSUME NEW i \in Instances, NEW packet \in Seq(Nat \ {0}), NEW P,
         [ok |-> TRUE, size |-> 0, ring |-> dec[i].ring] \in P,
         \A w \in P, size \in Nat \ {0} : WritePiece(ReadPos(i), size, w) \in P
  PROVE  Written(i, packet) \in P
<1> DEFINE at == ReadPos(i)
           base == [ok |-> TRUE, size |-> 0, ring |-> dec[i].ring]
           n == Len(packet)
           v == Written(i, packet)
           f == CHOOSE f : f = [s \in SUBSET (1 .. n) |-> Piece(at, base, packet, f, s)]
<1>1. n \in Nat /\ DOMAIN packet = 1 .. n
  OBVIOUS
<1> HIDE DEF at, base
<1>2. f = [s \in SUBSET (1 .. n) |-> Piece(at, base, packet, f, s)]
  BY <1>1, PiecesExist
<1>3. v = f[1 .. n]
  BY <1>1 DEF at, base, Written, FoldLeft, MapThenFoldSet, Piece
<1> DEFINE S == {m \in Nat : m <= n => f[1 .. m] \in P}
<1> HIDE DEF f, n, v
<1>a. base \in P /\ \A w \in P, size \in Nat \ {0} : WritePiece(at, size, w) \in P
  BY DEF at, base
<1>4. 0 \in S
  <2>1. 1 .. 0 = {} /\ {} \in SUBSET (1 .. n)
    OBVIOUS
  <2>2. QED
    BY <1>1, <1>2, <1>a, <2>1 DEF Piece
<1>5. ASSUME NEW m \in Nat, m \in S PROVE m + 1 \in S
  <2>1. SUFFICES ASSUME m + 1 <= n PROVE f[1 .. m + 1] \in P
    OBVIOUS
  <2>2. /\ 1 .. m + 1 \subseteq 1 .. n /\ m <= n
        /\ m + 1 \in 1 .. m + 1 /\ m + 1 \in 1 .. n
    BY <1>1, <2>1
  <2>3. Max(1 .. m + 1) = m + 1
    BY <2>2, LastIsMax
  <2>4. (1 .. m + 1) \ {m + 1} = 1 .. m
    OBVIOUS
  <2>5. f[1 .. m + 1] = WritePiece(at, packet[m + 1], f[1 .. m])
    BY <1>2, <2>2, <2>3, <2>4 DEF Piece
  <2>6. packet[m + 1] \in Nat \ {0}
    BY <1>1, <2>2
  <2>7. QED
    BY <1>5, <1>a, <2>2, <2>5, <2>6
<1>6. n \in S
  <2> HIDE DEF S
  <2>1. QED
    BY <1>1, <1>4, <1>5, NatInduct
<1>7. QED
  <2>1. v \in P
    BY <1>1, <1>3, <1>6
  <2>2. QED
    BY <2>1 DEF v

(***************************************************************************)
(* The ring of one decoder.                                                *)
(***************************************************************************)
RingShape == [rd : Offsets, wr : Offsets, stored : Int]

\* The pointers tell what is stored, and a reader at that offset is between them.
Tells(r) ==
  /\ r \in RingShape
  /\ r.stored = Between(r.rd, r.wr)
  /\ r.stored <= RingSize - 2 * Gbu - 1

Inside(at, r) == at \in Offsets /\ Between(r.rd, at) + Between(at, r.wr) = r.stored

\* Who reads on from a place inside stays inside.
LEMMA ReadsOn ==
  ASSUME NEW p \in Offsets, NEW at \in Offsets, NEW q \in Offsets,
         Between(p, at) + Between(at, q) = Between(p, q),
         NEW n \in 0 .. Between(at, q)
  PROVE  /\ After(at, n) \in Offsets
         /\ Between(p, After(at, n)) + Between(After(at, n), q) = Between(p, q)
BY RingAssumption DEF Offsets, Between, After

LEMMA ReadUpToTells ==
  ASSUME NEW r, Tells(r), NEW at, Inside(at, r)
  PROVE  /\ Tells(ReadUpTo(r, at)) /\ Inside(at, ReadUpTo(r, at))
         /\ ReadUpTo(r, at).rd = at /\ ReadUpTo(r, at).wr = r.wr
<1> DEFINE seen == ReadUpTo(r, at)
<1>1. /\ r.rd \in Offsets /\ r.wr \in Offsets /\ at \in Offsets /\ r.stored \in Int
      /\ r.stored = Between(r.rd, r.wr) /\ r.stored <= RingSize - 2 * Gbu - 1
      /\ Between(r.rd, at) + Between(at, r.wr) = r.stored
  BY DEF Tells, Inside, RingShape
<1>2. /\ Between(r.rd, at) \in Nat /\ Between(at, r.wr) \in Nat /\ Between(at, at) = 0
  BY <1>1, RingAssumption DEF Offsets, Between
<1>3. r \in RingShape
  BY DEF Tells
<1>4. seen \in RingShape /\ seen.rd = at /\ seen.wr = r.wr /\ seen.stored = Between(at, r.wr)
  <2> DEFINE left == r.stored - Between(r.rd, at)
  <2>1. seen = [r EXCEPT !.rd = at, !.stored = left]
    BY DEF ReadUpTo
  <2>2. left \in Int /\ left = Between(at, r.wr)
    BY <1>1, <1>2
  <2> HIDE DEF seen, left
  <2>3. QED
    BY <1>1, <1>3, <2>1, <2>2 DEF RingShape
<1> HIDE DEF seen
<1>5. seen.stored <= RingSize - 2 * Gbu - 1
  BY <1>1, <1>2, <1>4, RingAssumption
<1>6. Tells(seen) /\ Inside(at, seen)
  BY <1>1, <1>2, <1>4, <1>5 DEF Tells, Inside
<1>7. QED
  BY <1>4, <1>6 DEF seen

\* The room leaves the gap that tells a full ring from an empty one.
LEMMA RoomIsSpare ==
  ASSUME NEW at \in Offsets, NEW wr \in Offsets, NEW size \in Nat \ {0}, Room(at, wr) >= size
  PROVE  Between(at, wr) + size <= RingSize - 2 * Gbu - 1
<1> DEFINE n == Spare(at, wr)
<1>1. n \in Int
  BY RingAssumption DEF Spare, Free, Offsets
<1>2. Room(at, wr) = n - (n % Grain)
  BY DEF Room, RoundedDown
<1> HIDE DEF n
<1>3. n % Grain \in Nat
  BY <1>1, RingAssumption
<1>4. n >= size
  BY <1>1, <1>2, <1>3
<1>5. QED
  BY <1>4, RingAssumption DEF n, Spare, Free, Between, Offsets

LEMMA PutTells ==
  ASSUME NEW r, Tells(r), NEW at, Inside(at, r), NEW size \in Nat \ {0}, Room(at, r.wr) >= size
  PROVE  Tells(Put(r, at, size)) /\ Inside(at, Put(r, at, size))
<1> DEFINE seen == ReadUpTo(r, at)
           put == Put(r, at, size)
           wr == r.wr
<1>1. /\ seen \in RingShape /\ seen.rd = at /\ seen.wr = wr
      /\ seen.stored = Between(at, wr) /\ at \in Offsets /\ wr \in Offsets
  BY ReadUpToTells DEF Tells, RingShape, Inside
<1>2. put = [seen EXCEPT !.wr = After(wr, size), !.stored = @ + size]
  BY DEF Put
<1>3. Between(at, wr) + size <= RingSize - 2 * Gbu - 1
  BY <1>1, RoomIsSpare
<1>4. After(wr, size) \in Offsets /\ Between(at, After(wr, size)) = Between(at, wr) + size
  <2> HIDE DEF wr
  <2>1. QED
    BY <1>1, <1>3, RingAssumption DEF Offsets, Between, After
<1>5. Between(at, wr) \in Int /\ Between(at, at) = 0
  BY <1>1, RingAssumption DEF Offsets, Between
<1> HIDE DEF seen, put, wr
<1>6. put \in RingShape /\ put.rd = at /\ put.wr = After(wr, size) /\ put.stored = Between(at, wr) + size
  <2> DEFINE q == After(wr, size)
             n == seen.stored + size
  <2>1. put = [seen EXCEPT !.wr = q, !.stored = n] /\ q \in Offsets
    BY <1>2, <1>4
  <2>2. n \in Int /\ n = Between(at, wr) + size
    BY <1>1, <1>5
  <2> HIDE DEF q, n
  <2>3. put \in RingShape /\ put.rd = at /\ put.wr = q /\ put.stored = n
    BY <1>1, <2>1, <2>2 DEF RingShape
  <2>4. QED
    BY <2>2, <2>3 DEF q
<1>7. Tells(put) /\ Inside(at, put)
  BY <1>1, <1>3, <1>4, <1>5, <1>6 DEF Tells, Inside
<1>8. QED
  BY <1>7 DEF put

\* What may be written of a packet while the reader is at that offset.
Writing(at) == {w \in [ok : BOOLEAN, size : Nat, ring : RingShape] :
                  Tells(w.ring) /\ Inside(at, w.ring)}

LEMMA PieceTells ==
  ASSUME NEW at, NEW w \in Writing(at), NEW size \in Nat \ {0}
  PROVE  WritePiece(at, size, w) \in Writing(at)
<1> DEFINE put == Put(w.ring, at, size)
<1>0. w \in [ok : BOOLEAN, size : Nat, ring : RingShape] /\ Tells(w.ring) /\ Inside(at, w.ring)
  BY DEF Writing
<1>1. \/ WritePiece(at, size, w) \in {w, [w EXCEPT !.ok = FALSE]}
      \/ /\ Room(at, w.ring.wr) >= size
         /\ WritePiece(at, size, w) = [w EXCEPT !.ring = put, !.size = @ + size]
  <2>1. Room(at, w.ring.wr) \in Int
    <3> DEFINE n == Spare(at, w.ring.wr)
    <3>1. n \in Int
      BY <1>0, RingAssumption DEF Tells, Inside, RingShape, Offsets, Spare, Free
    <3> HIDE DEF n
    <3>2. n - (n % Grain) \in Int
      BY <3>1, RingAssumption
    <3>3. QED
      BY <3>2 DEF Room, RoundedDown, n
  <2> HIDE DEF put
  <2>2. QED
    BY <2>1 DEF WritePiece, put
<1>2. CASE WritePiece(at, size, w) \in {w, [w EXCEPT !.ok = FALSE]}
  BY <1>0, <1>2 DEF Writing
<1>3. CASE Room(at, w.ring.wr) >= size /\ WritePiece(at, size, w) = [w EXCEPT !.ring = put, !.size = @ + size]
  <2>1. Tells(put) /\ Inside(at, put) /\ put \in RingShape
    BY <1>0, <1>3, PutTells DEF Tells
  <2> HIDE DEF put
  <2> DEFINE n == w.size + size
             v == WritePiece(at, size, w)
  <2>2. v = [w EXCEPT !.ring = put, !.size = n] /\ n \in Nat
    BY <1>0, <1>3
  <2> HIDE DEF n, v
  <2>3. v \in [ok : BOOLEAN, size : Nat, ring : RingShape] /\ v.ring = put
    BY <1>0, <2>1, <2>2
  <2>4. QED
    BY <2>1, <2>3 DEF Writing, v
<1>4. QED
  BY <1>1, <1>2, <1>3

LEMMA WrittenTells ==
  ASSUME NEW i \in Instances, NEW packet \in Packets,
         Tells(dec[i].ring), Inside(ReadPos(i), dec[i].ring)
  PROVE  Written(i, packet) \in Writing(ReadPos(i))
<1> DEFINE base == [ok |-> TRUE, size |-> 0, ring |-> dec[i].ring]
<1>1. base \in Writing(ReadPos(i))
  BY DEF Tells, Writing
<1>2. packet \in Seq(Nat \ {0})
  BY DecoderAssumption
<1>3. QED
  BY <1>1, <1>2, PieceTells, PiecesKeep

(***************************************************************************)
(* What a decoder keeps as it moves.                                       *)
(***************************************************************************)
\* Ring and pictures stay; a vsync pending may be taken back.
SameStore(d, e) ==
  /\ e.ring = d.ring /\ e.shown = d.shown /\ e.clears = d.clears
  /\ e.queue = d.queue /\ (e.vsync => d.vsync) /\ e.inited = d.inited
  /\ e.hidden = d.hidden

LEMMA PicNextStore ==
  ASSUME NEW d, IsDec(d)
  PROVE  SameStore(d, PicNext(d))
BY DEF Fields, IsDec, PicNext, Wiped, SameStore

LEMMA GivesBackStore ==
  ASSUME NEW d, IsDec(d)
  PROVE  /\ GivesBack(d).ring = d.ring /\ GivesBack(d).shown = d.shown
         /\ GivesBack(d).inited = d.inited /\ GivesBack(d).vsync = FALSE
         /\ GivesBack(d).hidden = d.hidden
         /\ d.queue = <<>> \/ ~d.vsync => GivesBack(d).queue = d.queue /\ GivesBack(d).clears = d.clears
         /\ \A f : d.queue = <<f>> /\ d.vsync =>
              GivesBack(d).queue = <<>> /\ GivesBack(d).clears = d.clears \cup {f}
<1>1. CASE d.vsync /\ d.queue # <<>>
  <2>1. GivesBack(d) = [d EXCEPT !.vsync = FALSE, !.queue = Tail(d.queue), !.clears = d.clears \cup {Head(d.queue)}]
    BY <1>1 DEF GivesBack
  <2>2. \A f : d.queue = <<f>> => Tail(d.queue) = <<>> /\ Head(d.queue) = f
    OBVIOUS
  <2> DEFINE q == Tail(d.queue)
             c == d.clears \cup {Head(d.queue)}
  <2>3. \A f : d.queue = <<f>> => q = <<>> /\ c = d.clears \cup {f}
    BY <2>2
  <2>4. GivesBack(d) = [d EXCEPT !.vsync = FALSE, !.queue = q, !.clears = c]
    BY <2>1
  <2> HIDE DEF q, c
  <2>5. /\ GivesBack(d).ring = d.ring /\ GivesBack(d).shown = d.shown
        /\ GivesBack(d).inited = d.inited /\ GivesBack(d).vsync = FALSE
        /\ GivesBack(d).hidden = d.hidden
        /\ GivesBack(d).queue = q /\ GivesBack(d).clears = c
    BY <2>4 DEF IsDec, Fields
  <2>6. QED
    BY <1>1, <2>3, <2>5
<1>2. CASE ~(d.vsync /\ d.queue # <<>>)
  <2>1. GivesBack(d) = [d EXCEPT !.vsync = FALSE]
    BY <1>2 DEF GivesBack
  <2>2. /\ GivesBack(d).ring = d.ring /\ GivesBack(d).shown = d.shown
        /\ GivesBack(d).inited = d.inited /\ GivesBack(d).vsync = FALSE
        /\ GivesBack(d).hidden = d.hidden
        /\ GivesBack(d).queue = d.queue /\ GivesBack(d).clears = d.clears
    BY <2>1 DEF IsDec, Fields
  <2>3. \A f : <<f>> # <<>>
    OBVIOUS
  <2>4. QED
    BY <1>2, <2>2, <2>3
<1>3. QED
  BY <1>1, <1>2

LEMMA WithoutPictureStore ==
  ASSUME NEW d, IsDec(d), ~d.vsync, d.queue = <<>>
  PROVE  SameStore(d, WithoutPicture(d))
<1>1. WithoutPicture(d) = [d EXCEPT !.vsync = d.vsync \/ (result.decoded = "none" /\ d.queue # <<>>), !.pc = Leaves(d)]
  BY DEF WithoutPicture
<1> DEFINE v == d.vsync \/ (result.decoded = "none" /\ d.queue # <<>>)
<1>2. v = FALSE
  OBVIOUS
<1>3. WithoutPicture(d) = [d EXCEPT !.vsync = v, !.pc = Leaves(d)]
  BY <1>1
<1> HIDE DEF v
<1>4. QED
  BY <1>2, <1>3 DEF IsDec, Fields, SameStore

LEMMA SentStore ==
  ASSUME NEW d, IsDec(d)
  PROVE  /\ Sent(d).ring = d.ring /\ Sent(d).shown = d.shown /\ Sent(d).clears = d.clears
         /\ Sent(d).queue = d.queue /\ Sent(d).inited = d.inited /\ Sent(d).vsync
         /\ Sent(d).hidden = d.hidden
BY DEF Sent, SetsVsync, IsDec, Fields

LEMMA WithPictureStore ==
  ASSUME NEW d, IsDec(d), NEW f
  PROVE  /\ WithPicture(d, f).ring = d.ring
         /\ ~d.last /\ f = "end" =>
              SameStore(d, WithPicture(d, f)) /\ WithPicture(d, f).pc = "sending"
         /\ ~d.last /\ f # "end" =>
              /\ WithPicture(d, f).pc = "sending"
              /\ WithPicture(d, f).shown = d.shown /\ WithPicture(d, f).clears = d.clears
              /\ WithPicture(d, f).queue = Append(d.queue, f)
              /\ WithPicture(d, f).inited = d.inited /\ WithPicture(d, f).hidden = d.hidden
              /\ WithPicture(d, f).vsync = d.vsync
         /\ d.last => WithPicture(d, f).pc = "closing"
<1> DEFINE n == Append(d.queue, f)
           q == IF f = "end" THEN [d EXCEPT !.quit = TRUE] ELSE [d EXCEPT !.queue = n]
<1>1. WithPicture(d, f) = IF d.last THEN [GivesBack(q) EXCEPT !.pc = "closing"]
                                    ELSE [q EXCEPT !.pc = "sending"]
  BY DEF WithPicture
<1> HIDE DEF n
<1>2. /\ IsDec(q) /\ q.ring = d.ring /\ q.shown = d.shown /\ q.clears = d.clears
      /\ q.vsync = d.vsync /\ q.inited = d.inited /\ q.hidden = d.hidden
      /\ q.queue = IF f = "end" THEN d.queue ELSE n
  BY DEF IsDec, Fields
<1> HIDE DEF q
<1>3. IsDec(GivesBack(q)) /\ GivesBack(q).ring = d.ring
  BY <1>2, GivesBackShape, GivesBackStore
<1>4. CASE d.last
  <2> DEFINE g == GivesBack(q)
  <2>1. WithPicture(d, f) = [g EXCEPT !.pc = "closing"]
    BY <1>1, <1>4
  <2>2. IsDec(g) /\ g.ring = d.ring
    BY <1>3
  <2> HIDE DEF g
  <2>3. QED
    BY <1>4, <2>1, <2>2 DEF IsDec, Fields
<1>5. CASE ~d.last
  BY <1>1, <1>2, <1>5 DEF IsDec, Fields, SameStore, n
<1>6. QED
  BY <1>4, <1>5

(***************************************************************************)
(* The inductive invariant of the rings.  The pointers of a decoder's ring *)
(* tell what is stored (Tells), and while its command is on record the     *)
(* registers of the VPU hold its write pointer and a read pointer that is  *)
(* inside what is stored.  Only the owner of the record moves them: for the *)
(* others the invariant says nothing of the registers.  The lock is free or *)
(* held for the instance on record, so whoever gets it finds no other record. *)
(***************************************************************************)
RingKept(i) ==
  /\ Tells(dec[i].ring)
  /\ pending = i => lock = i \/ GaveUp(i)
  /\ pending = i /\ ~GaveUp(i) => wrReg = dec[i].ring.wr /\ Inside(rdReg, dec[i].ring)

RingInv == /\ rdReg \in Offsets /\ wrReg \in Offsets
           /\ lock \in {None, pending}
           /\ \A i \in Instances : RingKept(i)

LEMMA Replaced ==
  ASSUME DecShape, NEW i \in Instances, NEW d, dec' = [dec EXCEPT ![i] = d]
  PROVE  dec'[i] = d /\ \A j \in Instances \ {i} : dec'[j] = dec[j]
BY DEF DecShape

\* A step of decoder i keeps the rings if it keeps its own, and the others' registers.
LEMMA RingStep ==
  ASSUME RingInv, NEW i \in Instances, \A j \in Instances \ {i} : dec'[j] = dec[j],
         rdReg' \in Offsets, wrReg' \in Offsets, lock' \in {None, pending'}, RingKept(i)',
         \A j \in Instances \ {i} : pending' = j =>
            /\ pending = j /\ lock' = lock
            /\ ~GaveUp(j) => UNCHANGED <<rdReg, wrReg>>
  PROVE  RingInv'
<1>1. ASSUME NEW j \in Instances \ {i} PROVE RingKept(j)'
  BY <1>1 DEF RingInv, RingKept, GaveUp
<1>2. QED
  BY <1>1 DEF RingInv

\* A step that leaves ring, registers and record alone.
LEMMA RingLeft ==
  ASSUME RingInv, NEW i \in Instances, \A j \in Instances \ {i} : dec'[j] = dec[j],
         UNCHANGED <<core, rdReg, wrReg>>, dec'[i].ring = dec[i].ring, GaveUp(i) => GaveUp(i)'
  PROVE  RingInv'
<1>1. RingKept(i)'
  BY DEF RingInv, RingKept, GaveUp, core
<1>2. QED
  BY <1>1, RingStep DEF RingInv, core

\* A step that gives lock and command back.
LEMMA RingReleased ==
  ASSUME RingInv, NEW i \in Instances, \A j \in Instances \ {i} : dec'[j] = dec[j],
         UNCHANGED <<rdReg, wrReg>>, Releases, Tells(dec'[i].ring)
  PROVE  RingInv'
<1>1. RingKept(i)' /\ \A j \in Instances : pending' # j
  BY DecoderAssumption DEF RingKept, Releases
<1>2. QED
  BY <1>1, RingStep DEF RingInv, Releases

\* A step that gives the VPU a command.
LEMMA RingIssued ==
  ASSUME RingInv, NEW i \in Instances, \A j \in Instances \ {i} : dec'[j] = dec[j],
         NEW cmd, Issues(i, cmd), dec'[i].ring = dec[i].ring
  PROVE  RingInv'
<1>1. Tells(dec[i].ring)
  BY DEF RingInv, RingKept
<1>2. rdReg' = dec[i].ring.rd /\ wrReg' = dec[i].ring.wr /\ rdReg' \in Offsets /\ wrReg' \in Offsets
  BY <1>1 DEF Issues, Tells, RingShape
<1>3. Between(rdReg', rdReg') = 0 /\ Between(rdReg', wrReg') \in Int
  BY <1>2, RingAssumption DEF Between, Offsets
<1>4. Inside(rdReg', dec'[i].ring)
  BY <1>1, <1>2, <1>3 DEF Inside, Tells
<1>5. RingKept(i)'
  BY <1>1, <1>2, <1>4 DEF RingKept, Issues
<1>6. QED
  BY <1>2, <1>5, RingStep DEF Issues

\* The host looks where the VPU is.
LEMMA SyncedTells ==
  ASSUME RingInv, NEW i \in Instances, pending = i, ~GaveUp(i)
  PROVE  /\ Tells(ReadUpTo(dec[i].ring, rdReg))
         /\ Inside(rdReg, ReadUpTo(dec[i].ring, rdReg))
         /\ ReadUpTo(dec[i].ring, rdReg).wr = wrReg
BY ReadUpToTells DEF RingInv, RingKept

LEMMA OpenRing ==
  ASSUME IInv, RingInv, NEW i \in Instances, Open(i)
  PROVE  RingInv'
<1>0. PICK vc1 \in BOOLEAN :
        dec' = [dec EXCEPT ![i] = [NoDecoder EXCEPT !.pc = "rest", !.hides = vc1]]
  BY DecoderAssumption DEF Open
<1> DEFINE d == [NoDecoder EXCEPT !.pc = "rest", !.hides = vc1]
<1>1. d.ring = EmptyRing
  BY DEF NoDecoder
<1>2. dec'[i] = d /\ \A j \in Instances \ {i} : dec'[j] = dec[j]
  BY <1>0, Replaced DEF IInv
<1> HIDE DEF d
<1>3. Tells(EmptyRing) /\ 0 \in Offsets
  BY RingAssumption DEF EmptyRing, Tells, RingShape, Offsets, Between
<1>4. \A j \in Instances : pending = j => GaveUp(j)
  BY DecoderAssumption DEF Open, RingInv, RingKept
<1>5. pending' # i
  BY <1>4 DEF Open, At, GaveUp, core
<1>6. RingKept(i)'
  BY <1>1, <1>2, <1>3, <1>5 DEF RingKept
<1>7. QED
  BY <1>2, <1>3, <1>4, <1>6, RingStep DEF RingInv, Open, core

LEMMA TakePacketRing ==
  ASSUME IInv, RingInv, NEW i \in Instances, TakePacket(i)
  PROVE  RingInv'
<1>1. PICK packet \in Packets, negative \in BOOLEAN :
        LET w == Written(i, packet)
            d == [dec[i] EXCEPT !.ring = w.ring, !.fill = Filled(@ + w.size)]
        IN /\ At(i, "rest")
           /\ IF ~w.ok \/ negative
              THEN dec' = [dec EXCEPT ![i] = [d EXCEPT !.pc = "closing"]] /\ UNCHANGED irq
              ELSE IF d.inited
              THEN dec' = [dec EXCEPT ![i] = PicNext(d)] /\ WipesInterrupt(d)
              ELSE dec' = [dec EXCEPT ![i] = [d EXCEPT !.pc = SeqStep(d)]] /\ UNCHANGED irq
           /\ wrReg' = IF pending = i THEN w.ring.wr ELSE wrReg
           /\ vpu' = [vpu EXCEPT !.starved = @ /\ ~(vpu.inst = i /\ pending = i /\ w.size > 0)]
           /\ UNCHANGED <<core, endBit, rdReg, shownReg, result, disturbed>>
  BY DEF TakePacket
<1> DEFINE w == Written(i, packet)
           d == [dec[i] EXCEPT !.ring = w.ring, !.fill = Filled(@ + w.size)]
<1>2. dec[i].pc = "rest" /\ ~GaveUp(i) /\ IsDec(dec[i])
  BY <1>1 DEF At, GaveUp, IInv, DecShape
<1>3. IsDec(d) /\ d.ring = w.ring
  <2> DEFINE old == dec[i]
             n == Filled(old.fill + w.size)
             r == w.ring
  <2>1. d = [old EXCEPT !.ring = r, !.fill = n] /\ IsDec(old)
    BY <1>2
  <2> HIDE DEF d, n, r, old
  <2>2. IsDec(d) /\ d.ring = r
    BY <2>1, FillingShape DEF IsDec, Fields
  <2>3. QED
    BY <2>2 DEF r
<1>4. dec'[i].ring = w.ring /\ \A j \in Instances \ {i} : dec'[j] = dec[j]
  <2>1. dec' = [dec EXCEPT ![i] = [d EXCEPT !.pc = "closing"]]
        \/ dec' = [dec EXCEPT ![i] = PicNext(d)]
        \/ dec' = [dec EXCEPT ![i] = [d EXCEPT !.pc = SeqStep(d)]]
    BY <1>1
  <2> HIDE DEF d, w
  <2>2. \A p : [d EXCEPT !.pc = p].ring = w.ring
    BY <1>3 DEF IsDec, Fields
  <2>3. PicNext(d).ring = w.ring
    BY <1>3, PicNextStore DEF SameStore
  <2>4. PICK e \in {[d EXCEPT !.pc = "closing"], PicNext(d), [d EXCEPT !.pc = SeqStep(d)]} :
          dec' = [dec EXCEPT ![i] = e]
    BY <2>1
  <2>5. e.ring = w.ring
    BY <2>2, <2>3
  <2>6. QED
    BY <2>4, <2>5, Replaced DEF IInv
<1>5. Inside(ReadPos(i), dec[i].ring) /\ Tells(dec[i].ring)
  <2>1. Tells(dec[i].ring)
    BY DEF RingInv, RingKept
  <2>2. CASE pending = i
    BY <1>2, <2>1, <2>2 DEF RingInv, RingKept, ReadPos
  <2>3. CASE pending # i
    <3> DEFINE r == dec[i].ring
    <3>1. r.rd \in Offsets /\ r.wr \in Offsets /\ r.stored = Between(r.rd, r.wr)
      BY <2>1 DEF Tells, RingShape
    <3>2. Between(r.rd, r.rd) = 0 /\ Between(r.rd, r.wr) \in Int
      BY <3>1, RingAssumption DEF Between, Offsets
    <3>3. QED
      BY <2>1, <2>3, <3>1, <3>2 DEF Inside, ReadPos
  <2>4. QED
    BY <2>2, <2>3
<1>6. Tells(w.ring) /\ Inside(ReadPos(i), w.ring) /\ w.ring \in RingShape
  <2>1. w \in Writing(ReadPos(i))
    BY <1>5, WrittenTells
  <2> HIDE DEF w
  <2>2. QED
    BY <2>1 DEF Writing
<1>7. /\ UNCHANGED <<core, rdReg>>
      /\ pending = i => wrReg' = w.ring.wr
      /\ pending # i => wrReg' = wrReg
  BY <1>1
<1> HIDE DEF w, d
<1>8. RingKept(i)'
  BY <1>2, <1>4, <1>6, <1>7 DEF RingInv, RingKept, ReadPos, GaveUp, core
<1>9. wrReg' \in Offsets
  BY <1>6, <1>7 DEF RingInv, RingShape
<1>10. QED
  BY <1>4, <1>7, <1>8, <1>9, RingStep DEF RingInv, core

LEMMA CompleteSeqInitRing ==
  ASSUME IInv, RingInv, NEW i \in Instances, CompleteSeqInit(i)
  PROVE  RingInv'
<1>1. dec[i].pc = "completeSeq" /\ ~GaveUp(i) /\ IsDec(dec[i]) /\ UNCHANGED <<rdReg, wrReg>>
      /\ Tells(dec[i].ring)
  BY DEF CompleteSeqInit, At, GaveUp, IInv, DecShape, device, RingInv, RingKept
<1>2. CASE pending # i /\ Releases /\ GivesUp(i)
  <2>1. dec' = [dec EXCEPT ![i] = [dec[i] EXCEPT !.pc = "release"]]
    BY <1>2 DEF GivesUp, Goes
  <2>2. [dec[i] EXCEPT !.pc = "release"].ring = dec[i].ring
    BY <1>1 DEF IsDec, Fields
  <2>3. dec'[i].ring = dec[i].ring /\ \A j \in Instances \ {i} : dec'[j] = dec[j]
    BY <2>1, <2>2, Replaced DEF IInv
  <2>4. QED
    BY <1>1, <1>2, <2>3, RingReleased
<1>3. CASE /\ pending = i
           /\ \E p : /\ dec' = [dec EXCEPT ![i] = [Synced(dec[i]) EXCEPT !.pc = p]]
                    /\ \/ Releases
                       \/ lock' = None /\ UNCHANGED pending /\ p = "release"
  <2>1. PICK p : /\ dec' = [dec EXCEPT ![i] = [Synced(dec[i]) EXCEPT !.pc = p]]
                 /\ \/ Releases
                    \/ lock' = None /\ UNCHANGED pending /\ p = "release"
    BY <1>3
  <2> DEFINE d == [Synced(dec[i]) EXCEPT !.pc = p]
             r == ReadUpTo(dec[i].ring, rdReg)
  <2>2. Tells(r) /\ Inside(rdReg, r) /\ r.wr = wrReg
    BY <1>1, <1>3, SyncedTells
  <2>3. d = [[dec[i] EXCEPT !.ring = r, !.shown = shownReg, !.end = endBit] EXCEPT !.pc = p]
    BY DEF Synced
  <2>4. dec' = [dec EXCEPT ![i] = d]
    BY <2>1
  <2> HIDE DEF d, r
  <2>5. d.ring = r /\ d.pc = p
    BY <1>1, <2>3 DEF IsDec, Fields
  <2>6. dec'[i] = d /\ \A j \in Instances \ {i} : dec'[j] = dec[j]
    BY <2>4, Replaced DEF IInv
  <2>7. CASE Releases
    BY <1>1, <2>2, <2>5, <2>6, <2>7, RingReleased
  <2>8. CASE lock' = None /\ UNCHANGED pending /\ p = "release"
    <3>1. RingKept(i)'
      BY <1>1, <2>2, <2>5, <2>6, <2>8 DEF RingKept, GaveUp
    <3>2. QED
      BY <1>1, <1>3, <2>6, <2>8, <3>1, RingStep DEF RingInv
  <2>9. QED
    BY <2>1, <2>7, <2>8
<1>4. QED
  BY <1>2, <1>3 DEF CompleteSeqInit

LEMMA StartsRing ==
  ASSUME IInv, RingInv, NEW i \in Instances, IssueSeqInit(i) \/ StartOneFrame(i)
  PROVE  RingInv'
<1>1. IsDec(dec[i]) /\ dec[i].pc \notin {"release", "lost"}
  BY DEF IInv, DecShape, IssueSeqInit, StartOneFrame, At
<1>2. PICK d : dec' = [dec EXCEPT ![i] = d] /\ d.ring = dec[i].ring
  <2>1. \A p : [dec[i] EXCEPT !.pc = p].ring = dec[i].ring
    BY <1>1 DEF IsDec, Fields
  <2>2. [dec[i] EXCEPT !.pc = "waitPic", !.clears = {}].ring = dec[i].ring
    BY <1>1 DEF IsDec, Fields
  <2>3. QED
    BY <2>1, <2>2 DEF IssueSeqInit, StartOneFrame, GivesUp, Goes
<1>3. dec'[i].ring = dec[i].ring /\ \A j \in Instances \ {i} : dec'[j] = dec[j]
  BY <1>2, Replaced DEF IInv
<1>4. CASE \E cmd : Issues(i, cmd)
  BY <1>3, <1>4, RingIssued
<1>5. CASE UNCHANGED <<core, device>>
  BY <1>1, <1>3, <1>5, RingLeft DEF device, GaveUp
<1>6. QED
  BY <1>4, <1>5 DEF IssueSeqInit, StartOneFrame

LEMMA OutputRing ==
  ASSUME IInv, RingInv, NEW i \in Instances, GetOutputInfo(i)
  PROVE  RingInv'
<1>1. /\ dec[i].pc = "output" /\ ~GaveUp(i) /\ IsDec(dec[i]) /\ UNCHANGED <<rdReg, wrReg>>
      /\ Releases /\ Tells(dec[i].ring)
  BY DEF GetOutputInfo, At, GaveUp, IInv, DecShape, device, RingInv, RingKept
<1> DEFINE f == result.display
<1>2. PICK e : dec' = [dec EXCEPT ![i] = e] /\ Tells(e.ring)
  <2>1. [dec[i] EXCEPT !.pc = "closing"].ring = dec[i].ring
    BY <1>1 DEF IsDec, Fields
  <2>2. ASSUME pending = i, NEW h
        PROVE Tells(WithoutPicture(Told(dec[i], h)).ring) /\ Tells(WithPicture(Told(dec[i], h), f).ring)
    <3> DEFINE d == Told(dec[i], h)
               r == ReadUpTo(dec[i].ring, rdReg)
    <3>1. Tells(r)
      BY <1>1, <2>2, SyncedTells
    <3> HIDE DEF r, f
    <3>2. IsDec(d) /\ d.ring = r
      BY <1>1, ToldShape DEF r
    <3> HIDE DEF d
    <3>3. WithoutPicture(d).ring = r
      <4> DEFINE g == IF d.vsync THEN GivesBack(d) ELSE d
                 v == g.vsync \/ (result.decoded = "none" /\ g.queue # <<>>)
      <4>1. IsDec(g) /\ g.ring = r
        BY <3>2, GivesBackShape, GivesBackStore
      <4>2. WithoutPicture(d) = [g EXCEPT !.vsync = v, !.pc = Leaves(d)]
        BY DEF WithoutPicture
      <4> HIDE DEF g, v
      <4>3. QED
        BY <4>1, <4>2 DEF IsDec, Fields
    <3>4. QED
      BY <3>1, <3>2, <3>3, WithPictureStore DEF d
  <2>3. \/ dec' = [dec EXCEPT ![i] = [dec[i] EXCEPT !.pc = "closing"]]
        \/ pending = i /\ \E h : \/ dec' = [dec EXCEPT ![i] = WithoutPicture(Told(dec[i], h))]
                                \/ dec' = [dec EXCEPT ![i] = WithPicture(Told(dec[i], h), f)]
    BY DEF GetOutputInfo, Goes
  <2>4. QED
    BY <1>1, <2>1, <2>2, <2>3
<1>3. Tells(dec'[i].ring) /\ \A j \in Instances \ {i} : dec'[j] = dec[j]
  BY <1>2, Replaced DEF IInv
<1>4. QED
  BY <1>1, <1>3, RingReleased

\* The steps that neither fill the ring nor look where the VPU is.
LEMMA OtherStepsRing ==
  ASSUME IInv, RingInv, NEW i \in Instances,
         \/ TakeEof(i) \/ TakeFlush(i) \/ WaitSeqInit(i) \/ RegisterFrameBuffer(i)
         \/ WaitPicture(i) \/ SendFrame(i) \/ LeaveLoop(i) \/ SpinEnds(i) \/ DeInit(i)
  PROVE  RingInv'
<1> DEFINE d == dec[i]
<1>1. IsDec(d) /\ UNCHANGED <<core, rdReg, wrReg>>
  BY DEF IInv, DecShape, TakeEof, TakeFlush, WaitSeqInit, RegisterFrameBuffer, WaitPicture,
         SendFrame, LeaveLoop, SpinEnds, DeInit, KeepsCommand, device
<1>2. PICK e : /\ dec' = [dec EXCEPT ![i] = e] /\ e.ring = d.ring
               /\ GaveUp(i) => e.pc \in {"release", "lost"}
  <2>1. CASE TakeEof(i)
    <3> DEFINE q == [d EXCEPT !.fill = 2 * Gbu, !.end = TRUE, !.last = TRUE]
    <3>1. IsDec(q) /\ q.ring = d.ring
      BY <1>1 DEF IsDec, Fields
    <3>2. dec' = [dec EXCEPT ![i] = PicNext(q)] /\ ~GaveUp(i)
      BY <2>1 DEF TakeEof, At, GaveUp
    <3> HIDE DEF q, d
    <3>3. PicNext(q).ring = d.ring
      BY <3>1, PicNextStore DEF SameStore
    <3>4. QED
      BY <3>2, <3>3
  <2>2. CASE TakeFlush(i)
    <3> DEFINE q == [d EXCEPT !.clears = @ \cup ToSet(d.queue), !.queue = <<>>]
    <3>1. q.ring = d.ring
      BY <1>1 DEF IsDec, Fields
    <3>2. dec' = [dec EXCEPT ![i] = q] /\ ~GaveUp(i)
      BY <2>2 DEF TakeFlush, At, GaveUp
    <3> HIDE DEF q, d
    <3>3. QED
      BY <3>1, <3>2
  <2>3. CASE WaitSeqInit(i) \/ WaitPicture(i)
    <3>1. PICK f, p : dec' = [dec EXCEPT ![i] = [d EXCEPT !.reason = irq, !.fill = f, !.pc = p]]
      <4> DEFINE f0 == IF irq = "bufEmpty" THEN 0 ELSE d.fill
                 p1 == CASE irq = "bufEmpty" -> "rest" [] irq = "seqInit" -> "completeSeq"
                         [] OTHER -> d.pc
                 p2 == CASE irq = "bufEmpty" -> Leaves(d) [] irq = "picRun" -> "output"
                         [] OTHER -> d.pc
      <4>1. WaitSeqInit(i) => dec' = [dec EXCEPT ![i] = [d EXCEPT !.reason = irq, !.fill = f0, !.pc = p1]]
        BY DEF WaitSeqInit
      <4>2. WaitPicture(i) => dec' = [dec EXCEPT ![i] = [d EXCEPT !.reason = irq, !.fill = f0, !.pc = p2]]
        BY DEF WaitPicture
      <4> HIDE DEF f0, p1, p2, d
      <4>3. QED
        BY <2>3, <4>1, <4>2
    <3>2. ~GaveUp(i)
      BY <2>3 DEF WaitSeqInit, WaitPicture, At, GaveUp
    <3> DEFINE q == [d EXCEPT !.reason = irq, !.fill = f, !.pc = p]
    <3>3. q.ring = d.ring /\ dec' = [dec EXCEPT ![i] = q]
      BY <1>1, <3>1 DEF IsDec, Fields
    <3> HIDE DEF q, d
    <3>4. QED
      BY <3>2, <3>3
  <2>4. CASE RegisterFrameBuffer(i)
    <3> DEFINE q == [d EXCEPT !.inited = TRUE]
    <3>1. IsDec(q) /\ q.ring = d.ring
      BY <1>1 DEF IsDec, Fields
    <3>2. [d EXCEPT !.pc = "release"].ring = d.ring
      BY <1>1 DEF IsDec, Fields
    <3>3. PICK e \in {PicNext(q), [d EXCEPT !.pc = "release"]} : dec' = [dec EXCEPT ![i] = e]
      BY <2>4 DEF RegisterFrameBuffer, GivesUp, Goes
    <3>4. ~GaveUp(i)
      BY <2>4 DEF RegisterFrameBuffer, At, GaveUp
    <3> HIDE DEF q
    <3>5. e.ring = d.ring
      BY <3>1, <3>2, PicNextStore DEF SameStore
    <3>6. QED
      BY <3>3, <3>4, <3>5
  <2>5. CASE SendFrame(i)
    <3> DEFINE q == Sent(d)
    <3>1. IsDec(q) /\ q.ring = d.ring
      BY <1>1, SentShape, SentStore
    <3>2. dec' = [dec EXCEPT ![i] = GivesBack(q)] /\ ~GaveUp(i)
      BY <2>5 DEF SendFrame, At, GaveUp
    <3> HIDE DEF q, d
    <3>3. GivesBack(q).ring = d.ring
      BY <3>1, GivesBackStore
    <3>4. QED
      BY <3>2, <3>3
  <2>6. CASE LeaveLoop(i) \/ SpinEnds(i) \/ DeInit(i)
    <3>1. \A p : [d EXCEPT !.pc = p].ring = d.ring /\ [d EXCEPT !.pc = p].pc = p
      BY <1>1 DEF IsDec, Fields
    <3>2. [d EXCEPT !.end = TRUE, !.pc = "spin"].ring = d.ring
      BY <1>1 DEF IsDec, Fields
    <3>3. CASE LeaveLoop(i) \/ SpinEnds(i)
      <4>1. PICK e \in {[d EXCEPT !.pc = "close"], [d EXCEPT !.end = TRUE, !.pc = "spin"]} :
              dec' = [dec EXCEPT ![i] = e]
        BY <3>3 DEF LeaveLoop, SpinEnds, Goes
      <4>2. ~GaveUp(i)
        BY <3>3 DEF LeaveLoop, SpinEnds, At, GaveUp
      <4>3. QED
        BY <3>1, <3>2, <4>1, <4>2
    <3>4. CASE DeInit(i)
      <4> DEFINE p == IF d.pc = "freed" THEN "closed" ELSE "lost"
      <4>1. dec' = [dec EXCEPT ![i] = [d EXCEPT !.pc = p]] /\ d.pc \in {"freed", "release"}
        BY <3>4 DEF DeInit
      <4>2. d.pc = "release" => p = "lost"
        OBVIOUS
      <4>3. GaveUp(i) => p = "lost"
        BY <4>1, <4>2 DEF GaveUp
      <4> HIDE DEF p
      <4>4. QED
        BY <3>1, <4>1, <4>3
    <3>5. QED
      BY <2>6, <3>3, <3>4
  <2>7. QED
    BY <2>1, <2>2, <2>3, <2>4, <2>5, <2>6
<1>3. dec'[i] = e /\ \A j \in Instances \ {i} : dec'[j] = dec[j]
  BY <1>2, Replaced DEF IInv
<1>4. QED
  BY <1>1, <1>2, <1>3, RingLeft DEF GaveUp

LEMMA EndingsRing ==
  ASSUME IInv, RingInv, NEW i \in Instances, TimeOut(i) \/ Close(i) \/ ForceLock(i)
  PROVE  RingInv'
<1>1. Tells(dec[i].ring) /\ UNCHANGED <<rdReg, wrReg>> /\ IsDec(dec[i])
  BY DEF RingInv, RingKept, TimeOut, Close, ForceLock, device, IInv, DecShape
<1>2. CASE TimeOut(i)
  <2> DEFINE d == [dec[i] EXCEPT !.reason = "timeout", !.fill = 0,
                                !.pc = IF @ = "waitSeq" THEN "rest" ELSE Leaves(dec[i])]
  <2>1. dec' = [dec EXCEPT ![i] = d] /\ ~GaveUp(i)
    BY <1>2 DEF TimeOut, GaveUp
  <2>2. d.ring = dec[i].ring
    BY <1>1 DEF IsDec, Fields
  <2> HIDE DEF d
  <2>3. dec'[i].ring = dec[i].ring /\ \A j \in Instances \ {i} : dec'[j] = dec[j]
    BY <2>1, <2>2, Replaced DEF IInv
  <2>4. CASE Releases
    BY <1>1, <2>3, <2>4, RingReleased
  <2>5. CASE UNCHANGED core
    BY <1>1, <2>1, <2>3, <2>5, RingLeft
  <2>6. QED
    BY <1>2, <2>4, <2>5 DEF TimeOut
<1>3. CASE Close(i)
  <2> DEFINE d == [NoDecoder EXCEPT !.pc = "freed"]
  <2>1. d.ring = EmptyRing
    BY DEF NoDecoder
  <2>2. dec'[i] = d /\ \A j \in Instances \ {i} : dec'[j] = dec[j]
    BY <1>3, Replaced DEF IInv, Close
  <2> HIDE DEF d
  <2>3. Tells(EmptyRing)
    BY RingAssumption DEF EmptyRing, Tells, RingShape, Offsets, Between
  <2>4. pending' # i /\ UNCHANGED core
    BY <1>3, DecoderAssumption DEF Close, At, GaveUp, core, RingInv, RingKept
  <2>5. RingKept(i)'
    BY <2>1, <2>2, <2>3, <2>4 DEF RingKept
  <2>6. QED
    BY <1>1, <2>2, <2>4, <2>5, RingStep DEF RingInv, core
<1>4. CASE ForceLock(i)
  <2>1. UNCHANGED dec /\ Releases
    BY <1>4 DEF ForceLock
  <2>2. QED
    BY <1>1, <2>1, RingReleased
<1>5. QED
  BY <1>2, <1>3, <1>4

\* The VPU reads on, no further than it may.
LEMMA VpuRing ==
  ASSUME RingInv, Vpu
  PROVE  RingInv'
<1>1. PICK n \in 0 .. Between(rdReg, wrReg) : rdReg' = After(rdReg, n)
  BY DEF Vpu, VpuStarves, VpuParsesHeader, VpuDecodes, Reads, Unread
<1>2. UNCHANGED <<core, wrReg, dec>>
  BY DEF Vpu, VpuStarves, VpuParsesHeader, VpuDecodes
<1>3. rdReg' \in Offsets
  BY <1>1, RingAssumption DEF RingInv, Offsets, Between, After
<1>4. ASSUME NEW i \in Instances PROVE RingKept(i)'
  <2> DEFINE r == dec[i].ring
  <2>1. RingKept(i) /\ Tells(r) /\ r.rd \in Offsets /\ r.wr \in Offsets /\ rdReg \in Offsets
    BY DEF RingInv, RingKept, Tells, RingShape
  <2>2. ASSUME pending = i, ~GaveUp(i) PROVE wrReg = r.wr /\ Inside(rdReg', r)
    <3>1. wrReg = r.wr /\ Between(r.rd, rdReg) + Between(rdReg, r.wr) = Between(r.rd, r.wr)
          /\ r.stored = Between(r.rd, r.wr)
      BY <2>1, <2>2 DEF RingKept, Inside, Tells
    <3> HIDE DEF r
    <3>2. Between(r.rd, rdReg') + Between(rdReg', r.wr) = Between(r.rd, r.wr)
      BY <1>1, <2>1, <3>1, ReadsOn
    <3>3. QED
      BY <1>3, <3>1, <3>2 DEF Inside
  <2>3. QED
    BY <1>2, <2>1, <2>2 DEF RingKept, GaveUp, core
<1>5. QED
  BY <1>2, <1>3, <1>4 DEF RingInv, core

LEMMA InitRing == Init => RingInv
<1>1. Tells(EmptyRing) /\ 0 \in Offsets
  BY RingAssumption DEF EmptyRing, Tells, RingShape, Offsets, Between
<1>2. NoDecoder.ring = EmptyRing
  BY DEF NoDecoder
<1>3. QED
  BY <1>1, <1>2, DecoderAssumption DEF Init, RingInv, RingKept

LEMMA NextRing == IInv /\ RingInv /\ [Next]_vars => RingInv'
<1> SUFFICES ASSUME IInv, RingInv, [Next]_vars PROVE RingInv'
  OBVIOUS
<1>1. CASE UNCHANGED vars
  BY <1>1 DEF vars, core, device, RingInv, RingKept, GaveUp
<1>2. CASE Vpu
  BY <1>2, VpuRing
<1>3. ASSUME NEW i \in Instances, Decoder(i) PROVE RingInv'
  BY <1>3, OpenRing, TakePacketRing, CompleteSeqInitRing, StartsRing, OutputRing,
     OtherStepsRing, EndingsRing DEF Decoder, Works
<1>4. QED
  BY <1>1, <1>2, <1>3 DEF Next

(* For any number of decoders, and also after a lock was taken away or a wait timed out:
   until a decoder gives up, what was written to its ring and not read by the VPU is as
   much as its pointers say, never more than fits, and while its command runs the VPU's
   pointers are inside it (VPU_DecUpdateBitstreamBuffer, VPU_DecGetBitstreamBuffer,
   VPU_DecStartOneFrame). *)
THEOREM UnreadStays == Spec => []UnreadIsKept
<1>1. RingInv => UnreadIsKept
  BY DEF RingInv, RingKept, Tells, Inside, UnreadIsKept
<1>2. Spec => []RingInv
  BY InitRing, NextRing, Invariance, PTL DEF Spec
<1>3. QED
  BY <1>1, <1>2, PTL

(***************************************************************************)
(* The inductive invariant of the pictures.  A decoder at work has no vsync *)
(* pending and an empty display queue (between fetching a picture and      *)
(* giving it back: that one picture), so that what is shown is what was    *)
(* cleared, is on its way or was hidden from it.  The VPU shows a picture  *)
(* only when it is idle again, and only the one it reports.                *)
(***************************************************************************)
\* The places of the decoding loop, where the property asks something.
WorkPlaces == {"rest", "issueSeq", "waitSeq", "completeSeq", "register", "start", "waitPic",
               "output", "sending"}

\* What is shown and not given back is what the decoder was not told of.
OwesHidden(d) == d.shown \ d.clears = d.hidden

\* What a decoder has yet to give back, by its place.
GivesAllBack(d) ==
  /\ d.pc \in WorkPlaces => ~d.vsync
  /\ d.pc \in WorkPlaces \ {"sending"} => d.queue = <<>>
  /\ d.pc = "sending" => \/ d.queue = <<>> /\ d.shown = d.hidden
                         \/ \E f : /\ d.queue = <<f>> /\ f \notin d.hidden
                                   /\ d.shown = d.hidden \cup {f}
  /\ d.pc \in {"issueSeq", "register", "start"} => OwesHidden(d)
  /\ d.pc = "rest" /\ d.reason # "bufEmpty" => OwesHidden(d)
  /\ d.pc = "rest" /\ d.reason = "bufEmpty" => d.clears = {}
  /\ d.pc \in {"waitSeq", "completeSeq", "waitPic", "output", "sending"} => d.clears = {}
  /\ d.pc \in WorkPlaces /\ ~d.inited => d.clears = {} /\ d.hidden = {}
  /\ d.pc \in {"issueSeq", "waitSeq"} => ~d.inited
  /\ d.pc \in {"output", "sending"} => d.inited /\ d.reason # "bufEmpty"

\* What the VPU shows while it works for decoder i.
ShowsOne(i) ==
  /\ ~dec[i].inited => vpu.cmd # "PIC_RUN" /\ irq # "picRun"
  /\ IF irq = "picRun" \/ dec[i].pc = "output"
     THEN /\ vpu = Idle
          /\ result.display \in Frames \cup {"none", "end"}
          /\ result.display \in Frames => result.display \notin dec[i].hidden
          /\ shownReg = dec[i].hidden \cup ({result.display} \cap Frames)
     ELSE shownReg = dec[i].hidden

PicInv == ~disturbed => \A i \in Instances : /\ GivesAllBack(dec[i])
                                             /\ pending = i => ShowsOne(i)

LEMMA PicStepKeeps ==
  ASSUME PicInv, ~disturbed, NEW i \in Instances, NEW e,
         dec'[i] = e, \A j \in Instances \ {i} : dec'[j] = dec[j],
         GivesAllBack(e), pending' = i => ShowsOne(i)',
         \A j \in Instances \ {i} : pending' = j =>
            /\ pending = j /\ vpu'.cmd = vpu.cmd /\ (vpu = Idle => vpu' = Idle)
            /\ UNCHANGED <<irq, shownReg, result>>
  PROVE  PicInv'
<1>1. ASSUME NEW j \in Instances \ {i} PROVE GivesAllBack(dec'[j]) /\ (pending' = j => ShowsOne(j)')
  BY <1>1 DEF PicInv, ShowsOne
<1>2. QED
  BY <1>1 DEF PicInv

\* A step that leaves record and device alone, of a decoder without a command.
LEMMA PicQuiet ==
  ASSUME PicInv, ~disturbed, NEW i \in Instances, NEW e, DecShape, dec' = [dec EXCEPT ![i] = e],
         GivesAllBack(e), pending # i, UNCHANGED <<pending, vpu, irq, shownReg, result>>
  PROVE  PicInv'
<1>1. dec'[i] = e /\ \A j \in Instances \ {i} : dec'[j] = dec[j]
  BY Replaced
<1>2. QED
  BY <1>1, PicStepKeeps

\* A step that gives the command back.
LEMMA PicReleased ==
  ASSUME PicInv, ~disturbed, NEW i \in Instances, NEW e, DecShape, dec' = [dec EXCEPT ![i] = e],
         GivesAllBack(e), Releases
  PROVE  PicInv'
<1>1. dec'[i] = e /\ \A j \in Instances \ {i} : dec'[j] = dec[j]
  BY Replaced
<1>2. \A j \in Instances : pending' # j
  BY DecoderAssumption DEF Releases
<1>3. QED
  BY <1>1, <1>2, PicStepKeeps

\* At the places after the work nothing is asked.
LEMMA EndedGivesAll ==
  ASSUME NEW e, e.pc \notin WorkPlaces
  PROVE  GivesAllBack(e)
BY DEF GivesAllBack, WorkPlaces

LEMMA PicNextGives ==
  ASSUME NEW d, IsDec(d), d.reason # "timeout", ~d.vsync, d.queue = <<>>,
         d.reason # "bufEmpty" => OwesHidden(d), d.reason = "bufEmpty" => d.clears = {},
         ~d.inited => d.clears = {} /\ d.hidden = {}
  PROVE  GivesAllBack(PicNext(d))
<1> DEFINE e == PicNext(d)
<1>1. SameStore(d, e) /\ e.pc = PicStep(d) /\ e.reason = d.reason
  BY PicNextStore, PicNextShape
<1> HIDE DEF e
<1>2. /\ e.pc \in {"start", "closing", "rest", "waitPic"}
      /\ e.pc = "start" => d.reason # "bufEmpty"
      /\ e.pc = "waitPic" => d.reason = "bufEmpty"
  BY <1>1 DEF PicStep, Leaves
<1>3. GivesAllBack(e)
  BY <1>1, <1>2 DEF GivesAllBack, OwesHidden, SameStore, WorkPlaces
<1>4. QED
  BY <1>3 DEF e

LEMMA OpenPic ==
  ASSUME IInv, PicInv, ~disturbed, NEW i \in Instances, Open(i)
  PROVE  PicInv'
<1>0. PICK vc1 \in BOOLEAN :
        dec' = [dec EXCEPT ![i] = [NoDecoder EXCEPT !.pc = "rest", !.hides = vc1]]
  BY DecoderAssumption DEF Open
<1> DEFINE e == [NoDecoder EXCEPT !.pc = "rest", !.hides = vc1]
<1>1. dec' = [dec EXCEPT ![i] = e] /\ DecShape
  BY <1>0 DEF IInv
<1>2. GivesAllBack(e)
  BY DEF NoDecoder, GivesAllBack, OwesHidden
<1> HIDE DEF e
<1>3. pending # i /\ UNCHANGED <<pending, vpu, irq, shownReg, result>>
  BY DEF Open, core, At, IInv, Orderly, Knows, FreePlaces
<1>4. QED
  BY <1>1, <1>2, <1>3, PicQuiet

LEMMA TakePacketPic ==
  ASSUME IInv, PicInv, ~disturbed, NEW i \in Instances, TakePacket(i)
  PROVE  PicInv'
<1>1. PICK packet \in Packets, negative \in BOOLEAN :
        LET w == Written(i, packet)
            d == [dec[i] EXCEPT !.ring = w.ring, !.fill = Filled(@ + w.size)]
        IN /\ At(i, "rest")
           /\ IF ~w.ok \/ negative
              THEN dec' = [dec EXCEPT ![i] = [d EXCEPT !.pc = "closing"]] /\ UNCHANGED irq
              ELSE IF d.inited
              THEN dec' = [dec EXCEPT ![i] = PicNext(d)] /\ WipesInterrupt(d)
              ELSE dec' = [dec EXCEPT ![i] = [d EXCEPT !.pc = SeqStep(d)]] /\ UNCHANGED irq
           /\ wrReg' = IF pending = i THEN w.ring.wr ELSE wrReg
           /\ vpu' = [vpu EXCEPT !.starved = @ /\ ~(vpu.inst = i /\ pending = i /\ w.size > 0)]
           /\ UNCHANGED <<core, endBit, rdReg, shownReg, result, disturbed>>
  BY DEF TakePacket
<1> DEFINE w == Written(i, packet)
           fed == vpu.inst = i /\ pending = i /\ w.size > 0
           old == dec[i]
           d == [old EXCEPT !.ring = w.ring, !.fill = Filled(old.fill + w.size)]
<1>2. /\ IsDec(old) /\ old.pc = "rest" /\ old.reason # "timeout" /\ ~old.vsync /\ old.queue = <<>>
      /\ old.reason # "bufEmpty" => OwesHidden(old)
      /\ old.reason = "bufEmpty" => old.clears = {}
      /\ ~old.inited => old.clears = {} /\ old.hidden = {}
  BY <1>1 DEF At, IInv, DecShape, Orderly, Knows, PicInv, GivesAllBack, WorkPlaces
<1>3. /\ IsDec(d) /\ d.reason = old.reason /\ ~d.vsync /\ d.queue = <<>>
      /\ d.shown = old.shown /\ d.clears = old.clears /\ d.inited = old.inited
      /\ d.hidden = old.hidden
  <2> DEFINE n == Filled(old.fill + w.size)
             r == w.ring
  <2>1. d = [old EXCEPT !.ring = r, !.fill = n] /\ IsDec(old)
    BY <1>2
  <2> HIDE DEF d, n, r, old
  <2>2. QED
    BY <1>2, <2>1, FillingShape DEF IsDec, Fields
<1>4. \/ dec' = [dec EXCEPT ![i] = [d EXCEPT !.pc = "closing"]] /\ irq' = irq
      \/ dec' = [dec EXCEPT ![i] = PicNext(d)] /\ WipesInterrupt(d)
      \/ ~d.inited /\ dec' = [dec EXCEPT ![i] = [d EXCEPT !.pc = SeqStep(d)]] /\ irq' = irq
  BY <1>1
<1>5. /\ irq' = irq /\ UNCHANGED <<pending, shownReg, result>>
      /\ vpu' = [vpu EXCEPT !.starved = @ /\ ~fed] /\ fed \in BOOLEAN
  <2>1. irq' = irq
    <3> HIDE DEF d
    <3>1. QED
      BY <1>2, <1>3, <1>4 DEF WipesInterrupt
  <2>2. QED
    BY <1>1, <2>1 DEF core
<1> HIDE DEF d, w, fed
<1>6. PICK e : /\ dec' = [dec EXCEPT ![i] = e] /\ GivesAllBack(e) /\ e.inited = old.inited
               /\ e.hidden = old.hidden /\ e.pc # "output"
  <2>1. CASE dec' = [dec EXCEPT ![i] = [d EXCEPT !.pc = "closing"]]
    <3> DEFINE e == [d EXCEPT !.pc = "closing"]
    <3>1. e.pc = "closing" /\ e.inited = old.inited /\ e.hidden = old.hidden
      BY <1>3 DEF IsDec, Fields
    <3> HIDE DEF e
    <3>2. GivesAllBack(e)
      BY <3>1, EndedGivesAll DEF WorkPlaces
    <3>3. QED
      BY <2>1, <3>1, <3>2 DEF e
  <2>2. CASE dec' = [dec EXCEPT ![i] = PicNext(d)]
    <3>1. GivesAllBack(PicNext(d)) /\ PicNext(d).inited = old.inited /\ PicNext(d).hidden = old.hidden
      BY <1>2, <1>3, PicNextGives, PicNextStore DEF SameStore, OwesHidden
    <3>2. PicNext(d).pc # "output"
      BY <1>3, PicNextShape DEF PicStep, Leaves
    <3>3. QED
      BY <2>2, <3>1, <3>2
  <2>3. CASE ~d.inited /\ dec' = [dec EXCEPT ![i] = [d EXCEPT !.pc = SeqStep(d)]]
    <3> DEFINE p == SeqStep(d)
               e == [d EXCEPT !.pc = p]
    <3>1. p \in {"issueSeq", "rest", "waitSeq"} /\ (p = "issueSeq" => d.reason # "bufEmpty")
      BY DEF SeqStep
    <3>2. dec' = [dec EXCEPT ![i] = e]
      BY <2>3
    <3> HIDE DEF p
    <3>3. e.pc = p /\ SameStore(d, e) /\ e.reason = d.reason
      BY <1>3 DEF IsDec, Fields, SameStore
    <3> HIDE DEF e
    <3>4. GivesAllBack(e)
      BY <1>2, <1>3, <2>3, <3>1, <3>3 DEF GivesAllBack, SameStore, OwesHidden
    <3>5. QED
      BY <1>3, <3>1, <3>2, <3>3, <3>4 DEF SameStore
  <2>4. QED
    BY <1>4, <2>1, <2>2, <2>3
<1>7. vpu'.cmd = vpu.cmd /\ (vpu = Idle => vpu' = Idle)
  <2>1. CASE vpu = Idle
    <3>1. vpu' = Idle
      BY <1>5, <2>1, Zenon DEF Idle
    <3>2. QED
      BY <2>1, <3>1
  <2>2. CASE vpu # Idle
    <3>1. vpu \in [cmd : {"SEQ_INIT", "PIC_RUN"}, inst : Instances, starved : BOOLEAN]
      BY <2>2 DEF IInv, VpuShape
    <3>2. QED
      BY <1>5, <2>2, <3>1
  <2>3. QED
    BY <2>1, <2>2
<1>8. dec'[i] = e /\ \A j \in Instances \ {i} : dec'[j] = dec[j]
  BY <1>6, Replaced DEF IInv
<1>9. pending' = i => ShowsOne(i)'
  BY <1>2, <1>5, <1>6, <1>7, <1>8 DEF PicInv, ShowsOne
<1>10. QED
  BY <1>5, <1>6, <1>7, <1>8, <1>9, PicStepKeeps

LEMMA TakeMarkPic ==
  ASSUME IInv, PicInv, ~disturbed, NEW i \in Instances, TakeEof(i) \/ TakeFlush(i)
  PROVE  PicInv'
<1> DEFINE d == dec[i]
<1>1. /\ IsDec(d) /\ d.pc = "rest" /\ d.reason # "timeout" /\ ~d.vsync /\ d.queue = <<>>
      /\ d.reason # "bufEmpty" => OwesHidden(d)
      /\ d.reason = "bufEmpty" => d.clears = {}
      /\ ~d.inited => d.clears = {} /\ d.hidden = {}
  BY DEF TakeEof, TakeFlush, At, IInv, DecShape, Orderly, Knows, PicInv, GivesAllBack, WorkPlaces
<1>2. UNCHANGED <<pending, vpu, irq, shownReg, result>>
  <2> DEFINE q == [d EXCEPT !.fill = 2 * Gbu, !.end = TRUE, !.last = TRUE]
  <2>1. q.reason = d.reason
    BY <1>1 DEF IsDec, Fields
  <2>2. TakeEof(i) => irq' = irq
    BY <1>1, <2>1 DEF TakeEof, WipesInterrupt
  <2>3. QED
    BY <2>2 DEF TakeEof, TakeFlush, core, device
<1>3. PICK e : /\ dec' = [dec EXCEPT ![i] = e] /\ GivesAllBack(e) /\ e.inited = d.inited
               /\ e.hidden = d.hidden /\ e.pc # "output"
  <2>1. CASE TakeEof(i)
    <3> DEFINE q == [d EXCEPT !.fill = 2 * Gbu, !.end = TRUE, !.last = TRUE]
    <3>1. dec' = [dec EXCEPT ![i] = PicNext(q)]
      BY <2>1 DEF TakeEof
    <3>2. /\ IsDec(q) /\ q.reason = d.reason /\ ~q.vsync /\ q.queue = <<>>
          /\ q.shown = d.shown /\ q.clears = d.clears /\ q.inited = d.inited
          /\ q.hidden = d.hidden
      BY <1>1 DEF IsDec, Fields
    <3> HIDE DEF q, d
    <3>3. GivesAllBack(PicNext(q)) /\ PicNext(q).inited = d.inited /\ PicNext(q).hidden = d.hidden
      BY <1>1, <3>2, PicNextGives, PicNextStore DEF SameStore, OwesHidden
    <3>4. PicNext(q).pc # "output"
      BY <3>2, PicNextShape DEF PicStep, Leaves
    <3>5. QED
      BY <3>1, <3>3, <3>4
  <2>2. CASE TakeFlush(i)
    <3> DEFINE c == d.clears \cup ToSet(d.queue)
               q == [d EXCEPT !.clears = c, !.queue = <<>>]
    <3>1. dec' = [dec EXCEPT ![i] = q]
      BY <2>2 DEF TakeFlush
    <3>2. c = d.clears
      BY <1>1 DEF ToSet
    <3> HIDE DEF c
    <3>3. /\ q.pc = "rest" /\ q.reason = d.reason /\ ~q.vsync /\ q.queue = <<>>
          /\ q.shown = d.shown /\ q.clears = c /\ q.inited = d.inited
          /\ q.hidden = d.hidden
      BY <1>1 DEF IsDec, Fields
    <3> HIDE DEF q, d
    <3>4. GivesAllBack(q)
      BY <1>1, <3>2, <3>3 DEF GivesAllBack, OwesHidden
    <3>5. QED
      BY <3>1, <3>3, <3>4
  <2>3. QED
    BY <2>1, <2>2
<1>4. dec'[i] = e /\ \A j \in Instances \ {i} : dec'[j] = dec[j]
  BY <1>3, Replaced DEF IInv
<1>5. pending' = i => ShowsOne(i)'
  BY <1>1, <1>2, <1>3, <1>4 DEF PicInv, ShowsOne
<1>6. QED
  BY <1>2, <1>3, <1>4, <1>5, PicStepKeeps

\* The next place of a decoder that keeps what it has.
LEMMA PlacedPic ==
  ASSUME NEW d, IsDec(d), NEW p
  PROVE  SameStore(d, [d EXCEPT !.pc = p]) /\ [d EXCEPT !.pc = p].pc = p
         /\ [d EXCEPT !.pc = p].reason = d.reason
BY DEF IsDec, Fields, SameStore

LEMMA EndsPic ==
  ASSUME IInv, PicInv, ~disturbed, NEW i \in Instances, NEW p, p \notin WorkPlaces, Goes(i, p),
         pending # i, UNCHANGED <<pending, vpu, irq, shownReg, result>>
  PROVE  PicInv'
<1> DEFINE e == [dec[i] EXCEPT !.pc = p]
<1>1. dec' = [dec EXCEPT ![i] = e] /\ e.pc = p
  BY PlacedPic DEF Goes, IInv, DecShape
<1> HIDE DEF e
<1>2. QED
  BY <1>1, EndedGivesAll, PicQuiet DEF IInv

LEMMA StartsPic ==
  ASSUME IInv, PicInv, ~disturbed, NEW i \in Instances, IssueSeqInit(i) \/ StartOneFrame(i)
  PROVE  PicInv'
<1> DEFINE d == dec[i]
<1>1. /\ IsDec(d) /\ pending # i /\ d.pc \in {"issueSeq", "start"} /\ ~d.vsync /\ d.queue = <<>>
      /\ OwesHidden(d) /\ (d.pc = "issueSeq" => ~d.inited)
      /\ ~d.inited => d.clears = {} /\ d.hidden = {}
      /\ pending = None => irq = "none"
  BY DEF IssueSeqInit, StartOneFrame, At, IInv, DecShape, Orderly, InterruptOwned, Knows,
         FreePlaces, PicInv, GivesAllBack, WorkPlaces
<1>2. CASE /\ GivesUp(i) \/ Goes(i, "closing")
           /\ UNCHANGED <<core, device>>
  BY <1>1, <1>2, EndsPic DEF GivesUp, WorkPlaces, core, device
<1>3. CASE pending = None /\ \E cmd : Issues(i, cmd)
  <2>1. PICK e : /\ dec' = [dec EXCEPT ![i] = e]
                 /\ e.pc \in {"waitSeq", "waitPic"} /\ ~e.vsync /\ e.queue = <<>>
                 /\ e.pc = "waitSeq" => ~e.inited
                 /\ e.inited = d.inited /\ e.hidden = d.hidden /\ e.clears = {}
                 /\ ~e.inited => e.hidden = {}
    <3>1. CASE IssueSeqInit(i)
      <4> DEFINE e == [d EXCEPT !.pc = "waitSeq"]
      <4>1. Goes(i, "waitSeq") /\ d.pc = "issueSeq"
        BY <1>3, <3>1, DecoderAssumption DEF IssueSeqInit, Issues, At, core
      <4>2. dec' = [dec EXCEPT ![i] = e]
        BY <4>1 DEF Goes
      <4>3. SameStore(d, e) /\ e.pc = "waitSeq"
        BY <1>1, PlacedPic
      <4> HIDE DEF e, d
      <4>4. QED
        BY <1>1, <4>1, <4>2, <4>3 DEF SameStore
    <3>2. CASE StartOneFrame(i)
      <4> DEFINE e == [d EXCEPT !.pc = "waitPic", !.clears = {}]
      <4>1. dec' = [dec EXCEPT ![i] = e]
        BY <1>3, <3>2, DecoderAssumption DEF StartOneFrame, Issues, core
      <4>2. e.pc = "waitPic" /\ e.vsync = d.vsync /\ e.queue = d.queue /\ e.inited = d.inited
            /\ e.hidden = d.hidden /\ e.clears = {}
        BY <1>1 DEF IsDec, Fields
      <4> HIDE DEF e, d
      <4>3. QED
        BY <1>1, <4>1, <4>2
    <3>3. QED
      BY <3>1, <3>2
  <2>2. shownReg' = d.hidden /\ irq' = irq /\ pending' = i
        /\ (vpu'.cmd = "PIC_RUN" => dec[i].inited)
    <3>1. CASE IssueSeqInit(i)
      <4>1. d.hidden = {}
        BY <1>1, <3>1 DEF IssueSeqInit, At
      <4>2. QED
        BY <1>1, <1>3, <3>1, <4>1, DecoderAssumption DEF IssueSeqInit, Issues, core
    <3>2. CASE StartOneFrame(i)
      <4>1. d.shown \ d.clears = d.hidden
        BY <1>1 DEF OwesHidden
      <4>2. QED
        BY <1>3, <3>2, <4>1, DecoderAssumption DEF StartOneFrame, Issues, core
    <3>3. QED
      BY <3>1, <3>2
  <2>3. GivesAllBack(e)
    BY <2>1 DEF GivesAllBack, WorkPlaces
  <2>4. dec'[i] = e /\ \A j \in Instances \ {i} : dec'[j] = dec[j]
    BY <2>1, Replaced DEF IInv
  <2>5. ShowsOne(i)'
    BY <1>1, <1>3, <2>1, <2>2, <2>4 DEF ShowsOne
  <2>6. QED
    BY <2>2, <2>3, <2>4, <2>5, PicStepKeeps
<1>4. QED
  BY <1>2, <1>3 DEF IssueSeqInit, StartOneFrame

LEMMA WaitsPic ==
  ASSUME IInv, PicInv, ~disturbed, NEW i \in Instances, WaitSeqInit(i) \/ WaitPicture(i)
  PROVE  PicInv'
<1> DEFINE d == dec[i]
           f == IF irq = "bufEmpty" THEN 0 ELSE d.fill
           p == IF WaitSeqInit(i)
                THEN CASE irq = "bufEmpty" -> "rest" [] irq = "seqInit" -> "completeSeq"
                       [] OTHER -> d.pc
                ELSE CASE irq = "bufEmpty" -> Leaves(d) [] irq = "picRun" -> "output"
                       [] OTHER -> d.pc
           e == [d EXCEPT !.reason = irq, !.fill = f, !.pc = p]
<1>1. /\ IsDec(d) /\ pending = i /\ d.pc \in {"waitSeq", "waitPic"} /\ ~d.vsync /\ d.queue = <<>>
      /\ d.pc = "waitSeq" => ~d.inited
      /\ d.clears = {} /\ (~d.inited => d.hidden = {})
      /\ irq \in {"bufEmpty", "seqInit", "picRun"} /\ ShowsOne(i)
  BY DEF WaitSeqInit, WaitPicture, At, IInv, DecShape, VpuShape, Interrupts, Orderly, Knows,
         CommandPlaces, PicInv, GivesAllBack, WorkPlaces
<1>2. (WaitSeqInit(i) => d.pc = "waitSeq") /\ (~WaitSeqInit(i) => d.pc = "waitPic")
  BY DEF WaitSeqInit, WaitPicture, At
<1>3. /\ irq' = "none" /\ UNCHANGED <<pending, vpu, shownReg, result>>
  BY DEF WaitSeqInit, WaitPicture, KeepsCommand, core
<1>4. dec' = [dec EXCEPT ![i] = e]
  BY DEF WaitSeqInit, WaitPicture
<1>5. /\ p \in {"rest", "closing", "waitSeq", "waitPic", "completeSeq", "output"}
      /\ p = "rest" => irq = "bufEmpty"
      /\ p = "waitSeq" => ~d.inited
      /\ irq = "picRun" <=> p = "output"
      /\ p = "output" => d.inited
  <2>1. CASE WaitSeqInit(i)
    <3>1. d.pc = "waitSeq" /\ irq # "picRun"
      BY <1>1, <1>2, <2>1 DEF ShowsOne
    <3>2. QED
      BY <1>1, <2>1, <3>1
  <2>2. CASE ~WaitSeqInit(i)
    <3>1. Leaves(d) \in {"rest", "closing"} /\ d.pc = "waitPic" /\ (irq = "picRun" => d.inited)
      BY <1>1, <1>2, <2>2 DEF Leaves, ShowsOne
    <3>2. QED
      BY <1>1, <2>2, <3>1
  <2>3. QED
    BY <2>1, <2>2
<1> HIDE DEF p, f
<1>6. /\ e.pc = p /\ e.reason = irq /\ ~e.vsync /\ e.queue = <<>> /\ e.inited = d.inited
      /\ e.clears = d.clears /\ e.hidden = d.hidden
  BY <1>1 DEF IsDec, Fields
<1> HIDE DEF e
<1>7. GivesAllBack(e)
  BY <1>1, <1>5, <1>6 DEF GivesAllBack, WorkPlaces
<1>8. dec'[i] = e /\ \A j \in Instances \ {i} : dec'[j] = dec[j]
  BY <1>4, Replaced DEF IInv
<1>9. ShowsOne(i)'
  BY <1>1, <1>3, <1>5, <1>6, <1>8 DEF ShowsOne
<1>10. QED
  BY <1>1, <1>3, <1>7, <1>8, <1>9, PicStepKeeps

LEMMA HeaderPic ==
  ASSUME IInv, PicInv, ~disturbed, ~disturbed', NEW i \in Instances, CompleteSeqInit(i)
  PROVE  PicInv'
<1> DEFINE d == dec[i]
<1>1. /\ IsDec(d) /\ pending = i /\ d.pc = "completeSeq" /\ ~d.vsync /\ d.queue = <<>>
      /\ shownReg = d.hidden /\ d.clears = {} /\ (~d.inited => d.hidden = {})
  BY DEF CompleteSeqInit, At, IInv, DecShape, Orderly, Knows, CommandPlaces, AnsweredPlaces,
         PicInv, GivesAllBack, WorkPlaces, ShowsOne
<1> DEFINE r == ReadUpTo(d.ring, rdReg)
           p == IF result.ok = "ok" THEN "register" ELSE "release"
           e == [[d EXCEPT !.ring = r, !.shown = shownReg, !.end = endBit] EXCEPT !.pc = p]
<1>2. Releases /\ dec' = [dec EXCEPT ![i] = e]
  BY <1>1 DEF CompleteSeqInit, Synced
<1>3. p \in {"register", "release"}
  OBVIOUS
<1> HIDE DEF p, r
<1>4. /\ e.pc = p /\ e.shown = shownReg /\ ~e.vsync /\ e.queue = <<>>
      /\ e.hidden = d.hidden /\ e.clears = d.clears /\ e.inited = d.inited
  BY <1>1 DEF IsDec, Fields
<1> HIDE DEF e
<1>5. GivesAllBack(e)
  BY <1>1, <1>3, <1>4 DEF GivesAllBack, OwesHidden
<1>6. QED
  BY <1>2, <1>5, PicReleased DEF IInv

LEMMA RegisterPic ==
  ASSUME IInv, PicInv, ~disturbed, NEW i \in Instances, RegisterFrameBuffer(i)
  PROVE  PicInv'
<1> DEFINE d == dec[i]
           q == [d EXCEPT !.inited = TRUE]
<1>1. /\ IsDec(d) /\ pending # i /\ d.reason \notin {"bufEmpty", "timeout"}
      /\ ~d.vsync /\ d.queue = <<>> /\ OwesHidden(d)
      /\ UNCHANGED <<pending, vpu, irq, shownReg, result>>
  BY DEF RegisterFrameBuffer, At, IInv, DecShape, Orderly, Knows, FreePlaces, OnTheWay, PicInv,
         GivesAllBack, WorkPlaces, core, device
<1>2. CASE Goes(i, "release")
  BY <1>1, <1>2, EndsPic DEF WorkPlaces
<1>3. CASE dec' = [dec EXCEPT ![i] = PicNext(q)]
  <2>1. /\ IsDec(q) /\ q.reason = d.reason /\ ~q.vsync /\ q.queue = <<>>
        /\ q.shown = d.shown /\ q.clears = d.clears /\ q.hidden = d.hidden /\ q.inited
    BY <1>1 DEF IsDec, Fields
  <2> HIDE DEF q
  <2>2. GivesAllBack(PicNext(q))
    BY <1>1, <2>1, PicNextGives DEF OwesHidden
  <2>3. QED
    BY <1>1, <1>3, <2>2, PicQuiet DEF IInv
<1>4. QED
  BY <1>2, <1>3 DEF RegisterFrameBuffer, GivesUp

LEMMA OutputPic ==
  ASSUME IInv, PicInv, ~disturbed, NEW i \in Instances, GetOutputInfo(i)
  PROVE  PicInv'
<1> DEFINE old == dec[i]
           f == result.display
<1>1. /\ IsDec(old) /\ ~old.vsync /\ old.queue = <<>> /\ old.clears = {} /\ old.inited
      /\ old.reason # "bufEmpty"
      /\ f \in Frames \cup {"none", "end"} /\ (f \in Frames => f \notin old.hidden)
      /\ shownReg = old.hidden \cup ({f} \cap Frames)
  <2>1. /\ IsDec(old) /\ ~old.vsync /\ old.queue = <<>> /\ old.clears = {}
        /\ old.pc = "output" /\ pending = i /\ ShowsOne(i)
    BY DEF GetOutputInfo, At, IInv, DecShape, Orderly, Knows, CommandPlaces, AnsweredPlaces,
           PicInv, GivesAllBack, WorkPlaces
  <2>2. old.inited /\ old.reason # "bufEmpty"
    BY DEF GetOutputInfo, At, PicInv, GivesAllBack
  <2>3. QED
    BY <2>1, <2>2 DEF ShowsOne
<1>2. /\ Releases
      /\ \/ dec' = [dec EXCEPT ![i] = [old EXCEPT !.pc = "closing"]]
         \/ \E h \in BOOLEAN :
              \/ (h \/ f = "none") /\ dec' = [dec EXCEPT ![i] = WithoutPicture(Told(old, h))]
              \/ ~h /\ f # "none" /\ dec' = [dec EXCEPT ![i] = WithPicture(Told(old, h), f)]
  <2>1. ASSUME NEW b \in BOOLEAN PROVE (old.hides /\ b) \in BOOLEAN
    OBVIOUS
  <2>2. QED
    BY <2>1 DEF GetOutputInfo, Goes
<1> HIDE DEF f
<1>3. ASSUME NEW h
      PROVE  LET d == Told(old, h)
             IN /\ IsDec(d) /\ ~d.vsync /\ d.queue = <<>> /\ d.clears = {} /\ d.inited
                /\ d.reason # "bufEmpty"
                /\ d.shown = old.hidden \cup ({f} \cap Frames)
                /\ d.hidden = IF h THEN d.shown ELSE old.hidden
  <2> DEFINE d == Told(old, h)
  <2>1. /\ IsDec(d) /\ d.vsync = old.vsync /\ d.queue = old.queue /\ d.clears = old.clears
        /\ d.inited = old.inited /\ d.shown = shownReg /\ d.reason = old.reason
        /\ d.hidden = IF h THEN old.hidden \cup ({result.display} \cap Frames) ELSE old.hidden
    <3>1. IsDec(old)
      BY <1>1
    <3> HIDE DEF old
    <3>2. QED
      BY ONLY <3>1, ToldShape DEF d
  <2>2. d.hidden = IF h THEN old.hidden \cup ({f} \cap Frames) ELSE old.hidden
    BY <2>1 DEF f
  <2> HIDE DEF d
  <2>3. QED
    BY <1>1, <2>1, <2>2 DEF d
<1>4. CASE dec' = [dec EXCEPT ![i] = [old EXCEPT !.pc = "closing"]]
  <2> DEFINE e == [old EXCEPT !.pc = "closing"]
  <2>1. e.pc = "closing"
    BY <1>1, PlacedPic
  <2> HIDE DEF e
  <2>2. GivesAllBack(e)
    BY <2>1, EndedGivesAll DEF WorkPlaces
  <2>3. QED
    BY <1>2, <1>4, <2>2, PicReleased DEF IInv, e
<1>5. ASSUME NEW h, h \/ f = "none", dec' = [dec EXCEPT ![i] = WithoutPicture(Told(old, h))]
      PROVE  PicInv'
  <2> DEFINE d == Told(old, h)
             e == WithoutPicture(d)
  <2>1. SameStore(d, e) /\ e.pc = Leaves(d)
    BY <1>3, WithoutPictureStore, WithoutPictureShape
  <2>2. d.shown = d.hidden
    BY <1>3, <1>5, DecoderAssumption
  <2>3. ~d.vsync /\ d.queue = <<>> /\ d.clears = {} /\ d.inited
    BY <1>3
  <2> HIDE DEF d, e
  <2>4. GivesAllBack(e)
    BY <2>1, <2>2, <2>3 DEF GivesAllBack, OwesHidden, SameStore, Leaves
  <2>5. QED
    BY <1>2, <1>5, <2>4, PicReleased DEF IInv, d, e
<1>6. ASSUME NEW h, ~h, f # "none", dec' = [dec EXCEPT ![i] = WithPicture(Told(old, h), f)]
      PROVE  PicInv'
  <2> DEFINE d == Told(old, h)
             e == WithPicture(d, f)
  <2>1. /\ IsDec(d) /\ ~d.vsync /\ d.queue = <<>> /\ d.clears = {} /\ d.inited
        /\ d.reason # "bufEmpty" /\ d.hidden = old.hidden /\ d.shown = old.hidden \cup ({f} \cap Frames)
    BY <1>3, <1>6
  <2> HIDE DEF d
  <2>2. GivesAllBack(e)
    <3>1. CASE d.last
      BY <2>1, <3>1, WithPictureStore, EndedGivesAll DEF WorkPlaces
    <3>2. CASE ~d.last /\ f = "end"
      <4>1. SameStore(d, e) /\ e.pc = "sending" /\ e.reason = d.reason
        BY <2>1, <3>2, WithPictureStore, WithPictureShape
      <4>2. d.shown = d.hidden
        BY <2>1, <3>2, DecoderAssumption
      <4> HIDE DEF e
      <4>3. QED
        BY <2>1, <4>1, <4>2 DEF GivesAllBack, SameStore
    <3>3. CASE ~d.last /\ f # "end"
      <4>1. /\ e.pc = "sending" /\ e.shown = d.shown /\ e.vsync = d.vsync /\ e.clears = d.clears
            /\ e.queue = Append(d.queue, f) /\ e.inited = d.inited /\ e.hidden = d.hidden
            /\ e.reason = d.reason
        BY <2>1, <3>3, WithPictureStore, WithPictureShape
      <4>2. Append(d.queue, f) = <<f>>
        BY <2>1
      <4>3. f \in Frames /\ f \notin d.hidden
        BY <1>1, <1>6, <2>1, <3>3
      <4> HIDE DEF e
      <4>4. e.shown = e.hidden \cup {f}
        BY <2>1, <4>1, <4>3
      <4>5. QED
        BY <2>1, <4>1, <4>2, <4>3, <4>4 DEF GivesAllBack
    <3>4. QED
      BY <3>1, <3>2, <3>3
  <2> HIDE DEF e
  <2>3. QED
    BY <1>2, <1>6, <2>2, PicReleased DEF IInv, d, e
<1>7. QED
  BY <1>2, <1>4, <1>5, <1>6

LEMMA SendFramePic ==
  ASSUME IInv, PicInv, ~disturbed, NEW i \in Instances, SendFrame(i)
  PROVE  PicInv'
<1> DEFINE d == dec[i]
           q == Sent(d)
           e == GivesBack(q)
<1>1. /\ IsDec(d) /\ d.pc = "sending" /\ pending # i
      /\ d.clears = {} /\ d.inited /\ d.reason # "bufEmpty"
      /\ \/ d.queue = <<>> /\ d.shown = d.hidden
         \/ \E f : d.queue = <<f>> /\ f \notin d.hidden /\ d.shown = d.hidden \cup {f}
      /\ UNCHANGED <<pending, vpu, irq, shownReg, result>>
      /\ dec' = [dec EXCEPT ![i] = e]
  BY DEF SendFrame, At, IInv, DecShape, Orderly, Knows, FreePlaces, PicInv, GivesAllBack, WorkPlaces,
         core, device
<1> HIDE DEF d
<1>2. /\ IsDec(q) /\ q.pc = Leaves(d) /\ q.vsync
      /\ q.shown = d.shown /\ q.clears = d.clears /\ q.queue = d.queue
      /\ q.hidden = d.hidden /\ q.inited = d.inited /\ q.reason = d.reason
  BY <1>1, SentShape, SentStore
<1> HIDE DEF q
<1>3. /\ e.pc \in {"rest", "closing"} /\ e.vsync = FALSE
      /\ e.queue = <<>> /\ OwesHidden(e) /\ e.inited /\ e.reason # "bufEmpty"
  <2>1. /\ e.pc = Leaves(d) /\ e.vsync = FALSE /\ e.shown = d.shown
        /\ e.hidden = d.hidden /\ e.inited = d.inited /\ e.reason = d.reason
    BY <1>2, GivesBackShape, GivesBackStore
  <2>2. CASE d.queue = <<>> /\ d.shown = d.hidden
    <3>1. IsDec(q) /\ q.queue = <<>>
      BY <1>2, <2>2
    <3>2. e.queue = <<>> /\ e.clears = q.clears
      BY ONLY <3>1, GivesBackStore
    <3>3. e.clears = {}
      BY <1>1, <1>2, <3>2
    <3>4. OwesHidden(e)
      BY <2>1, <2>2, <3>3 DEF OwesHidden
    <3>5. QED
      BY <1>1, <2>1, <3>2, <3>4 DEF Leaves
  <2>3. ASSUME NEW f, d.queue = <<f>>, f \notin d.hidden, d.shown = d.hidden \cup {f}
        PROVE  e.queue = <<>> /\ OwesHidden(e)
    <3>1. IsDec(q) /\ q.queue = <<f>> /\ q.vsync
      BY <1>2, <2>3
    <3>2. \A g : q.queue = <<g>> /\ q.vsync =>
            GivesBack(q).queue = <<>> /\ GivesBack(q).clears = q.clears \cup {g}
      BY ONLY <3>1, GivesBackStore
    <3>3. e.queue = <<>> /\ e.clears = q.clears \cup {f}
      BY ONLY <3>1, <3>2
    <3>4. QED
      BY <1>1, <1>2, <2>1, <2>3, <3>3 DEF OwesHidden
  <2>4. QED
    BY <1>1, <2>1, <2>2, <2>3 DEF Leaves
<1> HIDE DEF e
<1>4. GivesAllBack(e)
  BY <1>3 DEF GivesAllBack
<1>5. QED
  BY <1>1, <1>4, PicQuiet DEF IInv

LEMMA EndingsPic ==
  ASSUME IInv, PicInv, ~disturbed, ~disturbed', NEW i \in Instances,
         LeaveLoop(i) \/ SpinEnds(i) \/ Close(i) \/ DeInit(i)
  PROVE  PicInv'
<1> DEFINE d == dec[i]
<1>1. /\ IsDec(d) /\ pending # i /\ UNCHANGED <<pending, vpu, irq, shownReg, result>>
  BY DEF LeaveLoop, SpinEnds, Close, DeInit, At, IInv, DecShape, Orderly, Knows, FreePlaces, core, device
<1>2. CASE LeaveLoop(i) /\ dec' = [dec EXCEPT ![i].end = TRUE, ![i].pc = "spin"]
  <2> DEFINE e == [d EXCEPT !.end = TRUE, !.pc = "spin"]
  <2>1. e.pc = "spin" /\ dec' = [dec EXCEPT ![i] = e]
    BY <1>1, <1>2 DEF IsDec, Fields
  <2> HIDE DEF e
  <2>2. GivesAllBack(e)
    BY <2>1, EndedGivesAll DEF WorkPlaces
  <2>3. QED
    BY <1>1, <2>1, <2>2, PicQuiet DEF IInv
<1>3. CASE Close(i)
  <2> DEFINE e == [NoDecoder EXCEPT !.pc = "freed"]
  <2>1. e.pc = "freed" /\ dec' = [dec EXCEPT ![i] = e]
    BY <1>3 DEF Close, NoDecoder
  <2> HIDE DEF e
  <2>2. GivesAllBack(e)
    BY <2>1, EndedGivesAll DEF WorkPlaces
  <2>3. QED
    BY <1>1, <2>1, <2>2, PicQuiet DEF IInv
<1>4. CASE \E p \in {"close", "closed", "lost"} : Goes(i, p)
  BY <1>1, <1>4, EndsPic DEF WorkPlaces
<1>5. LeaveLoop(i) \/ SpinEnds(i) =>
        Goes(i, "close") \/ (LeaveLoop(i) /\ dec' = [dec EXCEPT ![i].end = TRUE, ![i].pc = "spin"])
  BY DEF LeaveLoop, SpinEnds
<1>6. DeInit(i) => \E p \in {"close", "closed", "lost"} : Goes(i, p)
  BY DEF DeInit, Goes
<1>7. QED
  BY <1>2, <1>3, <1>4, <1>5, <1>6

LEMMA ForcedDisturbs ==
  ASSUME IInv, ~disturbed, NEW i \in Instances, ForceLock(i)
  PROVE  disturbed'
<1>1. pending # i
  BY DEF IInv, Orderly, Knows, ForceLock, WantsLock, At, FreePlaces
<1>2. QED
  BY <1>1 DEF IInv, Orderly, LockAndCommand, ForceLock

LEMMA VpuPic ==
  ASSUME IInv, PicInv, ~disturbed, Vpu
  PROVE  PicInv'
<1>1. /\ vpu # Idle /\ irq = "none" /\ UNCHANGED <<core, dec>>
      /\ pending # None /\ vpu.inst = pending
  <2>1. vpu # Idle /\ irq = "none" /\ UNCHANGED <<core, dec>>
    BY DEF Vpu, VpuStarves, VpuParsesHeader, VpuDecodes, MayFinish, Idle
  <2>2. vpu.inst \in Instances
    BY <2>1 DEF IInv, VpuShape
  <2>3. QED
    BY <2>1, <2>2, DecoderAssumption DEF IInv, Orderly, LockAndCommand
<1>2. ASSUME NEW j \in Instances, pending = j PROVE ShowsOne(j)'
  <2>1. /\ shownReg = dec[j].hidden /\ dec[j].pc # "output"
        /\ ~dec[j].inited => vpu.cmd # "PIC_RUN"
    BY <1>1, <1>2 DEF PicInv, ShowsOne
  <2>2. CASE VpuStarves
    <3>1. vpu'.cmd = vpu.cmd
      BY <1>1, <2>2 DEF VpuStarves, IInv, VpuShape
    <3>2. QED
      BY <1>1, <2>1, <2>2, <3>1 DEF VpuStarves, ShowsOne
  <2>3. CASE VpuParsesHeader
    BY <2>1, <2>3 DEF VpuParsesHeader, ShowsOne, Idle
  <2>4. CASE VpuDecodes
    <3>1. PICK display, ok, decoded :
             /\ result' = [ok |-> ok, decoded |-> decoded, display |-> display]
             /\ shownReg' = shownReg \cup ({display} \cap Frames)
             /\ display \in Frames \cup {"none", "end"}
             /\ display \in Frames => display \notin shownReg
      BY <2>4, DecoderAssumption DEF VpuDecodes
    <3>2. /\ result'.display \in Frames \cup {"none", "end"}
          /\ result'.display \in Frames => result'.display \notin dec[j].hidden
          /\ shownReg' = dec[j].hidden \cup ({result'.display} \cap Frames)
      BY <2>1, <3>1
    <3>3. vpu' = Idle /\ irq' = "picRun" /\ dec[j].inited /\ UNCHANGED dec
      BY <2>1, <2>4 DEF VpuDecodes
    <3>4. QED
      BY <3>2, <3>3 DEF ShowsOne
  <2>5. QED
    BY <2>2, <2>3, <2>4 DEF Vpu
<1>3. QED
  BY <1>1, <1>2 DEF PicInv, core

LEMMA InitPic == Init => PicInv
BY DecoderAssumption DEF Init, PicInv, GivesAllBack, WorkPlaces, NoDecoder

LEMMA NextPic == IInv /\ PicInv /\ [Next]_vars => PicInv'
<1> SUFFICES ASSUME IInv, PicInv, [Next]_vars, ~disturbed' PROVE PicInv'
  BY DEF PicInv
<1>1. CASE UNCHANGED vars
  BY <1>1 DEF vars, core, device, PicInv, ShowsOne
<1>2. CASE Vpu
  BY <1>2, VpuPic DEF Vpu, VpuStarves, VpuParsesHeader, VpuDecodes
<1>3. ASSUME NEW i \in Instances, Decoder(i) PROVE PicInv'
  <2>1. ~disturbed
    BY <1>3 DEF Decoder, Works, Open, TakePacket, TakeEof, TakeFlush, IssueSeqInit, WaitSeqInit,
       CompleteSeqInit, RegisterFrameBuffer, StartOneFrame, WaitPicture, TimeOut, GetOutputInfo,
       SendFrame, LeaveLoop, SpinEnds, Close, DeInit, ForceLock
  <2>2. ~TimeOut(i) /\ ~ForceLock(i)
    BY <2>1, ForcedDisturbs DEF TimeOut
  <2>3. QED
    BY <1>3, <2>1, <2>2, OpenPic, TakePacketPic, TakeMarkPic, StartsPic, WaitsPic, HeaderPic,
       RegisterPic, OutputPic, SendFramePic, EndingsPic DEF Decoder, Works
<1>4. QED
  BY <1>1, <1>2, <1>3 DEF Next

(* For any number of decoders: until something goes wrong, a decoder that asks for a
   packet has given back every picture it was told of (VPU_DecGetOutputInfo, sendFrame,
   VPU_DecClrDispFlag); what it owes are the pictures a VC-1 film hid from it. *)
THEOREM PicturesAreGivenBack == Spec => []PicturesGoBack
<1>1. PicInv => PicturesGoBack
  BY DEF PicInv, GivesAllBack, OwesHidden, PicturesGoBack, At, WorkPlaces
<1>2. Spec => []PicInv
  BY InitPic, NextPic, Invariance, PTL DEF Spec
<1>3. QED
  BY <1>1, <1>2, PTL
============================================================================
