------------------------------- MODULE VpuApi -------------------------------
(***************************************************************************)
(* The calls of vpuapi.c that several users share a VPU by: the pool of    *)
(* instances, the lock of the core, the instance whose command is pending, *)
(* and what the firmware has been told of each instance.  The users are    *)
(* threads of one process, each with at most one instance; the process may *)
(* die and start again, and the pool and the lock, which live in memory of *)
(* the driver, may outlive it.  What the firmware answers is a choice.     *)
(***************************************************************************)
EXTENDS Naturals, FiniteSets

CONSTANTS Clients,
          MaxInstances,   \* MAX_NUM_INSTANCE
          None,
          Failures,       \* what may go wrong: a subset of AllFailures
          MaxCrashes

AllFailures == {"driver", "memory", "firmware", "violation", "tiledMap", "timeout"}

ASSUME ApiAssumption ==
  /\ MaxInstances \in Nat \ {0}
  /\ None \notin Clients /\ "gone" \notin Clients /\ None # "gone"
  /\ None \notin Nat
  /\ Failures \subseteq AllFailures
  /\ MaxCrashes \in Nat

Slots == 0 .. MaxInstances - 1

VARIABLES
  pool,       \* codecInstPool
  lock,       \* vpu_mutex: None, a client, or "gone", a client that has died
  pending,    \* pendingInst
  told,       \* the commands the VPU has carried out for an instance
  pc,         \* the call a client has made, or where it is between calls
  handle,     \* its DecHandle or EncHandle
  crashes,
  spoilt,     \* instances whose last registration of frame buffers failed
  overtaken,  \* instances given out again before they were wholly freed
  abandoned   \* a memory access violation has left its command on record

vars == <<pool, lock, pending, told, pc, handle, crashes, spoilt, overtaken, abandoned>>

Kinds == {"dec", "enc"}
DecCalls ==
  {"decClose", "decInfo", "issueSeqInit", "flush", "paraSet", "decRegister", "decStart"}
EncCalls == {"encClose", "encInfo", "encCommand", "encRegister", "encStart"}
Calls == {"decOpen", "encOpen", "version"} \cup DecCalls \cup EncCalls
FreeInstance == [inUse |-> FALSE, mode |-> "dec", info |-> FALSE, stride |-> FALSE]

Init ==
  /\ pool = [i \in Slots |-> FreeInstance]
  /\ lock = None /\ pending = None
  /\ told = [i \in Slots |-> {}]
  /\ pc = [c \in Clients |-> "out"]
  /\ handle = [c \in Clients |-> None]
  /\ crashes = 0 /\ spoilt = {} /\ overtaken = {} /\ abandoned = FALSE

(* CheckDecInstanceValidity, CheckEncInstanceValidity *)
Valid(c, kinds) ==
  /\ handle[c] # None
  /\ pool[handle[c]].inUse
  /\ pool[handle[c]].mode \in kinds

Info(c) == pool[handle[c]].info
Stride(c) == pool[handle[c]].stride
Goes(c, where) == pc' = [pc EXCEPT ![c] = where]

(* What each call checks before it asks for the lock.  Who opens has no instance yet,
   nor has who asks for the version, which CheckVersion does before. *)
MayCall(c, op) ==
  /\ op \in {"decOpen", "encOpen", "version"} => handle[c] = None
  /\ op = "version" => pending = None
  /\ op \in DecCalls => Valid(c, {"dec"})
  /\ op \in EncCalls => Valid(c, {"enc"})
  /\ op \in {"decRegister", "encRegister"} => Info(c)
  /\ op \in {"decStart", "encStart"} => Stride(c)
  /\ op = "encInfo" => ~Info(c)
  /\ op = "encRegister" => ~Stride(c)

Call(c) ==
  /\ pc[c] = "idle"
  /\ \E op \in Calls : MayCall(c, op) /\ Goes(c, op)
  /\ UNCHANGED <<pool, lock, pending, told, handle, crashes, spoilt, overtaken, abandoned>>

(* A client whose handle is refused lets go of it. *)
GivesUp(c) ==
  /\ pc[c] = "idle" /\ handle[c] # None /\ ~Valid(c, Kinds)
  /\ handle' = [handle EXCEPT ![c] = None]
  /\ UNCHANGED <<pool, lock, pending, told, pc, crashes, spoilt, overtaken, abandoned>>
----------------------------------------------------------------------------
(* The calls, from EnterLock on. *)
Enters(c, op) == pc[c] = op /\ lock = None

(* VPU_Init.  A VPU that already runs keeps its firmware and its instances. *)
VpuInit(c) ==
  /\ Enters(c, "out")
  /\ Goes(c, "idle")
  /\ UNCHANGED <<pool, lock, pending, told, handle, crashes, spoilt, overtaken, abandoned>>

(* VPU_DeInit *)
VpuDeInit(c) ==
  /\ Enters(c, "idle") /\ handle[c] = None
  /\ Goes(c, "out")
  /\ UNCHANGED <<pool, lock, pending, told, handle, crashes, spoilt, overtaken, abandoned>>

(* A call that changes nothing and leaves the lock. *)
Returns(c) ==
  /\ Goes(c, "idle")
  /\ UNCHANGED <<pool, lock, pending, told, handle, crashes, spoilt, overtaken, abandoned>>

GetVersionInfo(c) == Enters(c, "version") /\ Returns(c)
DecFrameBufferFlush(c) == Enters(c, "flush") /\ Returns(c)
SetParaSet(c) == Enters(c, "paraSet") /\ Returns(c)
EncCommand(c) == Enters(c, "encCommand") /\ Returns(c)

(* GetCodecInstance finds no instance. *)
PoolIsExhausted(c) ==
  /\ Enters(c, "decOpen") \/ Enters(c, "encOpen")
  /\ \A i \in Slots : pool[i].inUse
  /\ Returns(c)

(* Another command is on record, there is no bitstream, or the VPU does not
   answer as it should. *)
Fails(c) ==
  /\ \/ Enters(c, "decClose") /\ Info(c) /\ "timeout" \in Failures
     \/ Enters(c, "encClose") /\ Info(c) /\ "timeout" \in Failures
     \/ Enters(c, "decInfo") /\ pending = None
     \/ Enters(c, "encInfo") /\ (pending # None \/ "firmware" \in Failures)
     \/ Enters(c, "issueSeqInit")
     \/ pending # None /\ \E op \in {"decRegister", "encRegister", "decStart", "encStart"} :
                            Enters(c, op)
  /\ Returns(c)

(* Returning without LeaveLock: VPU_DecGetInitialInfo when a command is on
   record, the encoder when its map of tiles cannot be set, VPU_GetVersionInfo when
   the firmware is found not to run any more. *)
ForgetsLock(c) ==
  /\ \/ Enters(c, "decInfo") /\ pending # None
     \/ Enters(c, "encStart") /\ pending = None /\ "tiledMap" \in Failures
     \/ Enters(c, "version") /\ "firmware" \in Failures
  /\ lock' = c
  /\ Goes(c, "idle")
  /\ UNCHANGED <<pool, pending, told, handle, crashes, spoilt, overtaken, abandoned>>

(* GetCodecInstance: the first instance that is not in use, wiped but for its
   codecMode. *)
IsFirstFree(i) == ~pool[i].inUse /\ \A j \in Slots : j < i => pool[j].inUse
TakenUnwiped(i) == [pool[i] EXCEPT !.inUse = TRUE]
TakenUnmarked(i) == [pool[i] EXCEPT !.info = FALSE, !.stride = FALSE]
Taken(i) == [pool[i] EXCEPT !.inUse = TRUE, !.info = FALSE, !.stride = FALSE]

(* The codecMode is set by the caller. *)
OpenedAsItWas(i, kind) == Taken(i)
Opened(i, kind) == [Taken(i) EXCEPT !.mode = kind]

(* The way VPU_DecOpen and VPU_EncOpen have in common.  When the driver
   refuses to open the instance it stays taken, and nobody has its handle. *)
Opens(c, kind) ==
  \E i \in Slots :
    /\ IsFirstFree(i)
    /\ \/ /\ pool' = [pool EXCEPT ![i] = Opened(i, kind)]
          /\ handle' = [handle EXCEPT ![c] = i]
       \/ /\ "driver" \in Failures
          /\ pool' = [pool EXCEPT ![i] = Taken(i)]
          /\ UNCHANGED handle
       \/ /\ "memory" \in Failures /\ kind = "dec"   \* for the parameter sets
          /\ pool' = [pool EXCEPT ![i] = Opened(i, kind)]
          /\ UNCHANGED handle
    /\ told' = [told EXCEPT ![i] = {}]
    /\ spoilt' = spoilt \ {i}
    /\ overtaken' = IF \E d \in Clients : pc[d] = "clearing" /\ handle[d] = i
                    THEN overtaken \cup {i} ELSE overtaken \ {i}
    /\ Goes(c, "idle")
    /\ UNCHANGED <<lock, pending, crashes, abandoned>>

DecOpen(c) == Enters(c, "decOpen") /\ Opens(c, "dec")
EncOpen(c) == Enters(c, "encOpen") /\ Opens(c, "enc")

(* SEQ_END if the sequence was opened; then, when the lock has been left,
   FreeCodecInstance in two writes. *)
Closes(c) ==
  /\ told' = IF Info(c) THEN [told EXCEPT ![handle[c]] = {}] ELSE told
  /\ Goes(c, "freeing")
  /\ UNCHANGED <<pool, lock, pending, handle, crashes, spoilt, overtaken, abandoned>>

DecClose(c) == Enters(c, "decClose") /\ Closes(c)
EncClose(c) == Enters(c, "encClose") /\ Closes(c)

ClearsInUse(c) ==
  /\ pc[c] = "freeing"
  /\ pool' = [pool EXCEPT ![handle[c]].inUse = FALSE]
  /\ Goes(c, "clearing")
  /\ UNCHANGED <<lock, pending, told, handle, crashes, spoilt, overtaken, abandoned>>

ClearsMode(c) ==
  /\ pc[c] = "clearing"
  /\ pool' = [pool EXCEPT ![handle[c]].mode = "none"]
  /\ handle' = [handle EXCEPT ![c] = None]
  /\ Goes(c, "idle")
  /\ UNCHANGED <<lock, pending, told, crashes, spoilt, overtaken, abandoned>>

(* SEQ_INIT has been carried out. *)
KnowsSequence(c) ==
  /\ pool' = [pool EXCEPT ![handle[c]].info = TRUE]
  /\ told' = [told EXCEPT ![handle[c]] = @ \cup {"sequence"}]

DecGetInitialInfo(c) ==
  /\ Enters(c, "decInfo") /\ pending = None
  /\ KnowsSequence(c)
  /\ Goes(c, "idle")
  /\ UNCHANGED <<lock, pending, handle, crashes, spoilt, overtaken, abandoned>>

EncGetInitialInfo(c) ==
  /\ Enters(c, "encInfo") /\ pending = None
  /\ KnowsSequence(c)
  /\ Goes(c, "idle")
  /\ UNCHANGED <<lock, pending, handle, crashes, spoilt, overtaken, abandoned>>

(* A command is issued and the lock is kept until its result is asked for. *)
Issues(c, where) ==
  /\ pending = None
  /\ lock' = c /\ pending' = handle[c]
  /\ Goes(c, where)
  /\ UNCHANGED <<pool, told, handle, crashes, spoilt, overtaken, abandoned>>

DecIssueSeqInit(c) == Enters(c, "issueSeqInit") /\ Issues(c, "inSequence")
DecStartOneFrame(c) == Enters(c, "decStart") /\ Issues(c, "inDecPicture")
EncStartOneFrame(c) == Enters(c, "encStart") /\ Issues(c, "inEncPicture")

(* A memory access violation leaves the lock and the command on record. *)
DecCompleteSeqInit(c) ==
  /\ pc[c] = "inSequence"
  /\ lock' = None
  /\ \/ pending' = None /\ KnowsSequence(c) /\ UNCHANGED abandoned
     \/ /\ pending' = None /\ "firmware" \in Failures
        /\ UNCHANGED <<pool, told, abandoned>>
     \/ /\ "violation" \in Failures /\ abandoned' = TRUE
        /\ UNCHANGED <<pool, told, pending>>
  /\ Goes(c, "idle")
  /\ UNCHANGED <<handle, crashes, spoilt, overtaken>>

(* The stride is set first, whatever becomes of the rest. *)
Registers(c) ==
  /\ pending = None
  /\ pool' = [pool EXCEPT ![handle[c]].stride = TRUE]
  /\ \/ /\ told' = [told EXCEPT ![handle[c]] = @ \cup {"frames"}]
        /\ spoilt' = spoilt \ {handle[c]}
        /\ UNCHANGED lock
     \/ /\ Failures \cap {"memory", "firmware", "timeout"} # {}
        /\ spoilt' = spoilt \cup {handle[c]}
        /\ UNCHANGED <<told, lock>>
     \/ /\ "tiledMap" \in Failures
        /\ lock' = IF pc[c] = "encRegister" THEN c ELSE lock
        /\ spoilt' = spoilt \cup {handle[c]}
        /\ UNCHANGED told
  /\ Goes(c, "idle")
  /\ UNCHANGED <<pending, handle, crashes, overtaken, abandoned>>

DecRegisterFrameBuffer(c) == Enters(c, "decRegister") /\ Registers(c)
EncRegisterFrameBuffer(c) == Enters(c, "encRegister") /\ Registers(c)

(* The result of the command is asked for. *)
StillPending == pending
PendingAfter == None

EndsCommand(c, where) ==
  /\ pc[c] = where
  /\ pending' = PendingAfter /\ lock' = None
  /\ Goes(c, "idle")
  /\ UNCHANGED <<pool, told, handle, crashes, spoilt, overtaken, abandoned>>

DecGetOutputInfo(c) == EndsCommand(c, "inDecPicture")
EncGetOutputInfo(c) == EndsCommand(c, "inEncPicture")

(* VPU_SWReset with the instance whose command has not been answered. *)
SWReset(c) ==
  /\ "timeout" \in Failures
  /\ \E where \in {"inSequence", "inDecPicture", "inEncPicture"} : EndsCommand(c, where)
----------------------------------------------------------------------------
Waiting(c) == pc[c] \in Calls \cup {"out"} \/ (pc[c] = "idle" /\ handle[c] = None)
InCommand(c) == pc[c] \in {"inSequence", "inDecPicture", "inEncPicture"}

(* vdi_lock, when the lock has not been left in all that time: whoever waits
   unlocks it.  A client that holds it for its command is in time here; what
   becomes of one that is not, VpuDecoder says. *)
NeverOverdue == FALSE
Overdue == lock = "gone" \/ (lock \in Clients /\ ~InCommand(lock))
LosesPatience(c) ==
  /\ Waiting(c) /\ Overdue
  /\ lock' = None /\ pending' = None /\ abandoned' = FALSE
  /\ UNCHANGED <<pool, told, pc, handle, crashes, spoilt, overtaken>>

(* The process dies.  What the driver does with its pool when the last user
   has gone is not known here: kept as it is, or made anew. *)
Crash ==
  /\ crashes < MaxCrashes
  /\ crashes' = crashes + 1
  /\ pc' = [c \in Clients |-> "out"]
  /\ handle' = [c \in Clients |-> None]
  /\ \/ /\ lock' = IF lock = None THEN None ELSE "gone"
        /\ UNCHANGED <<pool, pending, spoilt, overtaken, abandoned>>
     \/ /\ pool' = [i \in Slots |-> FreeInstance]
        /\ lock' = None /\ pending' = None
        /\ spoilt' = {} /\ overtaken' = {} /\ abandoned' = FALSE
  /\ UNCHANGED told

Finishes(c) == DecCompleteSeqInit(c) \/ DecGetOutputInfo(c) \/ EncGetOutputInfo(c) \/ SWReset(c)

Step(c) ==
  \/ VpuInit(c) \/ VpuDeInit(c) \/ Call(c) \/ GivesUp(c) \/ PoolIsExhausted(c) \/ Fails(c)
  \/ GetVersionInfo(c) \/ DecFrameBufferFlush(c) \/ SetParaSet(c) \/ EncCommand(c)
  \/ DecOpen(c) \/ EncOpen(c) \/ DecClose(c) \/ EncClose(c) \/ ClearsInUse(c) \/ ClearsMode(c)
  \/ DecGetInitialInfo(c) \/ EncGetInitialInfo(c) \/ DecIssueSeqInit(c)
  \/ DecRegisterFrameBuffer(c) \/ EncRegisterFrameBuffer(c)
  \/ DecStartOneFrame(c) \/ EncStartOneFrame(c) \/ Finishes(c)
  \/ ForgetsLock(c) \/ LosesPatience(c)

Next == Crash \/ \E c \in Clients : Step(c)

Spec == Init /\ [][Next]_vars

(* A client asks for the result of its command, as the loop of the decoder
   does when the interrupt or the timeout has come; and it goes on trying to
   take the lock. *)
FairSpec ==
  Spec /\ \A c \in Clients : WF_vars(Finishes(c)) /\ WF_vars(LosesPatience(c))
----------------------------------------------------------------------------
TypeOK ==
  /\ pool \in [Slots -> [inUse : BOOLEAN, mode : Kinds \cup {"none"},
                         info : BOOLEAN, stride : BOOLEAN]]
  /\ lock \in Clients \cup {None, "gone"}
  /\ pending \in Slots \cup {None}
  /\ told \in [Slots -> SUBSET {"sequence", "frames"}]
  /\ pc \in [Clients -> Calls \cup {"out", "idle", "freeing", "clearing", "inSequence",
                                    "inDecPicture", "inEncPicture"}]
  /\ handle \in [Clients -> Slots \cup {None}]
  /\ crashes \in 0 .. MaxCrashes
  /\ spoilt \subseteq Slots /\ overtaken \subseteq Slots /\ abandoned \in BOOLEAN

(* An instance is never in the hands of two clients: a client that has its
   handle, and is not just giving it back, finds it marked as in use, and no
   other client has it.  The mark is looked for under the lock and taken away
   outside of it (GetCodecInstance, FreeCodecInstance). *)
Holds(c, i) == handle[c] = i /\ pc[c] # "clearing"
OneOwner ==
  \A i \in Slots : \A c \in Clients : Holds(c, i) =>
    pool[i].inUse /\ \A d \in Clients \ {c} : ~Holds(d, i)

(* A handle works as long as its owner has not closed it: the instance keeps
   the codecMode it was opened with, unless it was given out while the one
   before was still clearing it (FreeCodecInstance runs after LeaveLock). *)
HandleWorks ==
  \A c \in Clients : handle[c] # None /\ pc[c] # "clearing" /\ handle[c] \notin overtaken =>
    pool[handle[c]].mode \in Kinds

(* The command on record is that of the instance whose client holds the lock,
   or held it when it died; one that a memory access violation in SEQ_INIT has
   left behind is nobody's.  While it is on record every other call is refused. *)
PendingIsLocked ==
  /\ pending # None =>
       \/ lock \in Clients /\ InCommand(lock) /\ handle[lock] = pending
       \/ lock = "gone"
       \/ abandoned
  /\ abandoned \/ pending = None => \A c \in Clients : ~InCommand(c)

(* The VPU is told things in their order: a picture is begun only with frame
   buffers, unless the last registration failed half-way; a sequence is ended,
   or given frame buffers, only when it was begun.  What the checks rely on
   (stride, initialInfoObtained) is in the pool, which outlives its users. *)
Begins(c) == pc[c] \in {"decStart", "encStart"} /\ pc'[c] \in {"inDecPicture", "inEncPicture"}
Ends(c) == pc[c] \in {"decClose", "encClose"} /\ pc'[c] = "freeing" /\ Info(c)
GivesFrames(c) == pc[c] \in {"decRegister", "encRegister"} /\ pc'[c] = "idle" /\ told' # told
CommandsInOrder ==
  [][\A c \in Clients :
       /\ Begins(c) => "frames" \in told[handle[c]] \/ handle[c] \in spoilt
       /\ Ends(c) \/ GivesFrames(c) => "sequence" \in told[handle[c]]]_vars

(* Whoever waits for the lock finds it free at some time, though a call may
   have returned without leaving it and the process that held it may be gone
   (vdi_lock). *)
LockComesFree == \A c \in Clients : Waiting(c) ~> (lock = None \/ ~Waiting(c))
=============================================================================
