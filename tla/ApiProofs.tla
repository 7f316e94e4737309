----------------------------- MODULE ApiProofs -----------------------------
(***************************************************************************)
(* Proofs about the calls of vpuapi.c, for any users, any number of        *)
(* instances, any failures and any number of crashes.                      *)
(***************************************************************************)
EXTENDS VpuApi, TLAPS

NeedsHandle ==
  DecCalls \cup EncCalls \cup {"freeing", "clearing", "inSequence", "inDecPicture", "inEncPicture"}
Starts == {"decStart", "encStart"}
RegisterCalls == {"decRegister", "encRegister"}

HandleKnown == \A c \in Clients : pc[c] \in NeedsHandle => handle[c] # None

(* An instance that is cleared while somebody has it is known as overtaken. *)
Overtaking ==
  \A c, d \in Clients : pc[c] = "clearing" /\ handle[c] = handle[d] /\ pc[d] # "clearing" =>
    handle[c] \in overtaken

(* A client in a command has the lock, and its command is on record. *)
CommandLocked ==
  \A c \in Clients : InCommand(c) =>
    lock = c /\ pending = handle[c] /\ ~abandoned

(* A command on record is the lock holder's or left behind. *)
PendingKnown ==
  /\ pending # None => (lock \in Clients /\ InCommand(lock)) \/ lock = "gone" \/ abandoned
  /\ abandoned => pending # None

(* What the pool says of an instance in use is what the VPU has been told. *)
Told ==
  \A c \in Clients : handle[c] # None /\ pc[c] \notin {"freeing", "clearing"} =>
    /\ Stride(c) => "frames" \in told[handle[c]] \/ handle[c] \in spoilt
    /\ Info(c) => "sequence" \in told[handle[c]]

(* What a call has checked holds until it has the lock. *)
StillChecked ==
  \A c \in Clients :
    /\ pc[c] \in Starts => Stride(c)
    /\ pc[c] \in RegisterCalls => Info(c)

IInv == /\ TypeOK /\ HandleKnown /\ OneOwner /\ Overtaking /\ HandleWorks
        /\ CommandLocked /\ PendingKnown /\ Told /\ StillChecked

USE DEF Kinds, DecCalls, EncCalls, Calls, NeedsHandle, Starts, RegisterCalls

Instance == [inUse : BOOLEAN, mode : Kinds \cup {"none"}, info : BOOLEAN, stride : BOOLEAN]

LEMMA InitHolds == Init => IInv
<1> SUFFICES ASSUME Init PROVE IInv
  OBVIOUS
<1>1. TypeOK
  <2>1. crashes \in 0 .. MaxCrashes
    BY ApiAssumption DEF Init
  <2>2. FreeInstance \in Instance
    BY DEF FreeInstance, Instance
  <2>3. pool \in [Slots -> Instance] /\ told \in [Slots -> SUBSET {"sequence", "frames"}]
    BY <2>2 DEF Init
  <2>4. /\ pc \in [Clients -> Calls \cup {"out", "idle", "freeing", "clearing", "inSequence",
                                    "inDecPicture", "inEncPicture"}]
        /\ handle \in [Clients -> Slots \cup {None}]
    BY DEF Init
  <2> QED
    BY <2>1, <2>3, <2>4 DEF Init, TypeOK, Instance
<1>2. HandleKnown /\ OneOwner /\ Overtaking /\ HandleWorks
  BY ApiAssumption DEF Init, HandleKnown, OneOwner, Overtaking, HandleWorks, Holds, Slots
<1>3. CommandLocked /\ PendingKnown /\ Told /\ StillChecked
  BY DEF Init, CommandLocked, PendingKnown, Told, StillChecked, InCommand
<1> QED
  BY <1>1, <1>2, <1>3 DEF IInv

(* Steps that change only where a client is. *)
PcOnly(c, w) ==
  /\ Goes(c, w)
  /\ UNCHANGED <<pool, lock, pending, told, handle, crashes, spoilt, overtaken, abandoned>>

LEMMA PcOnlyKeeps ==
  ASSUME IInv, NEW c \in Clients, NEW w \in Calls \cup {"idle", "out"}, PcOnly(c, w),
         pc[c] \in Calls \cup {"idle", "out"},
         w \in DecCalls \cup EncCalls => handle[c] # None,
         w \in Starts => Stride(c),
         w \in RegisterCalls => Info(c)
  PROVE  IInv'
<1>1. /\ pc' = [pc EXCEPT ![c] = w] /\ pc'[c] = w
      /\ \A d \in Clients : d # c => pc'[d] = pc[d]
  BY DEF IInv, TypeOK, PcOnly, Goes
<1>2. TypeOK' /\ HandleKnown'
  BY <1>1 DEF IInv, TypeOK, HandleKnown, PcOnly
<1>3. OneOwner' /\ HandleWorks' /\ Overtaking'
  BY <1>1 DEF IInv, OneOwner, HandleWorks, Overtaking, Holds, PcOnly
<1>4. CommandLocked' /\ PendingKnown'
  BY <1>1 DEF IInv, CommandLocked, PendingKnown, InCommand, PcOnly
<1>5. Told' /\ StillChecked'
  BY <1>1 DEF IInv, Told, StillChecked, Stride, Info, PcOnly
<1> QED
  BY <1>2, <1>3, <1>4, <1>5 DEF IInv

LEMMA NoneIsNoSlot == None \notin Slots
BY ApiAssumption DEF Slots

LEMMA OnlyOwner ==
  ASSUME IInv, NEW c \in Clients, NEW d \in Clients, d # c,
         handle[c] # None, handle[d] = handle[c], pc[c] # "clearing"
  PROVE  pc[d] = "clearing"
BY DEF IInv, TypeOK, OneOwner, Holds

LEMMA OnlyInCommand ==
  ASSUME IInv, NEW c \in Clients, InCommand(c)
  PROVE  /\ lock = c /\ handle[c] # None /\ pending = handle[c] /\ ~abandoned
         /\ \A d \in Clients \ {c} : ~InCommand(d)
BY DEF IInv, CommandLocked, HandleKnown, InCommand

LEMMA NobodyInCommand ==
  ASSUME IInv, lock = None \/ pending = None \/ Overdue
  PROVE  \A c \in Clients : ~InCommand(c)
<1>1. SUFFICES ASSUME NEW c \in Clients, InCommand(c) PROVE FALSE
  OBVIOUS
<1>2. lock = c /\ pending # None
  BY <1>1, OnlyInCommand
<1> QED
  BY <1>1, <1>2, ApiAssumption DEF Overdue

(* A call returns without leaving the lock. *)
LEMMA ForgetsLockKeeps ==
  ASSUME IInv, NEW c \in Clients, ForgetsLock(c)
  PROVE  IInv'
<1>1. /\ pc' = [pc EXCEPT ![c] = "idle"] /\ lock' = c /\ lock = None
      /\ UNCHANGED <<pool, pending, told, handle, crashes, spoilt, overtaken, abandoned>>
      /\ pc[c] \in {"decInfo", "encStart", "version"}
  BY DEF ForgetsLock, Goes, Enters
<1>2. /\ pc'[c] = "idle"
      /\ \A d \in Clients : d # c => pc'[d] = pc[d]
  BY <1>1 DEF IInv, TypeOK
<1>3. \A d \in Clients : ~InCommand(d) /\ ~InCommand(d)'
  BY <1>1, <1>2, NobodyInCommand DEF InCommand
<1>4. TypeOK' /\ HandleKnown'
  BY <1>1, <1>2 DEF IInv, TypeOK, HandleKnown
<1>5. OneOwner' /\ HandleWorks' /\ Overtaking'
  BY <1>1, <1>2 DEF IInv, OneOwner, HandleWorks, Overtaking, Holds
<1>6. CommandLocked' /\ PendingKnown'
  BY <1>1, <1>3, ApiAssumption DEF IInv, CommandLocked, PendingKnown
<1>7. Told' /\ StillChecked'
  BY <1>1, <1>2 DEF IInv, Told, StillChecked, Stride, Info
<1> QED
  BY <1>4, <1>5, <1>6, <1>7 DEF IInv

(* A command is issued: lock and record become the client's. *)
LEMMA IssuesKeeps ==
  ASSUME IInv, NEW c \in Clients, NEW op \in {"issueSeqInit", "decStart", "encStart"},
         NEW w \in {"inSequence", "inDecPicture", "inEncPicture"}, Enters(c, op), Issues(c, w)
  PROVE  IInv'
<1>1. /\ pc' = [pc EXCEPT ![c] = w] /\ lock' = c /\ pending' = handle[c]
      /\ lock = None /\ pending = None
      /\ UNCHANGED <<pool, told, handle, crashes, spoilt, overtaken, abandoned>>
      /\ pc[c] \in {"issueSeqInit", "decStart", "encStart"}
  BY DEF Issues, Goes, Enters
<1>2. /\ pc'[c] = w /\ handle[c] # None /\ handle[c] \in Slots
      /\ \A d \in Clients : d # c => pc'[d] = pc[d]
  BY <1>1 DEF IInv, TypeOK, HandleKnown
<1>3. \A d \in Clients : d # c => ~InCommand(d)'
  BY <1>1, <1>2, NobodyInCommand DEF InCommand
<1>4. InCommand(c)' /\ ~abandoned
  BY <1>1, <1>2 DEF IInv, InCommand, PendingKnown
<1>5. TypeOK' /\ HandleKnown'
  BY <1>1, <1>2 DEF IInv, TypeOK, HandleKnown
<1>6. OneOwner' /\ HandleWorks' /\ Overtaking'
  BY <1>1, <1>2 DEF IInv, OneOwner, HandleWorks, Overtaking, Holds
<1>7. CommandLocked' /\ PendingKnown'
  BY <1>1, <1>2, <1>3, <1>4 DEF CommandLocked, PendingKnown
<1>8. Told' /\ StillChecked'
  BY <1>1, <1>2 DEF IInv, Told, StillChecked, Stride, Info
<1> QED
  BY <1>5, <1>6, <1>7, <1>8 DEF IInv

(* The result of a command is asked for. *)
LEMMA EndsCommandKeeps ==
  ASSUME IInv, NEW c \in Clients, NEW w \in {"inSequence", "inDecPicture", "inEncPicture"},
         EndsCommand(c, w)
  PROVE  IInv'
<1>1. /\ pc' = [pc EXCEPT ![c] = "idle"] /\ lock' = None /\ pending' = None
      /\ UNCHANGED <<pool, told, handle, crashes, spoilt, overtaken, abandoned>>
      /\ InCommand(c)
  BY DEF EndsCommand, Goes, PendingAfter, InCommand
<1>2. /\ pc'[c] = "idle" /\ pc[c] # "clearing" /\ pc[c] # "freeing"
      /\ \A d \in Clients : d # c => pc'[d] = pc[d]
  BY <1>1 DEF IInv, TypeOK, InCommand
<1>3. ~abandoned /\ \A d \in Clients : ~InCommand(d)'
  BY <1>1, <1>2, OnlyInCommand DEF InCommand
<1>4. TypeOK' /\ HandleKnown'
  BY <1>1, <1>2 DEF IInv, TypeOK, HandleKnown
<1>5. OneOwner' /\ HandleWorks' /\ Overtaking'
  BY <1>1, <1>2 DEF IInv, OneOwner, HandleWorks, Overtaking, Holds
<1>6. CommandLocked' /\ PendingKnown'
  BY <1>1, <1>3 DEF CommandLocked, PendingKnown
<1>7. Told' /\ StillChecked'
  BY <1>1, <1>2 DEF IInv, Told, StillChecked, Stride, Info
<1> QED
  BY <1>4, <1>5, <1>6, <1>7 DEF IInv

(* Whoever waits unlocks a lock that nobody uses. *)
LEMMA LosesPatienceKeeps ==
  ASSUME IInv, NEW c \in Clients, LosesPatience(c)
  PROVE  IInv'
<1>1. /\ lock' = None /\ pending' = None /\ abandoned' = FALSE /\ Overdue
      /\ UNCHANGED <<pool, told, pc, handle, crashes, spoilt, overtaken>>
  BY DEF LosesPatience
<1>2. \A d \in Clients : ~InCommand(d)'
  BY <1>1, NobodyInCommand DEF InCommand
<1>3. TypeOK' /\ HandleKnown'
  BY <1>1 DEF IInv, TypeOK, HandleKnown
<1>4. OneOwner' /\ HandleWorks' /\ Overtaking'
  BY <1>1 DEF IInv, OneOwner, HandleWorks, Overtaking, Holds
<1>5. CommandLocked' /\ PendingKnown'
  BY <1>1, <1>2 DEF CommandLocked, PendingKnown
<1>6. Told' /\ StillChecked'
  BY <1>1 DEF IInv, Told, StillChecked, Stride, Info
<1> QED
  BY <1>3, <1>4, <1>5, <1>6 DEF IInv

(* The client's own instance learns something; its mark and its mode stay. *)
Learns(c) ==
  /\ \A i \in Slots : /\ pool'[i].inUse = pool[i].inUse /\ pool'[i].mode = pool[i].mode
                      /\ i # handle[c] => /\ pool'[i] = pool[i] /\ told'[i] = told[i]
                                          /\ i \in spoilt <=> i \in spoilt'
  /\ Stride(c) => Stride(c)'
  /\ Info(c) => Info(c)'
  /\ Stride(c)' => "frames" \in told'[handle[c]] \/ handle[c] \in spoilt'
  /\ Info(c)' => "sequence" \in told'[handle[c]]

LEMMA LearnsKeeps ==
  ASSUME IInv, TypeOK', NEW c \in Clients, Learns(c), Goes(c, "idle"),
         UNCHANGED <<handle, overtaken>>, handle[c] # None, pc[c] # "clearing"
  PROVE  HandleKnown' /\ OneOwner' /\ Overtaking' /\ HandleWorks' /\ Told' /\ StillChecked'
<1>1. /\ pc'[c] = "idle"
      /\ \A d \in Clients : d # c => pc'[d] = pc[d]
  BY DEF IInv, TypeOK, Goes
<1>2. HandleKnown' /\ Overtaking'
  BY <1>1 DEF IInv, HandleKnown, Overtaking
<1>3. OneOwner'
  BY <1>1 DEF IInv, OneOwner, Holds, Learns
<1>4. HandleWorks'
  BY <1>1 DEF IInv, TypeOK, HandleWorks, Learns
<1>5. ASSUME NEW d \in Clients, d # c, handle[d] # None, pc[d] # "clearing"
      PROVE  /\ handle[d] \in Slots /\ handle[d] # handle[c]
             /\ pool'[handle[d]] = pool[handle[d]] /\ told'[handle[d]] = told[handle[d]]
             /\ handle[d] \in spoilt <=> handle[d] \in spoilt'
  BY <1>5, OnlyOwner DEF IInv, TypeOK, Learns
<1>6. Told'
  <2> SUFFICES ASSUME NEW d \in Clients, handle[d] # None, pc'[d] \notin {"freeing", "clearing"}
               PROVE  /\ Stride(d)' => "frames" \in told'[handle[d]] \/ handle[d] \in spoilt'
                      /\ Info(d)' => "sequence" \in told'[handle[d]]
    BY DEF Told
  <2>1. CASE d = c
    BY <2>1 DEF Learns
  <2>2. CASE d # c
    BY <2>2, <1>1, <1>5 DEF IInv, Told, Stride, Info
  <2> QED
    BY <2>1, <2>2
<1>7. StillChecked'
  BY <1>1, <1>5 DEF IInv, StillChecked, HandleKnown, Stride, Info
<1> QED
  BY <1>2, <1>3, <1>4, <1>6, <1>7

LEMMA KnowsSequenceLearns ==
  ASSUME IInv, NEW c \in Clients, KnowsSequence(c), UNCHANGED <<handle, spoilt>>,
         handle[c] # None, pc[c] \notin {"freeing", "clearing"}
  PROVE  /\ Learns(c)
         /\ pool' \in [Slots -> Instance]
         /\ told' \in [Slots -> SUBSET {"sequence", "frames"}]
<1>1. handle[c] \in Slots /\ pool \in [Slots -> Instance]
      /\ told \in [Slots -> SUBSET {"sequence", "frames"}]
  BY DEF IInv, TypeOK, Instance
<1>2. /\ pool' = [pool EXCEPT ![handle[c]] = [pool[handle[c]] EXCEPT !.info = TRUE]]
      /\ told' = [told EXCEPT ![handle[c]] = told[handle[c]] \cup {"sequence"}]
  BY DEF KnowsSequence
<1>3. pool' \in [Slots -> Instance] /\ told' \in [Slots -> SUBSET {"sequence", "frames"}]
  BY <1>1, <1>2 DEF Instance
<1>4. Stride(c) => "frames" \in told[handle[c]] \/ handle[c] \in spoilt
  BY DEF IInv, Told
<1>5. Learns(c)
  BY <1>1, <1>2, <1>4 DEF Learns, Stride, Info, Instance
<1> QED
  BY <1>3, <1>5

(* The sequence is known without a command on record. *)
LEMMA GetInitialInfoKeeps ==
  ASSUME IInv, NEW c \in Clients, DecGetInitialInfo(c) \/ EncGetInitialInfo(c)
  PROVE  IInv'
<1>1. /\ KnowsSequence(c) /\ Goes(c, "idle") /\ lock = None /\ pc[c] \in {"decInfo", "encInfo"}
      /\ UNCHANGED <<lock, pending, handle, crashes, spoilt, overtaken, abandoned>>
  BY DEF DecGetInitialInfo, EncGetInitialInfo, Enters
<1>2. handle[c] # None
  BY <1>1 DEF IInv, HandleKnown
<1>3. /\ Learns(c) /\ pool' \in [Slots -> Instance]
      /\ told' \in [Slots -> SUBSET {"sequence", "frames"}]
  BY <1>1, <1>2, KnowsSequenceLearns
<1>4. TypeOK'
  BY <1>1, <1>3 DEF IInv, TypeOK, Instance, Goes
<1>5. HandleKnown' /\ OneOwner' /\ Overtaking' /\ HandleWorks' /\ Told' /\ StillChecked'
  BY <1>1, <1>2, <1>3, <1>4, LearnsKeeps
<1>6. \A d \in Clients : ~InCommand(d) /\ ~InCommand(d)'
  BY <1>1, NobodyInCommand DEF InCommand, Goes, IInv, TypeOK
<1>7. CommandLocked' /\ PendingKnown'
  BY <1>1, <1>6 DEF IInv, CommandLocked, PendingKnown
<1> QED
  BY <1>4, <1>5, <1>7 DEF IInv

LEMMA CompleteSeqInitKeeps ==
  ASSUME IInv, NEW c \in Clients, DecCompleteSeqInit(c)
  PROVE  IInv'
<1>1. /\ pc[c] = "inSequence" /\ lock' = None /\ Goes(c, "idle")
      /\ UNCHANGED <<handle, crashes, spoilt, overtaken>>
      /\ \/ pending' = None /\ KnowsSequence(c) /\ UNCHANGED abandoned
         \/ pending' = None /\ UNCHANGED <<pool, told, abandoned>>
         \/ abandoned' = TRUE /\ UNCHANGED <<pool, told, pending>>
  BY DEF DecCompleteSeqInit
<1>2. InCommand(c) /\ handle[c] # None /\ handle[c] \in Slots
  BY <1>1 DEF InCommand, IInv, HandleKnown, TypeOK
<1>3. /\ Learns(c) /\ pool' \in [Slots -> Instance]
      /\ told' \in [Slots -> SUBSET {"sequence", "frames"}]
  <2>1. CASE KnowsSequence(c)
    BY <2>1, <1>1, <1>2, KnowsSequenceLearns
  <2>2. CASE UNCHANGED <<pool, told>>
    <3>1. /\ Stride(c) => "frames" \in told[handle[c]] \/ handle[c] \in spoilt
          /\ Info(c) => "sequence" \in told[handle[c]]
      BY <1>1, <1>2 DEF IInv, Told
    <3> QED
      BY <2>2, <3>1, <1>1 DEF Learns, Stride, Info, IInv, TypeOK, Instance
  <2> QED
    BY <2>1, <2>2, <1>1
<1>4. \A d \in Clients : ~InCommand(d)'
  BY <1>1, <1>2, OnlyInCommand DEF InCommand, Goes, IInv, TypeOK
<1>5. ~abandoned /\ pending # None
  BY <1>2, OnlyInCommand
<1>6. TypeOK'
  BY <1>1, <1>3 DEF IInv, TypeOK, Instance, Goes
<1>7. HandleKnown' /\ OneOwner' /\ Overtaking' /\ HandleWorks' /\ Told' /\ StillChecked'
  BY <1>1, <1>2, <1>3, <1>6, LearnsKeeps
<1>8. CommandLocked' /\ PendingKnown'
  BY <1>1, <1>4, <1>5 DEF CommandLocked, PendingKnown
<1> QED
  BY <1>6, <1>7, <1>8 DEF IInv

LEMMA RegistersKeeps ==
  ASSUME IInv, NEW c \in Clients, DecRegisterFrameBuffer(c) \/ EncRegisterFrameBuffer(c)
  PROVE  IInv'
<1>1. /\ Registers(c) /\ Goes(c, "idle") /\ lock = None /\ pc[c] \in RegisterCalls
      /\ UNCHANGED <<pending, handle, crashes, overtaken, abandoned>>
      /\ pool' = [pool EXCEPT ![handle[c]] = [pool[handle[c]] EXCEPT !.stride = TRUE]]
      /\ lock' \in {lock, c} /\ pending = None
      /\ \/ /\ told' = [told EXCEPT ![handle[c]] = told[handle[c]] \cup {"frames"}]
            /\ spoilt' = spoilt \ {handle[c]}
         \/ told' = told /\ spoilt' = spoilt \cup {handle[c]}
  BY DEF DecRegisterFrameBuffer, EncRegisterFrameBuffer, Enters, Registers
<1>2. /\ handle[c] # None /\ handle[c] \in Slots /\ pool \in [Slots -> Instance]
      /\ told \in [Slots -> SUBSET {"sequence", "frames"}] /\ spoilt \subseteq Slots
  BY <1>1 DEF IInv, HandleKnown, TypeOK, Instance
<1>3. /\ pool' \in [Slots -> Instance] /\ told' \in [Slots -> SUBSET {"sequence", "frames"}]
      /\ spoilt' \subseteq Slots
  <2>1. [pool[handle[c]] EXCEPT !.stride = TRUE] \in Instance
    BY <1>2 DEF Instance
  <2>2. pool' \in [Slots -> Instance]
    BY <2>1, <1>1, <1>2
  <2>3. told' \in [Slots -> SUBSET {"sequence", "frames"}] /\ spoilt' \subseteq Slots
    BY <1>1, <1>2
  <2> QED
    BY <2>2, <2>3
<1>4. Info(c) => "sequence" \in told[handle[c]]
  BY <1>1, <1>2 DEF IInv, Told
<1>5. Learns(c)
  BY <1>1, <1>2, <1>4 DEF Learns, Stride, Info, Instance
<1>6. TypeOK'
  BY <1>1, <1>3 DEF IInv, TypeOK, Instance, Goes
<1>7. HandleKnown' /\ OneOwner' /\ Overtaking' /\ HandleWorks' /\ Told' /\ StillChecked'
  BY <1>1, <1>2, <1>5, <1>6, LearnsKeeps
<1>8. \A d \in Clients : ~InCommand(d)'
  BY <1>1, NobodyInCommand DEF InCommand, Goes, IInv, TypeOK
<1>9. CommandLocked' /\ PendingKnown'
  BY <1>1, <1>8 DEF IInv, CommandLocked, PendingKnown
<1> QED
  BY <1>6, <1>7, <1>9 DEF IInv

(* Closing: the sequence is ended, and the instance is on its way out. *)
LEMMA ClosesKeeps ==
  ASSUME IInv, NEW c \in Clients, DecClose(c) \/ EncClose(c)
  PROVE  IInv'
<1>1. /\ pc' = [pc EXCEPT ![c] = "freeing"] /\ lock = None
      /\ pc[c] \in {"decClose", "encClose"}
      /\ told' = IF Info(c) THEN [told EXCEPT ![handle[c]] = {}] ELSE told
      /\ UNCHANGED <<pool, lock, pending, handle, crashes, spoilt, overtaken, abandoned>>
  BY DEF DecClose, EncClose, Closes, Enters, Goes
<1>2. /\ pc'[c] = "freeing" /\ handle[c] # None /\ handle[c] \in Slots
      /\ \A d \in Clients : d # c => pc'[d] = pc[d]
  BY <1>1 DEF IInv, TypeOK, HandleKnown
<1>3. ASSUME NEW d \in Clients, d # c, handle[d] # None, pc[d] # "clearing"
      PROVE  told'[handle[d]] = told[handle[d]]
  BY <1>1, <1>2, <1>3, OnlyOwner DEF IInv, TypeOK
<1>4. TypeOK' /\ HandleKnown'
  BY <1>1, <1>2 DEF IInv, TypeOK, HandleKnown
<1>5. OneOwner' /\ HandleWorks' /\ Overtaking'
  BY <1>1, <1>2 DEF IInv, OneOwner, HandleWorks, Overtaking, Holds
<1>6. \A d \in Clients : ~InCommand(d) /\ ~InCommand(d)'
  BY <1>1, <1>2, NobodyInCommand DEF InCommand
<1>7. CommandLocked' /\ PendingKnown'
  BY <1>1, <1>6 DEF IInv, CommandLocked, PendingKnown
<1>8. Told' /\ StillChecked'
  BY <1>1, <1>2, <1>3 DEF IInv, Told, StillChecked, Stride, Info
<1> QED
  BY <1>4, <1>5, <1>7, <1>8 DEF IInv

(* FreeCodecInstance, first write: nobody else has the instance. *)
LEMMA ClearsInUseKeeps ==
  ASSUME IInv, NEW c \in Clients, ClearsInUse(c)
  PROVE  IInv'
<1>1. /\ pc' = [pc EXCEPT ![c] = "clearing"] /\ pc[c] = "freeing"
      /\ pool' = [pool EXCEPT ![handle[c]] = [pool[handle[c]] EXCEPT !.inUse = FALSE]]
      /\ UNCHANGED <<lock, pending, told, handle, crashes, spoilt, overtaken, abandoned>>
  BY DEF ClearsInUse, Goes
<1>2. /\ pc'[c] = "clearing" /\ handle[c] # None /\ handle[c] \in Slots
      /\ pool \in [Slots -> Instance]
      /\ \A d \in Clients : d # c => pc'[d] = pc[d]
  BY <1>1 DEF IInv, TypeOK, HandleKnown, Instance
<1>3. ASSUME NEW d \in Clients, d # c, handle[d] # None, pc[d] # "clearing"
      PROVE  handle[d] # handle[c] /\ pool'[handle[d]] = pool[handle[d]]
  BY <1>1, <1>2, <1>3, OnlyOwner DEF IInv, TypeOK
<1>4. TypeOK' /\ HandleKnown'
  <2>1. [pool[handle[c]] EXCEPT !.inUse = FALSE] \in Instance
    BY <1>2 DEF Instance
  <2>2. pool' \in [Slots -> Instance]
    BY <2>1, <1>1, <1>2
  <2> QED
    BY <2>2, <1>1, <1>2 DEF IInv, TypeOK, HandleKnown, Instance
<1>5. OneOwner' /\ HandleWorks'
  BY <1>1, <1>2, <1>3 DEF IInv, TypeOK, OneOwner, HandleWorks, Holds
<1>6. Overtaking'
  BY <1>1, <1>2, <1>3 DEF IInv, Overtaking
<1>7. CommandLocked' /\ PendingKnown'
  BY <1>1, <1>2 DEF IInv, CommandLocked, PendingKnown, InCommand
<1>8. Told'
  BY <1>1, <1>2, <1>3 DEF IInv, Told, Stride, Info
<1>9. StillChecked'
  BY <1>1, <1>2, <1>3 DEF IInv, HandleKnown, StillChecked, Stride, Info
<1> QED
  BY <1>4, <1>5, <1>6, <1>7, <1>8, <1>9 DEF IInv

(* FreeCodecInstance, second write: whoever has the instance now, has it
   overtaken. *)
LEMMA ClearsModeKeeps ==
  ASSUME IInv, NEW c \in Clients, ClearsMode(c)
  PROVE  IInv'
<1>1. /\ pc' = [pc EXCEPT ![c] = "idle"] /\ pc[c] = "clearing"
      /\ handle' = [handle EXCEPT ![c] = None]
      /\ pool' = [pool EXCEPT ![handle[c]] = [pool[handle[c]] EXCEPT !.mode = "none"]]
      /\ UNCHANGED <<lock, pending, told, crashes, spoilt, overtaken, abandoned>>
  BY DEF ClearsMode, Goes
<1>2. /\ pc'[c] = "idle" /\ handle'[c] = None /\ handle[c] # None /\ handle[c] \in Slots
      /\ pool \in [Slots -> Instance]
      /\ \A d \in Clients : d # c => pc'[d] = pc[d] /\ handle'[d] = handle[d]
  BY <1>1 DEF IInv, TypeOK, HandleKnown, Instance
<1>3. /\ pool' \in [Slots -> Instance]
      /\ \A i \in Slots : /\ pool'[i].inUse = pool[i].inUse
                          /\ pool'[i].stride = pool[i].stride /\ pool'[i].info = pool[i].info
                          /\ i # handle[c] => pool'[i] = pool[i]
  <2>1. [pool[handle[c]] EXCEPT !.mode = "none"] \in Instance
    BY <1>2 DEF Instance
  <2> QED
    BY <2>1, <1>1, <1>2 DEF Instance
<1>4. TypeOK' /\ HandleKnown'
  BY <1>1, <1>2, <1>3 DEF IInv, TypeOK, HandleKnown, Instance
<1>5. OneOwner' /\ Overtaking'
  <2>1. OneOwner'
    BY <1>1, <1>2, <1>3, NoneIsNoSlot DEF IInv, OneOwner, Holds
  <2>2. Overtaking'
    BY <1>1, <1>2, <1>3 DEF IInv, Overtaking, HandleKnown
  <2> QED
    BY <2>1, <2>2
<1>6. HandleWorks'
  BY <1>1, <1>2, <1>3 DEF IInv, TypeOK, HandleWorks, Overtaking
<1>7. CommandLocked' /\ PendingKnown'
  BY <1>1, <1>2 DEF IInv, CommandLocked, PendingKnown, InCommand
<1>8. Told'
  BY <1>1, <1>2, <1>3 DEF IInv, TypeOK, Told, Stride, Info
<1>9. StillChecked'
  BY <1>1, <1>2, <1>3 DEF IInv, TypeOK, HandleKnown, StillChecked, Stride, Info
<1> QED
  BY <1>4, <1>5, <1>6, <1>7, <1>8, <1>9 DEF IInv

(* An instance is given out again: whoever has it still is clearing it. *)
LEMMA OpensKeeps ==
  ASSUME IInv, NEW c \in Clients, NEW kind \in Kinds, lock = None,
         pc[c] \in {"decOpen", "encOpen"}, Opens(c, kind)
  PROVE  IInv'
<1>1. PICK i \in Slots :
        /\ ~pool[i].inUse /\ Goes(c, "idle")
        /\ pool' \in {[pool EXCEPT ![i] = Opened(i, kind)], [pool EXCEPT ![i] = Taken(i)]}
        /\ \/ handle' = [handle EXCEPT ![c] = i] /\ pool' = [pool EXCEPT ![i] = Opened(i, kind)]
           \/ handle' = handle
        /\ told' = [told EXCEPT ![i] = {}]
        /\ spoilt' = spoilt \ {i}
        /\ overtaken' = IF \E d \in Clients : pc[d] = "clearing" /\ handle[d] = i
                        THEN overtaken \cup {i} ELSE overtaken \ {i}
        /\ UNCHANGED <<lock, pending, crashes, abandoned>>
  BY DEF Opens, IsFirstFree
<1>2. /\ pc'[c] = "idle" /\ pool \in [Slots -> Instance]
      /\ \A d \in Clients : d # c => pc'[d] = pc[d] /\ handle'[d] = handle[d]
      /\ handle'[c] \in {handle[c], i}
  BY <1>1 DEF IInv, TypeOK, Instance, Goes
<1>3. Taken(i) \in Instance /\ Opened(i, kind) \in Instance
  BY <1>2 DEF Taken, Opened, Instance
<1>4. /\ Taken(i).inUse /\ ~Taken(i).info /\ ~Taken(i).stride
      /\ Opened(i, kind).inUse /\ ~Opened(i, kind).info /\ ~Opened(i, kind).stride
      /\ Opened(i, kind).mode \in Kinds
  BY <1>2 DEF Taken, Opened, Instance
<1>5. /\ pool' \in [Slots -> Instance]
      /\ pool'[i].inUse /\ ~pool'[i].info /\ ~pool'[i].stride
      /\ handle' # handle => pool'[i].mode \in Kinds
      /\ \A j \in Slots \ {i} : pool'[j] = pool[j] /\ told'[j] = told[j]
                              /\ (j \in spoilt <=> j \in spoilt')
                              /\ (j \in overtaken <=> j \in overtaken')
  <2>1. /\ pool' \in [Slots -> Instance]
        /\ pool'[i].inUse /\ ~pool'[i].info /\ ~pool'[i].stride
        /\ \A j \in Slots \ {i} : pool'[j] = pool[j]
    BY <1>1, <1>2, <1>3, <1>4
  <2>2. handle' # handle => pool'[i].mode \in Kinds
    BY <1>1, <1>2, <1>3, <1>4
  <2>3. \A j \in Slots \ {i} : /\ told'[j] = told[j]
                             /\ (j \in spoilt <=> j \in spoilt')
                             /\ (j \in overtaken <=> j \in overtaken')
    BY <1>1 DEF IInv, TypeOK
  <2> QED
    BY <2>1, <2>2, <2>3
<1>6. \A d \in Clients : handle[d] = i => pc[d] = "clearing"
  BY <1>1 DEF IInv, OneOwner, Holds
<1>7. i # None /\ handle[c] # i
  BY <1>6, NoneIsNoSlot
<1>8. TypeOK' /\ HandleKnown'
  <2>1. /\ pc' \in [Clients -> Calls \cup {"out", "idle", "freeing", "clearing", "inSequence",
                                     "inDecPicture", "inEncPicture"}]
        /\ handle' \in [Clients -> Slots \cup {None}]
    BY <1>1 DEF IInv, TypeOK, Goes
  <2>2. /\ told' \in [Slots -> SUBSET {"sequence", "frames"}]
        /\ spoilt' \subseteq Slots /\ overtaken' \subseteq Slots
    BY <1>1 DEF IInv, TypeOK
  <2>3. TypeOK'
    BY <1>1, <1>5, <2>1, <2>2 DEF IInv, TypeOK, Instance
  <2>4. HandleKnown'
    BY <1>2 DEF IInv, HandleKnown
  <2> QED
    BY <2>3, <2>4
<1>9. OneOwner'
  BY <1>1, <1>2, <1>5, <1>6 DEF IInv, OneOwner, Holds
<1>10. Overtaking'
  BY <1>1, <1>2, <1>5, <1>6 DEF IInv, TypeOK, Overtaking, HandleKnown
<1>11. HandleWorks'
  BY <1>1, <1>2, <1>5, <1>6 DEF IInv, TypeOK, HandleWorks
<1>12. \A d \in Clients : ~InCommand(d) /\ ~InCommand(d)'
  BY <1>2, NobodyInCommand DEF InCommand
<1>13. CommandLocked' /\ PendingKnown'
  BY <1>1, <1>12 DEF IInv, CommandLocked, PendingKnown
<1>14. Told'
  BY <1>2, <1>5, <1>6 DEF IInv, TypeOK, Told, Stride, Info
<1>15. StillChecked'
  BY <1>2, <1>5, <1>6 DEF IInv, TypeOK, HandleKnown, StillChecked, Stride, Info
<1> QED
  BY <1>8, <1>9, <1>10, <1>11, <1>13, <1>14, <1>15 DEF IInv

(* A client lets go of a handle that is refused. *)
LEMMA GivesUpKeeps ==
  ASSUME IInv, NEW c \in Clients, GivesUp(c)
  PROVE  IInv'
<1>1. /\ handle' = [handle EXCEPT ![c] = None] /\ pc[c] = "idle"
      /\ UNCHANGED <<pool, lock, pending, told, pc, crashes, spoilt, overtaken, abandoned>>
  BY DEF GivesUp
<1>2. /\ handle'[c] = None /\ \A d \in Clients : d # c => handle'[d] = handle[d]
  BY <1>1 DEF IInv, TypeOK
<1>3. TypeOK' /\ HandleKnown'
  BY <1>1, <1>2 DEF IInv, TypeOK, HandleKnown
<1>4. OneOwner' /\ HandleWorks'
  BY <1>1, <1>2, NoneIsNoSlot DEF IInv, OneOwner, HandleWorks, Holds
<1>5. Overtaking'
  BY <1>1, <1>2 DEF IInv, HandleKnown, Overtaking
<1>6. CommandLocked' /\ PendingKnown'
  BY <1>1, <1>2 DEF IInv, CommandLocked, PendingKnown, InCommand
<1>7. Told' /\ StillChecked'
  BY <1>1, <1>2 DEF IInv, Told, StillChecked, Stride, Info
<1> QED
  BY <1>3, <1>4, <1>5, <1>6, <1>7 DEF IInv

(* The process dies: nobody has an instance, and nobody waits for a result. *)
LEMMA CrashKeeps == IInv /\ Crash => IInv'
<1> SUFFICES ASSUME IInv, Crash PROVE IInv'
  OBVIOUS
<1>1. /\ crashes < MaxCrashes /\ crashes' = crashes + 1 /\ told' = told
      /\ \A c \in Clients : pc'[c] = "out" /\ handle'[c] = None
      /\ pc' = [c \in Clients |-> "out"] /\ handle' = [c \in Clients |-> None]
      /\ \/ /\ lock' = IF lock = None THEN None ELSE "gone"
            /\ UNCHANGED <<pool, pending, spoilt, overtaken, abandoned>>
         \/ /\ pool' = [i \in Slots |-> FreeInstance]
            /\ lock' = None /\ pending' = None
            /\ spoilt' = {} /\ overtaken' = {} /\ abandoned' = FALSE
  BY DEF Crash
<1>2. TypeOK'
  <2>1. crashes' \in 0 .. MaxCrashes
    BY <1>1, ApiAssumption DEF IInv, TypeOK
  <2>2. FreeInstance \in Instance
    BY DEF FreeInstance, Instance
  <2>3. pool' \in [Slots -> Instance]
    BY <1>1, <2>2 DEF IInv, TypeOK, Instance
  <2>4. /\ pc' \in [Clients -> Calls \cup {"out", "idle", "freeing", "clearing", "inSequence",
                                     "inDecPicture", "inEncPicture"}]
        /\ handle' \in [Clients -> Slots \cup {None}]
    BY <1>1
  <2>5. /\ lock' \in Clients \cup {None, "gone"} /\ pending' \in Slots \cup {None}
        /\ told' \in [Slots -> SUBSET {"sequence", "frames"}]
        /\ spoilt' \subseteq Slots /\ overtaken' \subseteq Slots /\ abandoned' \in BOOLEAN
    BY <1>1 DEF IInv, TypeOK
  <2> QED
    BY <2>1, <2>3, <2>4, <2>5 DEF TypeOK, Instance
<1>3. HandleKnown' /\ Overtaking' /\ HandleWorks' /\ Told' /\ StillChecked'
  BY <1>1 DEF HandleKnown, Overtaking, HandleWorks, Told, StillChecked
<1>4. OneOwner'
  BY <1>1, NoneIsNoSlot DEF OneOwner, Holds
<1>5. CommandLocked' /\ PendingKnown'
  BY <1>1, ApiAssumption DEF IInv, CommandLocked, PendingKnown, InCommand
<1> QED
  BY <1>2, <1>3, <1>4, <1>5 DEF IInv
----------------------------------------------------------------------------
LEMMA CallKeeps ==
  ASSUME IInv, NEW c \in Clients, Call(c)
  PROVE  IInv'
<1>1. PICK op \in Calls : MayCall(c, op) /\ PcOnly(c, op) /\ pc[c] = "idle"
  BY DEF Call, PcOnly
<1>2. /\ op \in DecCalls \cup EncCalls => handle[c] # None
      /\ op \in Starts => Stride(c)
      /\ op \in RegisterCalls => Info(c)
  BY <1>1 DEF MayCall, Valid
<1> QED
  BY <1>1, <1>2, PcOnlyKeeps

(* Calls that change nothing. *)
LEMMA ReturnsKeeps ==
  ASSUME IInv, NEW c \in Clients, pc[c] \in Calls, Returns(c)
  PROVE  IInv'
BY PcOnlyKeeps DEF Returns, PcOnly

LEMMA StepKeeps ==
  ASSUME IInv, NEW c \in Clients, Step(c)
  PROVE  IInv'
<1>1. CASE VpuInit(c)
  BY <1>1, PcOnlyKeeps DEF VpuInit, Enters, PcOnly
<1>2. CASE VpuDeInit(c)
  BY <1>2, PcOnlyKeeps DEF VpuDeInit, Enters, PcOnly
<1>3. CASE Call(c)
  BY <1>3, CallKeeps
<1>4. CASE GivesUp(c)
  BY <1>4, GivesUpKeeps
<1>5. CASE PoolIsExhausted(c)
  BY <1>5, ReturnsKeeps DEF PoolIsExhausted, Enters
<1>6. CASE Fails(c)
  BY <1>6, ReturnsKeeps DEF Fails, Enters
<1>7. CASE GetVersionInfo(c) \/ DecFrameBufferFlush(c) \/ SetParaSet(c) \/ EncCommand(c)
  BY <1>7, ReturnsKeeps DEF GetVersionInfo, DecFrameBufferFlush, SetParaSet, EncCommand, Enters
<1>8. CASE DecOpen(c) \/ EncOpen(c)
  BY <1>8, OpensKeeps DEF DecOpen, EncOpen, Enters
<1>9. CASE DecClose(c) \/ EncClose(c)
  BY <1>9, ClosesKeeps
<1>10. CASE ClearsInUse(c)
  BY <1>10, ClearsInUseKeeps
<1>11. CASE ClearsMode(c)
  BY <1>11, ClearsModeKeeps
<1>12. CASE DecGetInitialInfo(c) \/ EncGetInitialInfo(c)
  BY <1>12, GetInitialInfoKeeps
<1>13. CASE DecIssueSeqInit(c) \/ DecStartOneFrame(c) \/ EncStartOneFrame(c)
  BY <1>13, IssuesKeeps DEF DecIssueSeqInit, DecStartOneFrame, EncStartOneFrame
<1>14. CASE DecRegisterFrameBuffer(c) \/ EncRegisterFrameBuffer(c)
  BY <1>14, RegistersKeeps
<1>15. CASE Finishes(c)
  BY <1>15, CompleteSeqInitKeeps, EndsCommandKeeps
     DEF Finishes, DecGetOutputInfo, EncGetOutputInfo, SWReset
<1>16. CASE ForgetsLock(c)
  BY <1>16, ForgetsLockKeeps
<1>17. CASE LosesPatience(c)
  BY <1>17, LosesPatienceKeeps
<1> QED
  BY <1>1, <1>2, <1>3, <1>4, <1>5, <1>6, <1>7, <1>8, <1>9, <1>10, <1>11, <1>12, <1>13, <1>14,
     <1>15, <1>16, <1>17 DEF Step

LEMMA NextKeeps == IInv /\ [Next]_vars => IInv'
<1> SUFFICES ASSUME IInv, [Next]_vars PROVE IInv'
  OBVIOUS
<1>1. CASE Crash
  BY <1>1, CrashKeeps
<1>2. ASSUME NEW c \in Clients, Step(c) PROVE IInv'
  BY <1>2, StepKeeps
<1>3. CASE UNCHANGED vars
  BY <1>3 DEF vars, IInv, TypeOK, HandleKnown, OneOwner, Holds, Overtaking, HandleWorks,
     CommandLocked, PendingKnown, Told, StillChecked, InCommand, Stride, Info
<1> QED
  BY <1>1, <1>2, <1>3 DEF Next

LEMMA Inductive == Spec => []IInv
BY InitHolds, NextKeeps, PTL DEF Spec

(* The variables keep their types, whatever fails. *)
THEOREM TypeCorrect == Spec => []TypeOK
<1>1. IInv => TypeOK
  BY DEF IInv
<1> QED
  BY <1>1, Inductive, PTL

(* GetCodecInstance never gives an instance to two clients, although the mark
   of one that is closed is taken away outside of the lock. *)
THEOREM InstancesHaveOneOwner == Spec => []OneOwner
<1>1. IInv => OneOwner
  BY DEF IInv
<1> QED
  BY <1>1, Inductive, PTL

(* A handle works until its owner closes it, but for an instance that was
   given out while it was still being cleared (FreeCodecInstance). *)
THEOREM HandlesWork == Spec => []HandleWorks
<1>1. IInv => HandleWorks
  BY DEF IInv
<1> QED
  BY <1>1, Inductive, PTL

(* A command on record is that of the client that holds the lock, whatever
   fails, whoever dies and whoever unlocks: only a memory access violation in
   SEQ_INIT leaves one behind. *)
THEOREM CommandsAreLocked == Spec => []PendingIsLocked
<1>1. ASSUME IInv PROVE PendingIsLocked
  <2>1. pending # None =>
          \/ lock \in Clients /\ InCommand(lock) /\ handle[lock] = pending
          \/ lock = "gone"
          \/ abandoned
    BY <1>1 DEF IInv, PendingKnown, CommandLocked
  <2>2. abandoned \/ pending = None => \A c \in Clients : ~InCommand(c)
    BY <1>1, OnlyInCommand
  <2> QED
    BY <2>1, <2>2 DEF PendingIsLocked
<1> QED
  BY <1>1, Inductive, PTL

(* A picture is begun only with frame buffers, and a sequence is ended or given
   frame buffers only when it was begun: what the calls check is true of what
   the VPU has been told. *)
THEOREM CommandsComeInOrder == Spec => CommandsInOrder
<1> DEFINE Ordered ==
      \A c \in Clients :
        /\ Begins(c) => "frames" \in told[handle[c]] \/ handle[c] \in spoilt
        /\ Ends(c) \/ GivesFrames(c) => "sequence" \in told[handle[c]]
<1>1. ASSUME IInv PROVE Ordered
  <2> SUFFICES ASSUME NEW c \in Clients
               PROVE  /\ Begins(c) => "frames" \in told[handle[c]] \/ handle[c] \in spoilt
                      /\ Ends(c) \/ GivesFrames(c) => "sequence" \in told[handle[c]]
    OBVIOUS
  <2>1. Begins(c) \/ Ends(c) \/ GivesFrames(c) =>
          /\ handle[c] # None
          /\ Stride(c) => "frames" \in told[handle[c]] \/ handle[c] \in spoilt
          /\ Info(c) => "sequence" \in told[handle[c]]
    BY <1>1 DEF IInv, HandleKnown, Told, Begins, Ends, GivesFrames
  <2>2. /\ Begins(c) => Stride(c)
        /\ Ends(c) \/ GivesFrames(c) => Info(c)
    BY <1>1 DEF IInv, StillChecked, Begins, Ends, GivesFrames
  <2> QED
    BY <2>1, <2>2
<1>2. IInv => [Ordered]_vars
  BY <1>1
<1> QED
  BY <1>2, Inductive, PTL DEF CommandsInOrder
=============================================================================
