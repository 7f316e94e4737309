----------------------------- MODULE PlayerProofs -----------------------------
(***************************************************************************)
(* Theorems about the player, for every set of urls, every set of requests *)
(* and every length of mpv's queue; and about the window and the burst     *)
(* screenshots over it, for every setting and every length of a burst.     *)
(***************************************************************************)
EXTENDS Window, SequenceTheorems, FiniteSetTheorems, TLAPS

(***************************************************************************)
(* Types.                                                                  *)
(***************************************************************************)

\* Taking an item out of a sequence leaves a sequence of the same items.
LEMMA RemoveAtType ==
  ASSUME NEW S, NEW s \in Seq(S), NEW i \in 1 .. Len(s)
  PROVE  RemoveAt(s, i) \in Seq(S)
<1>1. SubSeq(s, 1, i - 1) \in Seq(S)
  <2>1. \A j \in 1 .. i - 1 : s[j] \in S
    OBVIOUS
  <2>2. QED
    BY <2>1, SubSeqProperties
<1>2. SubSeq(s, i + 1, Len(s)) \in Seq(S)
  <2>1. \A j \in i + 1 .. Len(s) : s[j] \in S
    OBVIOUS
  <2>2. QED
    BY <2>1, SubSeqProperties
<1>3. QED
  BY <1>1, <1>2, ConcatProperties DEF RemoveAt

\* What playNext() and playPrev() decide is a decision.
LEMMA PlansType ==
  ASSUME PlaylistTypeOK, count > 0, NEW fromUser \in BOOLEAN, NEW idle \in BOOLEAN
  PROVE  /\ NextPlans(fromUser, idle) \subseteq Plans
         /\ PrevPlans(idle) \subseteq Plans
<1>1. count \in Nat
  BY DEF count, PlaylistTypeOK
<1>2. /\ last \in Nat \cup {-1}
      /\ current \in Nat \cup {-1}
      /\ \A i \in DOMAIN playOrder : playOrder[i] \in Nat
  BY DEF PlaylistTypeOK
<1>3. \A n \in Nat : PlayAfterEnd(n) \in Plans /\ PlayAtOnce(n) \in Plans
  BY DEF Plans, Play, PlayAfterEnd, PlayAtOnce
<1>4. /\ ClearAll \in Plans
      /\ StopEngine \in Plans
      /\ \A l \in Nat \cup {-1} : Ignore(l) \in Plans
  BY <1>2 DEF Plans, ClearAll, StopEngine, Ignore
<1>5. ReadPastOrder \subseteq Plans
  BY <1>1, <1>3 DEF ReadPastOrder
<1>6. \A i \in PlacesOfLast :
        /\ playOrder[IF i = Len(playOrder) THEN 1 ELSE i + 1] \in Nat
        /\ playOrder[IF i = 1 THEN Len(playOrder) ELSE i - 1] \in Nat
  BY DEF PlacesOfLast, PlaylistTypeOK
<1>7. /\ last + 1 \in Nat /\ last - 1 >= 0 => last - 1 \in Nat
      /\ FirstIfNone \in Nat
      /\ WrapAbove(last + 1) \in Nat /\ WrapBelow(last - 1) \in Nat
  BY <1>1, <1>2 DEF FirstIfNone, WrapAbove, WrapBelow
<1>8. NextPlans(fromUser, idle) \subseteq Plans
  BY <1>2, <1>3, <1>4, <1>5, <1>6, <1>7 DEF NextPlans
<1>9. PrevPlans(idle) \subseteq Plans
  BY <1>2, <1>3, <1>4, <1>5, <1>6, <1>7 DEF PrevPlans
<1>10. QED
  BY <1>8, <1>9

\* The parts of TypeOK that a handler changes together.
CoreTypeOK ==
  /\ core \in {"idle", "loading", "playing"}
  /\ file \in Urls \cup {None}
  /\ stopping \in BOOLEAN
  /\ nextFile \in Urls \cup {None}

ThreadTypeOK ==
  /\ thread \in {"loop", "poll"}
  /\ plan \in Plans
  /\ fault \in {"none", "noCurrent", "staleCurrent", "noItem"}

\* The two commands leave the core well typed.
LEMMA CommandsType ==
  ASSUME TypeOK
  PROVE  /\ \A url \in Urls : Loadfile(url) => CoreTypeOK'
         /\ StopCommand => CoreTypeOK'
BY DEF TypeOK, MpvTypeOK, CoreTypeOK, Loadfile, StopCommand, coreVars

\* Reading the current item comes to a fault or to none.
LEMMA FaultType ==
  \A list, i : ReadCurrentInfo(list, i) \in {"none", "noCurrent", "staleCurrent", "noItem"}
BY DEF ReadCurrentInfo

\* Carrying out a decision leaves everything well typed.
LEMMA FinishType ==
  ASSUME TypeOK, NEW p \in Plans, Finish(p)
  PROVE  PlaylistTypeOK' /\ CoreTypeOK' /\ ThreadTypeOK'
<1>1. NoPlan \in Plans /\ p.last \in Nat \cup {-1} /\ p.current \in Nat \cup {-1}
      /\ p.do \in {"play", "stop", "clear", "nothing"}
  BY DEF Plans, NoPlan
<1>2. current' = p.current /\ last' = p.last /\ thread' = "loop" /\ plan' = NoPlan
  BY DEF Finish
<1>3. CASE p.do = "play"
  <2>1. RequestPlay(p.current) /\ UNCHANGED listVars
    BY <1>3 DEF Finish
  <2>2. p.current \in Indices => Item(p.current) \in Urls
    BY <1>1 DEF Indices, Item, count, TypeOK, PlaylistTypeOK
  <2>3. CoreTypeOK' /\ fault' \in {"none", "noCurrent", "staleCurrent", "noItem"}
    BY <2>1, <2>2, CommandsType
       DEF RequestPlay, TypeOK, MpvTypeOK, CoreTypeOK, coreVars
  <2>4. QED
    BY <1>1, <1>2, <2>1, <2>3 DEF TypeOK, PlaylistTypeOK, ThreadTypeOK, listVars
<1>4. CASE p.do = "clear"
  <2>1. infos' = <<>> /\ StopCommand /\ UNCHANGED <<playMode, playOrder, fault>>
    BY <1>4 DEF Finish
  <2>2. QED
    BY <1>1, <1>2, <2>1, CommandsType DEF TypeOK, PlaylistTypeOK, ThreadTypeOK
<1>5. CASE p.do = "stop"
  <2>1. StopCommand /\ UNCHANGED <<listVars, fault>>
    BY <1>5 DEF Finish
  <2>2. QED
    BY <1>1, <1>2, <2>1, CommandsType DEF TypeOK, PlaylistTypeOK, ThreadTypeOK, listVars
<1>6. CASE p.do = "nothing"
  <2>1. UNCHANGED <<listVars, coreVars, fault>>
    BY <1>6 DEF Finish
  <2>2. QED
    BY <1>1, <1>2, <2>1
       DEF TypeOK, PlaylistTypeOK, MpvTypeOK, CoreTypeOK, ThreadTypeOK, listVars, coreVars
<1>7. QED
  BY <1>1, <1>3, <1>4, <1>5, <1>6

\* So does a request, whether it waits or not.
LEMMA RequestType ==
  ASSUME TypeOK, NEW p \in Plans, Request(p)
  PROVE  TypeOK'
<1>1. UNCHANGED <<state, pause, events, pauseChanged>>
  BY DEF Request
<1>2. PlaylistTypeOK' /\ CoreTypeOK' /\ ThreadTypeOK'
  <2>1. CASE p.wait /\ state # "Stopped"
    BY <2>1, CommandsType
       DEF Request, WaitLastEnd, TypeOK, PlaylistTypeOK, ThreadTypeOK, listVars
  <2>2. CASE ~(p.wait /\ state # "Stopped")
    BY <2>2, FinishType DEF Request
  <2>3. QED
    BY <2>1, <2>2
<1>3. QED
  BY <1>1, <1>2 DEF TypeOK, MpvTypeOK, CoreTypeOK, ThreadTypeOK

\* A shuffled order is a sequence of indices.
LEMMA ReshuffleType ==
  ASSUME NEW mode, NEW n \in Nat, playOrder \in Seq(Nat), Reshuffle(mode, n)
  PROVE  playOrder' \in Seq(Nat)
<1>1. Bijection(1 .. n, 0 .. n - 1) \subseteq Seq(Nat)
  BY DEF Bijection, Injection
<1>2. QED
  BY <1>1 DEF Reshuffle

\* The player starts well typed.
LEMMA TypeInit == Init => TypeOK
<1>1. SavedLists \subseteq Seq(Urls)
  BY DEF SavedLists, Injection
<1>2. NoPlan \in Plans
  BY DEF NoPlan, Plans
<1>3. ASSUME PlaylistInit
      PROVE  PlaylistTypeOK
  BY <1>1, <1>3 DEF PlaylistInit, PlaylistTypeOK, AllModes
<1>4. ASSUME MpvInit
      PROVE  MpvTypeOK
  <2>1. <<>> \in Seq(Events)
    OBVIOUS
  <2>2. QED
    BY <1>4, <2>1, Zenon DEF MpvInit, MpvTypeOK
<1>5. QED
  BY <1>2, <1>3, <1>4 DEF Init, TypeOK

\* Every request, every event and every step of mpv keeps the types.
LEMMA TypeStep == TypeOK /\ [Next]_vars => TypeOK'
<1> SUFFICES ASSUME TypeOK, [Next]_vars
             PROVE  TypeOK'
  OBVIOUS
<1> USE DEF TypeOK
<1>1. count \in Nat
  BY DEF count, PlaylistTypeOK
<1>2. CASE PlayNext \/ StartPlay
  <2>1. PICK p \in NextPlans(TRUE, Idle) : Request(p)
    BY <1>2 DEF PlayNext, StartPlay
  <2>2. p \in Plans
    BY <1>2, PlansType DEF PlayNext, StartPlay, Idle
  <2>3. QED
    BY <2>1, <2>2, RequestType
<1>3. CASE PlayPrev
  <2>1. PICK p \in PrevPlans(Idle) : Request(p)
    BY <1>3 DEF PlayPrev
  <2>2. p \in Plans
    BY <1>3, PlansType DEF PlayPrev, Idle
  <2>3. QED
    BY <2>1, <2>2, RequestType
<1>4. ASSUME NEW pos \in Indices, ChangeCurrent(pos)
      PROVE  TypeOK'
  <2>1. SelectPlan(pos) \in Plans
    BY <1>1 DEF SelectPlan, Play, Plans, Indices, PlaylistTypeOK
  <2>2. QED
    BY <1>4, <2>1, RequestType DEF ChangeCurrent
<1>5. ASSUME NEW pos \in Indices, RemoveItem(pos)
      PROVE  TypeOK'
  <2>1. /\ infos' = RemoveAt(infos, pos + 1)
        /\ Reshuffle(playMode, count - 1)
        /\ UNCHANGED <<playMode, state, pause, events, pauseChanged>>
    BY <1>5 DEF RemoveItem
  <2>2. infos' \in Seq(Urls) /\ count - 1 \in Nat
    BY <1>1, <2>1, RemoveAtType DEF PlaylistTypeOK, Indices, count
  <2>3. playOrder' \in Seq(Nat)
    BY <2>1, <2>2, ReshuffleType DEF PlaylistTypeOK
  <2>4. \A l \in Nat \cup {-1} : LastWithin(l, count - 1) \in Nat \cup {-1}
    BY DEF LastWithin
  <2>5. CASE Idle /\ last' = -1 /\ UNCHANGED <<current, coreVars, thread, plan, fault>>
    BY <2>1, <2>2, <2>3, <2>5 DEF PlaylistTypeOK, MpvTypeOK, coreVars
  <2>6. CASE /\ ~Idle /\ pos # current
             /\ current' = IndexAfterRemoval(current, pos)
             /\ last' = IF pos < current THEN LastWithin(current', count - 1) ELSE -1
             /\ fault' = IF count = 1 THEN fault ELSE ReadCurrentInfo(infos', current')
             /\ UNCHANGED <<coreVars, thread, plan>>
    <3>1. current' \in Nat \cup {-1}
      BY <2>6, <1>1 DEF IndexAfterRemoval, PlaylistTypeOK, Indices
    <3>2. last' \in Nat \cup {-1}
      BY <2>6, <2>4, <3>1
    <3>3. fault' \in {"none", "noCurrent", "staleCurrent", "noItem"}
      BY <2>6, FaultType
    <3>4. QED
      BY <2>1, <2>2, <2>3, <2>6, <3>1, <3>2, <3>3
         DEF PlaylistTypeOK, MpvTypeOK, coreVars
  <2>7. CASE /\ ~Idle /\ pos = current
             /\ current' = -1
             /\ last' = LastWithin(pos, count - 1)
             /\ WaitLastEnd([NoPlan EXCEPT !.last = last'])
             /\ UNCHANGED fault
    <3>1. last' \in Nat \cup {-1}
      BY <2>7, <2>4, <1>1 DEF Indices
    <3>2. [NoPlan EXCEPT !.last = last'] \in Plans
      BY <3>1 DEF NoPlan, Plans
    <3>3. CoreTypeOK' /\ ThreadTypeOK'
      BY <2>7, <3>2, CommandsType DEF WaitLastEnd, ThreadTypeOK
    <3>4. QED
      BY <2>1, <2>2, <2>3, <2>7, <3>1, <3>3
         DEF PlaylistTypeOK, MpvTypeOK, CoreTypeOK, ThreadTypeOK
  <2>8. QED
    BY <1>5, <2>5, <2>6, <2>7 DEF RemoveItem
<1>6. CASE Clear
  <2>1. ClearAll \in Plans
    BY DEF ClearAll, Plans
  <2>2. PlaylistTypeOK' /\ CoreTypeOK' /\ ThreadTypeOK'
    BY <1>6, <2>1, FinishType DEF Clear
  <2>3. QED
    BY <1>6, <2>2 DEF Clear, MpvTypeOK, CoreTypeOK, ThreadTypeOK
<1>7. ASSUME NEW url \in Urls, AddPlayFile(url)
      PROVE  TypeOK'
  <2>1. playOrder' \in Seq(Nat)
    BY <1>7, <1>1, ReshuffleType DEF AddPlayFile, AppendUrl, PlaylistTypeOK
  <2>2. QED
    BY <1>7, <2>1
       DEF AddPlayFile, AppendUrl, PlaylistTypeOK, MpvTypeOK, mpvVars, coreVars
<1>8. ASSUME NEW mode \in Modes, ChoosePlayMode(mode)
      PROVE  TypeOK'
  <2>1. playOrder' \in Seq(Nat)
    BY <1>8, <1>1, ReshuffleType DEF ChoosePlayMode, SetPlayMode, PlaylistTypeOK
  <2>2. mode \in AllModes
    BY ModesAssumption
  <2>3. QED
    BY <1>8, <2>1, <2>2
       DEF ChoosePlayMode, SetPlayMode, PlaylistTypeOK, MpvTypeOK, mpvVars, coreVars
<1>9. CASE PauseResume
  BY <1>9 DEF PauseResume, PlaylistTypeOK, MpvTypeOK, playlistVars, listVars, coreVars
<1>10. CASE OnFileLoaded
  <2>1. fault' \in {"none", "noCurrent", "staleCurrent", "noItem"}
    BY <1>10, FaultType DEF OnFileLoaded
  <2>2. QED
    BY <1>10, <2>1 DEF OnFileLoaded, NextEvent, PlaylistTypeOK, MpvTypeOK,
                       playlistVars, listVars, coreVars
<1>11. ASSUME NEW kind, OnEnd(kind)
       PROVE  TypeOK'
  <2>1. events' \in Seq(Events) /\ state' = "Stopped" /\ UNCHANGED <<pause, pauseChanged>>
    BY <1>11 DEF OnEnd, NextEvent, MpvTypeOK
  <2>2. CASE UNCHANGED <<playlistVars, coreVars, thread, plan, fault>>
    BY <2>1, <2>2 DEF PlaylistTypeOK, MpvTypeOK, playlistVars, listVars, coreVars
  <2>3. CASE AdvanceAfterEnd
    <3>1. CASE count = 0
      BY <2>1, <2>3, <3>1
         DEF AdvanceAfterEnd, PlaylistTypeOK, MpvTypeOK, listVars, coreVars
    <3>2. CASE count # 0
      <4>1. PICK p \in NextPlans(FALSE, TRUE) : Finish(p)
        BY <2>3, <3>2 DEF AdvanceAfterEnd
      <4>2. p \in Plans
        <5>1. count > 0
          BY <1>1, <3>2
        <5>2. NextPlans(FALSE, TRUE) \subseteq Plans
          BY <5>1, PlansType
        <5>3. QED
          BY <4>1, <5>2
      <4>3. PlaylistTypeOK' /\ CoreTypeOK' /\ ThreadTypeOK'
        BY <4>1, <4>2, FinishType
      <4>4. QED
        BY <2>1, <4>3 DEF MpvTypeOK, CoreTypeOK, ThreadTypeOK
    <3>3. QED
      BY <3>1, <3>2
  <2>4. QED
    BY <1>11, <2>2, <2>3 DEF OnEnd
<1>12. CASE OnPauseChanged
  <2>1. /\ state' \in {"Stopped", "Playing", "Paused"}
        /\ fault' \in {"none", "noCurrent", "staleCurrent", "noItem"}
        /\ pause' \in BOOLEAN /\ pauseChanged' \in BOOLEAN
    BY <1>12, FaultType DEF OnPauseChanged, SetState, MpvTypeOK
  <2>2. QED
    BY <1>12, <2>1 DEF OnPauseChanged, PlaylistTypeOK, MpvTypeOK,
                       playlistVars, listVars, coreVars
<1>13. CASE PollDropsEvent
  <2>1. events' \in Seq(Events) /\ pauseChanged' \in BOOLEAN
    <3>1. CASE events # <<>> /\ events' = Tail(events) /\ UNCHANGED pauseChanged
      BY <3>1, HeadTailProperties DEF MpvTypeOK
    <3>2. CASE pauseChanged' = FALSE /\ UNCHANGED events
      BY <3>2 DEF MpvTypeOK
    <3>3. QED
      BY <1>13, <3>1, <3>2 DEF PollDropsEvent
  <2>2. UNCHANGED <<playlistVars, coreVars, pause, state, thread, plan, fault>>
    BY <1>13 DEF PollDropsEvent
  <2>3. QED
    BY <2>1, <2>2 DEF PlaylistTypeOK, MpvTypeOK, playlistVars, listVars, coreVars
<1>14. CASE PollMeetsEnd
  <2>1. PlaylistTypeOK' /\ CoreTypeOK' /\ ThreadTypeOK'
    BY <1>14, FinishType DEF PollMeetsEnd
  <2>2. QED
    BY <1>14, <2>1 DEF PollMeetsEnd, NextEvent, MpvTypeOK, CoreTypeOK, ThreadTypeOK
<1>15. CASE MpvStep
  <2>1. ASSUME CoreFileLoaded
        PROVE  MpvTypeOK'
    BY <2>1 DEF CoreFileLoaded, MpvTypeOK, Events
  <2>2. ASSUME EndOfFile
        PROVE  MpvTypeOK'
    <3>1. events' \in Seq(Events)
      <4>1. <<"end", "idle">> \in Seq(Events) /\ <<"end">> \in Seq(Events)
        BY DEF Events
      <4>2. QED
        BY <2>2, <4>1, ConcatProperties DEF EndOfFile, MpvTypeOK
    <3>2. QED
      BY <2>2, <3>1 DEF EndOfFile, MpvTypeOK
  <2>3. MpvTypeOK'
    BY <1>15, <2>1, <2>2
       DEF MpvStep, MpvNext, CoreLoadFailed, CorePlayedToEnd, CoreStopped
  <2>4. QED
    BY <1>15, <2>3 DEF MpvStep, PlaylistTypeOK, playlistVars, listVars
<1>16. CASE UNCHANGED vars
  BY <1>16 DEF vars, PlaylistTypeOK, MpvTypeOK, playlistVars, listVars, mpvVars, coreVars
<1>17. QED
  BY <1>2, <1>3, <1>4, <1>5, <1>6, <1>7, <1>8, <1>9, <1>10, <1>11, <1>12, <1>13,
     <1>14, <1>15, <1>16 DEF Next, User, Handler

\* Every variable of the player keeps its type; in particular no sequence of
\* requests and events makes _current or _last less than -1.
THEOREM TypeCorrect == Spec => []TypeOK
<1>1. Init => TypeOK
  BY TypeInit
<1>2. TypeOK /\ [Next]_vars => TypeOK'
  BY TypeStep
<1>3. QED
  BY <1>1, <1>2, PTL DEF Spec

(***************************************************************************)
(* The end that the program polls for will come.                           *)
(*                                                                         *)
(* EndWillCome alone is not inductive: the event that makes the program    *)
(* believe that something plays may be read long after it was queued, and  *)
(* the end must still be behind it.                                        *)
(***************************************************************************)

\* Behind every file reported as loaded comes its end, unless the core has a file.
LoadedIsEnded ==
  \A i \in DOMAIN events : events[i] = "loaded" =>
    core # "idle" \/ \E j \in DOMAIN events : j > i /\ events[j] = "end"

EndInv ==
  /\ LoadedIsEnded
  /\ EndWillCome

\* The commands never make the core idle.
LEMMA CommandsKeepBusy ==
  ASSUME core # "idle"
  PROVE  /\ \A url : Loadfile(url) => core' # "idle"
         /\ StopCommand => core' # "idle"
BY DEF Loadfile, StopCommand, coreVars

\* Nor does carrying out a decision.
LEMMA FinishKeepsBusy ==
  ASSUME core # "idle", NEW p, Finish(p)
  PROVE  core' # "idle"
<1>1. CASE p.do = "play"
  BY <1>1, CommandsKeepBusy DEF Finish, RequestPlay, coreVars
<1>2. CASE p.do = "clear"
  BY <1>2, CommandsKeepBusy DEF Finish
<1>3. CASE p.do = "stop"
  BY <1>3, CommandsKeepBusy DEF Finish
<1>4. CASE p.do \notin {"play", "clear", "stop"}
  BY <1>4 DEF Finish, coreVars
<1>5. QED
  BY <1>1, <1>2, <1>3, <1>4

\* A step that reads no event, leaves the state and does not make the core idle
\* preserves the invariant.
LEMMA EndInvQuiet ==
  ASSUME EndInv, UNCHANGED <<events, state>>, core # "idle" => core' # "idle"
  PROVE  EndInv'
BY DEF EndInv, EndWillCome, EndIsDue, LoadedIsEnded

\* Reading the first event keeps what is said of those behind it.
LEMMA EndInvRead ==
  ASSUME TypeOK, LoadedIsEnded, events # <<>>, events' = Tail(events),
         core # "idle" => core' # "idle"
  PROVE  /\ LoadedIsEnded'
         /\ Head(events) = "loaded" => EndIsDue'
         /\ Head(events) # "end" /\ EndIsDue => EndIsDue'
<1>1. events \in Seq(Events)
  BY DEF TypeOK, MpvTypeOK
<1>2. /\ Len(events') = Len(events) - 1
      /\ DOMAIN events' = 1 .. Len(events) - 1
      /\ \A i \in 1 .. Len(events) - 1 : events'[i] = events[i + 1]
      /\ Head(events) = events[1] /\ Len(events) >= 1
  BY <1>1, HeadTailProperties
<1>3. \A j \in DOMAIN events : j > 1 => j - 1 \in DOMAIN events' /\ events'[j - 1] = events[j]
  BY <1>1, <1>2
<1>4. LoadedIsEnded'
  <2> SUFFICES ASSUME NEW i \in DOMAIN events', events'[i] = "loaded", core' = "idle"
               PROVE  \E j \in DOMAIN events' : j > i /\ events'[j] = "end"
    BY DEF LoadedIsEnded
  <2>1. i + 1 \in DOMAIN events /\ events[i + 1] = "loaded"
    BY <1>1, <1>2
  <2>2. PICK j \in DOMAIN events : j > i + 1 /\ events[j] = "end"
    BY <2>1 DEF LoadedIsEnded
  <2>3. j - 1 \in DOMAIN events' /\ events'[j - 1] = "end"
    BY <1>2, <1>3, <2>2
  <2>4. j - 1 > i
    BY <1>1, <1>2, <2>2
  <2>5. QED
    BY <2>3, <2>4
<1>5. ASSUME Head(events) = "loaded"
      PROVE  EndIsDue'
  <2>1. core # "idle" \/ \E j \in DOMAIN events : j > 1 /\ events[j] = "end"
    BY <1>1, <1>2, <1>5 DEF LoadedIsEnded
  <2>2. QED
    BY <1>3, <2>1 DEF EndIsDue
<1>6. ASSUME Head(events) # "end", EndIsDue
      PROVE  EndIsDue'
  <2>1. CASE core # "idle"
    BY <2>1 DEF EndIsDue
  <2>2. CASE \E j \in DOMAIN events : events[j] = "end"
    <3>1. PICK j \in DOMAIN events : events[j] = "end"
      BY <2>2
    <3>2. j > 1
      BY <1>1, <1>2, <1>6, <3>1
    <3>3. QED
      BY <1>3, <3>1, <3>2 DEF EndIsDue
  <2>3. QED
    BY <1>6, <2>1, <2>2 DEF EndIsDue
<1>7. QED
  BY <1>4, <1>5, <1>6

\* A queue that grows by an end satisfies the invariant.
LEMMA EndInvEnded ==
  ASSUME TypeOK, EndOfFile
  PROVE  LoadedIsEnded' /\ EndIsDue'
<1> DEFINE new == IF nextFile = None THEN <<"end", "idle">> ELSE <<"end">>
<1>1. events \in Seq(Events) /\ new \in Seq(Events) /\ events' = events \o new
  <2>1. <<"end", "idle">> \in Seq(Events) /\ <<"end">> \in Seq(Events)
    BY DEF Events
  <2>2. QED
    BY <2>1 DEF TypeOK, MpvTypeOK, EndOfFile
<1>2. Len(new) >= 1 /\ new[1] = "end" /\ \A i \in 1 .. Len(new) : new[i] # "loaded"
  OBVIOUS
<1> HIDE DEF new
<1>3. /\ Len(events') = Len(events) + Len(new)
      /\ \A i \in 1 .. Len(events) + Len(new) :
           events'[i] = IF i <= Len(events) THEN events[i] ELSE new[i - Len(events)]
  BY <1>1, ConcatProperties
<1>4. DOMAIN events' = 1 .. Len(events) + Len(new)
  BY <1>1, <1>3, ConcatProperties
<1> DEFINE last1 == Len(events) + 1
<1>5. last1 \in DOMAIN events' /\ events'[last1] = "end"
  BY <1>1, <1>2, <1>3, <1>4
<1>6. \A i \in DOMAIN events' : events'[i] = "loaded" => i < last1
  BY <1>1, <1>2, <1>3, <1>4
<1>7. QED
  BY <1>5, <1>6 DEF LoadedIsEnded, EndIsDue

\* Every step preserves the invariant.
LEMMA EndInvStep == TypeOK /\ EndInv /\ [Next]_vars => EndInv'
<1> SUFFICES ASSUME TypeOK, EndInv, [Next]_vars
             PROVE  EndInv'
  OBVIOUS
<1>1. ASSUME NEW p, Request(p)
      PROVE  EndInv'
  <2>1. core # "idle" => core' # "idle"
    BY <1>1, CommandsKeepBusy, FinishKeepsBusy DEF Request, WaitLastEnd
  <2>2. QED
    BY <1>1, <2>1, EndInvQuiet DEF Request
<1>2. CASE PlayNext \/ PlayPrev \/ StartPlay \/ \E pos \in Indices : ChangeCurrent(pos)
  BY <1>1, <1>2 DEF PlayNext, PlayPrev, StartPlay, ChangeCurrent
<1>3. ASSUME NEW pos \in Indices, RemoveItem(pos)
      PROVE  EndInv'
  <2>1. core # "idle" => core' # "idle"
    BY <1>3, CommandsKeepBusy DEF RemoveItem, WaitLastEnd, coreVars
  <2>2. QED
    BY <1>3, <2>1, EndInvQuiet DEF RemoveItem
<1>4. CASE Clear
  BY <1>4, FinishKeepsBusy, EndInvQuiet DEF Clear
<1>5. ASSUME NEW url \in Urls, AddPlayFile(url)
      PROVE  EndInv'
  BY <1>5, EndInvQuiet DEF AddPlayFile, mpvVars, coreVars
<1>6. ASSUME NEW mode \in Modes, ChoosePlayMode(mode)
      PROVE  EndInv'
  BY <1>6, EndInvQuiet DEF ChoosePlayMode, mpvVars, coreVars
<1>7. CASE PauseResume
  BY <1>7, EndInvQuiet DEF PauseResume, coreVars
<1>8. CASE OnFileLoaded
  <2>1. LoadedIsEnded' /\ EndIsDue'
    BY <1>8, EndInvRead DEF EndInv, OnFileLoaded, NextEvent, coreVars
  <2>2. QED
    BY <2>1 DEF EndInv, EndWillCome
<1>9. ASSUME NEW kind, OnEnd(kind)
      PROVE  EndInv'
  <2>1. core # "idle" => core' # "idle"
    BY <1>9, FinishKeepsBusy DEF OnEnd, AdvanceAfterEnd, coreVars
  <2>2. LoadedIsEnded'
    BY <1>9, <2>1, EndInvRead DEF EndInv, OnEnd, NextEvent
  <2>3. QED
    BY <1>9, <2>2 DEF EndInv, EndWillCome, OnEnd
<1>10. CASE OnPauseChanged
  <2>1. UNCHANGED <<core, events>>
    BY <1>10 DEF OnPauseChanged, coreVars
  <2>2. LoadedIsEnded'
    BY <2>1 DEF EndInv, LoadedIsEnded
  <2>3. state' # "Stopped" => state # "Stopped" \/ core # "idle"
    BY <1>10 DEF OnPauseChanged, SetState, IdlePaused, MayResume
  <2>4. QED
    BY <2>1, <2>2, <2>3 DEF EndInv, EndWillCome, EndIsDue
<1>11. CASE PollDropsEvent
  <2>1. CASE events # <<>> /\ Head(events) # "end" /\ events' = Tail(events)
    <3>1. UNCHANGED <<core, state>>
      BY <1>11 DEF PollDropsEvent, coreVars
    <3>2. QED
      BY <2>1, <3>1, EndInvRead DEF EndInv, EndWillCome
  <2>2. CASE UNCHANGED events
    BY <1>11, <2>2, EndInvQuiet DEF PollDropsEvent, coreVars
  <2>3. QED
    BY <1>11, <2>1, <2>2 DEF PollDropsEvent
<1>12. CASE PollMeetsEnd
  <2>1. core # "idle" => core' # "idle"
    BY <1>12, FinishKeepsBusy DEF PollMeetsEnd
  <2>2. LoadedIsEnded'
    BY <1>12, <2>1, EndInvRead DEF EndInv, PollMeetsEnd, NextEvent
  <2>3. QED
    BY <1>12, <2>2 DEF EndInv, EndWillCome, PollMeetsEnd
<1>13. CASE MpvStep
  <2>1. CASE EndOfFile
    BY <2>1, EndInvEnded DEF EndInv, EndWillCome
  <2>2. CASE CoreFileLoaded
    <3>1. core' = "playing"
      BY <2>2 DEF CoreFileLoaded
    <3>2. QED
      BY <3>1 DEF EndInv, EndWillCome, EndIsDue, LoadedIsEnded
  <2>3. QED
    BY <1>13, <2>1, <2>2
       DEF MpvStep, MpvNext, CoreLoadFailed, CorePlayedToEnd, CoreStopped
<1>14. CASE UNCHANGED vars
  BY <1>14, EndInvQuiet DEF vars, mpvVars, coreVars
<1>15. QED
  BY <1>2, <1>3, <1>4, <1>5, <1>6, <1>7, <1>8, <1>9, <1>10, <1>11, <1>12, <1>13,
     <1>14 DEF Next, User, Handler

\* Whatever the user does and whenever mpv answers, as long as the program
\* believes that something plays an end is still to be read: the loop of
\* pollingEndOfPlayback() is never entered in vain.
THEOREM EndAlwaysComes == Spec => []EndWillCome
<1>1. Init => EndInv
  BY DEF Init, MpvInit, EndInv, EndWillCome, LoadedIsEnded
<1>2. TypeOK /\ EndInv /\ [Next]_vars => EndInv'
  BY EndInvStep
<1>3. EndInv => EndWillCome
  BY DEF EndInv
<1>4. QED
  BY <1>1, <1>2, <1>3, TypeCorrect, PTL DEF Spec

(***************************************************************************)
(* The shuffled order is one of the present list.                          *)
(***************************************************************************)

\* A sequence without one of its items is shorter by one.
LEMMA RemoveAtLen ==
  ASSUME NEW S, NEW s \in Seq(S), NEW i \in 1 .. Len(s)
  PROVE  Len(RemoveAt(s, i)) = Len(s) - 1
<1> DEFINE before == SubSeq(s, 1, i - 1)
           behind == SubSeq(s, i + 1, Len(s))
<1>1. before \in Seq(S) /\ Len(before) = i - 1
  <2>1. \A j \in 1 .. i - 1 : s[j] \in S
    OBVIOUS
  <2>2. QED
    BY <2>1, SubSeqProperties
<1>2. behind \in Seq(S) /\ Len(behind) = Len(s) - i
  <2>1. \A j \in i + 1 .. Len(s) : s[j] \in S
    OBVIOUS
  <2>2. QED
    BY <2>1, SubSeqProperties
<1>3. RemoveAt(s, i) = before \o behind
  BY DEF RemoveAt
<1> HIDE DEF before, behind
<1>4. Len(before \o behind) = Len(before) + Len(behind)
  BY <1>1, <1>2, ConcatProperties
<1>5. QED
  BY <1>1, <1>2, <1>3, <1>4

\* reshuffle(), called with the length of the new list, makes an order of it.
LEMMA ReshuffleFits ==
  ASSUME NEW mode, NEW n \in Nat, playMode' = mode, count' = n, Reshuffle(mode, n)
  PROVE  ShuffleOrderFitsList'
<1>1. CASE mode # "ShufflePlay" \/ n = 0
  BY <1>1 DEF ShuffleOrderFitsList
<1>2. CASE mode = "ShufflePlay" /\ n # 0
  <2>1. playOrder' \in Bijection(1 .. n, 0 .. n - 1)
    BY <1>2 DEF Reshuffle
  <2>2. QED
    BY <2>1 DEF ShuffleOrderFitsList, Indices
<1>3. QED
  BY <1>1, <1>2

\* A step that leaves list, mode and order alone leaves the order fitting.
LEMMA OrderKept ==
  ASSUME ShuffleOrderFitsList, UNCHANGED listVars
  PROVE  ShuffleOrderFitsList'
BY DEF ShuffleOrderFitsList, listVars, count, Indices

\* Carrying out a decision leaves list and order alone, or empties the list.
LEMMA FinishFits ==
  ASSUME ShuffleOrderFitsList, NEW p, Finish(p)
  PROVE  ShuffleOrderFitsList'
<1>1. CASE p.do = "clear"
  <2>1. infos' = <<>>
    BY <1>1 DEF Finish
  <2>2. count' = 0
    BY <2>1 DEF count
  <2>3. QED
    BY <2>2 DEF ShuffleOrderFitsList
<1>2. CASE p.do # "clear"
  <2>1. UNCHANGED listVars
    BY <1>2 DEF Finish
  <2>2. QED
    BY <2>1, OrderKept
<1>3. QED
  BY <1>1, <1>2

\* So does a request, whether it waits or not.
LEMMA RequestFits ==
  ASSUME ShuffleOrderFitsList, NEW p, Request(p)
  PROVE  ShuffleOrderFitsList'
<1>1. CASE p.wait /\ state # "Stopped"
  BY <1>1, OrderKept DEF Request
<1>2. CASE ~(p.wait /\ state # "Stopped")
  BY <1>2, FinishFits DEF Request
<1>3. QED
  BY <1>1, <1>2

\* Every operation that changes the list or the mode reshuffles for the new ones.
LEMMA OrderStep ==
  TypeOK /\ ShuffleOrderFitsList /\ [Next]_vars => ShuffleOrderFitsList'
<1> SUFFICES ASSUME TypeOK, ShuffleOrderFitsList, [Next]_vars
             PROVE  ShuffleOrderFitsList'
  OBVIOUS
<1>1. infos \in Seq(Urls) /\ count \in Nat
  BY DEF TypeOK, PlaylistTypeOK, count
<1>2. CASE PlayNext \/ PlayPrev \/ StartPlay
  BY <1>2, RequestFits DEF PlayNext, PlayPrev, StartPlay
<1>3. ASSUME NEW pos \in Indices, ChangeCurrent(pos)
      PROVE  ShuffleOrderFitsList'
  BY <1>3, RequestFits DEF ChangeCurrent
<1>4. ASSUME NEW pos \in Indices, RemoveItem(pos)
      PROVE  ShuffleOrderFitsList'
  <2>1. /\ infos' = RemoveAt(infos, pos + 1)
        /\ Reshuffle(playMode, count - 1)
        /\ playMode' = playMode
    BY <1>4 DEF RemoveItem
  <2>2. pos + 1 \in 1 .. Len(infos) /\ count - 1 \in Nat
    BY <1>1 DEF Indices, count
  <2>3. count' = count - 1
    BY <1>1, <2>1, <2>2, RemoveAtLen DEF count
  <2>4. QED
    BY <2>1, <2>2, <2>3, ReshuffleFits
<1>5. CASE Clear
  BY <1>5, FinishFits DEF Clear
<1>6. ASSUME NEW url \in Urls, AddPlayFile(url)
      PROVE  ShuffleOrderFitsList'
  <2>1. /\ infos' = Append(infos, url)
        /\ Reshuffle(playMode, count + 1)
        /\ playMode' = playMode
    BY <1>6 DEF AddPlayFile, AppendUrl
  <2>2. count' = count + 1
    BY <1>1, <2>1 DEF count
  <2>3. QED
    BY <1>1, <2>1, <2>2, ReshuffleFits
<1>7. ASSUME NEW mode \in Modes, ChoosePlayMode(mode)
      PROVE  ShuffleOrderFitsList'
  <2>1. playMode' = mode /\ Reshuffle(mode, count) /\ infos' = infos
    BY <1>7 DEF ChoosePlayMode, SetPlayMode
  <2>2. count' = count
    BY <2>1 DEF count
  <2>3. QED
    BY <1>1, <2>1, <2>2, ReshuffleFits
<1>8. CASE PauseResume \/ OnFileLoaded \/ OnPauseChanged \/ PollDropsEvent \/ MpvStep
  BY <1>8, OrderKept
     DEF PauseResume, OnFileLoaded, OnPauseChanged, PollDropsEvent, MpvStep, playlistVars
<1>9. ASSUME NEW kind, OnEnd(kind)
      PROVE  ShuffleOrderFitsList'
  <2>1. CASE AdvanceAfterEnd
    BY <2>1, OrderKept, FinishFits DEF AdvanceAfterEnd
  <2>2. CASE UNCHANGED playlistVars
    BY <2>2, OrderKept DEF playlistVars
  <2>3. QED
    BY <1>9, <2>1, <2>2 DEF OnEnd
<1>10. CASE PollMeetsEnd
  BY <1>10, FinishFits DEF PollMeetsEnd
<1>11. CASE UNCHANGED vars
  BY <1>11, OrderKept DEF vars, playlistVars
<1>12. QED
  BY <1>2, <1>3, <1>4, <1>5, <1>6, <1>7, <1>8, <1>9, <1>10, <1>11 DEF Next, User, Handler

\* In shuffle mode _playOrder is always an order of the present list: whatever was
\* appended or removed, and in whatever mode, playNext() and playPrev() that find
\* _last in it come to an item that exists.
THEOREM OrderAlwaysFits == Spec => []ShuffleOrderFitsList
<1>1. Init => ShuffleOrderFitsList
  BY DEF Init, PlaylistInit, ShuffleOrderFitsList
<1>2. QED
  BY <1>1, OrderStep, TypeCorrect, PTL DEF Spec

(***************************************************************************)
(* Once everything is reported, the state is mpv's.                        *)
(*                                                                         *)
(* The state is only right in the end, so the invariant says what must     *)
(* still be on its way while it is wrong: the news of the file that plays  *)
(* is the last in the queue, and the news of a pause is not lost before    *)
(* it.  The events that the poll drops are harmless because the poll is    *)
(* left in state Stopped, and what was begun since is reported behind.     *)
(***************************************************************************)

\* A file that plays was reported, or its report is the last event.
PlayingIsTold ==
  core = "playing" /\ ~stopping =>
    IF events = <<>> THEN state # "Stopped" ELSE events[Len(events)] = "loaded"

\* The program polls only while it believes that something plays.
PollsPlaying == thread = "poll" => state # "Stopped"

\* mpv reports its property again after each beginning of a file.
LoadedIsAnnounced == \A i \in DOMAIN events : events[i] = "loaded" => pauseChanged

\* While no change is to be reported, Playing and Paused are what "pause" says.
PauseIsTold ==
  thread = "loop" /\ state # "Stopped" /\ ~pauseChanged =>
    state = IF pause THEN "Paused" ELSE "Playing"

ToldInv == PlayingIsTold /\ PollsPlaying /\ LoadedIsAnnounced /\ PauseIsTold

\* No command makes a file play that did not.
NothingBegins == core' = "playing" /\ ~stopping' => core = "playing" /\ ~stopping

LEMMA CommandsBeginNothing ==
  ASSUME TypeOK
  PROVE  /\ \A url : Loadfile(url) => NothingBegins
         /\ StopCommand => NothingBegins
BY DEF Loadfile, StopCommand, coreVars, NothingBegins, TypeOK, MpvTypeOK

\* Nor does carrying out a decision.
LEMMA FinishBeginsNothing ==
  ASSUME TypeOK, NEW p, Finish(p)
  PROVE  NothingBegins /\ thread' = "loop"
<1>1. UNCHANGED coreVars => NothingBegins
  BY DEF coreVars, NothingBegins
<1>2. CASE p.do = "play"
  BY <1>1, <1>2, CommandsBeginNothing DEF Finish, RequestPlay
<1>3. CASE p.do = "clear"
  BY <1>3, CommandsBeginNothing DEF Finish
<1>4. CASE p.do = "stop"
  BY <1>4, CommandsBeginNothing DEF Finish
<1>5. CASE p.do \notin {"play", "clear", "stop"}
  BY <1>1, <1>5 DEF Finish
<1>6. QED
  BY <1>2, <1>3, <1>4, <1>5 DEF Finish

\* A step that reads and reports nothing keeps the invariant.
LEMMA ToldQuiet ==
  ASSUME ToldInv, NothingBegins, UNCHANGED <<events, state, pause, pauseChanged>>,
         thread' = "loop" => thread = "loop",
         thread' = "poll" => thread = "poll" \/ state # "Stopped"
  PROVE  ToldInv'
BY DEF ToldInv, PlayingIsTold, PollsPlaying, LoadedIsAnnounced, PauseIsTold, NothingBegins

\* A request begins nothing, and polls only when something plays.
LEMMA ToldRequest ==
  ASSUME TypeOK, ToldInv, thread = "loop", NEW p, Request(p)
  PROVE  ToldInv'
<1>1. UNCHANGED <<events, state, pause, pauseChanged>>
  BY DEF Request
<1>2. CASE p.wait /\ state # "Stopped"
  <2>1. NothingBegins
    BY <1>2, CommandsBeginNothing DEF Request, WaitLastEnd
  <2>2. QED
    BY <1>1, <1>2, <2>1, ToldQuiet
<1>3. CASE ~(p.wait /\ state # "Stopped")
  <2>1. NothingBegins /\ thread' = "loop"
    BY <1>3, FinishBeginsNothing DEF Request
  <2>2. QED
    BY <1>1, <2>1, ToldQuiet
<1>4. QED
  BY <1>2, <1>3

\* Reading an event keeps what is said of those behind it, if the report of a
\* file is not taken for nothing.
LEMMA ToldRead ==
  ASSUME TypeOK, PlayingIsTold, LoadedIsAnnounced, NothingBegins,
         events # <<>>, events' = Tail(events), UNCHANGED pauseChanged,
         Head(events) = "loaded" => state' # "Stopped"
  PROVE  PlayingIsTold' /\ LoadedIsAnnounced'
<1>1. events \in Seq(Events)
  BY DEF TypeOK, MpvTypeOK
<1>2. /\ Len(events') = Len(events) - 1
      /\ DOMAIN events' = 1 .. Len(events) - 1
      /\ \A i \in 1 .. Len(events) - 1 : events'[i] = events[i + 1]
      /\ Head(events) = events[1] /\ Len(events) >= 1 /\ Len(events) \in Nat
  BY <1>1, HeadTailProperties
<1>3. LoadedIsAnnounced'
  BY <1>1, <1>2 DEF LoadedIsAnnounced
<1>4. CASE Len(events) = 1
  <2>1. events' = <<>> /\ Head(events) = events[Len(events)]
    BY <1>1, <1>2, <1>4
  <2>2. QED
    BY <1>3, <2>1 DEF PlayingIsTold, NothingBegins
<1>5. CASE Len(events) > 1
  <2>1. Len(events') \in 1 .. Len(events) - 1 /\ Len(events') + 1 = Len(events)
    BY <1>2, <1>5
  <2>2. events' # <<>>
    BY <2>1
  <2>3. events'[Len(events')] = events[Len(events') + 1]
    BY <1>2, <2>1
  <2>4. QED
    BY <1>3, <2>1, <2>2, <2>3 DEF PlayingIsTold, NothingBegins
<1>6. QED
  BY <1>2, <1>4, <1>5

\* Every step keeps the invariant.
LEMMA ToldStep == TypeOK /\ ToldInv /\ [Next]_vars => ToldInv'
<1> SUFFICES ASSUME TypeOK, ToldInv, [Next]_vars
             PROVE  ToldInv'
  OBVIOUS
<1> USE DEF InLoop, UserMay
<1>1. UNCHANGED coreVars => NothingBegins
  BY DEF coreVars, NothingBegins
<1>2. CASE PlayNext \/ PlayPrev \/ StartPlay
  BY <1>2, ToldRequest DEF PlayNext, PlayPrev, StartPlay
<1>3. ASSUME NEW pos \in Indices, ChangeCurrent(pos)
      PROVE  ToldInv'
  BY <1>3, ToldRequest DEF ChangeCurrent
<1>4. ASSUME NEW pos \in Indices, RemoveItem(pos)
      PROVE  ToldInv'
  <2>1. UNCHANGED <<state, pause, events, pauseChanged>> /\ thread = "loop"
    BY <1>4 DEF RemoveItem
  <2>2. CASE UNCHANGED <<coreVars, thread>>
    BY <1>1, <2>1, <2>2, ToldQuiet
  <2>3. CASE ~Idle /\ WaitLastEnd([NoPlan EXCEPT !.last = last'])
    <3>1. NothingBegins /\ thread' = "poll" /\ state # "Stopped"
      BY <2>3, CommandsBeginNothing DEF WaitLastEnd, Idle
    <3>2. QED
      BY <2>1, <3>1, ToldQuiet
  <2>4. QED
    BY <1>4, <2>2, <2>3 DEF RemoveItem
<1>5. CASE Clear
  <2>1. NothingBegins /\ thread' = "loop"
    BY <1>5, FinishBeginsNothing DEF Clear
  <2>2. QED
    BY <1>5, <2>1, ToldQuiet DEF Clear
<1>6. CASE (\E url \in Urls : AddPlayFile(url)) \/ (\E mode \in Modes : ChoosePlayMode(mode))
  <2>1. UNCHANGED <<mpvVars, state, thread>>
    BY <1>6 DEF AddPlayFile, ChoosePlayMode
  <2>2. QED
    BY <1>1, <2>1, ToldQuiet DEF mpvVars
<1>7. CASE PauseResume
  <2>1. /\ pause' = (state # "Paused")
        /\ pauseChanged' = (pauseChanged \/ pause' # pause)
        /\ UNCHANGED <<coreVars, events, state, thread>>
        /\ thread = "loop" /\ state # "Stopped"
    BY <1>7 DEF PauseResume, Idle
  <2>2. LoadedIsAnnounced' /\ PlayingIsTold' /\ PollsPlaying'
    BY <2>1 DEF ToldInv, LoadedIsAnnounced, PlayingIsTold, PollsPlaying, coreVars
  <2>3. PauseIsTold'
    BY <2>1 DEF ToldInv, PauseIsTold, TypeOK, MpvTypeOK
  <2>4. QED
    BY <2>2, <2>3 DEF ToldInv
<1>8. CASE OnFileLoaded
  <2>1. /\ thread = "loop" /\ thread' = "loop" /\ state' = "Playing"
        /\ UNCHANGED <<coreVars, pause, pauseChanged>>
        /\ events # <<>> /\ Head(events) = "loaded" /\ events' = Tail(events)
    BY <1>8 DEF OnFileLoaded, NextEvent
  <2>2. PlayingIsTold' /\ LoadedIsAnnounced'
    BY <1>1, <2>1, ToldRead DEF ToldInv
  <2>3. pauseChanged
    <3>1. 1 \in DOMAIN events /\ events[1] = "loaded"
      BY <2>1 DEF TypeOK, MpvTypeOK
    <3>2. QED
      BY <3>1 DEF ToldInv, LoadedIsAnnounced
  <2>4. QED
    BY <2>1, <2>2, <2>3 DEF ToldInv, PollsPlaying, PauseIsTold
<1>9. ASSUME NEW kind \in {"end", "idle"}, OnEnd(kind)
      PROVE  ToldInv'
  <2>1. /\ events # <<>> /\ Head(events) # "loaded" /\ events' = Tail(events)
        /\ state' = "Stopped" /\ UNCHANGED <<pause, pauseChanged>> /\ thread = "loop"
    BY <1>9 DEF OnEnd, NextEvent
  <2>2. NothingBegins /\ thread' = "loop"
    BY <1>1, <1>9, <2>1, FinishBeginsNothing DEF OnEnd, AdvanceAfterEnd
  <2>3. PlayingIsTold' /\ LoadedIsAnnounced'
    BY <2>1, <2>2, ToldRead DEF ToldInv
  <2>4. QED
    BY <2>1, <2>2, <2>3 DEF ToldInv, PollsPlaying, PauseIsTold
<1>10. CASE OnPauseChanged
  <2>1. /\ events = <<>> /\ thread = "loop" /\ pauseChanged
        /\ UNCHANGED <<coreVars, events, thread>>
    BY <1>10 DEF OnPauseChanged
  <2>2. \/ pauseChanged' = TRUE /\ UNCHANGED state
        \/ UNCHANGED pause /\ pause /\ state' = "Paused"
        \/ UNCHANGED pause /\ ~pause /\ state' = "Playing"
        \/ state = "Stopped" /\ UNCHANGED state
    BY <1>10 DEF OnPauseChanged, SetState, MayResume
  <2>3. state # "Stopped" => state' # "Stopped"
    BY <2>2
  <2>4. PlayingIsTold' /\ LoadedIsAnnounced' /\ PollsPlaying'
    BY <2>1, <2>3 DEF ToldInv, PlayingIsTold, LoadedIsAnnounced, PollsPlaying, coreVars
  <2>5. PauseIsTold'
    BY <2>2 DEF PauseIsTold
  <2>6. QED
    BY <2>4, <2>5 DEF ToldInv
<1>11. CASE PollDropsEvent
  <2>1. thread = "poll" /\ state # "Stopped" /\ UNCHANGED <<coreVars, state, thread>>
    BY <1>11 DEF PollDropsEvent, Polling, ToldInv, PollsPlaying
  <2>2. PollsPlaying' /\ PauseIsTold'
    BY <2>1 DEF PollsPlaying, PauseIsTold
  <2>3. CASE events # <<>> /\ events' = Tail(events) /\ UNCHANGED pauseChanged
    BY <1>1, <2>1, <2>2, <2>3, ToldRead DEF ToldInv
  <2>4. CASE events = <<>> /\ UNCHANGED events
    BY <2>1, <2>2, <2>4 DEF ToldInv, PlayingIsTold, LoadedIsAnnounced, coreVars
  <2>5. QED
    BY <1>11, <2>3, <2>4 DEF PollDropsEvent
<1>12. CASE PollMeetsEnd
  <2>1. /\ events # <<>> /\ Head(events) = "end" /\ events' = Tail(events)
        /\ state' = "Stopped" /\ UNCHANGED pauseChanged
    BY <1>12 DEF PollMeetsEnd, NextEvent
  <2>2. NothingBegins /\ thread' = "loop"
    BY <1>12, FinishBeginsNothing DEF PollMeetsEnd
  <2>3. PlayingIsTold' /\ LoadedIsAnnounced'
    BY <2>1, <2>2, ToldRead DEF ToldInv
  <2>4. QED
    BY <2>1, <2>2, <2>3 DEF ToldInv, PollsPlaying, PauseIsTold
<1>13. CASE MpvStep
  <2>1. pauseChanged' /\ UNCHANGED <<state, thread>>
    BY <1>13 DEF MpvStep, MpvNext, CoreFileLoaded, CoreLoadFailed, CorePlayedToEnd,
                 CoreStopped, EndOfFile
  <2>2. LoadedIsAnnounced' /\ PollsPlaying' /\ PauseIsTold'
    BY <2>1 DEF ToldInv, LoadedIsAnnounced, PollsPlaying, PauseIsTold
  <2>3. CASE CoreFileLoaded
    <3>1. events \in Seq(Events) /\ events' = Append(events, "loaded")
      BY <2>3 DEF CoreFileLoaded, TypeOK, MpvTypeOK
    <3>2. events' # <<>> /\ events'[Len(events')] = "loaded"
      BY <3>1
    <3>3. QED
      BY <2>2, <3>2 DEF ToldInv, PlayingIsTold
  <2>4. CASE EndOfFile
    BY <2>2, <2>4 DEF ToldInv, PlayingIsTold, EndOfFile
  <2>5. QED
    BY <1>13, <2>3, <2>4 DEF MpvStep, MpvNext, CoreLoadFailed, CorePlayedToEnd, CoreStopped
<1>14. CASE UNCHANGED vars
  BY <1>1, <1>14, ToldQuiet DEF vars, mpvVars
<1>15. QED
  BY <1>2, <1>3, <1>4, <1>5, <1>6, <1>7, <1>8, <1>9, <1>10, <1>11, <1>12, <1>13,
     <1>14 DEF Next, User, Handler

\* Once mpv has nothing more to report, MpvProxy::_state is what mpv does, whatever
\* events pollingEndOfPlayback() has dropped and however files and pauses overlapped.
THEOREM StateComesTrue == Spec => []SettledStateIsTrue
<1>1. Init => ToldInv
  BY DEF Init, MpvInit, ToldInv, PlayingIsTold, PollsPlaying, LoadedIsAnnounced, PauseIsTold
<1>2. TypeOK /\ ToldInv /\ EndWillCome => SettledStateIsTrue
  BY DEF ToldInv, PlayingIsTold, PauseIsTold, EndWillCome, EndIsDue, SettledStateIsTrue,
         InLoop, Settled, TypeOK, MpvTypeOK
<1>3. QED
  BY <1>1, <1>2, ToldStep, TypeCorrect, EndAlwaysComes, PTL DEF Spec

(***************************************************************************)
(* A user who only acts when mpv has settled: the list moves on only at    *)
(* the end of the file begun last, and the player implements Jukebox.      *)
(***************************************************************************)

(***************************************************************************)
(* What is true between two steps.                                         *)
(***************************************************************************)

\* What mpv may have reported and nobody read, by what the core does.
Queues(c) ==
  CASE c = "loading" -> {<<>>, <<"idle">>}
    [] c = "playing" -> {<<>>, <<"loaded">>, <<"idle", "loaded">>}
    [] OTHER -> {<<>>, <<"idle">>, <<"end", "idle">>, <<"idle", "end", "idle">>,
                 <<"loaded", "end", "idle">>, <<"idle", "loaded", "end", "idle">>}

QueueFits == events \in Queues(core)

\* The end before an IDLE was read, and nothing was reported since.
IdleIsKnown == events # <<>> /\ Head(events) = "idle" => state = "Stopped"

\* A file that was told to end plays, and all before was reported.
StopsPlaying ==
  stopping => core = "playing" /\ events = <<>> /\ (thread = "loop" => ~pauseChanged)

\* The poll waits for one end, which is to come or comes next.
PollIsShort ==
  thread = "poll" =>
    \/ core = "playing" /\ stopping
    \/ core = "idle" /\ events = <<"end", "idle">>

\* No file waits for the end of another.
NothingWaits == nextFile = None

\* No url is listed twice.
OnlyOnce == IsInjective(infos)

\* The file mpv is busy with is the current item.
CurrentIsOn == core # "idle" /\ ~stopping => current \in Indices /\ file = Item(current)

\* The item whose beginning is still to be read is there.
LoadedIsCurrent == (\E i \in DOMAIN events : events[i] = "loaded") => current \in Indices

\* Of the list's accesses only items()[id] of requestPlay() may miss.
OnlyRequestMisses == fault \in {"none", "noItem"}

PatientInv ==
  /\ QueueFits
  /\ IdleIsKnown
  /\ StopsPlaying
  /\ PollIsShort
  /\ NothingWaits
  /\ OnlyOnce
  /\ CurrentIsOn
  /\ LoadedIsCurrent
  /\ OnlyRequestMisses

\* What the other theorems give.
Known == TypeOK /\ EndWillCome /\ SettledStateIsTrue

-----------------------------------------------------------------------------
(* The list.                                                               *)

\* The items behind the one taken out move up.
LEMMA RemoveAtItems ==
  ASSUME NEW S, NEW s \in Seq(S), NEW i \in 1 .. Len(s)
  PROVE  /\ RemoveAt(s, i) \in Seq(S)
         /\ Len(RemoveAt(s, i)) = Len(s) - 1
         /\ \A j \in 1 .. Len(s) - 1 : RemoveAt(s, i)[j] = s[IF j < i THEN j ELSE j + 1]
<1> DEFINE before == SubSeq(s, 1, i - 1)
           behind == SubSeq(s, i + 1, Len(s))
<1>1. /\ before \in Seq(S) /\ Len(before) = i - 1
      /\ \A j \in 1 .. i - 1 : before[j] = s[j]
  <2>1. \A j \in 1 .. i - 1 : s[j] \in S
    OBVIOUS
  <2>2. QED
    BY <2>1, SubSeqProperties
<1>2. /\ behind \in Seq(S) /\ Len(behind) = Len(s) - i
      /\ \A j \in 1 .. Len(s) - i : behind[j] = s[i + j]
  <2>1. \A j \in i + 1 .. Len(s) : s[j] \in S
    OBVIOUS
  <2>2. QED
    BY <2>1, SubSeqProperties
<1>3. RemoveAt(s, i) = before \o behind
  BY DEF RemoveAt
<1> HIDE DEF before, behind
<1>4. \A j \in 1 .. Len(before) + Len(behind) :
        (before \o behind)[j] = IF j <= Len(before) THEN before[j] ELSE behind[j - Len(before)]
  BY <1>1, <1>2, ConcatProperties
<1>5. \A j \in 1 .. Len(s) - 1 : RemoveAt(s, i)[j] = s[IF j < i THEN j ELSE j + 1]
  <2> SUFFICES ASSUME NEW j \in 1 .. Len(s) - 1
               PROVE  RemoveAt(s, i)[j] = s[IF j < i THEN j ELSE j + 1]
    OBVIOUS
  <2>1. j \in 1 .. Len(before) + Len(behind)
    BY <1>1, <1>2
  <2>2. CASE j < i
    BY <1>1, <1>3, <1>4, <2>1, <2>2
  <2>3. CASE ~(j < i)
    <3>1. j - Len(before) \in 1 .. Len(s) - i /\ i + (j - Len(before)) = j + 1
      BY <1>1, <1>2, <2>1, <2>3
    <3>2. RemoveAt(s, i)[j] = behind[j - Len(before)]
      BY <1>1, <1>3, <1>4, <2>1, <2>3
    <3>3. QED
      BY <1>2, <2>3, <3>1, <3>2
  <2>4. QED
    BY <2>2, <2>3
<1>6. QED
  BY <1>5, RemoveAtType, RemoveAtLen

\* Neither taking an item out nor adding one that is not there makes a double.
LEMMA RemovalKeepsOnce ==
  ASSUME NEW S, NEW s \in Seq(S), NEW i \in 1 .. Len(s), IsInjective(s)
  PROVE  IsInjective(RemoveAt(s, i))
<1>1. DOMAIN RemoveAt(s, i) = 1 .. Len(s) - 1
  BY RemoveAtItems, LenProperties
<1>2. ASSUME NEW a \in 1 .. Len(s) - 1, NEW b \in 1 .. Len(s) - 1,
             RemoveAt(s, i)[a] = RemoveAt(s, i)[b]
      PROVE  a = b
  <2> DEFINE at(j) == IF j < i THEN j ELSE j + 1
  <2>1. at(a) \in DOMAIN s /\ at(b) \in DOMAIN s
    OBVIOUS
  <2>2. s[at(a)] = s[at(b)]
    BY <1>2, RemoveAtItems
  <2>3. at(a) = at(b)
    BY <2>1, <2>2 DEF IsInjective
  <2>4. QED
    BY <2>3
<1>3. QED
  BY <1>1, <1>2 DEF IsInjective

LEMMA AppendKeepsOnce ==
  ASSUME NEW S, NEW s \in Seq(S), NEW e \in S, ~Contains(s, e), IsInjective(s)
  PROVE  IsInjective(Append(s, e))
<1>1. /\ DOMAIN Append(s, e) = 1 .. Len(s) + 1
      /\ \A i \in 1 .. Len(s) : Append(s, e)[i] = s[i] /\ s[i] # e
      /\ Append(s, e)[Len(s) + 1] = e
      /\ DOMAIN s = 1 .. Len(s) /\ Len(s) \in Nat
  BY AppendProperties, LenProperties DEF Contains
<1>2. QED
  BY <1>1 DEF IsInjective

-----------------------------------------------------------------------------
(* Requests.                                                               *)

\* A decision that begins a file under another waits for its end.
Careful(p, idle) ==
  \/ p.wait \/ idle
  \/ p.do \in {"stop", "clear"}
  \/ p.do = "nothing" /\ p.current = current

LEMMA PlansAreCareful ==
  ASSUME NEW idle \in BOOLEAN
  PROVE  \A p \in NextPlans(TRUE, idle) \cup PrevPlans(idle) : Careful(p, idle)
<1> USE DEF Careful
<1>1. \A n : Careful(PlayAfterEnd(n), idle) /\ (idle => Careful(PlayAtOnce(n), idle))
  BY DEF PlayAfterEnd, Play
<1>2. /\ Careful(ClearAll, idle) /\ Careful(StopEngine, idle)
      /\ \A l : Careful(Ignore(l), idle)
  BY DEF ClearAll, StopEngine, Ignore
<1> HIDE DEF Careful
<1>3. \A p \in ReadPastOrder : Careful(p, idle)
  BY <1>1 DEF ReadPastOrder
<1>4. \A p \in NextPlans(TRUE, idle) : Careful(p, idle)
  BY <1>1, <1>2, <1>3 DEF NextPlans
<1>5. \A p \in PrevPlans(idle) : Careful(p, idle)
  BY <1>1, <1>2, <1>3 DEF PrevPlans
<1>6. QED
  BY <1>4, <1>5

\* What a user who waits for mpv finds.
LEMMA WhenSettled ==
  ASSUME Patient, Known, NEW op, UserMay(op)
  PROVE  /\ events = <<>> /\ ~pauseChanged /\ ~stopping
         /\ thread = "loop" /\ fault = "none"
         /\ core \in {"idle", "playing"}
         /\ Idle <=> core = "idle"
BY DEF Known, UserMay, InLoop, Settled, SettledStateIsTrue, TypeOK, MpvTypeOK, Idle

\* A decision carried out while mpv is idle begins at most the new current item.
LEMMA FinishOnIdle ==
  ASSUME Known, PatientInv, core = "idle", NEW p, Finish(p)
  PROVE  /\ core' \in {"idle", "loading"} /\ ~stopping' /\ nextFile' = None
         /\ thread' = "loop"
         /\ core' = "loading" => (current \in Indices /\ file = Item(current))'
         /\ infos' = infos \/ infos' = <<>>
         /\ OnlyRequestMisses'
<1>1. ~stopping /\ nextFile = None
  BY DEF PatientInv, StopsPlaying, NothingWaits
<1>2. fault \in {"none", "noItem"} /\ thread' = "loop" /\ current' = p.current
  BY DEF PatientInv, OnlyRequestMisses, Finish
<1>3. CASE p.do = "play"
  <2>1. RequestPlay(p.current) /\ infos' = infos
    BY <1>3 DEF Finish, listVars
  <2>2. CASE p.current \in Indices
    BY <1>1, <1>2, <2>1, <2>2
       DEF RequestPlay, Loadfile, Indices, Item, count, OnlyRequestMisses
  <2>3. CASE p.current \notin Indices
    BY <1>1, <1>2, <2>1, <2>3 DEF RequestPlay, coreVars, OnlyRequestMisses
  <2>4. QED
    BY <2>2, <2>3
<1>4. CASE p.do = "clear"
  BY <1>1, <1>2, <1>4 DEF Finish, StopCommand, coreVars, OnlyRequestMisses
<1>5. CASE p.do = "stop"
  BY <1>1, <1>2, <1>5 DEF Finish, StopCommand, coreVars, listVars, OnlyRequestMisses
<1>6. CASE p.do \notin {"play", "clear", "stop"}
  BY <1>1, <1>2, <1>6 DEF Finish, coreVars, listVars, OnlyRequestMisses
<1>7. QED
  BY <1>3, <1>4, <1>5, <1>6

\* Such a decision keeps the invariant, if at most an IDLE is then to be read.
LEMMA FinishOnIdleKeeps ==
  ASSUME Known, PatientInv, core = "idle", NEW p, Finish(p),
         events' \in {<<>>, <<"idle">>}, state' = "Stopped"
  PROVE  PatientInv'
<1>1. /\ core' \in {"idle", "loading"} /\ ~stopping' /\ nextFile' = None
      /\ thread' = "loop"
      /\ core' = "loading" => (current \in Indices /\ file = Item(current))'
      /\ infos' = infos \/ infos' = <<>>
      /\ OnlyRequestMisses'
  BY FinishOnIdle
<1>2. QueueFits' /\ IdleIsKnown'
  BY <1>1 DEF QueueFits, Queues, IdleIsKnown
<1>3. StopsPlaying' /\ PollIsShort' /\ NothingWaits'
  BY <1>1 DEF StopsPlaying, PollIsShort, NothingWaits
<1>4. OnlyOnce'
  BY <1>1 DEF PatientInv, OnlyOnce, IsInjective
<1>5. CurrentIsOn'
  BY <1>1 DEF CurrentIsOn
<1>6. LoadedIsCurrent'
  <2>1. \A j \in DOMAIN events' : events'[j] # "loaded"
    OBVIOUS
  <2>2. QED
    BY <2>1 DEF LoadedIsCurrent
<1>7. QED
  BY <1>1, <1>2, <1>3, <1>4, <1>5, <1>6 DEF PatientInv

\* A careful decision carried out while the file plays stops it or does nothing.
LEMMA FinishWhilePlaying ==
  ASSUME Known, PatientInv, core = "playing", ~stopping, NEW p, Finish(p),
         p.do \in {"stop", "clear"} \/ (p.do = "nothing" /\ p.current = current)
  PROVE  /\ core' = "playing" /\ nextFile' = None /\ thread' = "loop"
         /\ stopping' \/ UNCHANGED <<coreVars, current, infos>>
         /\ infos' = infos \/ infos' = <<>>
         /\ fault' = fault
<1>1. nextFile = None
  BY DEF PatientInv, NothingWaits
<1>2. CASE p.do \in {"stop", "clear"}
  BY <1>1, <1>2 DEF Finish, StopCommand, listVars
<1>3. CASE p.do = "nothing" /\ p.current = current
  BY <1>1, <1>3 DEF Finish, coreVars, listVars
<1>4. QED
  BY <1>2, <1>3

\* A step of a user who finds the file playing and stops it.
LEMMA StopKeeps ==
  ASSUME PatientInv, events' = <<>>, pauseChanged' = FALSE, core' = "playing", stopping',
         nextFile' = None, OnlyOnce', OnlyRequestMisses'
  PROVE  PatientInv'
<1>1. QueueFits' /\ IdleIsKnown'
  BY DEF QueueFits, Queues, IdleIsKnown
<1>2. StopsPlaying' /\ PollIsShort' /\ NothingWaits' /\ CurrentIsOn'
  BY DEF StopsPlaying, PollIsShort, NothingWaits, CurrentIsOn
<1>3. LoadedIsCurrent'
  BY DEF LoadedIsCurrent
<1>4. QED
  BY <1>1, <1>2, <1>3 DEF PatientInv

\* A request keeps the invariant.
LEMMA RequestKeeps ==
  ASSUME Patient, Known, PatientInv, NEW op, UserMay(op), NEW p, Careful(p, Idle), Request(p)
  PROVE  PatientInv'
<1>1. /\ events = <<>> /\ ~pauseChanged /\ ~stopping
      /\ thread = "loop" /\ fault = "none"
      /\ core \in {"idle", "playing"}
      /\ Idle <=> core = "idle"
  BY WhenSettled
<1>2. UNCHANGED <<state, pause, events, pauseChanged>>
  BY DEF Request
<1>3. pauseChanged' = FALSE
  BY <1>1, <1>2 DEF Known, TypeOK, MpvTypeOK
<1>4. CASE p.wait /\ ~Idle
  <2>1. StopCommand /\ thread' = "poll" /\ UNCHANGED <<infos, fault>>
    BY <1>4 DEF Request, WaitLastEnd, listVars, Idle
  <2>2. core' = "playing" /\ stopping' /\ nextFile' = None
    BY <1>1, <1>4, <2>1 DEF StopCommand
  <2>3. OnlyOnce' /\ OnlyRequestMisses'
    BY <2>1 DEF PatientInv, OnlyOnce, OnlyRequestMisses
  <2>4. QED
    BY <1>1, <1>2, <1>3, <2>2, <2>3, StopKeeps
<1>5. CASE Idle
  <2>1. Finish(p)
    BY <1>5 DEF Request, Idle
  <2>2. QED
    BY <1>1, <1>2, <1>5, <2>1, FinishOnIdleKeeps DEF Idle
<1>6. CASE ~p.wait /\ ~Idle
  <2>1. Finish(p) /\ core = "playing"
    BY <1>1, <1>6 DEF Request
  <2>2. /\ core' = "playing" /\ nextFile' = None /\ thread' = "loop"
        /\ stopping' \/ UNCHANGED <<coreVars, current, infos>>
        /\ infos' = infos \/ infos' = <<>>
        /\ fault' = fault
    <3>1. p.do \in {"stop", "clear"} \/ (p.do = "nothing" /\ p.current = current)
      BY <1>6 DEF Careful
    <3>2. QED
      BY <1>1, <2>1, <3>1, FinishWhilePlaying
  <2>3. OnlyOnce' /\ OnlyRequestMisses'
    BY <2>2 DEF PatientInv, OnlyOnce, OnlyRequestMisses, IsInjective
  <2>4. CASE stopping'
    BY <1>1, <1>2, <1>3, <2>2, <2>3, <2>4, StopKeeps
  <2>5. CASE UNCHANGED <<coreVars, current, infos>>
    BY <1>1, <1>2, <2>2, <2>3, <2>5
       DEF PatientInv, QueueFits, IdleIsKnown, StopsPlaying, PollIsShort, NothingWaits,
           CurrentIsOn, LoadedIsCurrent, coreVars, Indices, Item, count
  <2>6. QED
    BY <2>2, <2>4, <2>5
<1>7. QED
  BY <1>4, <1>5, <1>6

\* An index of the list, after the removal of another.
LEMMA IndexFollows ==
  ASSUME TypeOK, NEW pos \in Indices, current \in Indices, pos # current,
         infos' = RemoveAt(infos, pos + 1), current' = IndexAfterRemoval(current, pos)
  PROVE  (current \in Indices)' /\ Item(current)' = Item(current)
<1>1. infos \in Seq(Urls) /\ Len(infos) \in Nat /\ pos + 1 \in 1 .. Len(infos)
  BY DEF TypeOK, PlaylistTypeOK, Indices, count
<1>2. /\ Len(infos') = Len(infos) - 1
      /\ \A j \in 1 .. Len(infos) - 1 : infos'[j] = infos[IF j < pos + 1 THEN j ELSE j + 1]
  BY <1>1, RemoveAtItems
<1>3. current' \in Int /\ current' + 1 \in 1 .. Len(infos) - 1
  BY <1>1 DEF IndexAfterRemoval, Indices, count
<1>4. PICK j \in 1 .. Len(infos) - 1 : j = current' + 1
  BY <1>3
<1>5. (IF j < pos + 1 THEN j ELSE j + 1) = current + 1
  BY <1>1, <1>4 DEF IndexAfterRemoval, Indices, count
<1>6. infos'[j] = infos[current + 1]
  BY <1>2, <1>5
<1>7. Item(current)' = Item(current)
  BY <1>4, <1>6 DEF Item
<1>8. (current \in Indices)'
  BY <1>1, <1>2, <1>3 DEF Indices, count
<1>9. QED
  BY <1>7, <1>8

\* Removing an item keeps the invariant.
LEMMA RemovalKeeps ==
  ASSUME Patient, Known, PatientInv, NEW pos \in Indices, RemoveItem(pos)
  PROVE  PatientInv'
<1>1. /\ events = <<>> /\ ~pauseChanged /\ ~stopping
      /\ thread = "loop" /\ fault = "none"
      /\ core \in {"idle", "playing"}
      /\ Idle <=> core = "idle"
  BY WhenSettled DEF RemoveItem
<1>2. /\ infos' = RemoveAt(infos, pos + 1)
      /\ UNCHANGED <<state, pause, events, pauseChanged>>
  BY DEF RemoveItem
<1>3. infos \in Seq(Urls) /\ pos + 1 \in 1 .. Len(infos) /\ nextFile = None
  BY DEF Known, TypeOK, PlaylistTypeOK, Indices, count, PatientInv, NothingWaits
<1>4. OnlyOnce'
  BY <1>2, <1>3, RemovalKeepsOnce DEF PatientInv, OnlyOnce
<1>5. QueueFits /\ pauseChanged' = FALSE
  BY <1>1, <1>2 DEF PatientInv, Known, TypeOK, MpvTypeOK
<1>6. CASE Idle /\ UNCHANGED <<coreVars, thread, fault>>
  BY <1>1, <1>2, <1>3, <1>4, <1>5, <1>6
     DEF PatientInv, QueueFits, IdleIsKnown, StopsPlaying, PollIsShort, NothingWaits,
         CurrentIsOn, LoadedIsCurrent, OnlyRequestMisses, coreVars
<1>7. CASE /\ ~Idle /\ pos # current
           /\ current' = IndexAfterRemoval(current, pos)
           /\ fault' = IF count = 1 THEN fault ELSE ReadCurrentInfo(infos', current')
           /\ UNCHANGED <<coreVars, thread>>
  <2>1. current \in Indices /\ file = Item(current)
    BY <1>1, <1>7 DEF PatientInv, CurrentIsOn
  <2>2. (current \in Indices)' /\ Item(current)' = Item(current)
    BY <1>2, <1>7, <2>1, IndexFollows DEF Known
  <2>3. OnlyRequestMisses'
    <3>1. infos' \in Seq(Urls)
      BY <1>2, <1>3, RemoveAtItems
    <3>2. /\ Len(infos') \in Nat /\ current' \in Int
          /\ current' >= 0 /\ current' < Len(infos')
      BY <2>2, <3>1 DEF Indices, count
    <3>3. infos' # <<>> /\ ~(current' < 0) /\ ~(current' >= Len(infos'))
      BY <3>1, <3>2
    <3>4. ReadCurrentInfo(infos', current') = "none"
      BY <3>3 DEF ReadCurrentInfo
    <3>5. QED
      BY <1>1, <1>7, <3>4 DEF OnlyRequestMisses
  <2>4. QED
    BY <1>1, <1>2, <1>3, <1>4, <1>5, <1>7, <2>1, <2>2, <2>3
       DEF PatientInv, QueueFits, IdleIsKnown, StopsPlaying, PollIsShort, NothingWaits,
           CurrentIsOn, LoadedIsCurrent, coreVars
<1>8. CASE ~Idle /\ WaitLastEnd([NoPlan EXCEPT !.last = last']) /\ UNCHANGED fault
  <2>1. core' = "playing" /\ stopping' /\ nextFile' = None
    BY <1>1, <1>8 DEF WaitLastEnd, StopCommand
  <2>2. OnlyRequestMisses'
    BY <1>8 DEF PatientInv, OnlyRequestMisses
  <2>3. QED
    BY <1>1, <1>2, <1>4, <1>5, <2>1, <2>2, StopKeeps
<1>9. QED
  BY <1>6, <1>7, <1>8 DEF RemoveItem

\* Adding an item keeps the invariant.
LEMMA AdditionKeeps ==
  ASSUME Patient, Known, PatientInv, NEW url \in Urls, AddPlayFile(url)
  PROVE  PatientInv'
<1>1. events = <<>> /\ UNCHANGED <<mpvVars, state, thread, fault, current>>
  BY WhenSettled DEF AddPlayFile, AppendUrl
<1>2. infos \in Seq(Urls) /\ ~Contains(infos, url) /\ infos' = Append(infos, url)
  BY DEF AddPlayFile, AppendUrl, Known, TypeOK, PlaylistTypeOK
<1>3. OnlyOnce'
  BY <1>2, AppendKeepsOnce DEF PatientInv, OnlyOnce
<1>4. current \in Indices => (current \in Indices)' /\ Item(current)' = Item(current)
  BY <1>1, <1>2, AppendProperties DEF Indices, count, Item
<1>5. CurrentIsOn' /\ LoadedIsCurrent'
  BY <1>1, <1>4 DEF PatientInv, CurrentIsOn, LoadedIsCurrent, mpvVars, coreVars
<1>6. QED
  BY <1>1, <1>3, <1>5
     DEF PatientInv, QueueFits, IdleIsKnown, StopsPlaying, PollIsShort, NothingWaits,
         OnlyRequestMisses, mpvVars, coreVars

\* A step that leaves list, core and queue alone keeps the invariant.
LEMMA QuietKeeps ==
  ASSUME PatientInv, UNCHANGED <<infos, current, coreVars, events, thread>>,
         events # <<>> => UNCHANGED state,
         stopping => UNCHANGED pauseChanged \/ ~pauseChanged',
         OnlyRequestMisses'
  PROVE  PatientInv'
<1>1. StopsPlaying'
  BY DEF PatientInv, StopsPlaying, coreVars
<1>2. QED
  BY <1>1 DEF PatientInv, QueueFits, IdleIsKnown, PollIsShort, NothingWaits, OnlyOnce,
              CurrentIsOn, LoadedIsCurrent, coreVars, Indices, Item, count

-----------------------------------------------------------------------------
(* Events.                                                                 *)

\* What is behind the first event, and what the core does when it is read.
LEMMA FirstEvent ==
  ASSUME TypeOK, QueueFits, events # <<>>
  PROVE  /\ Head(events) = "loaded" =>
              \/ core = "playing" /\ Tail(events) = <<>>
              \/ core = "idle" /\ Tail(events) = <<"end", "idle">>
         /\ Head(events) = "end" => core = "idle" /\ Tail(events) = <<"idle">>
         /\ Head(events) = "idle" =>
              \/ Tail(events) = <<>>
              \/ core = "playing" /\ Tail(events) = <<"loaded">>
              \/ core = "idle" /\ Tail(events) \in {<<"end", "idle">>, <<"loaded", "end", "idle">>}
<1>1. core \in {"idle", "loading", "playing"}
  BY DEF TypeOK, MpvTypeOK
<1>2. CASE core = "loading"
  <2>1. events = <<"idle">>
    BY <1>2 DEF QueueFits, Queues
  <2>2. QED
    BY <2>1
<1>3. CASE core = "playing"
  <2>1. events \in {<<"loaded">>, <<"idle", "loaded">>}
    BY <1>3 DEF QueueFits, Queues
  <2>2. CASE events = <<"loaded">>
    BY <1>3, <2>2
  <2>3. CASE events = <<"idle", "loaded">>
    <3>1. Head(events) = "idle" /\ Tail(events) = <<"loaded">>
      BY <2>3
    <3>2. QED
      BY <1>3, <3>1
  <2>4. QED
    BY <2>1, <2>2, <2>3
<1>4. CASE core = "idle"
  <2>1. events \in {<<"idle">>, <<"end", "idle">>, <<"idle", "end", "idle">>,
                    <<"loaded", "end", "idle">>, <<"idle", "loaded", "end", "idle">>}
    BY <1>4 DEF QueueFits, Queues
  <2>2. CASE events = <<"idle">>
    BY <2>2
  <2>3. CASE events = <<"end", "idle">>
    BY <1>4, <2>3
  <2>4. CASE events = <<"idle", "end", "idle">>
    <3>1. Head(events) = "idle" /\ Tail(events) = <<"end", "idle">>
      BY <2>4
    <3>2. QED
      BY <1>4, <3>1
  <2>5. CASE events = <<"loaded", "end", "idle">>
    <3>1. Head(events) = "loaded" /\ Tail(events) = <<"end", "idle">>
      BY <2>5
    <3>2. QED
      BY <1>4, <3>1
  <2>6. CASE events = <<"idle", "loaded", "end", "idle">>
    <3>1. Head(events) = "idle" /\ Tail(events) = <<"loaded", "end", "idle">>
      BY <2>6
    <3>2. QED
      BY <1>4, <3>1
  <2>7. QED
    BY <2>1, <2>2, <2>3, <2>4, <2>5, <2>6
<1>5. QED
  BY <1>1, <1>2, <1>3, <1>4

\* Two items at the end of a sequence.
LEMMA ConcatTwo ==
  ASSUME NEW S, NEW s \in Seq(S), NEW a \in S, NEW b \in S, NEW u \in Seq(S),
         Len(u) = Len(s) + 2, \A i \in 1 .. Len(s) : u[i] = s[i],
         u[Len(s) + 1] = a, u[Len(s) + 2] = b
  PROVE  s \o <<a, b>> = u
<1> DEFINE t == <<a, b>>
<1>1. t \in Seq(S) /\ Len(t) = 2 /\ t[1] = a /\ t[2] = b
  OBVIOUS
<1> HIDE DEF t
<1>2. /\ s \o t \in Seq(S) /\ Len(s \o t) = Len(s) + Len(t)
      /\ \A i \in 1 .. Len(s) + Len(t) :
           (s \o t)[i] = IF i <= Len(s) THEN s[i] ELSE t[i - Len(s)]
  BY <1>1, ConcatProperties
<1>3. \A i \in 1 .. Len(s) + 2 : (s \o t)[i] = u[i]
  <2> TAKE i \in 1 .. Len(s) + 2
  <2>1. Len(s) \in Nat
    BY LenProperties
  <2>2. CASE i <= Len(s)
    BY <1>1, <1>2, <2>1, <2>2
  <2>3. CASE i = Len(s) + 1
    <3>1. (s \o t)[i] = t[i - Len(s)] /\ i - Len(s) = 1
      BY <1>1, <1>2, <2>1, <2>3
    <3>2. QED
      BY <1>1, <2>3, <3>1
  <2>4. CASE i = Len(s) + 2
    <3>1. (s \o t)[i] = t[i - Len(s)] /\ i - Len(s) = 2
      BY <1>1, <1>2, <2>1, <2>4
    <3>2. QED
      BY <1>1, <2>4, <3>1
  <2>5. i <= Len(s) \/ i = Len(s) + 1 \/ i = Len(s) + 2
    BY <2>1
  <2>6. QED
    BY <2>2, <2>3, <2>4, <2>5, Zenon
<1>4. s \o t = u
  BY <1>1, <1>2, <1>3, SeqEqual
<1>5. QED
  BY <1>4 DEF t

\* What an end makes of the queue.
LEMMA EndIsLast ==
  ASSUME QueueFits, TypeOK, core # "idle"
  PROVE  /\ events \o <<"end", "idle">> \in Queues("idle")
         /\ Head(events \o <<"end", "idle">>) = "idle" => events # <<>> /\ Head(events) = "idle"
         /\ events = <<>> => events \o <<"end", "idle">> = <<"end", "idle">>
         /\ (\E i \in DOMAIN (events \o <<"end", "idle">>) :
               (events \o <<"end", "idle">>)[i] = "loaded")
              => core = "playing" /\ \E i \in DOMAIN events : events[i] = "loaded"
<1>1. /\ events \in {<<>>, <<"idle">>, <<"loaded">>, <<"idle", "loaded">>}
      /\ core # "playing" => events \in {<<>>, <<"idle">>}
  BY DEF QueueFits, Queues, TypeOK, MpvTypeOK
<1>2. "end" \in Events /\ "idle" \in Events /\ events \in Seq(Events)
  BY DEF Events, TypeOK, MpvTypeOK
<1>3. CASE events = <<>>
  BY <1>3 DEF Queues
<1>4. CASE events = <<"idle">>
  <2> DEFINE u == <<"idle", "end", "idle">>
  <2>1. u \in Seq(Events)
    BY DEF Events
  <2>2. Len(u) = 3 /\ u[1] = "idle" /\ u[2] = "end" /\ u[3] = "idle"
    OBVIOUS
  <2> HIDE DEF u
  <2>3. Len(events) = 1 /\ events[1] = "idle"
    BY <1>4
  <2>4. /\ Len(u) = Len(events) + 2 /\ \A i \in 1 .. Len(events) : u[i] = events[i]
        /\ u[Len(events) + 1] = "end" /\ u[Len(events) + 2] = "idle"
    BY <2>2, <2>3
  <2>5. events \o <<"end", "idle">> = u
    BY <1>2, <2>1, <2>4, ConcatTwo
  <2>6. QED
    BY <1>4, <2>5 DEF Queues, u
<1>5. CASE events = <<"loaded">>
  <2> DEFINE u == <<"loaded", "end", "idle">>
  <2>1. u \in Seq(Events)
    BY DEF Events
  <2>2. Len(u) = 3 /\ u[1] = "loaded" /\ u[2] = "end" /\ u[3] = "idle"
    OBVIOUS
  <2> HIDE DEF u
  <2>3. Len(events) = 1 /\ events[1] = "loaded"
    BY <1>5
  <2>4. /\ Len(u) = Len(events) + 2 /\ \A i \in 1 .. Len(events) : u[i] = events[i]
        /\ u[Len(events) + 1] = "end" /\ u[Len(events) + 2] = "idle"
    BY <2>2, <2>3
  <2>5. events \o <<"end", "idle">> = u
    BY <1>2, <2>1, <2>4, ConcatTwo
  <2>6. QED
    BY <1>1, <1>5, <2>3, <2>5 DEF Queues, u
<1>6. CASE events = <<"idle", "loaded">>
  <2> DEFINE u == <<"idle", "loaded", "end", "idle">>
  <2>1. u \in Seq(Events)
    BY DEF Events
  <2>2. Len(u) = 4 /\ u[1] = "idle" /\ u[2] = "loaded" /\ u[3] = "end" /\ u[4] = "idle"
    OBVIOUS
  <2> HIDE DEF u
  <2>3. Len(events) = 2 /\ events[1] = "idle" /\ events[2] = "loaded"
    BY <1>6
  <2>4. /\ Len(u) = Len(events) + 2 /\ \A i \in 1 .. Len(events) : u[i] = events[i]
        /\ u[Len(events) + 1] = "end" /\ u[Len(events) + 2] = "idle"
    BY <2>2, <2>3
  <2>5. events \o <<"end", "idle">> = u
    BY <1>2, <2>1, <2>4, ConcatTwo
  <2>6. QED
    BY <1>1, <1>6, <2>3, <2>5 DEF Queues, u
<1>7. QED
  BY <1>1, <1>3, <1>4, <1>5, <1>6

\* FILE_LOADED finds the current item.
LEMMA LoadedKeeps ==
  ASSUME Known, PatientInv, OnFileLoaded
  PROVE  PatientInv'
<1>1. /\ thread = "loop" /\ fault = "none" /\ state' = "Playing"
      /\ UNCHANGED <<playlistVars, coreVars, thread>>
      /\ events # <<>> /\ Head(events) = "loaded" /\ events' = Tail(events)
      /\ fault' = IF state = "Playing" /\ count = 0 THEN fault
                  ELSE ReadCurrentInfo(infos, current)
  BY DEF OnFileLoaded, NextEvent, InLoop
<1>2. \/ core = "playing" /\ events' = <<>>
      \/ core = "idle" /\ events' = <<"end", "idle">>
  BY <1>1, FirstEvent DEF Known, PatientInv
<1>3. current \in Indices
  <2>1. 1 \in DOMAIN events /\ events[1] = "loaded"
    BY <1>1 DEF Known, TypeOK, MpvTypeOK
  <2>2. QED
    BY <2>1 DEF PatientInv, LoadedIsCurrent
<1>4. OnlyRequestMisses'
  BY <1>1, <1>3 DEF ReadCurrentInfo, OnlyRequestMisses, Indices, count, Known, TypeOK,
                    PlaylistTypeOK
<1>5. QueueFits' /\ IdleIsKnown'
  <2>1. core' = core
    BY <1>1 DEF coreVars
  <2>2. CASE core = "playing" /\ events' = <<>>
    BY <2>1, <2>2 DEF QueueFits, Queues, IdleIsKnown
  <2>3. CASE core = "idle" /\ events' = <<"end", "idle">>
    BY <2>1, <2>3 DEF QueueFits, Queues, IdleIsKnown
  <2>4. QED
    BY <1>2, <2>2, <2>3
<1>6. ~stopping
  BY <1>1 DEF PatientInv, StopsPlaying
<1>7. (current \in Indices)' /\ Item(current)' = Item(current)
  BY <1>1, <1>3 DEF playlistVars, listVars, Indices, Item, count
<1>8. QED
  BY <1>1, <1>4, <1>5, <1>6, <1>7
     DEF PatientInv, StopsPlaying, PollIsShort, NothingWaits, OnlyOnce, CurrentIsOn,
         LoadedIsCurrent, coreVars, playlistVars, listVars

\* An end on which the list moves on finds mpv idle; an IDLE moves nothing.
LEMMA EndKeeps ==
  ASSUME Known, PatientInv, NEW kind \in {"end", "idle"}, OnEnd(kind)
  PROVE  /\ PatientInv'
         /\ state # "Stopped" => core = "idle"
<1>1. /\ thread = "loop" /\ fault = "none" /\ state' = "Stopped"
      /\ events # <<>> /\ Head(events) = kind /\ events' = Tail(events)
  BY DEF OnEnd, NextEvent, InLoop
<1>2. CASE kind = "end"
  <2>1. core = "idle" /\ events' = <<"idle">>
    BY <1>1, <1>2, FirstEvent DEF Known, PatientInv
  <2>2. CASE UNCHANGED <<playlistVars, coreVars, thread, fault>>
    <3>1. QueueFits' /\ IdleIsKnown'
      BY <1>1, <2>1, <2>2 DEF QueueFits, Queues, IdleIsKnown, coreVars
    <3>2. LoadedIsCurrent'
      BY <2>1 DEF LoadedIsCurrent
    <3>3. QED
      BY <1>1, <2>1, <2>2, <3>1, <3>2
         DEF PatientInv, StopsPlaying, PollIsShort, NothingWaits, OnlyOnce, CurrentIsOn,
             OnlyRequestMisses, coreVars, playlistVars, listVars
  <2>3. CASE /\ count = 0 /\ current' = -1
             /\ UNCHANGED <<listVars, coreVars, thread, fault>>
    <3>1. QueueFits' /\ IdleIsKnown'
      BY <1>1, <2>1, <2>3 DEF QueueFits, Queues, IdleIsKnown, coreVars
    <3>2. LoadedIsCurrent'
      BY <2>1 DEF LoadedIsCurrent
    <3>3. QED
      BY <1>1, <2>1, <2>3, <3>1, <3>2
         DEF PatientInv, StopsPlaying, PollIsShort, NothingWaits, OnlyOnce, CurrentIsOn,
             OnlyRequestMisses, coreVars, listVars
  <2>4. ASSUME NEW p, Finish(p)
        PROVE  PatientInv'
    BY <1>1, <2>1, <2>4, FinishOnIdleKeeps
  <2>5. QED
    BY <2>1, <2>2, <2>3, <2>4 DEF OnEnd, AdvanceAfterEnd
<1>3. CASE kind = "idle"
  <2>1. state = "Stopped"
    BY <1>1, <1>3 DEF PatientInv, IdleIsKnown
  <2>2. UNCHANGED <<playlistVars, coreVars, thread, fault>>
    BY <2>1 DEF OnEnd
  <2>3. \/ events' = <<>>
        \/ core = "playing" /\ events' = <<"loaded">>
        \/ core = "idle" /\ events' \in {<<"end", "idle">>, <<"loaded", "end", "idle">>}
    BY <1>1, <1>3, FirstEvent DEF Known, PatientInv
  <2>4. QueueFits' /\ IdleIsKnown'
    BY <1>1, <2>2, <2>3 DEF QueueFits, Queues, IdleIsKnown, coreVars
  <2>5. LoadedIsCurrent'
    <3>1. \A j \in DOMAIN events' : j + 1 \in DOMAIN events /\ events[j + 1] = events'[j]
      BY <1>1, HeadTailProperties DEF Known, TypeOK, MpvTypeOK
    <3>2. QED
      BY <2>2, <3>1 DEF PatientInv, LoadedIsCurrent, playlistVars, listVars, Indices, count
  <2>6. ~stopping
    BY <1>1 DEF PatientInv, StopsPlaying
  <2>7. QED
    BY <1>1, <2>1, <2>2, <2>4, <2>5, <2>6
       DEF PatientInv, StopsPlaying, PollIsShort, NothingWaits, OnlyOnce, CurrentIsOn,
           OnlyRequestMisses, coreVars, playlistVars, listVars, Indices, Item, count
<1>4. QED
  BY <1>2, <1>3

\* The end that the poll waits for finds mpv idle.
LEMMA PollKeeps ==
  ASSUME Known, PatientInv, PollMeetsEnd
  PROVE  PatientInv' /\ core = "idle"
<1>1. /\ events # <<>> /\ Head(events) = "end" /\ events' = Tail(events)
      /\ state' = "Stopped" /\ Finish(plan)
  BY DEF PollMeetsEnd, NextEvent
<1>2. core = "idle" /\ events' = <<"idle">>
  BY <1>1, FirstEvent DEF Known, PatientInv
<1>3. QED
  BY <1>1, <1>2, FinishOnIdleKeeps

\* What the poll drops is a change of "pause" only.
LEMMA DropKeeps ==
  ASSUME Known, PatientInv, PollDropsEvent
  PROVE  PatientInv'
<1>1. /\ thread = "poll"
      /\ UNCHANGED <<playlistVars, coreVars, pause, state, thread, plan, fault>>
  BY DEF PollDropsEvent, Polling
<1>2. events = <<>> \/ events = <<"end", "idle">>
  BY <1>1 DEF PatientInv, PollIsShort, StopsPlaying
<1>3. UNCHANGED events /\ pauseChanged' = FALSE
  BY <1>2 DEF PollDropsEvent
<1>4. QED
  BY <1>1, <1>3, QuietKeeps DEF PatientInv, OnlyRequestMisses, playlistVars, listVars

\* A reported pause finds the current item, or a player that is stopped.
LEMMA PauseKeeps ==
  ASSUME Known, PatientInv, OnPauseChanged
  PROVE  PatientInv'
<1>1. /\ thread = "loop" /\ events = <<>> /\ pauseChanged /\ fault = "none"
      /\ UNCHANGED <<playlistVars, coreVars, events, thread, plan>>
  BY DEF OnPauseChanged, InLoop
<1>2. ~stopping
  BY <1>1 DEF PatientInv, StopsPlaying
<1>3. OnlyRequestMisses'
  <2>1. CASE fault' = fault
    BY <2>1 DEF PatientInv, OnlyRequestMisses
  <2>2. CASE core # "idle" /\ fault' \in {fault, ReadCurrentInfo(infos, current)}
    <3>1. current \in Indices
      BY <1>2, <2>2 DEF PatientInv, CurrentIsOn
    <3>2. ReadCurrentInfo(infos, current) = "none"
      BY <3>1 DEF ReadCurrentInfo, Indices, count, Known, TypeOK, PlaylistTypeOK
    <3>3. QED
      BY <1>1, <2>2, <3>2 DEF OnlyRequestMisses
  <2>3. core = "idle" => state = "Stopped"
    BY <1>1 DEF Known, EndWillCome, EndIsDue
  <2>4. QED
    BY <2>1, <2>2, <2>3 DEF OnPauseChanged, IdlePaused, MayResume, SetState
<1>4. QED
  BY <1>1, <1>2, <1>3, QuietKeeps DEF playlistVars, listVars

\* The file mpv has opened is the current item.
LEMMA BeginKeeps ==
  ASSUME Known, PatientInv, CoreFileLoaded, UNCHANGED <<playlistVars, state, thread, fault>>
  PROVE  PatientInv'
<1>1. /\ core = "loading" /\ ~stopping /\ core' = "playing"
      /\ events' = Append(events, "loaded")
      /\ UNCHANGED <<file, stopping, nextFile>>
  BY DEF CoreFileLoaded
<1>2. events \in {<<>>, <<"idle">>}
  BY <1>1 DEF PatientInv, QueueFits, Queues
<1>3. events' \in Queues("playing")
  <2>1. CASE events = <<>>
    BY <1>1, <2>1 DEF Queues
  <2>2. CASE events = <<"idle">>
    <3> DEFINE u == <<"idle", "loaded">>
    <3>1. u \in Seq(Events) /\ events \in Seq(Events) /\ "loaded" \in Events
      BY <2>2 DEF Events
    <3>2. Len(u) = 2 /\ u[1] = "idle" /\ u[2] = "loaded" /\ Len(events) = 1 /\ events[1] = "idle"
      BY <2>2
    <3> HIDE DEF u
    <3>3. /\ events' \in Seq(Events) /\ Len(events') = Len(events) + 1
          /\ \A i \in 1 .. Len(events) : events'[i] = events[i]
          /\ events'[Len(events) + 1] = "loaded"
      BY <1>1, <3>1
    <3>4. \A i \in 1 .. Len(events') : events'[i] = u[i]
      <4>1. \A i \in 1 .. 2 : i = 1 \/ i = 2
        OBVIOUS
      <4>2. QED
        BY <3>2, <3>3, <4>1
    <3>5. events' = u
      BY <3>1, <3>2, <3>3, <3>4, SeqEqual
    <3>6. QED
      BY <3>5 DEF Queues, u
  <2>3. QED
    BY <1>2, <2>1, <2>2
<1>4. IdleIsKnown'
  <2>1. CASE events = <<>>
    BY <1>1, <2>1 DEF IdleIsKnown
  <2>2. CASE events = <<"idle">>
    BY <2>2 DEF PatientInv, IdleIsKnown
  <2>3. QED
    BY <1>2, <2>1, <2>2
<1>5. current \in Indices /\ file = Item(current)
  BY <1>1 DEF PatientInv, CurrentIsOn
<1>6. CurrentIsOn' /\ LoadedIsCurrent'
  BY <1>1, <1>5 DEF CurrentIsOn, LoadedIsCurrent, playlistVars, listVars, Indices, Item, count
<1>7. thread' = "loop"
  BY <1>1 DEF PatientInv, PollIsShort, Known, TypeOK
<1>8. QED
  BY <1>1, <1>3, <1>4, <1>6, <1>7
     DEF PatientInv, QueueFits, StopsPlaying, PollIsShort, NothingWaits, OnlyOnce,
         OnlyRequestMisses, playlistVars, listVars

\* The end of the only file leaves mpv idle.
LEMMA EndOfFileKeeps ==
  ASSUME Known, PatientInv, EndOfFile, core # "idle",
         UNCHANGED <<playlistVars, state, thread, fault>>
  PROVE  PatientInv'
<1>1. /\ core' = "idle" /\ stopping' = FALSE /\ nextFile' = None
      /\ events' = events \o <<"end", "idle">>
  BY DEF EndOfFile, PatientInv, NothingWaits
<1>2. /\ events' \in Queues("idle")
      /\ Head(events') = "idle" => events # <<>> /\ Head(events) = "idle"
      /\ events = <<>> => events' = <<"end", "idle">>
      /\ (\E i \in DOMAIN events' : events'[i] = "loaded")
           => \E i \in DOMAIN events : events[i] = "loaded"
  BY <1>1, EndIsLast DEF PatientInv, Known
<1>3. QueueFits' /\ IdleIsKnown'
  BY <1>1, <1>2 DEF PatientInv, QueueFits, IdleIsKnown
<1>4. LoadedIsCurrent'
  BY <1>2 DEF PatientInv, LoadedIsCurrent, playlistVars, listVars, Indices, count
<1>5. PollIsShort'
  BY <1>1, <1>2 DEF PatientInv, PollIsShort, StopsPlaying
<1>6. QED
  BY <1>1, <1>3, <1>4, <1>5
     DEF PatientInv, StopsPlaying, NothingWaits, OnlyOnce, CurrentIsOn, OnlyRequestMisses,
         playlistVars, listVars

\* The player starts idle, with a list that has no item twice.
LEMMA PatientInit == Init => PatientInv
<1> SUFFICES ASSUME Init
             PROVE  PatientInv
  OBVIOUS
<1>1. /\ core = "idle" /\ ~stopping /\ nextFile = None /\ events = <<>>
      /\ thread = "loop" /\ fault = "none"
  BY DEF Init, MpvInit
<1>2. OnlyOnce
  BY DEF Init, PlaylistInit, SavedLists, Injection, OnlyOnce
<1>3. QED
  BY <1>1, <1>2
     DEF PatientInv, QueueFits, Queues, IdleIsKnown, StopsPlaying, PollIsShort, NothingWaits,
         CurrentIsOn, LoadedIsCurrent, OnlyRequestMisses

\* Every step of a player with a patient user keeps the invariant.
LEMMA PatientStep ==
  ASSUME Patient, Known, PatientInv, [Next]_vars
  PROVE  PatientInv'
<1>1. CASE PlayNext \/ StartPlay
  <2>1. PICK p \in NextPlans(TRUE, Idle) : Request(p)
    BY <1>1 DEF PlayNext, StartPlay
  <2>2. Idle \in BOOLEAN /\ \E op : UserMay(op)
    BY <1>1 DEF Idle, PlayNext, StartPlay
  <2>3. QED
    BY <2>1, <2>2, PlansAreCareful, RequestKeeps
<1>2. CASE PlayPrev
  <2>1. PICK p \in PrevPlans(Idle) : Request(p)
    BY <1>2 DEF PlayPrev
  <2>2. Idle \in BOOLEAN /\ \E op : UserMay(op)
    BY <1>2 DEF Idle, PlayPrev
  <2>3. QED
    BY <2>1, <2>2, PlansAreCareful, RequestKeeps
<1>3. ASSUME NEW pos \in Indices, ChangeCurrent(pos)
      PROVE  PatientInv'
  <2>1. Careful(SelectPlan(pos), Idle)
    BY DEF Careful, SelectPlan, Play
  <2>2. QED
    BY <1>3, <2>1, RequestKeeps DEF ChangeCurrent
<1>4. ASSUME NEW pos \in Indices, RemoveItem(pos)
      PROVE  PatientInv'
  BY <1>4, RemovalKeeps
<1>5. CASE Clear
  <2>1. Careful(ClearAll, Idle) /\ ~ClearAll.wait
    BY DEF Careful, ClearAll
  <2>2. Request(ClearAll)
    BY <1>5, <2>1 DEF Clear, Request
  <2>3. QED
    BY <1>5, <2>1, <2>2, RequestKeeps DEF Clear
<1>6. ASSUME NEW url \in Urls, AddPlayFile(url)
      PROVE  PatientInv'
  BY <1>6, AdditionKeeps
<1>7. ASSUME NEW mode \in Modes, ChoosePlayMode(mode)
      PROVE  PatientInv'
  BY <1>7, QuietKeeps
     DEF ChoosePlayMode, SetPlayMode, mpvVars, PatientInv, OnlyRequestMisses
<1>8. CASE PauseResume
  <2>1. ~stopping
    BY <1>8, WhenSettled DEF PauseResume
  <2>2. QED
    BY <1>8, <2>1, QuietKeeps
       DEF PauseResume, PatientInv, OnlyRequestMisses, playlistVars, listVars
<1>9. CASE OnFileLoaded
  BY <1>9, LoadedKeeps
<1>10. CASE OnEnd("end") \/ OnEnd("idle")
  BY <1>10, EndKeeps
<1>11. CASE OnPauseChanged
  BY <1>11, PauseKeeps
<1>12. CASE PollDropsEvent
  BY <1>12, DropKeeps
<1>13. CASE PollMeetsEnd
  BY <1>13, PollKeeps
<1>14. CASE MpvStep
  <2>1. UNCHANGED <<playlistVars, state, thread, fault>>
    BY <1>14 DEF MpvStep
  <2>2. CASE CoreFileLoaded
    BY <2>1, <2>2, BeginKeeps
  <2>3. CASE EndOfFile /\ core # "idle"
    BY <2>1, <2>3, EndOfFileKeeps
  <2>4. QED
    BY <1>14, <2>2, <2>3
       DEF MpvStep, MpvNext, CoreLoadFailed, CorePlayedToEnd, CoreStopped, PatientInv,
           StopsPlaying
<1>15. CASE UNCHANGED vars
  BY <1>15, QuietKeeps
     DEF vars, mpvVars, playlistVars, listVars, PatientInv, OnlyRequestMisses
<1>16. QED
  BY <1>1, <1>2, <1>3, <1>4, <1>5, <1>6, <1>7, <1>8, <1>9, <1>10, <1>11, <1>12, <1>13,
     <1>14, <1>15 DEF Next, User, Handler

-----------------------------------------------------------------------------
(* What a patient user can rely on.                                        *)

\* Between two steps of a player with a patient user, mpv has at most one file,
\* and it is the current item.
THEOREM PatientHolds ==
  ASSUME Patient
  PROVE  Spec => [](Known /\ PatientInv)
<1>1. Known /\ PatientInv /\ [Next]_vars => PatientInv'
  BY PatientStep
<1>2. Known <=> TypeOK /\ EndWillCome /\ SettledStateIsTrue
  BY DEF Known
<1>3. QED
  BY <1>1, <1>2, PatientInit, TypeCorrect, EndAlwaysComes, StateComesTrue, PTL DEF Spec

\* player_engine.h: the end of the last file is seen before the next is begun.
THEOREM OneFileAtATime ==
  ASSUME Patient
  PROVE  Spec => []OneFileInFlight
<1>1. Known /\ PatientInv => OneFileInFlight
  <2> SUFFICES ASSUME Known, PatientInv
               PROVE  FilesInFlight <= 1
    BY DEF OneFileInFlight
  <2> DEFINE ends == {i \in DOMAIN events : events[i] = "end"}
  <2>1. CASE core # "idle"
    <3>1. events \in {<<>>, <<"idle">>, <<"loaded">>, <<"idle", "loaded">>}
      BY <2>1 DEF PatientInv, QueueFits, Queues, Known, TypeOK, MpvTypeOK
    <3>2. ends = {}
      BY <3>1
    <3>3. QED
      BY <2>1, <3>2, FS_EmptySet DEF FilesInFlight
  <2>2. CASE core = "idle"
    <3>1. events \in {<<>>, <<"idle">>, <<"end", "idle">>, <<"idle", "end", "idle">>,
                      <<"loaded", "end", "idle">>, <<"idle", "loaded", "end", "idle">>}
      BY <2>2 DEF PatientInv, QueueFits, Queues
    <3>2. ends \in {{}, {1}, {2}, {3}}
      <4>1. CASE events \in {<<>>, <<"idle">>}
        <5>1. ends = {}
          BY <4>1
        <5>2. QED
          BY <5>1
      <4>2. CASE events = <<"end", "idle">>
        <5>1. ends = {1}
          BY <4>2
        <5>2. QED
          BY <5>1
      <4>3. CASE events \in {<<"idle", "end", "idle">>, <<"loaded", "end", "idle">>}
        <5>1. ends = {2}
          BY <4>3
        <5>2. QED
          BY <5>1
      <4>4. CASE events = <<"idle", "loaded", "end", "idle">>
        <5>1. ends = {3}
          BY <4>4
        <5>2. QED
          BY <5>1
      <4>5. QED
        BY <3>1, <4>1, <4>2, <4>3, <4>4
    <3>3. Cardinality(ends) \in {0, 1}
      BY <3>2, FS_EmptySet, FS_Singleton
    <3>4. QED
      BY <2>2, <3>3 DEF FilesInFlight
  <2>3. QED
    BY <2>1, <2>2
<1>2. QED
  BY <1>1, PatientHolds, PTL

\* The list moves on only at the end of the file begun last.
THEOREM MovesOnAtLastEnd ==
  ASSUME Patient
  PROVE  Spec => AdvanceOnlyAtLastEnd
<1>1. ASSUME Known, PatientInv, [Next]_vars,
             thread = "loop", state # "Stopped", state' = "Stopped"
      PROVE  core = "idle"
  <2>1. CASE User
    <3>1. UNCHANGED state
      BY <2>1 DEF User, PlayNext, PlayPrev, StartPlay, ChangeCurrent, RemoveItem, Clear,
                  AddPlayFile, ChoosePlayMode, PauseResume, Request
    <3>2. QED
      BY <1>1, <3>1
  <2>2. CASE OnFileLoaded \/ OnPauseChanged \/ PollDropsEvent \/ MpvStep \/ UNCHANGED vars
    BY <1>1, <2>2 DEF OnFileLoaded, OnPauseChanged, SetState, PollDropsEvent, MpvStep, vars
  <2>3. CASE OnEnd("end") \/ OnEnd("idle")
    BY <1>1, <2>3, EndKeeps
  <2>4. CASE PollMeetsEnd
    BY <1>1, <2>4, PollKeeps
  <2>5. QED
    BY <1>1, <2>1, <2>2, <2>3, <2>4 DEF Next, Handler
<1>2. Known /\ PatientInv /\ [Next]_vars
        => [thread = "loop" /\ state # "Stopped" /\ state' = "Stopped" => core = "idle"]_vars
  BY <1>1
<1>3. QED
  BY <1>2, PatientHolds, PTL DEF Spec, AdvanceOnlyAtLastEnd

\* Whoever reads the info of the current item, on FILE_LOADED, on a pause or after
\* a removal, finds one.
THEOREM CurrentInfoFound ==
  ASSUME Patient
  PROVE  Spec => []CurrentInfoIsThere
<1>1. PatientInv => CurrentInfoIsThere
  BY DEF PatientInv, OnlyRequestMisses, CurrentInfoIsThere
<1>2. QED
  BY <1>1, PatientHolds, PTL

-----------------------------------------------------------------------------
(* The player is a jukebox.                                                *)

\* What is listed is no None; what is shown is listed or nothing.
LEMMA Listed ==
  ASSUME NEW list \in Seq(Urls)
  PROVE  /\ None \notin ToSet(list)
         /\ \A i \in 0 .. Len(list) - 1 : list[i + 1] \in ToSet(list)
<1>1. DOMAIN list = 1 .. Len(list) /\ \A i \in DOMAIN list : list[i] \in Urls
  BY LenProperties
<1>2. QED
  BY <1>1, MediaAssumption DEF ToSet

LEMMA ShownIsListed ==
  ASSUME TypeOK'
  PROVE  /\ infos' \in Seq(Urls) /\ None \notin ToSet(infos')
         /\ ShownItem' \in ToSet(infos') \cup {None}
         /\ (current \in Indices)' => ShownItem' = Item(current)' /\ ShownItem' \in ToSet(infos')
<1>1. infos' \in Seq(Urls)
  BY DEF TypeOK, PlaylistTypeOK
<1>2. CASE (current \in Indices)'
  <2>1. current' \in 0 .. Len(infos') - 1 /\ ShownItem' = infos'[current' + 1]
    BY <1>2 DEF ShownItem, Item, Indices, count
  <2>2. QED
    BY <1>1, <2>1, Listed DEF Item
<1>3. CASE ~(current \in Indices)'
  BY <1>1, <1>3, Listed DEF ShownItem
<1>4. QED
  BY <1>2, <1>3

LEMMA OnIsShown ==
  ASSUME Known, PatientInv, PlayedFile # None
  PROVE  /\ core = "playing" /\ ~stopping /\ current \in Indices
         /\ PlayedFile = file /\ file = Item(current) /\ PlayedFile = ShownItem
BY DEF PatientInv, CurrentIsOn, PlayedFile, ShownItem

\* The steps of the jukebox.
LEMMA IsGoOff ==
  ASSUME TypeOK', PlayedFile' = None, UNCHANGED infos
  PROVE  J!Next
<1>1. ShownItem' \in ToSet(infos') \cup {None}
  BY ShownIsListed
<1>2. QED
  BY <1>1 DEF J!Next, J!GoOff, J!ToSet, ToSet

LEMMA IsEdit ==
  ASSUME TypeOK', PlayedFile' = None, PlayedFile \notin ToSet(infos')
  PROVE  J!Next
<1>1. ShownItem' \in ToSet(infos') \cup {None} /\ infos' \in Seq(Urls)
  BY ShownIsListed
<1>2. QED
  BY <1>1 DEF J!Next, J!Edit, J!ToSet, ToSet

\* A request makes what is on go off, or leaves it on.
LEMMA RequestIsJukebox ==
  ASSUME Patient, Known, PatientInv, TypeOK', NEW op, UserMay(op), NEW p, Careful(p, Idle),
         Request(p)
  PROVE  [J!Next]_(J!jukeboxVars)
<1>1. /\ ~stopping /\ core \in {"idle", "playing"}
      /\ Idle <=> core = "idle"
  BY WhenSettled
<1>2. CASE p.wait /\ ~Idle
  <2>1. StopCommand /\ UNCHANGED infos
    BY <1>2 DEF Request, WaitLastEnd, listVars, Idle
  <2>2. PlayedFile' = None
    BY <1>1, <1>2, <2>1 DEF StopCommand, PlayedFile
  <2>3. QED
    BY <2>1, <2>2, IsGoOff
<1>3. CASE Idle
  <2>1. Finish(p) /\ core = "idle"
    BY <1>1, <1>3 DEF Request, Idle
  <2>2. core' \in {"idle", "loading"} /\ (infos' = infos \/ infos' = <<>>)
    BY <2>1, FinishOnIdle
  <2>3. PlayedFile = None /\ PlayedFile' = None
    BY <2>1, <2>2 DEF PlayedFile
  <2>4. None \notin ToSet(infos')
    BY ShownIsListed
  <2>5. QED
    BY <2>3, <2>4, IsEdit
<1>4. CASE ~p.wait /\ ~Idle
  <2>1. Finish(p) /\ core = "playing"
    BY <1>1, <1>4 DEF Request
  <2>2. p.do \in {"stop", "clear"} \/ (p.do = "nothing" /\ p.current = current)
    BY <1>4 DEF Careful
  <2>3. /\ stopping' \/ UNCHANGED <<coreVars, current, infos>>
        /\ infos' = infos \/ infos' = <<>>
    BY <1>1, <2>1, <2>2, FinishWhilePlaying
  <2>4. CASE stopping'
    <3>1. PlayedFile' = None
      BY <2>4 DEF PlayedFile
    <3>2. CASE infos' = infos
      BY <3>1, <3>2, IsGoOff
    <3>3. CASE infos' = <<>>
      <4>1. PlayedFile \notin ToSet(infos')
        BY <3>3 DEF ToSet
      <4>2. QED
        BY <3>1, <4>1, IsEdit
    <3>4. QED
      BY <2>3, <3>2, <3>3
  <2>5. CASE UNCHANGED <<coreVars, current, infos>>
    BY <2>5 DEF J!jukeboxVars, ShownItem, PlayedFile, coreVars, Indices, count, Item
  <2>6. QED
    BY <2>3, <2>4, <2>5
<1>5. QED
  BY <1>2, <1>3, <1>4

\* Removing an item leaves what is on on, unless it is that item.
LEMMA RemovalIsJukebox ==
  ASSUME Patient, Known, PatientInv, TypeOK', NEW pos \in Indices, RemoveItem(pos)
  PROVE  [J!Next]_(J!jukeboxVars)
<1>1. /\ ~stopping /\ core \in {"idle", "playing"}
      /\ Idle <=> core = "idle"
  BY WhenSettled DEF RemoveItem
<1>2. infos' = RemoveAt(infos, pos + 1)
  BY DEF RemoveItem
<1>3. CASE Idle /\ UNCHANGED coreVars
  <2>1. PlayedFile = None /\ PlayedFile' = None
    BY <1>1, <1>3 DEF PlayedFile, coreVars
  <2>2. QED
    BY <2>1, ShownIsListed, IsEdit
<1>4. CASE ~Idle /\ pos # current /\ current' = IndexAfterRemoval(current, pos) /\ UNCHANGED coreVars
  <2>1. current \in Indices /\ file = Item(current)
    BY <1>1, <1>4 DEF PatientInv, CurrentIsOn
  <2>2. (current \in Indices)' /\ Item(current)' = Item(current)
    BY <1>2, <1>4, <2>1, IndexFollows DEF Known
  <2>3. ShownItem' = ShownItem /\ PlayedFile' = PlayedFile
    BY <1>4, <2>1, <2>2 DEF ShownItem, PlayedFile, coreVars
  <2>4. PlayedFile = file /\ file = ShownItem
    BY <1>1, <1>4, <2>1 DEF PlayedFile, ShownItem
  <2>5. ShownItem' \in ToSet(infos')
    BY <2>2, ShownIsListed
  <2>6. infos' \in Seq(Urls)
    BY ShownIsListed
  <2>7. QED
    BY <2>3, <2>4, <2>5, <2>6 DEF J!Next, J!Edit, J!ToSet, ToSet
<1>5. CASE ~Idle /\ pos = current /\ WaitLastEnd([NoPlan EXCEPT !.last = last'])
  <2>1. PlayedFile' = None
    BY <1>1, <1>5 DEF WaitLastEnd, StopCommand, PlayedFile
  <2>2. PlayedFile = infos[pos + 1]
    BY <1>1, <1>5 DEF PatientInv, CurrentIsOn, PlayedFile, Item
  <2>3. infos \in Seq(Urls) /\ pos + 1 \in 1 .. Len(infos)
    BY DEF Known, TypeOK, PlaylistTypeOK, Indices, count
  <2>4. PlayedFile \notin ToSet(infos')
    <3>1. /\ DOMAIN infos' = 1 .. Len(infos) - 1
          /\ \A j \in 1 .. Len(infos) - 1 :
               infos'[j] = infos[IF j < pos + 1 THEN j ELSE j + 1]
      BY <1>2, <2>3, RemoveAtItems, LenProperties
    <3>2. \A j \in 1 .. Len(infos) : j # pos + 1 => infos[j] # infos[pos + 1]
      BY <2>3 DEF PatientInv, OnlyOnce, IsInjective
    <3>3. ASSUME NEW j \in 1 .. Len(infos) - 1
          PROVE  infos'[j] # infos[pos + 1]
      <4>1. PICK k \in 1 .. Len(infos) :
              k = (IF j < pos + 1 THEN j ELSE j + 1) /\ k # pos + 1
        BY <2>3
      <4>2. QED
        BY <3>1, <3>2, <4>1
    <3>4. QED
      BY <2>2, <3>1, <3>3 DEF ToSet
  <2>5. QED
    BY <2>1, <2>4, IsEdit
<1>6. QED
  BY <1>3, <1>4, <1>5 DEF RemoveItem

\* Adding an item disturbs nothing.
LEMMA AdditionIsJukebox ==
  ASSUME Patient, Known, PatientInv, TypeOK', NEW url \in Urls, AddPlayFile(url)
  PROVE  [J!Next]_(J!jukeboxVars)
<1>1. UNCHANGED <<coreVars, current>> /\ infos' = Append(infos, url) /\ infos \in Seq(Urls)
  BY DEF AddPlayFile, AppendUrl, mpvVars, Known, TypeOK, PlaylistTypeOK
<1>2. PlayedFile' = PlayedFile
  BY <1>1 DEF PlayedFile, coreVars
<1>3. CASE PlayedFile = None
  BY <1>2, <1>3, ShownIsListed, IsEdit
<1>4. CASE PlayedFile # None
  <2>1. current \in Indices /\ PlayedFile = ShownItem
    BY <1>4, OnIsShown
  <2>2. (current \in Indices)' /\ Item(current)' = Item(current)
    BY <1>1, <2>1, AppendProperties DEF Indices, count, Item
  <2>3. ShownItem' = ShownItem
    BY <2>1, <2>2 DEF ShownItem
  <2>4. ShownItem' \in ToSet(infos')
    BY <2>2, ShownIsListed
  <2>5. infos' \in Seq(Urls)
    BY ShownIsListed
  <2>6. QED
    BY <1>2, <2>1, <2>3, <2>4, <2>5 DEF J!Next, J!Edit, J!ToSet, ToSet
<1>5. QED
  BY <1>3, <1>4

\* A decision carried out after an end begins at most the shown item.
LEMMA FinishIsJukebox ==
  ASSUME Known, PatientInv, TypeOK', core = "idle", NEW p, Finish(p)
  PROVE  [J!Next]_(J!jukeboxVars)
<1>1. core' \in {"idle", "loading"}
  BY FinishOnIdle
<1>2. PlayedFile = None /\ PlayedFile' = None
  BY <1>1 DEF PlayedFile
<1>3. QED
  BY <1>2, ShownIsListed, IsEdit

\* A step that leaves list and core alone is none of the jukebox.
LEMMA QuietIsJukebox ==
  ASSUME UNCHANGED <<infos, current, coreVars>>
  PROVE  [J!Next]_(J!jukeboxVars)
BY DEF J!jukeboxVars, ShownItem, PlayedFile, coreVars, Indices, count, Item

\* mpv begins the shown item, or ends it.
LEMMA CoreIsJukebox ==
  ASSUME Known, PatientInv, TypeOK', MpvStep
  PROVE  [J!Next]_(J!jukeboxVars)
<1>1. UNCHANGED <<infos, current>>
  BY DEF MpvStep, playlistVars, listVars
<1>2. CASE CoreFileLoaded
  <2>1. /\ core = "loading" /\ ~stopping /\ core' = "playing"
        /\ UNCHANGED <<file, stopping>>
    BY <1>2 DEF CoreFileLoaded
  <2>2. current \in Indices /\ file = Item(current)
    BY <2>1 DEF PatientInv, CurrentIsOn
  <2>3. ShownItem = file /\ ShownItem' = ShownItem
    BY <1>1, <2>2 DEF ShownItem, Indices, count, Item
  <2>4. ShownItem' # None
    <3>1. (current \in Indices)'
      BY <1>1, <2>2 DEF Indices, count
    <3>2. QED
      BY <3>1, ShownIsListed
  <2>5. PlayedFile = None /\ PlayedFile' = file
    BY <2>1 DEF PlayedFile
  <2>6. QED
    BY <1>1, <2>3, <2>4, <2>5 DEF J!Next, J!Begin
<1>3. CASE EndOfFile
  <2>1. PlayedFile' = None
    BY <1>3 DEF EndOfFile, PlayedFile
  <2>2. QED
    BY <1>1, <2>1, IsGoOff
<1>4. QED
  BY <1>2, <1>3 DEF MpvStep, MpvNext, CoreLoadFailed, CorePlayedToEnd, CoreStopped

\* Every step of the player is one of the jukebox, or none.
LEMMA StepIsJukebox ==
  ASSUME Patient, Known, PatientInv, [Next]_vars
  PROVE  [J!Next]_(J!jukeboxVars)
<1>0. TypeOK'
  BY TypeStep DEF Known
<1>1. CASE PlayNext \/ StartPlay
  <2>1. PICK p \in NextPlans(TRUE, Idle) : Request(p)
    BY <1>1 DEF PlayNext, StartPlay
  <2>2. Idle \in BOOLEAN /\ \E op : UserMay(op)
    BY <1>1 DEF Idle, PlayNext, StartPlay
  <2>3. QED
    BY <1>0, <2>1, <2>2, PlansAreCareful, RequestIsJukebox
<1>2. CASE PlayPrev
  <2>1. PICK p \in PrevPlans(Idle) : Request(p)
    BY <1>2 DEF PlayPrev
  <2>2. Idle \in BOOLEAN /\ \E op : UserMay(op)
    BY <1>2 DEF Idle, PlayPrev
  <2>3. QED
    BY <1>0, <2>1, <2>2, PlansAreCareful, RequestIsJukebox
<1>3. ASSUME NEW pos \in Indices, ChangeCurrent(pos)
      PROVE  [J!Next]_(J!jukeboxVars)
  <2>1. Careful(SelectPlan(pos), Idle)
    BY DEF Careful, SelectPlan, Play
  <2>2. QED
    BY <1>0, <1>3, <2>1, RequestIsJukebox DEF ChangeCurrent
<1>4. ASSUME NEW pos \in Indices, RemoveItem(pos)
      PROVE  [J!Next]_(J!jukeboxVars)
  BY <1>0, <1>4, RemovalIsJukebox
<1>5. CASE Clear
  <2>1. Careful(ClearAll, Idle) /\ ~ClearAll.wait
    BY DEF Careful, ClearAll
  <2>2. Request(ClearAll)
    BY <1>5, <2>1 DEF Clear, Request
  <2>3. QED
    BY <1>0, <1>5, <2>1, <2>2, RequestIsJukebox DEF Clear
<1>6. ASSUME NEW url \in Urls, AddPlayFile(url)
      PROVE  [J!Next]_(J!jukeboxVars)
  BY <1>0, <1>6, AdditionIsJukebox
<1>7. CASE (\E mode \in Modes : ChoosePlayMode(mode)) \/ PauseResume
  BY <1>7, QuietIsJukebox
     DEF ChoosePlayMode, SetPlayMode, PauseResume, mpvVars, playlistVars, listVars
<1>8. CASE OnFileLoaded \/ OnPauseChanged \/ PollDropsEvent
  BY <1>8, QuietIsJukebox
     DEF OnFileLoaded, OnPauseChanged, PollDropsEvent, playlistVars, listVars
<1>9. ASSUME NEW kind \in {"end", "idle"}, OnEnd(kind)
      PROVE  [J!Next]_(J!jukeboxVars)
  <2>1. CASE UNCHANGED <<playlistVars, coreVars>>
    BY <2>1, QuietIsJukebox DEF playlistVars, listVars
  <2>2. CASE state # "Stopped" /\ AdvanceAfterEnd
    <3>1. core = "idle"
      BY <1>9, <2>2, EndKeeps
    <3>2. CASE UNCHANGED <<listVars, coreVars>>
      <4>1. PlayedFile' = None
        BY <3>1, <3>2 DEF PlayedFile, coreVars
      <4>2. QED
        BY <1>0, <3>2, <4>1, IsGoOff DEF listVars
    <3>3. ASSUME NEW p, Finish(p)
          PROVE  [J!Next]_(J!jukeboxVars)
      BY <1>0, <3>1, <3>3, FinishIsJukebox
    <3>4. QED
      BY <2>2, <3>2, <3>3 DEF AdvanceAfterEnd
  <2>3. QED
    BY <1>9, <2>1, <2>2 DEF OnEnd
<1>10. CASE PollMeetsEnd
  <2>1. core = "idle" /\ Finish(plan)
    BY <1>10, PollKeeps DEF PollMeetsEnd
  <2>2. QED
    BY <1>0, <2>1, FinishIsJukebox
<1>11. CASE MpvStep
  BY <1>0, <1>11, CoreIsJukebox
<1>12. CASE UNCHANGED vars
  BY <1>12, QuietIsJukebox DEF vars, mpvVars, playlistVars, listVars
<1>13. QED
  BY <1>1, <1>2, <1>3, <1>4, <1>5, <1>6, <1>7, <1>8, <1>9, <1>10, <1>11, <1>12
     DEF Next, User, Handler

\* The player implements Jukebox: however ends, files and decisions interleave, the
\* item _current points at is the one mpv plays, and editing the list disturbs it
\* only when it is that item that is removed.
THEOREM PlayerIsJukebox ==
  ASSUME Patient
  PROVE  Spec => IsJukebox
<1>1. Init => J!Init
  <2> SUFFICES ASSUME Init
               PROVE  J!Init
    OBVIOUS
  <2>1. TypeOK /\ current = -1 /\ core = "idle"
    BY TypeInit DEF Init, PlaylistInit, MpvInit
  <2>2. infos \in Seq(Urls) /\ ShownItem = None /\ PlayedFile = None
    BY <2>1 DEF TypeOK, PlaylistTypeOK, ShownItem, PlayedFile, Indices
  <2>3. QED
    BY <2>2 DEF J!Init
<1>2. Known /\ PatientInv /\ [Next]_vars => [J!Next]_(J!jukeboxVars)
  BY StepIsJukebox
<1>3. QED
  BY <1>1, <1>2, PatientHolds, PTL DEF Spec, IsJukebox, J!Spec

\* No step of the abstract player parts what is on from what is shown.
LEMMA JukeboxStaysConsistent ==
  J!Consistent /\ [J!Next]_(J!jukeboxVars) => J!Consistent'
<1> SUFFICES ASSUME J!Consistent, [J!Next]_(J!jukeboxVars)
             PROVE  J!Consistent'
  OBVIOUS
<1>1. CASE J!Begin
  BY <1>1 DEF J!Begin, J!Consistent
<1>2. CASE J!GoOff
  BY <1>2 DEF J!GoOff, J!Consistent
<1>3. CASE J!Edit
  <2>1. CASE PlayedFile \in J!ToSet(infos')
    <3>1. PlayedFile # None
      <4>1. \A s \in Seq(Urls) : J!ToSet(s) \subseteq Urls
        BY DEF J!ToSet
      <4>2. QED
        BY <1>3, <2>1, <4>1, MediaAssumption DEF J!Edit
    <3>2. QED
      BY <1>3, <2>1, <3>1 DEF J!Edit, J!Consistent
  <2>2. CASE PlayedFile \notin J!ToSet(infos')
    BY <1>3, <2>2 DEF J!Edit, J!Consistent
  <2>3. QED
    BY <2>1, <2>2
<1>4. CASE UNCHANGED J!jukeboxVars
  BY <1>4 DEF J!jukeboxVars, J!Consistent
<1>5. QED
  BY <1>1, <1>2, <1>3, <1>4 DEF J!Next

\* What follows from the abstract player alone.
LEMMA JukeboxIsConsistent == J!Spec => []J!Consistent
<1>1. J!Init => J!Consistent
  BY DEF J!Init, J!Consistent
<1>2. QED
  BY <1>1, JukeboxStaysConsistent, PTL DEF J!Spec

\* Whatever is edited and chosen, only the item shown as current is on, and it
\* is an item of the list: PlaylistModel::_current never points beside what is
\* heard.
THEOREM ShownIsOn ==
  ASSUME Patient
  PROVE  Spec => []J!Consistent
BY PlayerIsJukebox, JukeboxIsConsistent, PTL DEF IsJukebox

(***************************************************************************)
(* The window and the burst screenshots over the player: what is true      *)
(* between two steps.                                                      *)
(***************************************************************************)

\* The player is as its own theorems say, whoever else toggles the pause.
PlayerInv == TypeOK /\ EndInv /\ ToldInv

\* The variables of the window and the burst that are flags.
WindowTypes == {visible, pausedOnHide, dialog, inBurst, stepping, asked, overruled, tidy} \subseteq BOOLEAN

\* An idle core that is paused will report it, and be resumed.
IdleIsTold == core = "idle" /\ pause => pauseChanged

\* Only a file that plays is stepped.
StepsPlaying == stepping => core = "playing"

\* A burst, and its last step, are over when the dialog is closed.
BurstIsShown == ~dialog => ~inBurst /\ ~stepping

\* An open dialog is in front of the user.
DialogInFront == dialog => visible /\ ~pausedOnHide

\* A film paused because the window was hidden stays as it is until it is shown.
HiddenPause ==
  pausedOnHide =>
    /\ ~visible /\ (~overruled => ~asked)
    /\ core = "playing" /\ ~stopping /\ pause
    /\ thread = "loop" /\ events = <<>>

\* Under an open dialog the film is the one the burst was begun on, which the user
\* had not paused: the burst has, or lets mpv step a frame, which pauses it again.
BurstPauses ==
  dialog /\ ~overruled =>
    /\ core \in {"idle", "playing"} /\ ~stopping
    /\ thread = "loop" /\ events = <<>>
    /\ core = "playing" => ~asked /\ (pause \/ stepping)

\* Otherwise the film is paused if the user asked for it.
PauseIsAsked == ~dialog /\ ~pausedOnHide /\ ~overruled => (pause <=> asked)

\* The user's word on the pause is forgotten when nothing plays any more.
IdleForgets == core = "idle" /\ ~pause /\ ~overruled => ~asked

TidyInv ==
  /\ BurstIsShown
  /\ DialogInFront
  /\ HiddenPause
  /\ BurstPauses
  /\ PauseIsAsked
  /\ IdleForgets

WindowInv ==
  /\ PlayerInv
  /\ WindowTypes
  /\ IdleIsTold
  /\ StepsPlaying
  /\ tidy => TidyInv

(***************************************************************************)
(* The player under the window.                                            *)
(***************************************************************************)

\* The steps of the window and of a burst change nothing of the player but its
\* pause, which is announced.
PauseOnly ==
  /\ UNCHANGED playerRest
  /\ pause' \in BOOLEAN
  /\ pauseChanged' = (pauseChanged \/ pause' # pause)
  /\ fault' \in {"none", "noCurrent", "staleCurrent", "noItem"}

\* Every step that is not one of the player itself is such a step.
LEMMA WindowIsPauseOnly ==
  ASSUME TypeOK, HideEvent \/ ShowEvent \/ OpenBurst \/ StepBurst \/ CloseDialog \/ FrameStepped
  PROVE  PauseOnly
<1>1. pause \in BOOLEAN /\ pauseChanged \in BOOLEAN
      /\ fault \in {"none", "noCurrent", "staleCurrent", "noItem"}
  BY DEF TypeOK, MpvTypeOK
<1>2. UNCHANGED <<pause, pauseChanged>> => pauseChanged' = (pauseChanged \/ pause' # pause)
  BY <1>1
<1>3. Toggle => pause' \in BOOLEAN /\ pauseChanged' = (pauseChanged \/ pause' # pause)
  BY <1>1, <1>2 DEF Toggle, SetPause
<1>4. FrameStep => pause' \in BOOLEAN /\ pauseChanged' = (pauseChanged \/ pause' # pause)
  BY <1>1, <1>2 DEF FrameStep, SetPause
<1>5. CASE HideEvent \/ ShowEvent \/ CloseDialog
  BY <1>1, <1>2, <1>3, <1>5 DEF HideEvent, ShowEvent, CloseDialog, PauseOnly
<1>6. CASE OpenBurst
  BY <1>1, <1>2, <1>3, <1>6, FaultType DEF OpenBurst, PauseOnly
<1>7. CASE StepBurst
  BY <1>1, <1>2, <1>4, <1>7 DEF StepBurst, PauseOnly
<1>8. CASE FrameStepped
  BY <1>1, <1>8 DEF FrameStepped, SetPause, PauseOnly
<1>9. QED
  BY <1>5, <1>6, <1>7, <1>8

\* Such a step keeps what is said of the player.
LEMMA PauseOnlyKeeps ==
  ASSUME PlayerInv, PauseOnly
  PROVE  PlayerInv'
<1>1. UNCHANGED <<playlistVars, coreVars, events, state, thread, plan>>
  BY DEF PauseOnly, playerRest
<1>2. TypeOK'
  BY <1>1 DEF PlayerInv, TypeOK, PauseOnly, PlaylistTypeOK, MpvTypeOK, playlistVars, listVars, coreVars,
              count, Indices
<1>3. EndInv'
  BY <1>1, EndInvQuiet DEF PlayerInv, coreVars
<1>4. PlayingIsTold' /\ PollsPlaying' /\ LoadedIsAnnounced'
  BY <1>1 DEF PlayerInv, ToldInv, PauseOnly, PlayingIsTold, PollsPlaying, LoadedIsAnnounced, coreVars,
              TypeOK, MpvTypeOK
<1>5. PauseIsTold'
  BY <1>1 DEF PlayerInv, ToldInv, PauseOnly, PauseIsTold, TypeOK, MpvTypeOK
<1>6. QED
  BY <1>2, <1>3, <1>4, <1>5 DEF PlayerInv, ToldInv

\* And so does every other.
LEMMA PlayerKeeps == PlayerInv /\ [WindowNext]_allVars => PlayerInv'
<1> SUFFICES ASSUME PlayerInv, [WindowNext]_allVars PROVE PlayerInv'
  OBVIOUS
<1>1. CASE UserStep \/ EventStep \/ UNCHANGED allVars
  <2>1. [Next]_vars
    BY <1>1 DEF UserStep, EventStep, Next, allVars
  <2>2. QED
    BY <2>1, TypeStep, EndInvStep, ToldStep DEF PlayerInv
<1>2. CASE ~(UserStep \/ EventStep \/ UNCHANGED allVars)
  BY <1>2, WindowIsPauseOnly, PauseOnlyKeeps DEF WindowNext, PlayerInv
<1>3. QED
  BY <1>1, <1>2

\* Between two steps the state the program knows is mpv's, once mpv has settled.
LEMMA PlayerIsTrue == PlayerInv => SettledStateIsTrue
BY DEF PlayerInv, EndInv, ToldInv, PlayingIsTold, PauseIsTold, EndWillCome, EndIsDue,
       SettledStateIsTrue, InLoop, Settled, TypeOK, MpvTypeOK

\* Neither the user nor a handler ends a file: mpv does.
LEMMA OnlyMpvEnds ==
  ASSUME TypeOK, User \/ Handler
  PROVE  core' = "idle" => core = "idle"
<1>1. ASSUME NEW p, Request(p) PROVE core' = "idle" => core = "idle"
  BY <1>1, CommandsKeepBusy, FinishKeepsBusy DEF Request, WaitLastEnd
<1>2. CASE PlayNext \/ PlayPrev \/ StartPlay \/ \E pos \in Indices : ChangeCurrent(pos)
  BY <1>1, <1>2 DEF PlayNext, PlayPrev, StartPlay, ChangeCurrent
<1>3. ASSUME NEW pos \in Indices, RemoveItem(pos) PROVE core' = "idle" => core = "idle"
  BY <1>3, CommandsKeepBusy DEF RemoveItem, WaitLastEnd, coreVars
<1>4. CASE Clear
  BY <1>4, FinishKeepsBusy DEF Clear
<1>5. CASE (\E url \in Urls : AddPlayFile(url)) \/ (\E mode \in Modes : ChoosePlayMode(mode)) \/ PauseResume
  BY <1>5 DEF AddPlayFile, ChoosePlayMode, PauseResume, mpvVars, coreVars
<1>6. CASE Handler
  BY <1>6, FinishKeepsBusy
     DEF Handler, OnFileLoaded, OnEnd, AdvanceAfterEnd, OnPauseChanged, PollDropsEvent, PollMeetsEnd, coreVars
<1>7. QED
  BY <1>2, <1>3, <1>4, <1>5, <1>6 DEF User

\* A step of the player changes the pause of an idle core only to resume it.
LEMMA EventsPause ==
  ASSUME TypeOK, Handler \/ MpvStep
  PROVE  pause' = pause \/ (core' = "idle" /\ ~pause')
<1>1. CASE Handler
  BY <1>1 DEF Handler, OnFileLoaded, OnEnd, OnPauseChanged, PollDropsEvent, PollMeetsEnd, IdlePaused, coreVars
<1>2. CASE MpvStep
  BY <1>2 DEF MpvStep, MpvNext, CoreFileLoaded, CoreLoadFailed, CorePlayedToEnd, CoreStopped, EndOfFile
<1>3. QED
  BY <1>1, <1>2

(***************************************************************************)
(* The steps.                                                              *)
(***************************************************************************)

\* The Boolean variables stay Boolean.
LEMMA TypesKeep == PlayerInv /\ WindowTypes /\ [WindowNext]_allVars => WindowTypes'
<1> SUFFICES ASSUME PlayerInv, WindowTypes, [WindowNext]_allVars PROVE WindowTypes'
  OBVIOUS
<1>1. PlayerInv'
  BY PlayerKeeps
<1>2. pause \in BOOLEAN /\ pause' \in BOOLEAN
  BY <1>1 DEF PlayerInv, TypeOK, MpvTypeOK
<1> USE DEF WindowTypes
<1>3. CASE HideEvent \/ ShowEvent
  BY <1>3 DEF HideEvent, ShowEvent, StaysTidy, burstVars, RememberedAfter
<1>4. CASE OpenBurst \/ StepBurst
  BY <1>4 DEF OpenBurst, StepBurst, StaysTidy, windowVars, FrameStep
<1>5. CASE CloseDialog \/ FrameStepped
  BY <1>5 DEF CloseDialog, FrameStepped, StaysTidy, windowVars, burstVars
<1>6. CASE UserStep \/ EventStep
  BY <1>2, <1>6 DEF UserStep, EventStep, StaysTidy, StepsOn, windowVars, burstVars
<1>7. CASE UNCHANGED allVars
  BY <1>7 DEF allVars, windowVars, burstVars
<1>8. QED
  BY <1>3, <1>4, <1>5, <1>6, <1>7 DEF WindowNext

\* An idle core is not left paused without news of it: the poll, which drops the
\* news, goes on only while a file is on.
LEMMA IdleToldKeeps == PlayerInv /\ IdleIsTold /\ [WindowNext]_allVars => IdleIsTold'
<1> SUFFICES ASSUME PlayerInv, IdleIsTold, [WindowNext]_allVars PROVE IdleIsTold'
  OBVIOUS
<1>1. TypeOK /\ pause \in BOOLEAN /\ pauseChanged \in BOOLEAN
  BY DEF PlayerInv, TypeOK, MpvTypeOK
<1>2. CASE PauseOnly
  BY <1>1, <1>2 DEF PauseOnly, playerRest, coreVars, IdleIsTold
<1>3. CASE User
  <2>1. pauseChanged' = (pauseChanged \/ pause' # pause)
    <3>1. PauseResume \/ UNCHANGED <<pause, pauseChanged>>
      BY <1>3 DEF User, PlayNext, PlayPrev, StartPlay, ChangeCurrent, RemoveItem, Clear, AddPlayFile,
                  ChoosePlayMode, Request, mpvVars
    <3>2. QED
      BY <1>1, <3>1 DEF PauseResume
  <2>2. QED
    BY <1>1, <1>3, <2>1, OnlyMpvEnds DEF IdleIsTold
<1>4. CASE Handler
  <2>1. CASE OnPauseChanged
    BY <1>1, <2>1 DEF OnPauseChanged, IdlePaused, coreVars, IdleIsTold
  <2>2. CASE PollDropsEvent
    <3>1. UNCHANGED pauseChanged \/ core # "idle"
      BY <2>2 DEF PollDropsEvent, Polling, PlayerInv, EndInv, EndWillCome, EndIsDue, ToldInv, PollsPlaying
    <3>2. QED
      BY <2>2, <3>1 DEF PollDropsEvent, coreVars, IdleIsTold
  <2>3. CASE OnFileLoaded \/ OnEnd("end") \/ OnEnd("idle") \/ PollMeetsEnd
    <3>1. UNCHANGED <<pause, pauseChanged>>
      BY <2>3 DEF OnFileLoaded, OnEnd, PollMeetsEnd
    <3>2. QED
      BY <1>1, <1>4, <3>1, OnlyMpvEnds DEF IdleIsTold
  <2>4. QED
    BY <1>4, <2>1, <2>2, <2>3 DEF Handler
<1>5. CASE MpvStep
  BY <1>5 DEF MpvStep, MpvNext, CoreFileLoaded, CoreLoadFailed, CorePlayedToEnd, CoreStopped, EndOfFile,
              IdleIsTold
<1>6. CASE UNCHANGED allVars
  BY <1>6 DEF allVars, vars, mpvVars, coreVars, IdleIsTold
<1>7. QED
  BY <1>1, <1>2, <1>3, <1>4, <1>5, <1>6, WindowIsPauseOnly DEF WindowNext, UserStep, EventStep

\* A file is stepped only while it plays.
LEMMA StepsPlayingKeeps == StepsPlaying /\ [WindowNext]_allVars => StepsPlaying'
<1> SUFFICES ASSUME StepsPlaying, [WindowNext]_allVars PROVE StepsPlaying'
  OBVIOUS
<1>1. CASE UserStep \/ EventStep
  BY <1>1 DEF UserStep, EventStep, StepsOn, StepsPlaying
<1>2. CASE HideEvent \/ ShowEvent \/ OpenBurst \/ StepBurst \/ CloseDialog \/ FrameStepped
  BY <1>2 DEF HideEvent, ShowEvent, OpenBurst, StepBurst, CloseDialog, FrameStepped, FrameStep,
              StepsPlaying, playerRest, coreVars
<1>3. CASE UNCHANGED allVars
  BY <1>3 DEF allVars, vars, mpvVars, coreVars, StepsPlaying
<1>4. QED
  BY <1>1, <1>2, <1>3 DEF WindowNext

\* What the window or the user finds when mpv has settled.
LEMMA WhenTidy ==
  ASSUME PlayerInv, InLoop, AllSettled
  PROVE  /\ events = <<>> /\ ~pauseChanged /\ ~stopping /\ thread = "loop" /\ ~stepping
         /\ core \in {"idle", "playing"}
         /\ core = "idle" <=> state = "Stopped"
         /\ state # "Stopped" => state = IF pause THEN "Paused" ELSE "Playing"
BY PlayerIsTrue DEF PlayerInv, TypeOK, MpvTypeOK, InLoop, AllSettled, Settled, SettledStateIsTrue

\* An event while the film is paused behind the hidden window.
LEMMA EventsHidden ==
  ASSUME TypeOK, Handler \/ MpvStep, thread = "loop", events = <<>>, core = "playing", ~stopping, pause
  PROVE  UNCHANGED <<thread, events, core, stopping, pause>>
<1>1. OnPauseChanged
  BY DEF Handler, OnFileLoaded, OnEnd, NextEvent, PollDropsEvent, PollMeetsEnd, Polling, MpvStep, MpvNext,
         CoreFileLoaded, CoreLoadFailed, CorePlayedToEnd, CoreStopped
<1>2. QED
  BY <1>1 DEF OnPauseChanged, IdlePaused, coreVars

\* An event while a file plays under an open dialog, or none does.
LEMMA EventsInDialog ==
  ASSUME TypeOK, Handler \/ MpvStep, thread = "loop", events = <<>>, core \in {"idle", "playing"}, ~stopping
  PROVE  \/ core = "playing" /\ core' # "playing"
         \/ UNCHANGED <<thread, events, core, stopping>>
<1>1. CASE Handler
  <2>1. OnPauseChanged
    BY <1>1 DEF Handler, OnFileLoaded, OnEnd, NextEvent, PollDropsEvent, PollMeetsEnd, Polling
  <2>2. QED
    BY <2>1 DEF OnPauseChanged, coreVars
<1>2. CASE MpvStep
  <2>1. CorePlayedToEnd
    BY <1>2 DEF MpvStep, MpvNext, CoreFileLoaded, CoreLoadFailed, CoreStopped
  <2>2. QED
    BY <2>1 DEF CorePlayedToEnd, EndOfFile
<1>3. QED
  BY <1>1, <1>2

\* What is true after requests that were all tidy.
LEMMA TidyKeeps ==
  ASSUME WindowInv, WindowTypes', [WindowNext]_allVars, tidy'
  PROVE  TidyInv'
<1>1. tidy /\ TypeOK /\ PlayerInv /\ TidyInv
  <2>1. tidy
    BY DEF WindowNext, HideEvent, ShowEvent, OpenBurst, StepBurst, CloseDialog, UserStep, EventStep,
           FrameStepped, StaysTidy, allVars
  <2>2. QED
    BY <2>1 DEF WindowInv, PlayerInv
<1>2. pause \in BOOLEAN /\ asked \in BOOLEAN /\ dialog \in BOOLEAN /\ inBurst \in BOOLEAN
      /\ overruled \in BOOLEAN /\ pausedOnHide \in BOOLEAN /\ visible \in BOOLEAN
  BY <1>1 DEF TypeOK, MpvTypeOK, WindowInv, WindowTypes
<1> USE DEF TidyInv, BurstIsShown, DialogInFront, HiddenPause, BurstPauses, PauseIsAsked, IdleForgets
<1>3. CASE HideEvent
  <2>1. AllSettled /\ ~dialog /\ visible /\ InLoop
    BY <1>3 DEF HideEvent, StaysTidy
  <2>2. /\ events = <<>> /\ ~stopping /\ thread = "loop" /\ ~stepping
        /\ core \in {"idle", "playing"}
        /\ core = "idle" <=> state = "Stopped"
        /\ state # "Stopped" => state = IF pause THEN "Paused" ELSE "Playing"
    BY <1>1, <2>1, WhenTidy
  <2>3. UNCHANGED <<core, stopping, events, thread, dialog, inBurst, stepping, asked, overruled>> /\ ~visible'
    BY <1>3 DEF HideEvent, playerRest, coreVars, burstVars
  <2>4. CASE PauseOnMinimize /\ state = "Playing"
    <3>1. pausedOnHide' /\ pause' = TRUE
      BY <1>3, <2>4 DEF HideEvent, Toggle, SetPause, Idle
    <3>2. QED
      BY <1>1, <2>1, <2>2, <2>3, <2>4, <3>1
  <2>5. CASE ~(PauseOnMinimize /\ state = "Playing")
    <3>1. UNCHANGED <<pausedOnHide, pause>>
      BY <1>3, <2>5 DEF HideEvent
    <3>2. QED
      BY <1>1, <2>1, <2>3, <3>1
  <2>6. QED
    BY <2>4, <2>5
<1>4. CASE ShowEvent
  <2>1. AllSettled /\ ~dialog /\ ~visible /\ InLoop
    BY <1>4 DEF ShowEvent, StaysTidy
  <2>2. /\ core = "idle" <=> state = "Stopped"
        /\ state # "Stopped" => state = IF pause THEN "Paused" ELSE "Playing"
    BY <1>1, <2>1, WhenTidy
  <2>3. UNCHANGED <<core, stopping, events, thread, dialog, inBurst, stepping, asked, overruled>>
    BY <1>4 DEF ShowEvent, playerRest, coreVars, burstVars
  <2>4. CASE pausedOnHide
    <3>1. state = "Paused"
      BY <1>1, <2>2, <2>4
    <3>2. ~pausedOnHide' /\ pause' = FALSE
      BY <1>4, <2>4, <3>1 DEF ShowEvent, Resumes, RememberedAfter, Toggle, SetPause, Idle
    <3>3. QED
      BY <1>1, <2>1, <2>3, <2>4, <3>2
  <2>5. CASE ~pausedOnHide
    <3>1. UNCHANGED <<pausedOnHide, pause>>
      BY <1>4, <2>5 DEF ShowEvent, Resumes
    <3>2. QED
      BY <1>1, <2>1, <2>3, <2>5, <3>1
  <2>6. QED
    BY <2>4, <2>5
<1>5. CASE OpenBurst
  <2>1. AllSettled /\ visible /\ InLoop /\ dialog' /\ ~pausedOnHide
    BY <1>1, <1>5 DEF OpenBurst, StaysTidy
  <2>2. /\ events = <<>> /\ ~stopping /\ thread = "loop"
        /\ core \in {"idle", "playing"}
        /\ core = "idle" <=> Idle
    BY <1>1, <2>1, WhenTidy DEF Idle
  <2>3. UNCHANGED <<core, stopping, events, thread, visible, pausedOnHide, asked>>
        /\ (overruled' <=> overruled \/ (asked /\ ~Idle))
    BY <1>5 DEF OpenBurst, playerRest, coreVars, windowVars
  <2>4. Idle => UNCHANGED pause
    BY <1>5 DEF OpenBurst
  <2>5. ASSUME ~Idle, ~overruled' PROVE ~asked /\ pause' = TRUE
    <3>1. ~asked /\ ~pause /\ ~inBurst
      BY <1>1, <1>5, <2>1, <2>3, <2>5 DEF OpenBurst
    <3>2. state = "Playing"
      BY <1>1, <2>1, <2>5, <3>1, WhenTidy DEF Idle
    <3>3. QED
      BY <1>5, <2>5, <3>1, <3>2 DEF OpenBurst, Toggle, SetPause
  <2>6. BurstPauses'
    BY <2>2, <2>3, <2>5
  <2>7. QED
    BY <1>1, <2>1, <2>2, <2>3, <2>4, <2>6
<1>6. CASE StepBurst
  <2>1. UNCHANGED <<core, stopping, events, thread, dialog, visible, pausedOnHide, asked, overruled>>
    BY <1>6 DEF StepBurst, playerRest, coreVars, windowVars
  <2>2. CASE ~inBurst
    <3>1. UNCHANGED <<inBurst, stepping, pause>>
      BY <1>6, <2>2 DEF StepBurst
    <3>2. QED
      BY <1>1, <2>1, <3>1
  <2>3. CASE inBurst
    <3>1. dialog
      BY <1>1, <2>3
    <3>2. UNCHANGED <<pause, stepping>> \/ (core = "playing" /\ stepping' = TRUE)
      BY <1>6 DEF StepBurst, FrameStep
    <3>3. QED
      BY <1>1, <2>1, <3>1, <3>2
  <2>4. QED
    BY <2>2, <2>3
<1>7. CASE CloseDialog
  <2>1. AllSettled /\ ~inBurst /\ dialog /\ ~dialog' /\ InLoop
    BY <1>7 DEF CloseDialog, StaysTidy
  <2>2. /\ ~stepping /\ ~pauseChanged
        /\ core \in {"idle", "playing"}
        /\ core = "idle" <=> state = "Stopped"
        /\ state # "Stopped" => state = IF pause THEN "Paused" ELSE "Playing"
    BY <1>1, <2>1, WhenTidy
  <2>3. UNCHANGED <<core, stopping, events, thread, visible, pausedOnHide, inBurst, stepping, asked, overruled>>
    BY <1>7 DEF CloseDialog, playerRest, coreVars, windowVars
  <2>4. ASSUME ~overruled PROVE pause' <=> asked'
    <3>1. CASE Idle
      <4>1. ~pause /\ core = "idle"
        BY <2>2, <3>1 DEF Idle, WindowInv, IdleIsTold
      <4>2. UNCHANGED <<pause, asked>>
        BY <1>7, <2>3, <3>1 DEF CloseDialog, Toggle
      <4>3. QED
        BY <1>1, <2>4, <4>1, <4>2
    <3>2. CASE ~Idle
      <4>1. ~asked /\ pause
        BY <1>1, <2>1, <2>2, <2>4, <3>2 DEF Idle
      <4>2. pause' = FALSE
        BY <1>7, <2>2, <3>2, <4>1 DEF CloseDialog, Toggle, SetPause, Idle
      <4>3. QED
        BY <2>3, <4>1, <4>2
    <3>3. QED
      BY <3>1, <3>2
  <2>5. QED
    BY <1>1, <2>1, <2>2, <2>3, <2>4
<1>8. CASE UserStep
  <2>1. AllSettled /\ visible /\ ~dialog /\ ~pausedOnHide
    BY <1>1, <1>8 DEF UserStep, StaysTidy
  <2>2. ~stepping' /\ UNCHANGED <<dialog, inBurst, visible, pausedOnHide>>
    BY <1>8, <2>1 DEF UserStep, StepsOn, AllSettled, windowVars, burstVars
  <2>3. ~overruled' => (pause' <=> asked')
    BY <1>1, <1>8, <2>1 DEF UserStep
  <2>4. QED
    BY <1>1, <2>1, <2>2, <2>3
<1>9. CASE EventStep
  <2>1. Handler \/ MpvStep
    BY <1>9 DEF EventStep
  <2>2. UNCHANGED <<dialog, inBurst, visible, pausedOnHide>> /\ (stepping' => stepping)
        /\ (asked' <=> asked /\ (core' = "idle" => pause'))
        /\ (overruled' <=> overruled \/ (dialog /\ core = "playing" /\ core' # "playing"))
        /\ (stepping' <=> stepping /\ core' = "playing")
    BY <1>9 DEF EventStep, StepsOn, windowVars, burstVars
  <2>3. pause' = pause \/ (core' = "idle" /\ ~pause')
    BY <1>1, <2>1, EventsPause
  <2>4. HiddenPause'
    BY <1>1, <2>1, <2>2, EventsHidden
  <2>5. PauseIsAsked' /\ IdleForgets'
    BY <1>1, <1>2, <2>2, <2>3
  <2>6. BurstPauses'
    BY <1>1, <1>2, <2>1, <2>2, <2>3, EventsInDialog
  <2>7. QED
    BY <1>1, <2>2, <2>4, <2>5, <2>6
<1>10. CASE FrameStepped
  <2>1. dialog /\ core = "playing"
    BY <1>1, <1>10 DEF FrameStepped, WindowInv, StepsPlaying
  <2>2. UNCHANGED <<core, stopping, events, thread, dialog, inBurst, visible, pausedOnHide, asked, overruled>>
    BY <1>10 DEF FrameStepped, playerRest, coreVars, windowVars, burstVars
  <2>3. pause' = TRUE
    BY <1>10 DEF FrameStepped, SetPause
  <2>4. QED
    BY <1>1, <2>1, <2>2, <2>3
<1>11. CASE UNCHANGED allVars
  BY <1>1, <1>11 DEF allVars, vars, mpvVars, coreVars, windowVars, burstVars
<1>12. QED
  BY <1>3, <1>4, <1>5, <1>6, <1>7, <1>8, <1>9, <1>10, <1>11 DEF WindowNext

\* The invariant holds at first,
LEMMA WindowInvInit == WindowInit => WindowInv
<1> SUFFICES ASSUME WindowInit PROVE WindowInv
  OBVIOUS
<1>1. Init /\ TypeOK
  BY TypeInit DEF WindowInit
<1>2. EndInv /\ ToldInv
  BY <1>1 DEF Init, MpvInit, EndInv, EndWillCome, LoadedIsEnded, ToldInv, PlayingIsTold, PollsPlaying,
              LoadedIsAnnounced, PauseIsTold
<1>3. WindowTypes /\ IdleIsTold /\ StepsPlaying
  BY <1>1 DEF WindowInit, WindowTypes, IdleIsTold, StepsPlaying, Init, MpvInit
<1>4. TidyInv
  BY <1>1 DEF WindowInit, TidyInv, BurstIsShown, DialogInFront, HiddenPause, BurstPauses, PauseIsAsked,
              IdleForgets, Init, MpvInit
<1>5. QED
  BY <1>1, <1>2, <1>3, <1>4 DEF WindowInv, PlayerInv

\* and every step keeps it.
LEMMA WindowInvStep == WindowInv /\ [WindowNext]_allVars => WindowInv'
<1> SUFFICES ASSUME WindowInv, [WindowNext]_allVars PROVE WindowInv'
  OBVIOUS
<1>1. PlayerInv' /\ WindowTypes' /\ IdleIsTold' /\ StepsPlaying'
  BY PlayerKeeps, TypesKeep, IdleToldKeeps, StepsPlayingKeeps DEF WindowInv
<1>2. tidy' => TidyInv'
  BY <1>1, TidyKeeps
<1>3. QED
  BY <1>1, <1>2 DEF WindowInv

(***************************************************************************)
(* The theorems.                                                           *)
(***************************************************************************)

\* The window's invariant, for every behaviour.
LEMMA WindowInvHolds == WindowSpec => []WindowInv
BY WindowInvInit, WindowInvStep, PTL DEF WindowSpec

\* Hiding, showing and bursts of any length leave the film paused in front of the
\* user exactly when that is what was asked for last, unless a burst was begun since on
\* a film the user had paused, or its film ended under the dialog.
THEOREM AskedIsPlayed == WindowSpec => []PlaysAsAsked
<1>1. WindowInv => PlaysAsAsked
  <2> SUFFICES ASSUME WindowInv, tidy, ~overruled, InLoop, AllSettled, visible, ~dialog, ~Idle
               PROVE  state = "Paused" <=> asked
    BY DEF PlaysAsAsked
  <2>1. PlayerInv /\ ~pausedOnHide /\ (pause <=> asked)
    BY DEF WindowInv, TidyInv, HiddenPause, PauseIsAsked
  <2>2. state = IF pause THEN "Paused" ELSE "Playing"
    BY <2>1, WhenTidy DEF Idle
  <2>3. QED
    BY <2>1, <2>2
<1>2. QED
  BY <1>1, WindowInvHolds, PTL

\* What the window remembers while it is hidden is used up when it is shown, so that
\* no later showing undoes a pause of the user.
THEOREM NoStaleMemory == WindowSpec => []RemembersWhileHidden
<1>1. WindowInv => RemembersWhileHidden
  BY DEF WindowInv, TidyInv, HiddenPause, RemembersWhileHidden
<1>2. QED
  BY <1>1, WindowInvHolds, PTL

\* What the player's theorems say of its state and of the end it polls for stays
\* true when the window and the bursts toggle its pause at any moment.
THEOREM PlayerUnderWindow == WindowSpec => [](EndWillCome /\ SettledStateIsTrue)
<1>1. WindowInv => EndWillCome /\ SettledStateIsTrue
  BY PlayerIsTrue DEF WindowInv, PlayerInv, EndInv
<1>2. QED
  BY <1>1, WindowInvHolds, PTL
==============================================================================

