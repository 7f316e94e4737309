---------------------------- MODULE ThumbnailProofs ----------------------------
(***************************************************************************)
(* Theorems about the preview, for any films, any positions, any number of *)
(* requests and any threshold.                                             *)
(***************************************************************************)
EXTENDS ThumbnailWorker, FiniteSetTheorems, SequenceTheorems, WellFoundedInduction, TLAPS

Busy == {"clean", "look", "generate", "emit"}

\* Requests are numbered as they are made; the worker takes the newest and
\* drops the others, so that what waits is newer than what is in work, and
\* what is in work newer than what was delivered or is on its way.
InOrder ==
  /\ work.id <= hover.id
  /\ preview.id <= work.id
  /\ \A i \in DOMAIN wq : work.id < wq[i].id /\ wq[i].id <= hover.id
  /\ \A i \in DOMAIN signals : preview.id <= signals[i].id /\ signals[i].id <= work.id
  /\ \A i, j \in DOMAIN signals : i < j => signals[i].id <= signals[j].id
  /\ pc \in Busy => \A i \in DOMAIN signals : signals[i].id < work.id

\* The picture of the request in work is kept from its entry until the next
\* request is taken.
LastIsKept ==
  /\ pc \in Busy => work \in Requests
  /\ pc = "emit" => PictureOf(work) # {}
  /\ \A i \in DOMAIN signals :
       signals[i].id = work.id => signals[i] = work /\ PictureOf(work) # {}

IInv == TypeOK /\ InOrder /\ LastIsKept

-----------------------------------------------------------------------------
\* Numbers of requests are natural.
LEMMA IdsAreNat ==
  ASSUME TypeOK
  PROVE  /\ work.id \in Nat /\ hover.id \in Nat /\ preview.id \in Nat
         /\ \A i \in DOMAIN wq : wq[i] \in Requests /\ wq[i].id \in Nat
         /\ \A i \in DOMAIN signals : signals[i] \in Requests /\ signals[i].id \in Nat
<1>1. \A r \in Requests \cup {NoRequest} : r.id \in Nat
  BY ThumbnailAssumption DEF Requests, NoRequest
<1>2. QED
  BY <1>1 DEF TypeOK

\* The worker starts with nothing to do.
LEMMA InitKeeps == Init => IInv
<1> SUFFICES ASSUME Init
             PROVE  IInv
  OBVIOUS
<1>1. TypeOK
  <2>1. <<>> \in Seq(Requests)
    OBVIOUS
  <2>2. QED
    BY <2>1, Zenon DEF Init, TypeOK
<1>2. InOrder /\ LastIsKept
  BY DEF Init, InOrder, LastIsKept, Busy, NoRequest
<1>3. QED
  BY <1>1, <1>2 DEF IInv

\* The step that takes the newest request: all signals are then older.
LEMMA TakeKeeps ==
  ASSUME IInv, TakeWork
  PROVE  IInv'
<1> USE DEF IInv
<1>1. Head(wq) = wq[1] /\ 1 \in DOMAIN wq /\ wq[1] \in Requests
  BY IdsAreNat DEF TakeWork, TypeOK
<1>2. TypeOK'
  BY <1>1 DEF TakeWork, TypeOK, Remaining, mainVars
<1>3. \A i \in DOMAIN signals : signals[i].id < work'.id
  BY <1>1, IdsAreNat DEF TakeWork, InOrder
<1>4. InOrder'
  BY <1>1, <1>3, IdsAreNat DEF TakeWork, InOrder, Remaining, mainVars
<1>5. LastIsKept'
  BY <1>1, <1>3, IdsAreNat DEF TakeWork, LastIsKept, mainVars
<1>6. QED
  BY <1>2, <1>4, <1>5

\* The steps that leave request, queue of signals and cache alone.
LEMMA LeaveKeeps ==
  ASSUME IInv, Leave \/ LookUp
  PROVE  IInv'
<1> USE DEF IInv
<1>1. CASE Leave
  <2>1. TypeOK'
    BY <1>1 DEF Leave, TypeOK, mainVars
  <2>2. InOrder' /\ LastIsKept'
    BY <1>1 DEF Leave, InOrder, LastIsKept, Busy, PictureOf, mainVars
  <2>3. QED
    BY <2>1, <2>2
<1>2. CASE LookUp
  <2>1. TypeOK'
    BY <1>2 DEF LookUp, TypeOK, mainVars
  <2>2. InOrder'
    BY <1>2 DEF LookUp, InOrder, Busy, mainVars
  <2>3. LastIsKept'
    BY <1>2 DEF LookUp, LastIsKept, isThumbGenerated, PictureOf, Busy, mainVars
  <2>4. QED
    BY <2>1, <2>2, <2>3
<1>3. QED
  BY <1>1, <1>2

\* Cleaning happens while no signal on its way is of the request in work.
LEMMA CleanKeeps ==
  ASSUME IInv, CleanCache
  PROVE  IInv'
<1> USE DEF IInv
<1>1. TypeOK'
  BY DEF CleanCache, TypeOK, mainVars
<1>2. InOrder'
  BY DEF CleanCache, InOrder, Busy, mainVars
<1>3. \A i \in DOMAIN signals : signals[i].id # work.id
  BY IdsAreNat DEF CleanCache, InOrder, Busy
<1>4. LastIsKept'
  BY <1>3 DEF CleanCache, LastIsKept, Busy, mainVars
<1>5. QED
  BY <1>1, <1>2, <1>4

\* A picture is entered under the place asked for.
LEMMA EnterKeeps ==
  ASSUME IInv, EnterThumb
  PROVE  IInv'
<1> USE DEF IInv
<1>1. PICK size \in Sizes :
        /\ cache' = cache \cup {[url |-> work.url, secs |-> work.secs, size |-> size]}
        /\ cacheSize' = Grown(size)
  BY DEF EnterThumb
<1>2. work.url \in Urls /\ work.secs \in Secs
  BY DEF EnterThumb, LastIsKept, Busy, Requests
<1>3. TypeOK'
  BY <1>1, <1>2, ThumbnailAssumption
     DEF EnterThumb, TypeOK, Pictures, Grown, mainVars
<1>4. InOrder'
  BY DEF EnterThumb, InOrder, Busy, mainVars
<1>5. LastIsKept'
  <2> DEFINE entered == [url |-> work.url, secs |-> work.secs, size |-> size]
  <2>1. entered \in cache' /\ entered.url = work.url /\ entered.secs = work.secs
    BY <1>1
  <2> HIDE DEF entered
  <2>2. PictureOf(work)' # {} /\ (PictureOf(work) # {} => PictureOf(work)' # {})
    BY <2>1 DEF EnterThumb, PictureOf
  <2>3. QED
    BY <2>2 DEF EnterThumb, LastIsKept, Busy, mainVars
<1>6. QED
  BY <1>3, <1>4, <1>5

\* The signal for the request in work is the newest; its picture is there.
LEMMA EmitKeeps ==
  ASSUME IInv, EmitGenerated
  PROVE  IInv'
<1> USE DEF IInv
<1>1. work \in Requests /\ signals \in Seq(Requests)
  BY DEF EmitGenerated, LastIsKept, Busy, TypeOK
<1>2. /\ signals' \in Seq(Requests)
      /\ DOMAIN signals = 1 .. Len(signals) /\ Len(signals) \in Nat
      /\ DOMAIN signals' = 1 .. Len(signals) + 1
      /\ \A i \in 1 .. Len(signals) : signals'[i] = signals[i]
      /\ signals'[Len(signals) + 1] = work
  BY <1>1, AppendProperties DEF EmitGenerated
<1>3. TypeOK'
  BY <1>2 DEF EmitGenerated, TypeOK, mainVars
<1>4. \A i \in DOMAIN signals' : 
        signals'[i] = work \/ (i \in DOMAIN signals /\ signals'[i] = signals[i])
  BY <1>1, <1>2
<1>5. \A i \in DOMAIN signals : signals[i].id < work.id
  BY DEF EmitGenerated, InOrder, Busy
<1>6. InOrder'
  <2>1. \A i \in DOMAIN signals' : preview.id <= signals'[i].id /\ signals'[i].id <= work.id
    BY <1>4, IdsAreNat DEF InOrder
  <2>2. \A i, j \in DOMAIN signals' : i < j => signals'[i].id <= signals'[j].id
    <3>1. SUFFICES ASSUME NEW i \in DOMAIN signals', NEW j \in DOMAIN signals', i < j
                   PROVE  signals'[i].id <= signals'[j].id
      OBVIOUS
    <3>2. i \in DOMAIN signals /\ signals'[i] = signals[i]
      BY <1>1, <1>2, <3>1
    <3>3. CASE j \in DOMAIN signals
      BY <1>1, <1>2, <3>1, <3>2, <3>3 DEF InOrder
    <3>4. CASE j \notin DOMAIN signals
      BY <1>4, <3>1, <3>2, <3>4 DEF InOrder
    <3>5. QED
      BY <3>3, <3>4
  <2>3. QED
    BY <2>1, <2>2 DEF EmitGenerated, InOrder, Busy, mainVars
<1>7. LastIsKept'
  <2>1. PictureOf(work)' # {}
    BY DEF EmitGenerated, LastIsKept, PictureOf
  <2>2. QED
    BY <1>4, <1>5, <2>1, IdsAreNat DEF EmitGenerated, LastIsKept, Busy
<1>8. QED
  BY <1>3, <1>6, <1>7

\* A request is newer than all before it.
LEMMA HoverKeeps ==
  ASSUME IInv, NEW secs \in Secs, Hover(secs)
  PROVE  IInv'
<1> USE DEF IInv
<1>1. hover' \in Requests /\ hover'.id = hover.id + 1
  BY ThumbnailAssumption, IdsAreNat DEF Hover, Requests, TypeOK
<1>2. /\ wq' \in Seq(Requests)
      /\ \A i \in DOMAIN wq' : wq'[i] = hover' \/ \E j \in DOMAIN wq : wq'[i] = wq[j]
  BY <1>1 DEF Hover, Queued, TypeOK
<1>3. TypeOK'
  BY <1>1, <1>2 DEF Hover, TypeOK, workerVars
<1>4. InOrder'
  <2>1. \A i \in DOMAIN wq' : work.id < wq'[i].id /\ wq'[i].id <= hover'.id
    BY <1>1, <1>2, IdsAreNat DEF InOrder
  <2>2. QED
    BY <1>1, <2>1, IdsAreNat DEF Hover, InOrder, workerVars
<1>5. LastIsKept'
  BY DEF Hover, LastIsKept, PictureOf, workerVars
<1>6. QED
  BY <1>3, <1>4, <1>5

\* What a delivered signal may do.
LEMMA DeliverKeeps ==
  ASSUME IInv, UpdateHoverPreview
  PROVE  /\ IInv'
         /\ preview'.id >= preview.id
         /\ fault' = "noPicture" => Head(signals).id < work.id
<1> USE DEF IInv
<1>1. /\ signals \in Seq(Requests) /\ 1 \in DOMAIN signals /\ Head(signals) = signals[1]
      /\ signals' = Tail(signals)
  BY DEF UpdateHoverPreview, TypeOK
<1>2. /\ signals' \in Seq(Requests)
      /\ \A i \in DOMAIN signals' : i + 1 \in DOMAIN signals /\ signals'[i] = signals[i + 1]
  BY <1>1
<1>3. /\ preview' = preview \/ preview' = signals[1]
      /\ fault' \in {fault, "noCurrent", "noPicture"}
      /\ fault' = "noPicture" => PictureOf(signals[1]) = {}
      /\ UNCHANGED <<workerVars, shown, hover, wq, quit>>
  BY <1>1 DEF UpdateHoverPreview
<1>4. signals[1] \in Requests /\ preview.id <= signals[1].id /\ signals[1].id <= work.id
  BY <1>1, IdsAreNat DEF InOrder
<1>5. preview'.id >= preview.id /\ preview'.id <= work.id /\ preview'.id \in Nat
  BY <1>1, <1>3, <1>4, IdsAreNat DEF InOrder
<1>6. TypeOK'
  BY <1>2, <1>3, <1>4 DEF TypeOK, workerVars
<1>7. InOrder'
  <2>1. \A i \in DOMAIN signals' : 1 < i + 1 /\ i + 1 \in DOMAIN signals
    BY <1>1, <1>2
  <2>2. \A i \in DOMAIN signals' : preview'.id <= signals'[i].id
    BY <1>1, <1>2, <1>3, <2>1, IdsAreNat DEF InOrder
  <2>3. \A i, j \in DOMAIN signals' : i < j => signals'[i].id <= signals'[j].id
    BY <1>1, <1>2 DEF InOrder
  <2>4. QED
    BY <1>2, <1>3, <1>5, <2>2, <2>3 DEF InOrder, workerVars
<1>8. LastIsKept'
  BY <1>2, <1>3 DEF LastIsKept, PictureOf, workerVars
<1>9. fault' = "noPicture" => signals[1].id < work.id
  <2>1. signals[1].id = work.id => PictureOf(signals[1]) # {}
    <3>1. SUFFICES ASSUME signals[1].id = work.id
                   PROVE  PictureOf(signals[1]) # {}
      OBVIOUS
    <3>2. signals[1] = work /\ PictureOf(work) # {}
      BY <1>1, <3>1 DEF LastIsKept
    <3>3. QED
      BY <3>2, Zenon
  <2>2. QED
    BY <1>1, <1>3, <1>4, <2>1, IdsAreNat
<1>10. QED
  BY <1>1, <1>5, <1>6, <1>7, <1>8, <1>9

\* The film moves on, or the player quits.
LEMMA OthersKeep ==
  ASSUME IInv, Stop \/ (\E url \in Urls \cup {None} : ChangeShown(url)) \/ UNCHANGED vars
  PROVE  IInv' /\ preview' = preview /\ fault' = fault
<1>1. /\ UNCHANGED <<workerVars, hover, preview, fault, wq, signals>>
      /\ shown' \in Urls \cup {None} /\ quit' \in BOOLEAN
  BY DEF IInv, TypeOK, Stop, ChangeShown, vars, mainVars
<1>2. TypeOK'
  BY <1>1 DEF IInv, TypeOK, workerVars
<1>3. InOrder' /\ LastIsKept'
  BY <1>1 DEF IInv, InOrder, LastIsKept, PictureOf, workerVars
<1>4. QED
  BY <1>1, <1>2, <1>3 DEF IInv

\* Every step keeps the invariant, and does to the preview what it may.
LEMMA StepKeeps ==
  ASSUME IInv, [Next]_vars
  PROVE  /\ IInv'
         /\ preview'.id >= preview.id
         /\ fault' = "noPicture" /\ fault = "none" => Head(signals).id < work.id
<1>1. preview.id \in Nat
  BY IdsAreNat DEF IInv
<1>2. CASE Worker
  <2>1. UNCHANGED <<preview, fault>>
    BY <1>2 DEF Worker, TakeWork, Leave, CleanCache, LookUp, EnterThumb,
                EmitGenerated, mainVars
  <2>2. QED
    BY <1>1, <1>2, <2>1, TakeKeeps, LeaveKeeps, CleanKeeps, EnterKeeps, EmitKeeps DEF Worker
<1>3. ASSUME NEW secs \in Secs, Hover(secs)
      PROVE  IInv' /\ UNCHANGED <<preview, fault>>
  BY <1>3, HoverKeeps DEF Hover
<1>4. CASE UpdateHoverPreview
  BY <1>4, DeliverKeeps
<1>5. CASE Stop \/ (\E url \in Urls \cup {None} : ChangeShown(url)) \/ UNCHANGED vars
  BY <1>1, <1>5, OthersKeep
<1>6. QED
  BY <1>1, <1>2, <1>3, <1>4, <1>5 DEF Next

\* The worker, its queue and its cache keep their types, requests are in order
\* and the picture of the last is kept.
THEOREM InvariantHolds == Spec => []IInv
<1>1. IInv /\ [Next]_vars => IInv'
  BY StepKeeps
<1>2. QED
  BY <1>1, InitKeeps, PTL DEF Spec

\* No preview is ever replaced by that of an earlier request.
THEOREM NeverBack == Spec => PreviewsInOrder
<1>1. IInv /\ [Next]_vars => [preview'.id >= preview.id]_vars
  BY StepKeeps
<1>2. QED
  BY <1>1, InvariantHolds, PTL DEF Spec, PreviewsInOrder

\* getThumb() never misses the picture of the request that was taken last.
THEOREM LastIsFound == Spec => MissingOnlyIfOutdated
<1>1. IInv /\ [Next]_vars =>
        [fault' = "noPicture" /\ fault = "none" => Head(signals).id < work.id]_vars
  BY StepKeeps
<1>2. QED
  BY <1>1, InvariantHolds, PTL DEF Spec, MissingOnlyIfOutdated

-----------------------------------------------------------------------------
(***************************************************************************)
(* The room the pictures take.  cacheSize is a sum over a set: that it     *)
(* grows by the size of a picture entered holds by induction on the number *)
(* of pictures.  The provers take no lemma with an operator as parameter,  *)
(* so induction is stated for sets of numbers.                             *)
(***************************************************************************)
LEMMA NatInduct ==
  ASSUME NEW S, 0 \in S, \A n \in Nat : n \in S => n + 1 \in S
  PROVE  Nat \subseteq S
<1>1. SUFFICES ASSUME Nat \ S # {} PROVE FALSE
  OBVIOUS
<1> DEFINE R == OpToRel(<, Nat)
<1>2. /\ \A x, y \in Nat : y < x => <<y, x>> \in R
      /\ IsWellFoundedOn(R, Nat)
  BY NatLessThanWellFounded DEF OpToRel
<1> HIDE DEF R
<1>3. PICK x \in Nat \ S : \A y \in Nat \ S : ~(<<y, x>> \in R)
  BY <1>1, <1>2, WFMin
<1>4. x \in Nat /\ x # 0
  BY <1>3
<1>5. x - 1 \in Nat /\ x - 1 < x
  BY <1>4
<1>6. x - 1 \in S
  BY <1>2, <1>3, <1>5
<1>7. QED
  BY <1>3, <1>5, <1>6

\* The size of the pictures in s, by the size of fewer.
First(s) == CHOOSE p \in s : TRUE
Summed(f, s) == IF s = {} THEN 0 ELSE First(s).size + f[s \ {First(s)}]
UpTo(n, S) == {s \in SUBSET S : Cardinality(s) <= n}
SumOf(S) == CHOOSE f : f = [s \in SUBSET S |-> Summed(f, s)]

LEMMA OneLess ==
  ASSUME NEW S, IsFiniteSet(S), NEW s \in SUBSET S
  PROVE  /\ IsFiniteSet(s) /\ Cardinality(s) \in Nat
         /\ s # {} => First(s) \in s
         /\ Cardinality(s) = 0 <=> s = {}
         /\ \A p \in s : s \ {p} \in SUBSET S /\ Cardinality(s \ {p}) = Cardinality(s) - 1
<1>1. IsFiniteSet(s)
  BY FS_Subset
<1>2. QED
  BY <1>1, FS_CardinalityType, FS_EmptySet, FS_RemoveElement DEF First

LEMMA UpToAll ==
  ASSUME NEW S, IsFiniteSet(S)
  PROVE  Cardinality(S) \in Nat /\ UpTo(Cardinality(S), S) = SUBSET S
BY FS_Subset, FS_CardinalityType DEF UpTo

LEMMA SumsExist ==
  ASSUME NEW S, IsFiniteSet(S)
  PROVE  SumOf(S) = [s \in SUBSET S |-> Summed(SumOf(S), s)]
<1> DEFINE Sums(m, f) == f = [s \in UpTo(m, S) |-> Summed(f, s)]
           N == {m \in Nat : \E f : Sums(m, f)}
<1>1. 0 \in N
  <2> DEFINE f == [s \in UpTo(0, S) |-> 0]
  <2>1. \A s \in UpTo(0, S) : s = {}
    BY OneLess DEF UpTo
  <2>2. Sums(0, f)
    BY <2>1 DEF Summed
  <2>3. QED
    BY <2>2
<1>2. ASSUME NEW m \in Nat, m \in N PROVE m + 1 \in N
  <2>1. PICK f : Sums(m, f)
    BY <1>2
  <2> DEFINE g == [s \in UpTo(m + 1, S) |-> IF s \in UpTo(m, S) THEN f[s] ELSE Summed(f, s)]
  <2>2. \A s \in UpTo(m + 1, S) : g[s] = Summed(f, s)
    BY <2>1
  <2>3. UpTo(m, S) \subseteq UpTo(m + 1, S)
    BY OneLess DEF UpTo
  <2>4. \A s \in UpTo(m, S) : g[s] = f[s]
    BY <2>3
  <2>5. ASSUME NEW s \in UpTo(m + 1, S) PROVE g[s] = Summed(g, s)
    <3>1. s # {} => s \ {First(s)} \in UpTo(m, S)
      BY OneLess DEF UpTo
    <3> HIDE DEF g
    <3>2. QED
      BY <2>2, <2>4, <3>1 DEF Summed
  <2>6. Sums(m + 1, g)
    <3>1. g = [s \in UpTo(m + 1, S) |-> g[s]]
      OBVIOUS
    <3> HIDE DEF g
    <3>2. QED
      BY <2>5, <3>1
  <2> HIDE DEF g
  <2>7. QED
    BY <2>6
<1>3. Cardinality(S) \in N
  <2> HIDE DEF N
  <2>1. QED
    BY <1>1, <1>2, NatInduct, UpToAll
<1>4. QED
  BY <1>3, UpToAll DEF SumOf

LEMMA SumIs ==
  ASSUME NEW S
  PROVE  MapThenSumSet(LAMBDA p : p.size, S) = SumOf(S)[S]
BY DEF MapThenSumSet, MapThenFoldSet, SumOf, Summed, First

\* The sum is that of the pictures, in whatever order they are taken.
LEMMA SumWithout ==
  ASSUME NEW S, IsFiniteSet(S), \A p \in S : p.size \in Nat,
         NEW s \in SUBSET S
  PROVE  /\ SumOf(S)[s] \in Nat
         /\ \A p \in s : SumOf(S)[s] = p.size + SumOf(S)[s \ {p}]
<1> DEFINE f == SumOf(S)
           Good(t) == f[t] \in Nat /\ \A p \in t : f[t] = p.size + f[t \ {p}]
           N == {m \in Nat : \A t \in UpTo(m, S) : Good(t)}
<1>1. \A t \in SUBSET S : f[t] = Summed(f, t)
  BY SumsExist
<1> HIDE DEF f
<1>2. 0 \in N
  <2>1. \A t \in UpTo(0, S) : t = {} /\ t \in SUBSET S
    BY OneLess DEF UpTo
  <2>2. f[{}] = 0
    BY <1>1 DEF Summed
  <2>3. ASSUME NEW t \in UpTo(0, S) PROVE Good(t)
    <3>1. t = {}
      BY <2>1
    <3>2. QED
      BY <2>2, <3>1
  <2> HIDE DEF Good
  <2>4. QED
    BY <2>3
<1>3. ASSUME NEW m \in Nat, m \in N PROVE m + 1 \in N
  <2>a. \A t \in UpTo(m, S) : Good(t)
    <3> HIDE DEF Good
    <3>1. QED
      BY <1>3
  <2>1. SUFFICES ASSUME NEW t \in UpTo(m + 1, S) PROVE Good(t)
    <3> HIDE DEF Good
    <3>1. QED
      OBVIOUS
  <2>2. t \in SUBSET S
    BY DEF UpTo
  <2>3. CASE t = {}
    <3>1. f[t] = 0
      BY <1>1, <2>2, <2>3 DEF Summed
    <3>2. QED
      BY <2>3, <3>1
  <2>4. CASE t # {}
    <3> DEFINE c == First(t)
    <3>1. c \in t /\ c.size \in Nat /\ f[t] = c.size + f[t \ {c}]
      BY <1>1, <2>2, <2>4, OneLess DEF Summed
    <3> HIDE DEF c
    <3>2. \A p \in t : t \ {p} \in UpTo(m, S)
      BY <2>2, OneLess DEF UpTo
    <3>3. \A p \in t : Good(t \ {p})
      <4> HIDE DEF Good
      <4>1. QED
        BY <2>a, <3>2
    <3>4. f[t] \in Nat
      <4>1. f[t \ {c}] \in Nat
        BY <3>1, <3>3
      <4>2. QED
        BY <3>1, <4>1
    <3>5. ASSUME NEW p \in t PROVE f[t] = p.size + f[t \ {p}]
      <4>1. CASE p = c
        BY <3>1, <4>1
      <4>2. CASE p # c
        <5>1. (t \ {c}) \ {p} = (t \ {p}) \ {c} /\ p \in t \ {c} /\ c \in t \ {p}
          BY <3>1, <4>2
        <5> DEFINE rest == f[(t \ {p}) \ {c}]
        <5>2. f[t \ {c}] = p.size + rest /\ f[t \ {p}] = c.size + rest
          BY <3>1, <3>3, <5>1
        <5>3. p.size \in Nat /\ c.size \in Nat /\ rest \in Nat
          <6>1. c \in t \ {p} /\ p.size \in Nat
            BY <2>2, <5>1
          <6>2. f[t \ {p}] \in Nat /\ f[t \ {p}] = c.size + rest
            BY <3>3, <6>1
          <6>3. UpTo(m, S) \subseteq SUBSET S
            BY DEF UpTo
          <6>4. Cardinality((t \ {p}) \ {c}) = Cardinality(t \ {p}) - 1
                /\ (t \ {p}) \ {c} \in SUBSET S /\ Cardinality(t \ {p}) \in Nat
            BY <3>2, <6>1, <6>3, OneLess
          <6>5. (t \ {p}) \ {c} \in UpTo(m, S)
            BY <3>2, <6>4 DEF UpTo
          <6>6. rest \in Nat
            BY <2>a, <6>5
          <6>7. QED
            BY <3>1, <6>1, <6>6
        <5> HIDE DEF rest
        <5>4. QED
          BY <3>1, <5>2, <5>3
      <4>3. QED
        BY <4>1, <4>2
    <3>6. QED
      BY <3>4, <3>5
  <2>5. QED
    BY <2>3, <2>4
<1>4. Cardinality(S) \in N
  <2> HIDE DEF N
  <2>1. QED
    BY <1>2, <1>3, NatInduct, UpToAll
<1>5. QED
  BY <1>4, UpToAll DEF f

\* What is summed of a set does not depend on the set it is a part of.
LEMMA SumOfPart ==
  ASSUME NEW T, IsFiniteSet(T), NEW S \in SUBSET T
  PROVE  SumOf(S)[S] = SumOf(T)[S]
<1> DEFINE N == {m \in Nat : \A s \in UpTo(m, S) : SumOf(S)[s] = SumOf(T)[s]}
<1>1. IsFiniteSet(S)
  BY FS_Subset
<1>2. \A s \in SUBSET S : SumOf(S)[s] = Summed(SumOf(S), s) /\ SumOf(T)[s] = Summed(SumOf(T), s)
  BY <1>1, SumsExist
<1>3. 0 \in N
  <2>1. \A s \in UpTo(0, S) : s = {} /\ s \in SUBSET S
    BY <1>1, OneLess DEF UpTo
  <2>2. QED
    BY <1>2, <2>1 DEF Summed
<1>4. ASSUME NEW m \in Nat, m \in N PROVE m + 1 \in N
  <2>1. SUFFICES ASSUME NEW s \in UpTo(m + 1, S) PROVE SumOf(S)[s] = SumOf(T)[s]
    OBVIOUS
  <2>2. s \in SUBSET S /\ (s # {} => s \ {First(s)} \in UpTo(m, S))
    BY <1>1, OneLess DEF UpTo
  <2>3. QED
    BY <1>2, <1>4, <2>2 DEF Summed
<1>5. Cardinality(S) \in N
  <2> HIDE DEF N
  <2>1. QED
    BY <1>1, <1>3, <1>4, NatInduct, UpToAll
<1>6. QED
  BY <1>1, <1>5, UpToAll

LEMMA SumGrows ==
  ASSUME NEW S, IsFiniteSet(S), \A p \in S : p.size \in Nat,
         NEW p, p \notin S, p.size \in Nat
  PROVE  SumOf(S \cup {p})[S \cup {p}] = SumOf(S)[S] + p.size
<1> DEFINE T == S \cup {p}
<1>1. IsFiniteSet(T) /\ S \in SUBSET T /\ T \in SUBSET T /\ T \ {p} = S /\ p \in T
      /\ \A q \in T : q.size \in Nat
  BY FS_AddElement
<1> HIDE DEF T
<1>2. SumOf(T)[T] = p.size + SumOf(T)[S] /\ SumOf(T)[S] \in Nat
  BY <1>1, SumWithout
<1>3. SumOf(T)[S] = SumOf(S)[S]
  BY <1>1, SumOfPart
<1>4. SumOf(T)[T] = SumOf(S)[S] + p.size
  BY <1>1, <1>2, <1>3
<1>5. QED
  BY <1>4 DEF T

\* A size is no more than the greatest.
LEMMA MaxOfSizes ==
  Max(Sizes \cup {0}) \in Nat /\ \A size \in Sizes : size <= Max(Sizes \cup {0})
<1> DEFINE T == Sizes \cup {0}
<1>1. T \subseteq Nat /\ 0 \in T /\ IsFiniteSet(T)
  BY ThumbnailAssumption, FS_AddElement
<1>2. PICK x \in T : \A y \in T : x >= y
  <2> DEFINE K == {n \in Nat : \A t \in UpTo(n, T) : t # {} => \E x \in t : \A y \in t : x >= y}
  <2> HIDE DEF T
  <2>1. 0 \in K
    <3>1. ASSUME NEW t \in UpTo(0, T) PROVE t = {}
      <4>1. t \in SUBSET T /\ Cardinality(t) <= 0
        BY DEF UpTo
      <4>2. Cardinality(t) \in Nat /\ (Cardinality(t) = 0 => t = {})
        BY <1>1, <4>1, OneLess
      <4>3. QED
        BY <4>1, <4>2
    <3>2. QED
      BY <3>1
  <2>2. ASSUME NEW n \in Nat, n \in K PROVE n + 1 \in K
    <3>1. SUFFICES ASSUME NEW t \in UpTo(n + 1, T), t # {}
                   PROVE  \E x \in t : \A y \in t : x >= y
      OBVIOUS
    <3> DEFINE c == First(t)
    <3>2. c \in t /\ t \subseteq Nat /\ t \ {c} \in UpTo(n, T)
      <4>1. t \in SUBSET T /\ Cardinality(t) <= n + 1
        BY DEF UpTo
      <4>2. c \in t /\ t \ {c} \in SUBSET T /\ Cardinality(t \ {c}) = Cardinality(t) - 1
            /\ Cardinality(t) \in Nat
        BY <1>1, <3>1, <4>1, OneLess
      <4> HIDE DEF c
      <4>3. QED
        BY <1>1, <4>1, <4>2 DEF UpTo
    <3> HIDE DEF c
    <3>3. CASE t \ {c} = {}
      BY <3>2, <3>3
    <3>4. CASE t \ {c} # {}
      <4>1. PICK x \in t \ {c} : \A y \in t \ {c} : x >= y
        BY <2>2, <3>2, <3>4
      <4>2. CASE x >= c
        BY <3>2, <4>1, <4>2
      <4>3. CASE ~(x >= c)
        BY <3>2, <4>1, <4>3
      <4>4. QED
        BY <4>2, <4>3
    <3>5. QED
      BY <3>3, <3>4
  <2>3. Cardinality(T) \in K
    <3> HIDE DEF K
    <3>1. QED
      BY <1>1, <2>1, <2>2, NatInduct, UpToAll
  <2>4. QED
    BY <1>1, <2>3, UpToAll
<1>3. Max(T) \in T /\ \A y \in T : Max(T) >= y
  BY <1>2 DEF Max
<1>4. QED
  BY <1>1, <1>3

\* The size counted is that of the pictures there are, each counted once; after a
\* cleaning there is room for one more.
CacheInv ==
  /\ IsFiniteSet(cache)
  /\ pc = "generate" => PictureOf(work) = {}
  /\ pc \in {"look", "generate"} => cacheSize <= Threshold
  /\ cacheSize = SumOf(cache)[cache]
  /\ cacheSize <= Threshold + Max(Sizes \cup {0})

LEMMA NothingSummed == SumOf({})[{}] = 0
<1>1. SumOf({})[{}] = Summed(SumOf({}), {})
  BY SumsExist, FS_EmptySet
<1>2. QED
  BY <1>1 DEF Summed

LEMMA CacheInit == Init => CacheInv
BY NothingSummed, FS_EmptySet, MaxOfSizes, ThumbnailAssumption DEF Init, CacheInv

\* Steps that leave the cache alone.
LEMMA CacheLeft ==
  ASSUME IInv, CacheInv, UNCHANGED <<cache, cacheSize>>,
         pc' = "generate" => PictureOf(work)' = {},
         pc' \in {"look", "generate"} => cacheSize <= Threshold
  PROVE  CacheInv'
BY DEF CacheInv

LEMMA CacheCleaned ==
  ASSUME IInv, CacheInv, CleanCache
  PROVE  CacheInv'
<1>1. CASE Full
  <2>1. cache' = {} /\ cacheSize' = 0 /\ pc' = "look"
    BY <1>1 DEF CleanCache
  <2>2. QED
    BY <2>1, NothingSummed, FS_EmptySet, MaxOfSizes, ThumbnailAssumption DEF CacheInv
<1>2. CASE ~Full
  <2>1. UNCHANGED <<cache, cacheSize, work>> /\ pc' = "look" /\ cacheSize <= Threshold
    BY <1>2, ThumbnailAssumption DEF CleanCache, Full, IInv, TypeOK
  <2>2. QED
    BY <2>1, CacheLeft
<1>3. QED
  BY <1>1, <1>2

LEMMA CacheEntered ==
  ASSUME IInv, CacheInv, EnterThumb
  PROVE  CacheInv'
<1>1. PICK size \in Sizes :
        /\ cache' = cache \cup {[url |-> work.url, secs |-> work.secs, size |-> size]}
        /\ cacheSize' = cacheSize + size
  BY DEF EnterThumb, Grown
<1> DEFINE p == [url |-> work.url, secs |-> work.secs, size |-> size]
<1>2. p \notin cache
  BY DEF EnterThumb, CacheInv, PictureOf
<1>3. p.size = size /\ size \in Nat /\ cache' = cache \cup {p}
  BY <1>1, ThumbnailAssumption
<1>4. \A q \in cache : q.size \in Nat
  BY ThumbnailAssumption DEF IInv, TypeOK, Pictures
<1> HIDE DEF p
<1>5. IsFiniteSet(cache') /\ pc' = "emit"
  BY <1>3, FS_AddElement DEF CacheInv, EnterThumb
<1>6. cacheSize' = SumOf(cache')[cache']
  BY <1>1, <1>2, <1>3, <1>4, SumGrows DEF CacheInv
<1>7. cacheSize' <= Threshold + Max(Sizes \cup {0})
  <2>1. cacheSize \in Nat /\ cacheSize <= Threshold
    BY DEF CacheInv, EnterThumb, IInv, TypeOK
  <2>2. size \in Nat /\ size <= Max(Sizes \cup {0}) /\ Max(Sizes \cup {0}) \in Nat
    BY <1>3, MaxOfSizes
  <2>3. QED
    BY <1>1, <2>1, <2>2, ThumbnailAssumption
<1>8. QED
  BY <1>5, <1>6, <1>7 DEF CacheInv

LEMMA CacheStep == IInv /\ CacheInv /\ [Next]_vars => CacheInv'
<1> SUFFICES ASSUME IInv, CacheInv, [Next]_vars PROVE CacheInv'
  OBVIOUS
<1>1. CASE TakeWork \/ Leave \/ EmitGenerated
  BY <1>1, CacheLeft DEF TakeWork, Leave, EmitGenerated
<1>2. CASE LookUp
  BY <1>2, CacheLeft DEF LookUp, isThumbGenerated, CacheInv, PictureOf
<1>3. CASE UNCHANGED workerVars
  BY <1>3, CacheLeft DEF workerVars, CacheInv, PictureOf
<1>4. QED
  BY <1>1, <1>2, <1>3, CacheCleaned, CacheEntered
     DEF Next, Worker, Hover, ChangeShown, UpdateHoverPreview, Stop, vars

(* The pictures kept take no more room than SIZE_THRESHOLD and one picture more, and
   _cacheSize is what they take, through every cleaning (ThumbnailWorker::run). *)
THEOREM CacheStaysBounded == Spec => []CacheIsBounded
<1>1. CacheInv => CacheIsBounded
  BY SumIs DEF CacheInv, CacheIsBounded
<1>2. QED
  BY <1>1, CacheInit, CacheStep, InvariantHolds, PTL DEF Spec
=============================================================================
