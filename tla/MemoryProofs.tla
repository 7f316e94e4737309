---------------------------- MODULE MemoryProofs ----------------------------
(***************************************************************************)
(* Theorems about the memory of the VPU, for a memory of any size and any  *)
(* requests: what an allocator of pages keeps true, and that the trees and *)
(* tags of vdi/mm.c are one.                                               *)
(*                                                                         *)
(* The first part is about the search tree, for trees of every height:     *)
(* that its recursive operators are defined by their equations, and what   *)
(* an insertion, a removal and a removal of the best fit do to a balanced  *)
(* tree and to the entries in it.  A property of every tree is proved of   *)
(* the set of those trees that have it (TreeInduct).                       *)
(***************************************************************************)
EXTENDS VideoMemory, FiniteSetTheorems, WellFoundedInduction, TLAPS

(***************************************************************************)
(* Nodes.  Two writes a node with the child on one side before the other,  *)
(* so that what holds of one side need not be said again of the other.     *)
(***************************************************************************)
Sides == {"left", "right"}
Keys == Nat \X Nat

Node(k, p, h, l, r) ==
  [key |-> k, page |-> p, height |-> h, left |-> l, right |-> r]
Two(side, k, p, h, a, b) ==
  IF side = "left" THEN Node(k, p, h, a, b) ELSE Node(k, p, h, b, a)
Above(a, b) == 1 + IF a.height >= b.height THEN a.height ELSE b.height

LEMMA SideFacts ==
  ASSUME NEW side \in Sides
  PROVE  Other(side) \in Sides /\ Other(side) # side /\ Other(Other(side)) = side
BY DEF Sides, Other

LEMMA NodeFields ==
  ASSUME NEW k, NEW p, NEW h, NEW l, NEW r
  PROVE  LET n == Node(k, p, h, l, r)
         IN /\ n.key = k /\ n.page = p /\ n.height = h /\ n.left = l /\ n.right = r
            /\ n["left"] = l /\ n["right"] = r
BY DEF Node

LEMMA NodeExcept ==
  ASSUME NEW k, NEW p, NEW h, NEW l, NEW r, NEW u
  PROVE  LET n == Node(k, p, h, l, r)
         IN /\ [n EXCEPT !.height = u] = Node(k, p, u, l, r)
            /\ [n EXCEPT !.left = u] = Node(k, p, h, u, r)
            /\ [n EXCEPT !["left"] = u] = Node(k, p, h, u, r)
            /\ [n EXCEPT !.right = u] = Node(k, p, h, l, u)
            /\ [n EXCEPT !["right"] = u] = Node(k, p, h, l, u)
<1> DEFINE n == Node(k, p, h, l, r)
           S == [key : {k}, page : {p}, height : {h, u}, left : {l, r, u}, right : {l, r, u}]
<1>1. n \in S
  BY DEF Node
<1>2. n.key = k /\ n.page = p /\ n.height = h /\ n.left = l /\ n.right = r
  BY NodeFields
<1> HIDE DEF n
<1>3. [n EXCEPT !.height = u] = Node(k, p, u, l, r)
  <2> DEFINE m == [n EXCEPT !.height = u]
  <2>1. m \in S
    BY <1>1
  <2>2. m.key = k /\ m.page = p /\ m.height = u /\ m.left = l /\ m.right = r
    BY <1>1, <1>2
  <2> HIDE DEF m
  <2>3. m = Node(k, p, u, l, r)
    BY <2>1, <2>2 DEF Node
  <2> QED
    BY <2>3 DEF m
<1>4. [n EXCEPT !.left = u] = Node(k, p, h, u, r)
  <2> DEFINE m == [n EXCEPT !.left = u]
  <2>1. m \in S
    BY <1>1
  <2>2. m.key = k /\ m.page = p /\ m.height = h /\ m.left = u /\ m.right = r
    BY <1>1, <1>2
  <2> HIDE DEF m
  <2>3. m = Node(k, p, h, u, r)
    BY <2>1, <2>2 DEF Node
  <2> QED
    BY <2>3 DEF m
<1>5. [n EXCEPT !.right = u] = Node(k, p, h, l, u)
  <2> DEFINE m == [n EXCEPT !.right = u]
  <2>1. m \in S
    BY <1>1
  <2>2. m.key = k /\ m.page = p /\ m.height = h /\ m.left = l /\ m.right = u
    BY <1>1, <1>2
  <2> HIDE DEF m
  <2>3. m = Node(k, p, h, l, u)
    BY <2>1, <2>2 DEF Node
  <2> QED
    BY <2>3 DEF m
<1>6. QED
  BY <1>3, <1>4, <1>5 DEF n

LEMMA TwoFacts ==
  ASSUME NEW side \in Sides, NEW k, NEW p, NEW h, NEW a, NEW b, NEW u
  PROVE  LET n == Two(side, k, p, h, a, b)
         IN /\ n.key = k /\ n.page = p /\ n.height = h
            /\ n[side] = a /\ n[Other(side)] = b
            /\ [n EXCEPT ![side] = u] = Two(side, k, p, h, u, b)
            /\ [n EXCEPT ![Other(side)] = u] = Two(side, k, p, h, a, u)
            /\ [n EXCEPT !.height = u] = Two(side, k, p, u, a, b)
            /\ n = Two(Other(side), k, p, h, b, a)
            /\ a.height \in Int /\ b.height \in Int =>
                 Reheighted(n) = Two(side, k, p, Above(a, b), a, b)
<1>1. CASE side = "left"
  <2>1. Other(side) = "right"
    BY <1>1 DEF Other
  <2>2. /\ \A x, y, z : Two(side, k, p, z, x, y) = Node(k, p, z, x, y)
        /\ \A x, y, z : Two(Other(side), k, p, z, x, y) = Node(k, p, z, y, x)
    BY <1>1, <2>1 DEF Two
  <2>3. Reheighted(Node(k, p, h, a, b)) = Node(k, p, Above(a, b), a, b)
    BY NodeFields, NodeExcept DEF Reheighted, Above
  <2>4. QED
    BY <1>1, <2>1, <2>2, <2>3, NodeFields, NodeExcept
<1>2. CASE side = "right"
  <2>1. Other(side) = "left"
    BY <1>2 DEF Other
  <2>2. /\ \A x, y, z : Two(side, k, p, z, x, y) = Node(k, p, z, y, x)
        /\ \A x, y, z : Two(Other(side), k, p, z, x, y) = Node(k, p, z, x, y)
    BY <1>2, <2>1 DEF Two
  <2>3. Reheighted(Node(k, p, h, b, a)) = Node(k, p, Above(b, a), b, a)
    BY NodeFields, NodeExcept DEF Reheighted, Above
  <2>a. a.height \in Int /\ b.height \in Int => Above(a, b) = Above(b, a)
    BY DEF Above
  <2>4. QED
    BY <1>2, <2>1, <2>a, <2>2, <2>3, NodeFields, NodeExcept
<1>3. QED
  BY <1>1, <1>2 DEF Sides

\* By how much the side is higher than the other.
LEMMA TwoBalance ==
  ASSUME NEW side \in Sides, NEW k, NEW p, NEW h \in Nat, NEW a, NEW b,
         a.height \in Int, b.height \in Int
  PROVE  LET n == Two(side, k, p, h, a, b)
         IN /\ n # Null
            /\ Balance(n) = IF side = "left" THEN b.height - a.height
                                             ELSE a.height - b.height
<1> DEFINE n == Two(side, k, p, h, a, b)
<1>1. n.height = h
  BY TwoFacts
<1>2. n # Null
  BY <1>1 DEF Null
<1>3. side = "left" => n.left = a /\ n.right = b
  BY NodeFields DEF Two
<1>4. side # "left" => n.left = b /\ n.right = a
  BY NodeFields DEF Two
<1> HIDE DEF n
<1>5. QED
  BY <1>2, <1>3, <1>4 DEF Balance, n

(***************************************************************************)
(* Rotations.  The outer node goes below its child of the side that is too *)
(* high, or below that child's inner child.                                *)
(***************************************************************************)
LEMMA RotatedIs ==
  ASSUME NEW side \in Sides, NEW k, NEW p, NEW h, NEW b,
         NEW j, NEW q, NEW i \in Nat, NEW c, NEW d,
         b.height \in Int, c.height \in Int, d.height \in Int
  PROVE  LET below == Two(side, k, p, Above(d, b), d, b)
         IN Rotated(Two(side, k, p, h, Two(side, j, q, i, c, d), b), Other(side))
              = Two(side, j, q, Above(c, below), c, below)
<1> DEFINE child == Two(side, j, q, i, c, d)
           tree == Two(side, k, p, h, child, b)
           below == Two(side, k, p, Above(d, b), d, b)
<1>1. tree[side] = child /\ child[Other(side)] = d /\ Other(Other(side)) = side
  BY TwoFacts, SideFacts
<1>2. child # Null
  BY TwoBalance
<1>a. [tree EXCEPT ![side] = d] = Two(side, k, p, h, d, b)
  BY TwoFacts
<1>b. Reheighted(Two(side, k, p, h, d, b)) = below
  BY TwoFacts
<1>3. Reheighted([tree EXCEPT ![side] = d]) = below
  BY <1>a, <1>b
<1>4. [child EXCEPT ![Other(side)] = below] = Two(side, j, q, i, c, below)
  BY TwoFacts
<1>5. below.height \in Int
  BY TwoFacts DEF Above
<1>6. Reheighted(Two(side, j, q, i, c, below)) = Two(side, j, q, Above(c, below), c, below)
  BY <1>5, TwoFacts
<1> HIDE DEF child, tree, below
<1>7. Rotated(tree, Other(side)) = Two(side, j, q, Above(c, below), c, below)
  BY <1>1, <1>2, <1>3, <1>4, <1>6 DEF Rotated
<1>8. QED
  BY <1>7 DEF child, tree, below

(***************************************************************************)
(* Induction.  The provers take no lemma with an operator as parameter, so *)
(* it is stated for sets.                                                  *)
(***************************************************************************)
LEMMA NatInduct ==
  ASSUME NEW S, 0 \in S, \A n \in Nat : n \in S => n + 1 \in S
  PROVE  Nat \subseteq S
<1>1. SUFFICES ASSUME Nat \ S # {} PROVE FALSE
  OBVIOUS
<1> DEFINE R == OpToRel(<, Nat)
<1>2. /\ \A x, y \in Nat : y < x => <<y, x>> \in R
      /\ IsWellFoundedOn(R, Nat)
  BY NatLessThanWellFounded DEF OpToRel
<1> HIDE DEF R
<1>3. PICK x \in Nat \ S : \A y \in Nat \ S : ~(<<y, x>> \in R)
  BY <1>1, <1>2, WFMin
<1>4. x \in Nat /\ x # 0
  BY <1>3
<1>5. x - 1 \in Nat /\ x - 1 < x
  BY <1>4
<1>6. x - 1 \in S
  BY <1>2, <1>3, <1>5
<1>7. QED
  BY <1>3, <1>5, <1>6

LEMMA TreesExist ==
  /\ TreesUpTo[0] = {Null}
  /\ \A h \in 1 .. MaxHeight : TreesUpTo[h] = {Null} \cup Branches(TreesUpTo[h - 1])
<1> DEFINE Level(f, h) == IF h = 0 THEN {Null} ELSE {Null} \cup Branches(f[h - 1])
           Levels(m, f) == f = [h \in 0 .. m |-> Level(f, h)]
           S == {m \in Nat : \E f : Levels(m, f)}
<1> HIDE DEF Level
<1>a. \A f, g : \A h \in Nat : (h # 0 => f[h - 1] = g[h - 1]) => Level(f, h) = Level(g, h)
  BY DEF Level
<1>1. 0 \in S
  <2> DEFINE f == [h \in 0 .. 0 |-> {Null}]
  <2>1. Levels(0, f)
    BY DEF Level
  <2>2. QED
    BY <2>1
<1>2. ASSUME NEW m \in Nat, m \in S PROVE m + 1 \in S
  <2>1. PICK f : Levels(m, f)
    BY <1>2
  <2> DEFINE g == [h \in 0 .. m + 1 |-> Level(f, h)]
  <2>2. \A h \in 0 .. m : g[h] = f[h]
    BY <2>1
  <2>3. ASSUME NEW h \in 0 .. m + 1 PROVE g[h] = Level(g, h)
    <3>1. h # 0 => h - 1 \in 0 .. m
      OBVIOUS
    <3>2. g[h] = Level(f, h) /\ h \in Nat
      OBVIOUS
    <3> HIDE DEF g
    <3>3. QED
      BY <2>2, <3>1, <3>2, <1>a
  <2>4. Levels(m + 1, g)
    <3>1. g = [h \in 0 .. m + 1 |-> g[h]]
      OBVIOUS
    <3> HIDE DEF g
    <3>2. QED
      BY <2>3, <3>1
  <2> HIDE DEF g
  <2>5. QED
    BY <2>4
<1>3. MaxHeight \in S
  <2> HIDE DEF S
  <2>1. QED
    BY <1>1, <1>2, NatInduct, MaxHeightAssumption
<1>4. Levels(MaxHeight, TreesUpTo)
  BY <1>3 DEF TreesUpTo, Level
<1>5. \A h \in 0 .. MaxHeight : TreesUpTo[h] = Level(TreesUpTo, h)
  BY <1>4
<1>6. 0 \in 0 .. MaxHeight /\ \A h \in 1 .. MaxHeight : h \in 0 .. MaxHeight /\ h # 0
  BY MaxHeightAssumption
<1>7. QED
  BY <1>5, <1>6 DEF Level

LEMMA TreesGrow ==
  ASSUME NEW h \in 0 .. MaxHeight, NEW i \in h .. MaxHeight
  PROVE  TreesUpTo[h] \subseteq TreesUpTo[i]
<1> DEFINE S == {n \in Nat : n < MaxHeight => TreesUpTo[n] \subseteq TreesUpTo[n + 1]}
<1>1. 0 \in S
  BY TreesExist, MaxHeightAssumption
<1>2. ASSUME NEW n \in Nat, n \in S PROVE n + 1 \in S
  <2>1. SUFFICES ASSUME n + 1 < MaxHeight
                 PROVE  TreesUpTo[n + 1] \subseteq TreesUpTo[n + 1 + 1]
    OBVIOUS
  <2>2. TreesUpTo[n] \subseteq TreesUpTo[n + 1]
    BY <1>2, <2>1, MaxHeightAssumption
  <2>3. Branches(TreesUpTo[n]) \subseteq Branches(TreesUpTo[n + 1])
    BY <2>2 DEF Branches
  <2>4. /\ n + 1 \in 1 .. MaxHeight /\ n + 1 + 1 \in 1 .. MaxHeight
        /\ (n + 1) - 1 = n /\ (n + 1 + 1) - 1 = n + 1
    BY <2>1, MaxHeightAssumption
  <2>5. QED
    BY <2>3, <2>4, TreesExist
<1>3. Nat \subseteq S
  <2> HIDE DEF S
  <2>1. QED
    BY <1>1, <1>2, NatInduct
<1> DEFINE U == {n \in Nat : h + n <= MaxHeight => TreesUpTo[h] \subseteq TreesUpTo[h + n]}
<1>4. 0 \in U
  BY MaxHeightAssumption
<1>5. ASSUME NEW n \in Nat, n \in U PROVE n + 1 \in U
  <2>1. SUFFICES ASSUME h + (n + 1) <= MaxHeight
                 PROVE  TreesUpTo[h] \subseteq TreesUpTo[h + (n + 1)]
    OBVIOUS
  <2>2. h + n \in Nat /\ h + n < MaxHeight /\ h + (n + 1) = (h + n) + 1
    BY <2>1, MaxHeightAssumption
  <2>3. TreesUpTo[h] \subseteq TreesUpTo[h + n]
    BY <1>5, <2>2, MaxHeightAssumption
  <2>4. TreesUpTo[h + n] \subseteq TreesUpTo[(h + n) + 1]
    BY <1>3, <2>2
  <2>5. QED
    BY <2>2, <2>3, <2>4
<1>6. i - h \in U
  <2>1. i - h \in Nat
    BY MaxHeightAssumption
  <2> HIDE DEF U
  <2>2. QED
    BY <1>4, <1>5, <2>1, NatInduct
<1>7. h + (i - h) = i /\ i <= MaxHeight
  BY MaxHeightAssumption
<1>8. QED
  BY <1>6, <1>7

\* The trees below one of TreesUpTo[h].
LEMMA ChildrenAre ==
  ASSUME NEW h \in 0 .. MaxHeight, NEW t \in TreesUpTo[h], t # Null
  PROVE  /\ h - 1 \in 0 .. MaxHeight
         /\ t \in Branches(TreesUpTo[h - 1])
         /\ t.left \in TreesUpTo[h - 1] /\ t.right \in TreesUpTo[h - 1]
<1>1. h # 0
  BY TreesExist
<1>2. h \in 1 .. MaxHeight /\ h - 1 \in 0 .. MaxHeight
  BY <1>1, MaxHeightAssumption
<1>3. t \in Branches(TreesUpTo[h - 1])
  BY <1>2, TreesExist
<1>4. QED
  BY <1>2, <1>3 DEF Branches

LEMMA NullIsTree ==
  ASSUME NEW h \in 0 .. MaxHeight
  PROVE  Null \in TreesUpTo[h]
<1>1. h = 0 \/ h \in 1 .. MaxHeight
  BY MaxHeightAssumption
<1>2. QED
  BY <1>1, TreesExist
(***************************************************************************)
(* The recursive functions.  What each does with a tree, by what f does    *)
(* with the trees below; that there is such a function, by induction on    *)
(* the height; and the equations of the operators.                         *)
(***************************************************************************)
NodesStep(f, t) == IF t = Null THEN {} ELSE {t} \cup f[t.left] \cup f[t.right]

OutStep(side, f, t) ==
  IF t = Null THEN [rest |-> Null, found |-> Null]
  ELSE IF t[side] = Null THEN [rest |-> Null, found |-> t]
  ELSE LET sub == f[t[side]]
           put(u) == DoBalance(Reheighted([t EXCEPT ![side] = u]))
       IN IF sub.rest = Null
          THEN [rest  |-> put(sub.found[Other(side)]),
                found |-> WithChildren(sub.found, Null, Null)]
          ELSE [rest |-> put(sub.rest), found |-> sub.found]

IntoStep(key, page, f, t) ==
  IF t = Null THEN Leaf(key, page)
  ELSE Reheighted(DoBalance([t EXCEPT ![SideOf(key, t)] = f[t[SideOf(key, t)]]]))

FromStep(key, f, t) ==
  IF t = Null THEN [rest |-> Null, found |-> Null]
  ELSE IF key = t.key THEN [rest |-> Settled(DoUnlink(t)), found |-> t]
  ELSE LET side == SideOf(key, t)
           sub  == f[t[side]]
       IN [rest |-> Settled([t EXCEPT ![side] = sub.rest]), found |-> sub.found]

ApproxStep(key, f, t) ==
  IF t = Null THEN [rest |-> Null, found |-> Null]
  ELSE IF key = t.key THEN [rest |-> Settled(DoUnlink(t)), found |-> t]
  ELSE LET side == SideOf(key, t)
           sub  == f[t[side]]
           down == [t EXCEPT ![side] = sub.rest]
       IN IF side = "left" /\ sub.found = Null
          THEN [rest |-> Settled(DoUnlink(down)), found |-> down]
          ELSE [rest |-> Settled(down), found |-> sub.found]

LEMMA SideOfFacts ==
  ASSUME NEW key, NEW t
  PROVE  SideOf(key, t) \in Sides
BY DEF SideOf, Sides

LEMMA ChildOn ==
  ASSUME NEW h \in 0 .. MaxHeight, NEW t \in TreesUpTo[h], t # Null, NEW side \in Sides
  PROVE  t[side] \in TreesUpTo[h - 1] /\ h - 1 \in 0 .. MaxHeight
BY ChildrenAre DEF Sides

LEMMA NodesExists ==
  \E f : f = [t \in Trees |-> NodesStep(f, t)]
<1> DEFINE Step(f, t) == NodesStep(f, t)
           Level(m, f) == f = [t \in TreesUpTo[m] |-> Step(f, t)]
           S == {m \in Nat : m <= MaxHeight => \E f : Level(m, f)}
<1>a. ASSUME NEW f, NEW g, NEW t, t # Null => f[t.left] = g[t.left] /\ f[t.right] = g[t.right]
      PROVE  Step(f, t) = Step(g, t)
  BY <1>a DEF NodesStep
<1> HIDE DEF Step
<1>1. 0 \in S
  <2> DEFINE f == [t \in TreesUpTo[0] |-> Step([u \in {} |-> u], t)]
  <2>1. \A t \in TreesUpTo[0] : t = Null
    BY TreesExist
  <2>2. \A t \in TreesUpTo[0] : Step([u \in {} |-> u], t) = Step(f, t)
    <3> HIDE DEF f
    <3>1. QED
      BY <2>1, <1>a
  <2>3. Level(0, f)
    <3>1. \A t \in TreesUpTo[0] : f[t] = Step(f, t)
      BY <2>2
    <3>2. f = [t \in TreesUpTo[0] |-> f[t]]
      OBVIOUS
    <3> HIDE DEF f
    <3>3. QED
      BY <3>1, <3>2
  <2> HIDE DEF f
  <2>4. QED
    BY <2>3
<1>2. ASSUME NEW m \in Nat, m \in S PROVE m + 1 \in S
  <2>0. SUFFICES ASSUME m + 1 <= MaxHeight PROVE \E f : Level(m + 1, f)
    OBVIOUS
  <2>a. m \in 0 .. MaxHeight /\ m + 1 \in 0 .. MaxHeight /\ m + 1 \in m .. MaxHeight
        /\ (m + 1) - 1 = m
    BY <2>0, MaxHeightAssumption
  <2>1. PICK f : Level(m, f)
    BY <1>2, <2>a
  <2> DEFINE g == [t \in TreesUpTo[m + 1] |-> Step(f, t)]
  <2>2. \A t \in TreesUpTo[m] : g[t] = f[t]
    BY <2>1, <2>a, TreesGrow
  <2>3. ASSUME NEW t \in TreesUpTo[m + 1] PROVE g[t] = Step(g, t)
    <3>1. t # Null => t.left \in TreesUpTo[m] /\ t.right \in TreesUpTo[m]
      BY <2>a, ChildrenAre
    <3>2. g[t] = Step(f, t)
      OBVIOUS
    <3> HIDE DEF g
    <3>3. QED
      BY <2>2, <3>1, <3>2, <1>a
  <2>4. Level(m + 1, g)
    <3>1. g = [t \in TreesUpTo[m + 1] |-> g[t]]
      OBVIOUS
    <3> HIDE DEF g
    <3>2. QED
      BY <2>3, <3>1
  <2> HIDE DEF g
  <2>5. QED
    BY <2>4
<1>3. MaxHeight \in S
  <2> HIDE DEF S
  <2>1. QED
    BY <1>1, <1>2, NatInduct, MaxHeightAssumption
<1>4. QED
  BY <1>3, MaxHeightAssumption DEF Trees, Step

LEMMA OutExists ==
  ASSUME NEW side \in Sides
  PROVE  \E f : f = [t \in Trees |-> OutStep(side, f, t)]
<1> DEFINE Step(f, t) == OutStep(side, f, t)
           Level(m, f) == f = [t \in TreesUpTo[m] |-> Step(f, t)]
           S == {m \in Nat : m <= MaxHeight => \E f : Level(m, f)}
<1>a. ASSUME NEW f, NEW g, NEW t, t # Null => f[t[side]] = g[t[side]]
      PROVE  Step(f, t) = Step(g, t)
  BY <1>a DEF OutStep
<1> HIDE DEF Step
<1>1. 0 \in S
  <2> DEFINE f == [t \in TreesUpTo[0] |-> Step([u \in {} |-> u], t)]
  <2>1. \A t \in TreesUpTo[0] : t = Null
    BY TreesExist
  <2>2. \A t \in TreesUpTo[0] : Step([u \in {} |-> u], t) = Step(f, t)
    <3> HIDE DEF f
    <3>1. QED
      BY <2>1, <1>a
  <2>3. Level(0, f)
    <3>1. \A t \in TreesUpTo[0] : f[t] = Step(f, t)
      BY <2>2
    <3>2. f = [t \in TreesUpTo[0] |-> f[t]]
      OBVIOUS
    <3> HIDE DEF f
    <3>3. QED
      BY <3>1, <3>2
  <2> HIDE DEF f
  <2>4. QED
    BY <2>3
<1>2. ASSUME NEW m \in Nat, m \in S PROVE m + 1 \in S
  <2>0. SUFFICES ASSUME m + 1 <= MaxHeight PROVE \E f : Level(m + 1, f)
    OBVIOUS
  <2>a. m \in 0 .. MaxHeight /\ m + 1 \in 0 .. MaxHeight /\ m + 1 \in m .. MaxHeight
        /\ (m + 1) - 1 = m
    BY <2>0, MaxHeightAssumption
  <2>1. PICK f : Level(m, f)
    BY <1>2, <2>a
  <2> DEFINE g == [t \in TreesUpTo[m + 1] |-> Step(f, t)]
  <2>2. \A t \in TreesUpTo[m] : g[t] = f[t]
    BY <2>1, <2>a, TreesGrow
  <2>3. ASSUME NEW t \in TreesUpTo[m + 1] PROVE g[t] = Step(g, t)
    <3>1. t # Null => t[side] \in TreesUpTo[m]
      BY <2>a, ChildOn
    <3>2. g[t] = Step(f, t)
      OBVIOUS
    <3> HIDE DEF g
    <3>3. QED
      BY <2>2, <3>1, <3>2, <1>a
  <2>4. Level(m + 1, g)
    <3>1. g = [t \in TreesUpTo[m + 1] |-> g[t]]
      OBVIOUS
    <3> HIDE DEF g
    <3>2. QED
      BY <2>3, <3>1
  <2> HIDE DEF g
  <2>5. QED
    BY <2>4
<1>3. MaxHeight \in S
  <2> HIDE DEF S
  <2>1. QED
    BY <1>1, <1>2, NatInduct, MaxHeightAssumption
<1>4. QED
  BY <1>3, MaxHeightAssumption DEF Trees, Step

LEMMA IntoExists ==
  ASSUME NEW key, NEW page
  PROVE  \E f : f = [t \in Trees |-> IntoStep(key, page, f, t)]
<1> DEFINE Step(f, t) == IntoStep(key, page, f, t)
           Level(m, f) == f = [t \in TreesUpTo[m] |-> Step(f, t)]
           S == {m \in Nat : m <= MaxHeight => \E f : Level(m, f)}
<1>a. ASSUME NEW f, NEW g, NEW t, t # Null => f[t[SideOf(key, t)]] = g[t[SideOf(key, t)]]
      PROVE  Step(f, t) = Step(g, t)
  BY <1>a DEF IntoStep
<1> HIDE DEF Step
<1>1. 0 \in S
  <2> DEFINE f == [t \in TreesUpTo[0] |-> Step([u \in {} |-> u], t)]
  <2>1. \A t \in TreesUpTo[0] : t = Null
    BY TreesExist
  <2>2. \A t \in TreesUpTo[0] : Step([u \in {} |-> u], t) = Step(f, t)
    <3> HIDE DEF f
    <3>1. QED
      BY <2>1, <1>a
  <2>3. Level(0, f)
    <3>1. \A t \in TreesUpTo[0] : f[t] = Step(f, t)
      BY <2>2
    <3>2. f = [t \in TreesUpTo[0] |-> f[t]]
      OBVIOUS
    <3> HIDE DEF f
    <3>3. QED
      BY <3>1, <3>2
  <2> HIDE DEF f
  <2>4. QED
    BY <2>3
<1>2. ASSUME NEW m \in Nat, m \in S PROVE m + 1 \in S
  <2>0. SUFFICES ASSUME m + 1 <= MaxHeight PROVE \E f : Level(m + 1, f)
    OBVIOUS
  <2>a. m \in 0 .. MaxHeight /\ m + 1 \in 0 .. MaxHeight /\ m + 1 \in m .. MaxHeight
        /\ (m + 1) - 1 = m
    BY <2>0, MaxHeightAssumption
  <2>1. PICK f : Level(m, f)
    BY <1>2, <2>a
  <2> DEFINE g == [t \in TreesUpTo[m + 1] |-> Step(f, t)]
  <2>2. \A t \in TreesUpTo[m] : g[t] = f[t]
    BY <2>1, <2>a, TreesGrow
  <2>3. ASSUME NEW t \in TreesUpTo[m + 1] PROVE g[t] = Step(g, t)
    <3>1. t # Null => t[SideOf(key, t)] \in TreesUpTo[m]
      BY <2>a, ChildOn, SideOfFacts
    <3>2. g[t] = Step(f, t)
      OBVIOUS
    <3> HIDE DEF g
    <3>3. QED
      BY <2>2, <3>1, <3>2, <1>a
  <2>4. Level(m + 1, g)
    <3>1. g = [t \in TreesUpTo[m + 1] |-> g[t]]
      OBVIOUS
    <3> HIDE DEF g
    <3>2. QED
      BY <2>3, <3>1
  <2> HIDE DEF g
  <2>5. QED
    BY <2>4
<1>3. MaxHeight \in S
  <2> HIDE DEF S
  <2>1. QED
    BY <1>1, <1>2, NatInduct, MaxHeightAssumption
<1>4. QED
  BY <1>3, MaxHeightAssumption DEF Trees, Step

LEMMA FromExists ==
  ASSUME NEW key
  PROVE  \E f : f = [t \in Trees |-> FromStep(key, f, t)]
<1> DEFINE Step(f, t) == FromStep(key, f, t)
           Level(m, f) == f = [t \in TreesUpTo[m] |-> Step(f, t)]
           S == {m \in Nat : m <= MaxHeight => \E f : Level(m, f)}
<1>a. ASSUME NEW f, NEW g, NEW t, t # Null => f[t[SideOf(key, t)]] = g[t[SideOf(key, t)]]
      PROVE  Step(f, t) = Step(g, t)
  BY <1>a DEF FromStep
<1> HIDE DEF Step
<1>1. 0 \in S
  <2> DEFINE f == [t \in TreesUpTo[0] |-> Step([u \in {} |-> u], t)]
  <2>1. \A t \in TreesUpTo[0] : t = Null
    BY TreesExist
  <2>2. \A t \in TreesUpTo[0] : Step([u \in {} |-> u], t) = Step(f, t)
    <3> HIDE DEF f
    <3>1. QED
      BY <2>1, <1>a
  <2>3. Level(0, f)
    <3>1. \A t \in TreesUpTo[0] : f[t] = Step(f, t)
      BY <2>2
    <3>2. f = [t \in TreesUpTo[0] |-> f[t]]
      OBVIOUS
    <3> HIDE DEF f
    <3>3. QED
      BY <3>1, <3>2
  <2> HIDE DEF f
  <2>4. QED
    BY <2>3
<1>2. ASSUME NEW m \in Nat, m \in S PROVE m + 1 \in S
  <2>0. SUFFICES ASSUME m + 1 <= MaxHeight PROVE \E f : Level(m + 1, f)
    OBVIOUS
  <2>a. m \in 0 .. MaxHeight /\ m + 1 \in 0 .. MaxHeight /\ m + 1 \in m .. MaxHeight
        /\ (m + 1) - 1 = m
    BY <2>0, MaxHeightAssumption
  <2>1. PICK f : Level(m, f)
    BY <1>2, <2>a
  <2> DEFINE g == [t \in TreesUpTo[m + 1] |-> Step(f, t)]
  <2>2. \A t \in TreesUpTo[m] : g[t] = f[t]
    BY <2>1, <2>a, TreesGrow
  <2>3. ASSUME NEW t \in TreesUpTo[m + 1] PROVE g[t] = Step(g, t)
    <3>1. t # Null => t[SideOf(key, t)] \in TreesUpTo[m]
      BY <2>a, ChildOn, SideOfFacts
    <3>2. g[t] = Step(f, t)
      OBVIOUS
    <3> HIDE DEF g
    <3>3. QED
      BY <2>2, <3>1, <3>2, <1>a
  <2>4. Level(m + 1, g)
    <3>1. g = [t \in TreesUpTo[m + 1] |-> g[t]]
      OBVIOUS
    <3> HIDE DEF g
    <3>2. QED
      BY <2>3, <3>1
  <2> HIDE DEF g
  <2>5. QED
    BY <2>4
<1>3. MaxHeight \in S
  <2> HIDE DEF S
  <2>1. QED
    BY <1>1, <1>2, NatInduct, MaxHeightAssumption
<1>4. QED
  BY <1>3, MaxHeightAssumption DEF Trees, Step

LEMMA ApproxExists ==
  ASSUME NEW key
  PROVE  \E f : f = [t \in Trees |-> ApproxStep(key, f, t)]
<1> DEFINE Step(f, t) == ApproxStep(key, f, t)
           Level(m, f) == f = [t \in TreesUpTo[m] |-> Step(f, t)]
           S == {m \in Nat : m <= MaxHeight => \E f : Level(m, f)}
<1>a. ASSUME NEW f, NEW g, NEW t, t # Null => f[t[SideOf(key, t)]] = g[t[SideOf(key, t)]]
      PROVE  Step(f, t) = Step(g, t)
  BY <1>a DEF ApproxStep
<1> HIDE DEF Step
<1>1. 0 \in S
  <2> DEFINE f == [t \in TreesUpTo[0] |-> Step([u \in {} |-> u], t)]
  <2>1. \A t \in TreesUpTo[0] : t = Null
    BY TreesExist
  <2>2. \A t \in TreesUpTo[0] : Step([u \in {} |-> u], t) = Step(f, t)
    <3> HIDE DEF f
    <3>1. QED
      BY <2>1, <1>a
  <2>3. Level(0, f)
    <3>1. \A t \in TreesUpTo[0] : f[t] = Step(f, t)
      BY <2>2
    <3>2. f = [t \in TreesUpTo[0] |-> f[t]]
      OBVIOUS
    <3> HIDE DEF f
    <3>3. QED
      BY <3>1, <3>2
  <2> HIDE DEF f
  <2>4. QED
    BY <2>3
<1>2. ASSUME NEW m \in Nat, m \in S PROVE m + 1 \in S
  <2>0. SUFFICES ASSUME m + 1 <= MaxHeight PROVE \E f : Level(m + 1, f)
    OBVIOUS
  <2>a. m \in 0 .. MaxHeight /\ m + 1 \in 0 .. MaxHeight /\ m + 1 \in m .. MaxHeight
        /\ (m + 1) - 1 = m
    BY <2>0, MaxHeightAssumption
  <2>1. PICK f : Level(m, f)
    BY <1>2, <2>a
  <2> DEFINE g == [t \in TreesUpTo[m + 1] |-> Step(f, t)]
  <2>2. \A t \in TreesUpTo[m] : g[t] = f[t]
    BY <2>1, <2>a, TreesGrow
  <2>3. ASSUME NEW t \in TreesUpTo[m + 1] PROVE g[t] = Step(g, t)
    <3>1. t # Null => t[SideOf(key, t)] \in TreesUpTo[m]
      BY <2>a, ChildOn, SideOfFacts
    <3>2. g[t] = Step(f, t)
      OBVIOUS
    <3> HIDE DEF g
    <3>3. QED
      BY <2>2, <3>1, <3>2, <1>a
  <2>4. Level(m + 1, g)
    <3>1. g = [t \in TreesUpTo[m + 1] |-> g[t]]
      OBVIOUS
    <3> HIDE DEF g
    <3>2. QED
      BY <2>3, <3>1
  <2> HIDE DEF g
  <2>5. QED
    BY <2>4
<1>3. MaxHeight \in S
  <2> HIDE DEF S
  <2>1. QED
    BY <1>1, <1>2, NatInduct, MaxHeightAssumption
<1>4. QED
  BY <1>3, MaxHeightAssumption DEF Trees, Step

LEMMA TreeChildren ==
  /\ Null \in Trees
  /\ \A t \in Trees : t # Null => t.left \in Trees /\ t.right \in Trees
<1>1. MaxHeight \in 0 .. MaxHeight
  BY MaxHeightAssumption
<1>2. ASSUME NEW t \in Trees, t # Null PROVE t.left \in Trees /\ t.right \in Trees
  <2>1. /\ MaxHeight - 1 \in 0 .. MaxHeight
        /\ t.left \in TreesUpTo[MaxHeight - 1] /\ t.right \in TreesUpTo[MaxHeight - 1]
    BY <1>1, <1>2, ChildrenAre DEF Trees
  <2>2. MaxHeight \in (MaxHeight - 1) .. MaxHeight
    BY MaxHeightAssumption
  <2>3. QED
    BY <2>1, <2>2, TreesGrow DEF Trees
<1>3. QED
  BY <1>1, <1>2, NullIsTree DEF Trees

LEMMA NodesOfIs ==
  /\ NodesOf(Null) = {}
  /\ \A t \in Trees : t # Null => NodesOf(t) = {t} \cup NodesOf(t.left) \cup NodesOf(t.right)
<1> DEFINE f == CHOOSE f : f = [t \in Trees |-> NodesStep(f, t)]
<1>1. f = [t \in Trees |-> NodesStep(f, t)]
  BY NodesExists
<1>2. \A t : NodesOf(t) = f[t]
  BY DEF NodesOf, NodesStep
<1> HIDE DEF f
<1>3. Null \in Trees /\ \A t \in Trees : t # Null => t.left \in Trees /\ t.right \in Trees
  BY TreeChildren
<1>4. QED
  BY <1>1, <1>2, <1>3 DEF NodesStep

LEMMA UnlinkEndStep ==
  ASSUME NEW side \in Sides
  PROVE  \E f : /\ \A t \in Trees : f[t] = UnlinkEnd(t, side)
               /\ \A t \in Trees : f[t] = OutStep(side, f, t)
<1> DEFINE f == CHOOSE f : f = [t \in Trees |-> OutStep(side, f, t)]
<1>1. f = [t \in Trees |-> OutStep(side, f, t)]
  BY OutExists
<1>2. \A t : f[t] = UnlinkEnd(t, side)
  BY DEF UnlinkEnd, OutStep
<1> HIDE DEF f
<1>3. \A t \in Trees : f[t] = OutStep(side, f, t)
  BY <1>1
<1>4. QED
  BY <1>2, <1>3

LEMMA InsertStep ==
  ASSUME NEW key, NEW page
  PROVE  \E f : /\ \A t \in Trees : f[t] = Insert(t, key, page)
               /\ \A t \in Trees : f[t] = IntoStep(key, page, f, t)
<1> DEFINE f == CHOOSE f : f = [t \in Trees |-> IntoStep(key, page, f, t)]
<1>1. f = [t \in Trees |-> IntoStep(key, page, f, t)]
  BY IntoExists
<1>2. \A t : f[t] = Insert(t, key, page)
  BY DEF Insert, IntoStep
<1> HIDE DEF f
<1>3. \A t \in Trees : f[t] = IntoStep(key, page, f, t)
  BY <1>1
<1>4. QED
  BY <1>2, <1>3

LEMMA RemoveStep ==
  ASSUME NEW key
  PROVE  \E f : /\ \A t \in Trees : f[t] = Remove(t, key)
               /\ \A t \in Trees : f[t] = FromStep(key, f, t)
<1> DEFINE f == CHOOSE f : f = [t \in Trees |-> FromStep(key, f, t)]
<1>1. f = [t \in Trees |-> FromStep(key, f, t)]
  BY FromExists
<1>2. \A t : f[t] = Remove(t, key)
  BY DEF Remove, FromStep
<1> HIDE DEF f
<1>3. \A t \in Trees : f[t] = FromStep(key, f, t)
  BY <1>1
<1>4. QED
  BY <1>2, <1>3

LEMMA RemoveApproxStep ==
  ASSUME NEW key
  PROVE  \E f : /\ \A t \in Trees : f[t] = RemoveApprox(t, key)
               /\ \A t \in Trees : f[t] = ApproxStep(key, f, t)
<1> DEFINE f == CHOOSE f : f = [t \in Trees |-> ApproxStep(key, f, t)]
<1>1. f = [t \in Trees |-> ApproxStep(key, f, t)]
  BY ApproxExists
<1>2. \A t : f[t] = RemoveApprox(t, key)
  BY DEF RemoveApprox, ApproxStep
<1> HIDE DEF f
<1>3. \A t \in Trees : f[t] = ApproxStep(key, f, t)
  BY <1>1
<1>4. QED
  BY <1>2, <1>3

(***************************************************************************)
(* Trees as the program means them: Good is what SearchTrees says, Entries *)
(* what a tree holds.                                                      *)
(***************************************************************************)
Good(t) == t \in Trees /\ WellFormed(t)
Entries(t) == {<<n.key, n.page>> : n \in NodesOf(t)}

\* x belongs on that side of y.
On(side, x, y) == IF side = "left" THEN Below(x, y) ELSE Below(y, x)

\* The parts that a node may have.
Fits(side, k, p, a, b) ==
  /\ k \in Keys /\ p \in Nat
  /\ Good(a) /\ Good(b)
  /\ \A e \in Entries(a) : On(side, e[1], k)
  /\ \A e \in Entries(b) : On(Other(side), e[1], k)

LEMMA NullFacts == Good(Null) /\ Entries(Null) = {} /\ Null.height = -1
BY TreeChildren, NodesOfIs DEF Good, Entries, WellFormed, Null

LEMMA TreeShape ==
  ASSUME NEW t \in Trees, t # Null, NEW side \in Sides
  PROVE  /\ t.key \in Keys /\ t.page \in Nat /\ t.height \in Nat
         /\ t[side] \in Trees /\ t[Other(side)] \in Trees
         /\ t = Two(side, t.key, t.page, t.height, t[side], t[Other(side)])
<1>1. MaxHeight \in 0 .. MaxHeight
  BY MaxHeightAssumption
<1>2. t \in Branches(TreesUpTo[MaxHeight - 1])
  BY <1>1, ChildrenAre DEF Trees
<1>3. t.key \in Keys /\ t.page \in Nat /\ t.height \in Nat
  BY <1>2 DEF Branches, Keys
<1>4. t = Node(t.key, t.page, t.height, t.left, t.right)
  BY <1>2 DEF Branches, Node
<1>5. QED
  BY <1>3, <1>4, TreeChildren DEF Sides, Other, Two

LEMMA WellFormedParts ==
  ASSUME NEW t \in Trees, t # Null
  PROVE  WellFormed(t) <=>
           /\ WellFormed(t.left) /\ WellFormed(t.right)
           /\ \A m \in NodesOf(t.left) : Below(m.key, t.key)
           /\ \A m \in NodesOf(t.right) : Below(t.key, m.key)
           /\ t = Reheighted(t)
           /\ Balance(t) \in -1 .. 1
BY NodesOfIs DEF WellFormed

LEMMA LevelHeights ==
  ASSUME NEW h \in 0 .. MaxHeight, NEW t \in TreesUpTo[h], WellFormed(t)
  PROVE  t.height + 1 \in 0 .. h /\ t \in TreesUpTo[t.height + 1]
<1> DEFINE Low(n) == \A u \in TreesUpTo[n] :
                       WellFormed(u) => u.height + 1 \in 0 .. n /\ u \in TreesUpTo[u.height + 1]
           S == {n \in Nat : n <= MaxHeight => Low(n)}
<1>1. 0 \in S
  BY TreesExist, NullFacts
<1>2. ASSUME NEW n \in Nat, n \in S PROVE n + 1 \in S
  <2>1. SUFFICES ASSUME n + 1 <= MaxHeight, NEW u \in TreesUpTo[n + 1], WellFormed(u)
                 PROVE  u.height + 1 \in 0 .. n + 1 /\ u \in TreesUpTo[u.height + 1]
    OBVIOUS
  <2>2. /\ n \in 0 .. MaxHeight /\ n + 1 \in 0 .. MaxHeight /\ MaxHeight \in 0 .. MaxHeight
        /\ (n + 1) - 1 = n /\ MaxHeight \in (n + 1) .. MaxHeight
    BY <2>1, MaxHeightAssumption
  <2>3. CASE u = Null
    BY <2>2, <2>3, NullFacts, TreesExist
  <2>4. CASE u # Null
    <3>1. u \in Trees
      BY <2>2, TreesGrow DEF Trees
    <3>2. u \in Branches(TreesUpTo[n]) /\ u.left \in TreesUpTo[n] /\ u.right \in TreesUpTo[n]
      BY <2>2, <2>4, ChildrenAre
    <3>3. /\ WellFormed(u.left) /\ WellFormed(u.right) /\ u = Reheighted(u)
      BY <2>1, <2>4, <3>1, WellFormedParts
    <3>4. /\ u.left.height + 1 \in 0 .. n /\ u.left \in TreesUpTo[u.left.height + 1]
          /\ u.right.height + 1 \in 0 .. n /\ u.right \in TreesUpTo[u.right.height + 1]
      BY <1>2, <2>2, <3>2, <3>3
    <3>5. /\ u = Two("left", u.key, u.page, u.height, u.left, u.right)
          /\ u.key \in Keys /\ u.page \in Nat /\ u.height \in Nat
      BY <2>4, <3>1, TreeShape DEF Sides, Other
    <3>a. u.left.height \in Int /\ u.right.height \in Int
      <4>1. u.left.height + 1 \in Nat /\ u.right.height + 1 \in Nat
        BY <3>4
      <4>2. \A x : x \in {u.left, u.right} => x \in TreesUpTo[n]
        BY <3>2
      <4>3. \A x \in TreesUpTo[n] : x.height \in Int
        BY <2>2, NullFacts, ChildrenAre DEF Branches
      <4>4. QED
        BY <4>2, <4>3
    <3>b. Reheighted(u) = Two("left", u.key, u.page, Above(u.left, u.right), u.left, u.right)
      BY <3>5, <3>a, TwoFacts DEF Sides
    <3>6. u.height = Above(u.left, u.right)
      BY <3>3, <3>b, TwoFacts DEF Sides
    <3>7. /\ u.height + 1 \in 0 .. n + 1 /\ u.height \in 0 .. MaxHeight
          /\ u.height + 1 \in 1 .. MaxHeight /\ (u.height + 1) - 1 = u.height
          /\ u.left.height + 1 <= u.height /\ u.right.height + 1 <= u.height
      BY <2>2, <3>4, <3>6, <3>a DEF Above
    <3>8. u.left \in TreesUpTo[u.height] /\ u.right \in TreesUpTo[u.height]
      <4>1. \A i \in 0 .. u.height : TreesUpTo[i] \subseteq TreesUpTo[u.height]
        BY <3>7, TreesGrow, MaxHeightAssumption
      <4>2. QED
        BY <3>4, <3>7, <4>1
    <3>9. u \in Branches(TreesUpTo[u.height])
      BY <3>2, <3>8 DEF Branches
    <3>10. QED
      BY <3>7, <3>9, TreesExist
  <2>5. QED
    BY <2>3, <2>4
<1>3. h \in S
  <2> HIDE DEF S
  <2>1. QED
    BY <1>1, <1>2, NatInduct, MaxHeightAssumption
<1>4. QED
  BY <1>3, MaxHeightAssumption

LEMMA GoodHeight ==
  ASSUME NEW t, Good(t)
  PROVE  /\ t.height \in Int /\ t.height >= -1 /\ t.height < MaxHeight
         /\ t.height = -1 <=> t = Null
         /\ t \in TreesUpTo[t.height + 1]
<1>1. MaxHeight \in 0 .. MaxHeight
  BY MaxHeightAssumption
<1>2. t.height + 1 \in 0 .. MaxHeight /\ t \in TreesUpTo[t.height + 1]
  BY <1>1, LevelHeights DEF Good, Trees
<1>3. t # Null => t.height \in Nat
  BY TreeShape DEF Good, Sides
<1>4. t.height \in Int
  BY <1>3, NullFacts
<1>5. QED
  BY <1>2, <1>3, <1>4, NullFacts, MaxHeightAssumption

LEMMA Take ==
  ASSUME NEW t, Good(t), t # Null, NEW side \in Sides
  PROVE  LET a == t[side]
             b == t[Other(side)]
         IN /\ t = Two(side, t.key, t.page, t.height, a, b)
            /\ Fits(side, t.key, t.page, a, b)
            /\ a.height - b.height \in -1 .. 1
            /\ t.height = Above(a, b) /\ t.height \in Nat
            /\ Entries(t) = {<<t.key, t.page>>} \cup Entries(a) \cup Entries(b)
<1> DEFINE a == t[side]
           b == t[Other(side)]
<1>1. /\ t \in Trees /\ t.key \in Keys /\ t.page \in Nat /\ t.height \in Nat
      /\ a \in Trees /\ b \in Trees
      /\ t = Two(side, t.key, t.page, t.height, a, b)
  BY TreeShape DEF Good
<1>2. /\ WellFormed(t.left) /\ WellFormed(t.right)
      /\ \A m \in NodesOf(t.left) : Below(m.key, t.key)
      /\ \A m \in NodesOf(t.right) : Below(t.key, m.key)
      /\ t = Reheighted(t)
      /\ Balance(t) \in -1 .. 1
  BY <1>1, WellFormedParts DEF Good
<1>3. \/ side = "left" /\ Other(side) = "right" /\ a = t.left /\ b = t.right
      \/ side = "right" /\ Other(side) = "left" /\ a = t.right /\ b = t.left
  BY DEF Sides, Other
<1>4. Good(a) /\ Good(b)
  BY <1>1, <1>2, <1>3 DEF Good
<1>5. /\ \A m \in NodesOf(a) : On(side, m.key, t.key)
      /\ \A m \in NodesOf(b) : On(Other(side), m.key, t.key)
  BY <1>2, <1>3 DEF On
<1>6. NodesOf(t) = {t} \cup NodesOf(a) \cup NodesOf(b)
  BY <1>1, <1>3, NodesOfIs
<1> HIDE DEF a, b
<1>7. Entries(t) = {<<t.key, t.page>>} \cup Entries(a) \cup Entries(b)
  BY <1>6 DEF Entries
<1>8. Fits(side, t.key, t.page, a, b)
  BY <1>1, <1>4, <1>5 DEF Fits, Entries
<1>9. a.height \in Int /\ b.height \in Int
  BY <1>4, GoodHeight
<1>10. t.height = Above(a, b)
  <2>1. Reheighted(t) = Two(side, t.key, t.page, Above(a, b), a, b)
    BY <1>1, <1>9, TwoFacts
  <2>2. QED
    BY <1>2, <2>1, TwoFacts
<1>11. a.height - b.height \in -1 .. 1
  <2>1. Balance(t) = IF side = "left" THEN b.height - a.height ELSE a.height - b.height
    BY <1>1, <1>9, TwoBalance
  <2>2. QED
    BY <1>2, <1>9, <2>1
<1>12. QED
  BY <1>1, <1>7, <1>8, <1>10, <1>11 DEF a, b

LEMMA Make ==
  ASSUME NEW side \in Sides, NEW k, NEW p, NEW a, NEW b, Fits(side, k, p, a, b),
         a.height - b.height \in -1 .. 1, Above(a, b) < MaxHeight
  PROVE  LET t == Two(side, k, p, Above(a, b), a, b)
         IN /\ Good(t) /\ t # Null /\ t.height = Above(a, b)
            /\ Entries(t) = {<<k, p>>} \cup Entries(a) \cup Entries(b)
<1> DEFINE h == Above(a, b)
           t == Two(side, k, p, h, a, b)
<1>1. Good(a) /\ Good(b) /\ k \in Keys /\ p \in Nat
  BY DEF Fits
<1>2. /\ a.height \in Int /\ b.height \in Int /\ a.height >= -1 /\ b.height >= -1
      /\ a \in TreesUpTo[a.height + 1] /\ b \in TreesUpTo[b.height + 1]
  BY <1>1, GoodHeight
<1>3. /\ h \in Nat /\ h < MaxHeight /\ h \in 0 .. MaxHeight
      /\ a.height + 1 \in 0 .. h /\ b.height + 1 \in 0 .. h
  BY <1>2, MaxHeightAssumption DEF Above
<1>4. /\ h + 1 \in 1 .. MaxHeight /\ h + 1 \in 0 .. MaxHeight /\ (h + 1) - 1 = h
      /\ MaxHeight \in (h + 1) .. MaxHeight
  BY <1>3, MaxHeightAssumption
<1>5. a \in TreesUpTo[h] /\ b \in TreesUpTo[h]
  <2>1. \A i \in 0 .. h : TreesUpTo[i] \subseteq TreesUpTo[h]
    BY <1>3, TreesGrow, MaxHeightAssumption
  <2>2. QED
    BY <1>2, <1>3, <2>1
<1>6. t # Null /\ t.height = h /\ t.key = k /\ t.page = p /\ t[side] = a /\ t[Other(side)] = b
      /\ Reheighted(t) = t
  <2>1. t # Null
    BY <1>2, <1>3, TwoBalance
  <2>2. QED
    BY <1>2, <2>1, TwoFacts
<1>7. Balance(t) \in -1 .. 1
  <2>1. Balance(t) = IF side = "left" THEN b.height - a.height ELSE a.height - b.height
    BY <1>2, <1>3, TwoBalance
  <2>2. QED
    BY <1>2, <2>1
<1>8. t \in Branches(TreesUpTo[h])
  <2> HIDE DEF h
  <2>1. QED
    BY <1>1, <1>3, <1>5 DEF Branches, Two, Node, Keys
<1> HIDE DEF h, t
<1>9. t \in Trees
  BY <1>4, <1>8, TreesExist, TreesGrow DEF Trees
<1>10. \/ side = "left" /\ Other(side) = "right" /\ a = t.left /\ b = t.right
       \/ side = "right" /\ Other(side) = "left" /\ a = t.right /\ b = t.left
  BY <1>6 DEF Sides, Other
<1>11. /\ \A m \in NodesOf(a) : On(side, m.key, k)
       /\ \A m \in NodesOf(b) : On(Other(side), m.key, k)
  <2>1. /\ \A m \in NodesOf(a) : <<m.key, m.page>> \in Entries(a)
        /\ \A m \in NodesOf(b) : <<m.key, m.page>> \in Entries(b)
    BY DEF Entries
  <2>2. \A m : <<m.key, m.page>>[1] = m.key
    OBVIOUS
  <2>3. QED
    BY <2>1, <2>2 DEF Fits
<1>12. WellFormed(t)
  <2>1. WellFormed(t.left) /\ WellFormed(t.right)
    BY <1>1, <1>10 DEF Good
  <2>2. /\ \A m \in NodesOf(t.left) : Below(m.key, t.key)
        /\ \A m \in NodesOf(t.right) : Below(t.key, m.key)
    BY <1>6, <1>10, <1>11 DEF On
  <2>3. QED
    BY <1>6, <1>7, <1>9, <2>1, <2>2, WellFormedParts
<1>13. NodesOf(t) = {t} \cup NodesOf(a) \cup NodesOf(b)
  BY <1>6, <1>9, <1>10, NodesOfIs
<1>14. Entries(t) = {<<k, p>>} \cup Entries(a) \cup Entries(b)
  BY <1>6, <1>13 DEF Entries
<1>15. QED
  BY <1>6, <1>9, <1>12, <1>14 DEF Good, h, t

LEMMA TreeInduct ==
  ASSUME NEW S, Null \in S,
         \A t \in Trees : Good(t) /\ t # Null /\ t.left \in S /\ t.right \in S => t \in S
  PROVE  \A t : Good(t) => t \in S
<1> DEFINE N == {n \in Nat : \A t \in Trees : Good(t) /\ t.height < n => t \in S}
<1>1. 0 \in N
  BY GoodHeight
<1>2. ASSUME NEW n \in Nat, n \in N PROVE n + 1 \in N
  <2>1. SUFFICES ASSUME NEW t \in Trees, Good(t), t.height < n + 1, t # Null
                 PROVE  t \in S
    OBVIOUS
  <2>2. /\ Good(t.left) /\ Good(t.right) /\ t.height \in Nat
        /\ t.height = Above(t.left, t.right)
    BY <2>1, Take DEF Fits, Sides, Other
  <2>3. t.left.height \in Int /\ t.right.height \in Int
    BY <2>2, GoodHeight
  <2>4. t.left.height < n /\ t.right.height < n
    BY <2>1, <2>2, <2>3 DEF Above
  <2>5. t.left \in S /\ t.right \in S
    BY <1>2, <2>2, <2>4 DEF Good
  <2>6. QED
    BY <2>1, <2>5
<1>3. Nat \subseteq N
  <2> HIDE DEF N
  <2>1. QED
    BY <1>1, <1>2, NatInduct
<1>4. ASSUME NEW t, Good(t) PROVE t \in S
  BY <1>3, <1>4, GoodHeight, MaxHeightAssumption DEF Good
<1>5. QED
  BY <1>4

(***************************************************************************)
(* The order of the keys.                                                  *)
(***************************************************************************)
LEMMA OrderFacts ==
  ASSUME NEW side \in Sides, NEW x \in Keys, NEW y \in Keys
  PROVE  /\ ~On(side, x, x)
         /\ On(side, x, y) => ~On(side, y, x) /\ x # y
         /\ x # y => On(side, x, y) \/ On(side, y, x)
         /\ On(Other(side), x, y) <=> On(side, y, x)
         /\ \A z \in Keys : On(side, x, y) /\ On(side, y, z) => On(side, x, z)
<1>1. /\ x[1] \in Nat /\ x[2] \in Nat /\ x = <<x[1], x[2]>>
      /\ y[1] \in Nat /\ y[2] \in Nat /\ y = <<y[1], y[2]>>
      /\ \A z \in Keys : z[1] \in Nat /\ z[2] \in Nat
  BY DEF Keys
<1>2. x # y => x[1] # y[1] \/ x[2] # y[2]
  BY <1>1
<1>3. QED
  BY <1>1, <1>2 DEF On, Below, Other, Sides

LEMMA EntriesTyped ==
  ASSUME NEW t, Good(t), NEW e \in Entries(t)
  PROVE  e[1] \in Keys /\ e[2] \in Nat /\ e = <<e[1], e[2]>>
<1> DEFINE S == {u \in Trees : Entries(u) \subseteq Keys \X Nat}
<1>1. Null \in S
  BY NullFacts, TreeChildren
<1>2. ASSUME NEW u \in Trees, Good(u), u # Null, u.left \in S, u.right \in S PROVE u \in S
  <2>1. Entries(u) = {<<u.key, u.page>>} \cup Entries(u.left) \cup Entries(u.right)
    BY <1>2, Take DEF Sides, Other
  <2>2. u.key \in Keys /\ u.page \in Nat
    BY <1>2, TreeShape DEF Sides
  <2>3. QED
    BY <1>2, <2>1, <2>2
<1>3. t \in S
  <2> HIDE DEF S
  <2>1. QED
    BY <1>1, <1>2, TreeInduct
<1>4. QED
  BY <1>3

LEMMA GoodStays ==
  /\ Settled(Null) = Null
  /\ \A t : Good(t) /\ t # Null =>
       Reheighted(t) = t /\ DoBalance(t) = t /\ Settled(t) = t
<1>1. DoBalance(Null) = Null
  BY DEF DoBalance, Balance
<1>2. ASSUME NEW t, Good(t), t # Null
      PROVE  Reheighted(t) = t /\ DoBalance(t) = t
  <2>1. t = Reheighted(t) /\ Balance(t) \in -1 .. 1
    BY <1>2, WellFormedParts DEF Good
  <2>2. QED
    BY <2>1 DEF DoBalance
<1>3. QED
  BY <1>1, <1>2 DEF Settled

(***************************************************************************)
(* Balancing.  A node one of whose sides is two higher is made good by one *)
(* rotation or two.                                                        *)
(***************************************************************************)
LEMMA DoBalanceTwice ==
  ASSUME NEW side \in Sides, NEW t,
         Balance(t) = IF side = "left" THEN -2 ELSE 2,
         Balance(t[side]) = IF side = "left" THEN 1 ELSE -1
  PROVE  DoBalance(t) = Rotated([t EXCEPT ![side] = Rotated(t[side], side)], Other(side))
<1>1. CASE side = "left"
  <2>1. /\ ~(Balance(t) >= 2) /\ Balance(t) \notin -1 .. 1
        /\ Balance(t["left"]) = 1 /\ Balance(t["left"]) \notin {-1, 0}
        /\ Balance(t["left"]) = -(-1)
    BY <1>1
  <2>2. DoBalance(t) = Rotated([t EXCEPT !["left"] = Rotated(t["left"], "left")], Other("left"))
    BY <2>1 DEF DoBalance
  <2>3. QED
    BY <1>1, <2>2
<1>2. CASE side = "right"
  <2>1. /\ Balance(t) >= 2 /\ Balance(t) \notin -1 .. 1
        /\ Balance(t["right"]) = -1 /\ Balance(t["right"]) \notin {1, 0}
    BY <1>2
  <2>2. DoBalance(t) = Rotated([t EXCEPT !["right"] = Rotated(t["right"], "right")], Other("right"))
    BY <2>1 DEF DoBalance
  <2>3. QED
    BY <1>2, <2>2
<1>3. QED
  BY <1>1, <1>2 DEF Sides

LEMMA Heavier ==
  ASSUME NEW side \in Sides, NEW k, NEW p, NEW h \in Nat, NEW a, NEW b,
         Fits(side, k, p, a, b), a.height - b.height = 2, a.height + 1 < MaxHeight
  PROVE  LET t == DoBalance(Two(side, k, p, h, a, b))
         IN /\ Good(t) /\ t # Null
            /\ t.height \in {a.height, a.height + 1}
            /\ Entries(t) = {<<k, p>>} \cup Entries(a) \cup Entries(b)
<1> DEFINE n == Two(side, k, p, h, a, b)
           c == a[side]
           d == a[Other(side)]
<1>1. Good(a) /\ Good(b) /\ k \in Keys /\ p \in Nat
  BY DEF Fits
<1>2. a.height \in Int /\ b.height \in Int /\ b.height >= -1
  BY <1>1, GoodHeight
<1>3. a # Null /\ a.height >= 1
  BY <1>2, NullFacts
<1>4. /\ a = Two(side, a.key, a.page, a.height, c, d)
      /\ Fits(side, a.key, a.page, c, d)
      /\ c.height - d.height \in -1 .. 1
      /\ a.height = Above(c, d) /\ a.height \in Nat
      /\ Entries(a) = {<<a.key, a.page>>} \cup Entries(c) \cup Entries(d)
  BY <1>1, <1>3, Take
<1>5. Good(c) /\ Good(d) /\ a.key \in Keys /\ a.page \in Nat
  BY <1>4 DEF Fits
<1>6. c.height \in Int /\ d.height \in Int /\ c.height >= -1 /\ d.height >= -1
  BY <1>5, GoodHeight
<1>7. Balance(n) = IF side = "left" THEN -2 ELSE 2
  BY <1>2, TwoBalance
<1>8. Balance(a) = IF side = "left" THEN d.height - c.height ELSE c.height - d.height
  BY <1>4, <1>6, TwoBalance
<1>9. n[side] = a /\ [n EXCEPT ![side] = Rotated(a, side)]
                       = Two(side, k, p, h, Rotated(a, side), b)
  BY TwoFacts
<1>10. On(side, a.key, k)
  <2>1. <<a.key, a.page>> \in Entries(a) /\ <<a.key, a.page>>[1] = a.key
    BY <1>4
  <2>2. QED
    BY <2>1 DEF Fits
<1>11. \A e \in Entries(c) \cup Entries(d) \cup Entries(b) : e[1] \in Keys
  BY <1>1, <1>5, EntriesTyped
<1>12. /\ \A e \in Entries(c) : On(side, e[1], a.key) /\ On(side, e[1], k)
       /\ \A e \in Entries(d) : On(Other(side), e[1], a.key) /\ On(side, a.key, e[1]) /\ On(side, e[1], k)
       /\ \A e \in Entries(b) : On(Other(side), e[1], k) /\ On(side, k, e[1]) /\ On(side, a.key, e[1])
                                 /\ On(Other(side), e[1], a.key)
  <2>1. /\ \A e \in Entries(c) : On(side, e[1], a.key)
        /\ \A e \in Entries(d) : On(Other(side), e[1], a.key)
    BY <1>4 DEF Fits
  <2>2. /\ \A e \in Entries(c) \cup Entries(d) : On(side, e[1], k)
        /\ \A e \in Entries(b) : On(Other(side), e[1], k)
    BY <1>4 DEF Fits
  <2>3. ASSUME NEW e \in Entries(d) PROVE On(side, a.key, e[1])
    BY <1>5, <1>11, <2>1, <2>3, OrderFacts
  <2>4. ASSUME NEW e \in Entries(b) PROVE On(side, k, e[1]) /\ On(side, a.key, e[1])
    <3>1. e[1] \in Keys /\ On(Other(side), e[1], k)
      BY <1>11, <2>2, <2>4
    <3>2. On(side, k, e[1])
      BY <1>1, <3>1, OrderFacts
    <3>3. QED
      BY <1>1, <1>5, <1>10, <3>1, <3>2, OrderFacts
  <2>5. ASSUME NEW e \in Entries(b) PROVE On(Other(side), e[1], a.key)
    BY <1>5, <1>11, <2>4, <2>5, OrderFacts
  <2>6. QED
    BY <2>1, <2>2, <2>3, <2>4, <2>5
<1>13. Other(side) \in Sides /\ Other(Other(side)) = side
  BY SideFacts
<1> DEFINE lower == Two(side, k, p, Above(d, b), d, b)
           once == Two(side, a.key, a.page, Above(c, lower), c, lower)
<1>14. CASE c.height >= d.height
  <2>1. DoBalance(n) = Rotated(n, Other(side))
    <3>1. Balance(n) \notin -1 .. 1
      BY <1>7
    <3> HIDE DEF n, c, d
    <3>2. CASE side = "left"
      <4>1. Balance(a) \in {-1, 0}
        BY <1>4, <1>6, <1>8, <1>14, <3>2
      <4>2. QED
        BY <1>7, <1>9, <3>1, <3>2, <4>1 DEF DoBalance
    <3>3. CASE side = "right"
      <4>1. Balance(a) \in {1, 0}
        BY <1>4, <1>6, <1>8, <1>14, <3>3
      <4>2. QED
        BY <1>7, <1>9, <3>1, <3>3, <4>1 DEF DoBalance
    <3>4. QED
      BY <3>2, <3>3 DEF Sides
  <2>2. Rotated(n, Other(side)) = once
    <3> HIDE DEF c, d
    <3>1. Rotated(Two(side, k, p, h, Two(side, a.key, a.page, a.height, c, d), b), Other(side)) = once
      BY <1>2, <1>4, <1>6, RotatedIs
    <3>2. QED
      BY <1>4, <3>1
  <2> HIDE DEF c, d
  <2>3. /\ Good(lower) /\ lower.height = Above(d, b)
        /\ Entries(lower) = {<<k, p>>} \cup Entries(d) \cup Entries(b)
    <3>1. Fits(side, k, p, d, b)
      BY <1>1, <1>5, <1>12 DEF Fits
    <3>2. d.height - b.height \in -1 .. 1 /\ Above(d, b) < MaxHeight
      BY <1>2, <1>4, <1>6, <1>14, MaxHeightAssumption DEF Above
    <3>3. QED
      BY <3>1, <3>2, Make
  <2> HIDE DEF lower
  <2>4. /\ Good(once) /\ once # Null /\ once.height = Above(c, lower)
        /\ Entries(once) = {<<a.key, a.page>>} \cup Entries(c) \cup Entries(lower)
    <3>1. \A e \in Entries(lower) : On(Other(side), e[1], a.key)
      <4>1. On(Other(side), k, a.key) /\ <<k, p>>[1] = k
        BY <1>1, <1>5, <1>10, OrderFacts
      <4>2. QED
        BY <1>12, <2>3, <4>1
    <3>2. Fits(side, a.key, a.page, c, lower)
      BY <1>5, <1>12, <2>3, <3>1 DEF Fits
    <3>3. c.height - lower.height \in -1 .. 1 /\ Above(c, lower) < MaxHeight
      BY <1>2, <1>4, <1>6, <1>14, <2>3, MaxHeightAssumption DEF Above
    <3>4. QED
      BY <3>2, <3>3, Make
  <2>5. once.height \in {a.height, a.height + 1}
    BY <1>2, <1>4, <1>6, <1>14, <2>3, <2>4 DEF Above
  <2>6. Entries(once) = {<<k, p>>} \cup Entries(a) \cup Entries(b)
    BY <1>4, <2>3, <2>4
  <2> HIDE DEF once
  <2>7. QED
    BY <2>1, <2>2, <2>4, <2>5, <2>6
<1>15. CASE c.height < d.height
  <2> DEFINE x == d[side]
             y == d[Other(side)]
  <2>1. c.height = a.height - 2 /\ d.height = a.height - 1 /\ b.height = a.height - 2
        /\ d.height >= 0
    BY <1>2, <1>4, <1>6, <1>15 DEF Above
  <2>2. d # Null
    BY <2>1, NullFacts
  <2>3. /\ d = Two(side, d.key, d.page, d.height, x, y)
        /\ Fits(side, d.key, d.page, x, y)
        /\ x.height - y.height \in -1 .. 1
        /\ d.height = Above(x, y) /\ d.height \in Nat
        /\ Entries(d) = {<<d.key, d.page>>} \cup Entries(x) \cup Entries(y)
    BY <1>5, <2>2, Take
  <2>4. Good(x) /\ Good(y) /\ d.key \in Keys /\ d.page \in Nat
    BY <2>3 DEF Fits
  <2>5. x.height \in Int /\ y.height \in Int
    BY <2>4, GoodHeight
  <2>6. DoBalance(n) = Rotated([n EXCEPT ![side] = Rotated(a, side)], Other(side))
    <3>1. Balance(a) = IF side = "left" THEN 1 ELSE -1
      BY <1>2, <1>8, <2>1
    <3> HIDE DEF n
    <3>2. QED
      BY <1>7, <1>9, <3>1, DoBalanceTwice
  <2> DEFINE near == Two(side, a.key, a.page, Above(c, x), c, x)
             far == Two(side, k, p, Above(y, b), y, b)
             mid == Two(side, d.key, d.page, Above(near, y), near, y)
             twice == Two(side, d.key, d.page, Above(near, far), near, far)
  <2> HIDE DEF n, c, d, x, y
  <2>7. Rotated(a, side) = mid
    \* seen from the other side
    <3> DEFINE o == Other(side)
    <3>1. /\ a = Two(o, a.key, a.page, a.height, d, c)
          /\ d = Two(o, d.key, d.page, d.height, y, x)
      BY <1>4, <2>3, TwoFacts
    <3>2. o \in Sides /\ Other(o) = side
      BY <1>13
    <3> DEFINE below == Two(o, a.key, a.page, Above(x, c), x, c)
    <3>3. Rotated(Two(o, a.key, a.page, a.height, Two(o, d.key, d.page, d.height, y, x), c), Other(o))
            = Two(o, d.key, d.page, Above(y, below), y, below)
      <4> HIDE DEF o
      <4>1. QED
        BY <1>6, <2>3, <2>5, <3>2, RotatedIs
    <3>4. Above(x, c) = Above(c, x) /\ Above(c, x) \in Int
      BY <1>6, <2>5 DEF Above
    <3>5. below = near
      <4>1. Two(o, a.key, a.page, Above(x, c), x, c) = Two(side, a.key, a.page, Above(x, c), c, x)
        BY TwoFacts
      <4>2. QED
        BY <3>4, <4>1
    <3>6. near.height \in Int
      BY <3>4, TwoFacts
    <3> HIDE DEF near
    <3>7. Above(y, near) = Above(near, y)
      BY <2>5, <3>6 DEF Above
    <3>8. Two(o, d.key, d.page, Above(y, near), y, near) = mid
      <4>1. Two(o, d.key, d.page, Above(y, near), y, near) = Two(side, d.key, d.page, Above(y, near), near, y)
        BY TwoFacts
      <4>2. QED
        BY <3>7, <4>1
    <3> HIDE DEF mid, o, below
    <3>9. Rotated(a, Other(o)) = mid
      BY <3>1, <3>3, <3>5, <3>8 DEF below
    <3>10. QED
      BY <3>2, <3>9
  <2>8. /\ Good(near) /\ near.height = Above(c, x) /\ near # Null
        /\ Entries(near) = {<<a.key, a.page>>} \cup Entries(c) \cup Entries(x)
    <3>1. Fits(side, a.key, a.page, c, x)
      BY <1>5, <1>12, <2>3, <2>4 DEF Fits
    <3>2. c.height - x.height \in -1 .. 1 /\ Above(c, x) < MaxHeight
      BY <1>2, <2>1, <2>3, <2>5, MaxHeightAssumption DEF Above
    <3>3. QED
      BY <3>1, <3>2, Make
  <2>9. /\ Good(far) /\ far.height = Above(y, b) /\ far # Null
        /\ Entries(far) = {<<k, p>>} \cup Entries(y) \cup Entries(b)
    <3>1. Fits(side, k, p, y, b)
      BY <1>1, <1>12, <2>3, <2>4 DEF Fits
    <3>2. y.height - b.height \in -1 .. 1 /\ Above(y, b) < MaxHeight
      BY <1>2, <2>1, <2>3, <2>5, MaxHeightAssumption DEF Above
    <3>3. QED
      BY <3>1, <3>2, Make
  <2>10. Rotated([n EXCEPT ![side] = Rotated(a, side)], Other(side)) = twice
    <3>1. [n EXCEPT ![side] = Rotated(a, side)] = Two(side, k, p, h, mid, b)
      BY <1>9, <2>7
    <3>2. near.height \in Int /\ Above(near, y) \in Nat
      <4>1. near.height \in Nat
        BY <1>2, <2>1, <2>3, <2>5, <2>8 DEF Above
      <4>2. QED
        BY <4>1, <2>5 DEF Above
    <3> HIDE DEF near
    <3>3. Rotated(Two(side, k, p, h, mid, b), Other(side)) = twice
      BY <1>2, <2>5, <3>2, RotatedIs
    <3>4. QED
      BY <3>1, <3>3
  <2> HIDE DEF near, far
  <2>a. near.height = a.height - 1 /\ far.height = a.height - 1
    <3>1. x.height <= a.height - 2 /\ y.height <= a.height - 2
      BY <1>2, <2>1, <2>3, <2>5 DEF Above
    <3>2. QED
      BY <1>2, <1>6, <2>1, <2>5, <2>8, <2>9, <3>1 DEF Above
  <2>11. On(side, a.key, d.key) /\ On(side, d.key, k)
    <3>1. <<d.key, d.page>> \in Entries(d) /\ <<d.key, d.page>>[1] = d.key
      BY <2>3
    <3>2. QED
      BY <1>12, <3>1
  <2>12. \A e \in Entries(near) : On(side, e[1], d.key)
    <3>1. ASSUME NEW e \in Entries(c) PROVE On(side, e[1], d.key)
      <4>1. e[1] \in Keys /\ On(side, e[1], a.key)
        BY <1>11, <1>12, <3>1
      <4>2. QED
        BY <1>5, <2>4, <2>11, <4>1, OrderFacts
    <3>2. \A e \in Entries(x) : On(side, e[1], d.key)
      BY <2>3 DEF Fits
    <3>3. <<a.key, a.page>>[1] = a.key
      OBVIOUS
    <3>4. QED
      BY <2>8, <2>11, <3>1, <3>2, <3>3
  <2>13. \A e \in Entries(far) : On(Other(side), e[1], d.key)
    <3>1. ASSUME NEW e \in Entries(b) PROVE On(Other(side), e[1], d.key)
      <4>1. e[1] \in Keys /\ On(side, k, e[1])
        BY <1>11, <1>12, <3>1
      <4>2. On(side, d.key, e[1])
        BY <1>1, <2>4, <2>11, <4>1, OrderFacts
      <4>3. QED
        BY <2>4, <4>1, <4>2, OrderFacts
    <3>2. \A e \in Entries(y) : On(Other(side), e[1], d.key)
      BY <2>3 DEF Fits
    <3>3. <<k, p>>[1] = k /\ On(Other(side), k, d.key)
      BY <1>1, <2>4, <2>11, OrderFacts
    <3>4. QED
      BY <2>9, <3>1, <3>2, <3>3
  <2>14. /\ Good(twice) /\ twice # Null /\ twice.height = Above(near, far)
         /\ Entries(twice) = {<<d.key, d.page>>} \cup Entries(near) \cup Entries(far)
    <3>1. Fits(side, d.key, d.page, near, far)
      BY <2>4, <2>8, <2>9, <2>12, <2>13 DEF Fits
    <3>2. near.height - far.height \in -1 .. 1 /\ Above(near, far) < MaxHeight
      BY <1>2, <2>a, MaxHeightAssumption DEF Above
    <3>3. QED
      BY <3>1, <3>2, Make
  <2>15. twice.height \in {a.height, a.height + 1}
    BY <1>2, <2>a, <2>14 DEF Above
  <2>16. Entries(twice) = {<<k, p>>} \cup Entries(a) \cup Entries(b)
    BY <1>4, <2>3, <2>8, <2>9, <2>14
  <2> HIDE DEF twice
  <2>17. DoBalance(n) = twice
    BY <2>6, <2>10
  <2>18. QED
    BY <2>14, <2>15, <2>16, <2>17 DEF n
<1>16. QED
  BY <1>6, <1>14, <1>15

\* Reheighted and balanced, in either order, as the operations do it.
LEMMA Balanced ==
  ASSUME NEW side \in Sides, NEW k, NEW p, NEW h \in Nat, NEW a, NEW b,
         Fits(side, k, p, a, b), a.height - b.height \in -2 .. 2,
         Above(a, b) < MaxHeight,
         NEW t, LET n == Two(side, k, p, h, a, b)
                IN t \in {Settled(n), Settled(Reheighted(n)), DoBalance(Reheighted(n)),
                          Reheighted(DoBalance(n))}
  PROVE  /\ Good(t) /\ t # Null
         /\ t.height \in {Above(a, b) - 1, Above(a, b)}
         /\ a.height - b.height \in -1 .. 1 => t.height = Above(a, b)
         /\ Entries(t) = {<<k, p>>} \cup Entries(a) \cup Entries(b)
<1> DEFINE n == Two(side, k, p, h, a, b)
           m == Two(side, k, p, Above(a, b), a, b)
<1>1. Good(a) /\ Good(b)
  BY DEF Fits
<1>2. a.height \in Int /\ b.height \in Int /\ a.height >= -1 /\ b.height >= -1
  BY <1>1, GoodHeight
<1>3. Above(a, b) \in Nat
  BY <1>2 DEF Above
<1>4. n # Null /\ m # Null
  BY <1>2, <1>3, TwoBalance
<1>5. Reheighted(n) = m /\ Reheighted(m) = m
  BY <1>2, TwoFacts
<1>6. t \in {DoBalance(m), Reheighted(DoBalance(n))}
  <2> HIDE DEF n, m
  <2>1. t \in {Settled(n), Settled(Reheighted(n)), DoBalance(Reheighted(n)),
               Reheighted(DoBalance(n))}
    BY DEF n
  <2>2. QED
    BY <1>4, <1>5, <2>1 DEF Settled
<1>7. CASE a.height - b.height \in -1 .. 1
  <2>1. /\ Good(m) /\ m.height = Above(a, b)
        /\ Entries(m) = {<<k, p>>} \cup Entries(a) \cup Entries(b)
    BY <1>7, Make
  <2>2. Balance(n) \in -1 .. 1
    <3>1. Balance(n) = IF side = "left" THEN b.height - a.height ELSE a.height - b.height
      BY <1>2, TwoBalance
    <3>2. QED
      BY <1>2, <1>7, <3>1
  <2> HIDE DEF n, m
  <2>3. DoBalance(n) = n
    BY <2>2 DEF DoBalance
  <2>4. t = m
    BY <1>4, <1>5, <1>6, <2>1, <2>3, GoodStays
  <2>5. QED
    BY <1>4, <2>1, <2>4
<1>8. CASE a.height - b.height = 2
  <2>1. Above(a, b) = a.height + 1
    BY <1>2, <1>8 DEF Above
  <2>2. /\ Good(DoBalance(n)) /\ DoBalance(n) # Null
        /\ DoBalance(n).height \in {a.height, a.height + 1}
        /\ Entries(DoBalance(n)) = {<<k, p>>} \cup Entries(a) \cup Entries(b)
    BY <1>8, <2>1, Heavier
  <2>3. /\ Good(DoBalance(m)) /\ DoBalance(m) # Null
        /\ DoBalance(m).height \in {a.height, a.height + 1}
        /\ Entries(DoBalance(m)) = {<<k, p>>} \cup Entries(a) \cup Entries(b)
    BY <1>3, <1>8, <2>1, Heavier
  <2> HIDE DEF n, m
  <2>4. Reheighted(DoBalance(n)) = DoBalance(n)
    BY <2>2, GoodStays
  <2>5. QED
    BY <1>2, <1>6, <1>8, <2>1, <2>2, <2>3, <2>4
<1>9. CASE a.height - b.height = -2
  <2> DEFINE o == Other(side)
  <2>1. o \in Sides /\ Other(o) = side
    BY SideFacts
  <2>2. Fits(o, k, p, b, a)
    BY <2>1 DEF Fits
  <2>3. Above(a, b) = b.height + 1 /\ b.height - a.height = 2
    BY <1>2, <1>9 DEF Above
  <2>4. n = Two(o, k, p, h, b, a) /\ m = Two(o, k, p, Above(a, b), b, a)
    BY TwoFacts
  <2> HIDE DEF o, n, m
  <2>5. /\ Good(DoBalance(n)) /\ DoBalance(n) # Null
        /\ DoBalance(n).height \in {b.height, b.height + 1}
        /\ Entries(DoBalance(n)) = {<<k, p>>} \cup Entries(b) \cup Entries(a)
    <3>1. LET u == DoBalance(Two(o, k, p, h, b, a))
          IN /\ Good(u) /\ u # Null
             /\ u.height \in {b.height, b.height + 1}
             /\ Entries(u) = {<<k, p>>} \cup Entries(b) \cup Entries(a)
      <4>1. b.height + 1 < MaxHeight
        BY <2>3
      <4>2. QED
        BY <1>3, <2>1, <2>2, <2>3, <4>1, Heavier
    <3>2. QED
      BY <2>4, <3>1
  <2>6. /\ Good(DoBalance(m)) /\ DoBalance(m) # Null
        /\ DoBalance(m).height \in {b.height, b.height + 1}
        /\ Entries(DoBalance(m)) = {<<k, p>>} \cup Entries(b) \cup Entries(a)
    <3>1. LET u == DoBalance(Two(o, k, p, Above(a, b), b, a))
          IN /\ Good(u) /\ u # Null
             /\ u.height \in {b.height, b.height + 1}
             /\ Entries(u) = {<<k, p>>} \cup Entries(b) \cup Entries(a)
      <4>1. b.height + 1 < MaxHeight
        BY <2>3
      <4>2. QED
        BY <1>3, <2>1, <2>2, <2>3, <4>1, Heavier
    <3>2. QED
      BY <2>4, <3>1
  <2>7. Reheighted(DoBalance(n)) = DoBalance(n)
    BY <2>5, GoodStays
  <2>8. QED
    BY <1>2, <1>6, <1>9, <2>3, <2>5, <2>6, <2>7
<1>10. QED
  BY <1>2, <1>7, <1>8, <1>9

\* One side of a node becomes no lower than by one: so does the whole.
LEMMA LowerSide ==
  ASSUME NEW a, NEW b, NEW c,
         a.height \in Int, b.height \in Int, c.height \in Int,
         a.height - b.height \in -1 .. 1, c.height \in {a.height - 1, a.height}
  PROVE  /\ c.height - b.height \in -2 .. 2 /\ Above(c, b) <= Above(a, b)
         /\ \A r : /\ r \in {Above(c, b) - 1, Above(c, b)}
                   /\ c.height - b.height \in -1 .. 1 => r = Above(c, b)
                   => r \in {Above(a, b) - 1, Above(a, b)}
<1>1. \/ c.height = a.height
      \/ c.height = a.height - 1 /\ b.height \in {a.height, a.height + 1}
      \/ c.height = a.height - 1 /\ b.height = a.height - 1
  OBVIOUS
<1>2. CASE c.height = a.height
  BY <1>2 DEF Above
<1>3. CASE c.height = a.height - 1 /\ b.height \in {a.height, a.height + 1}
  <2>1. Above(c, b) = Above(a, b)
    BY <1>3 DEF Above
  <2>2. QED
    BY <1>3, <2>1 DEF Above
<1>4. CASE c.height = a.height - 1 /\ b.height = a.height - 1
  <2>1. Above(c, b) = a.height /\ Above(a, b) = a.height + 1
    BY <1>4 DEF Above
  <2>2. c.height - b.height = 0
    BY <1>4
  <2>3. QED
    BY <2>1, <2>2
<1>5. QED
  BY <1>1, <1>2, <1>3, <1>4

LEMMA Shrunk ==
  ASSUME NEW side \in Sides, NEW t, Good(t), t # Null, NEW c, Good(c),
         c.height \in {t[side].height - 1, t[side].height},
         Entries(c) \subseteq Entries(t[side]),
         NEW r, LET n == [t EXCEPT ![side] = c] IN r \in {Settled(n), DoBalance(Reheighted(n))}
  PROVE  /\ Good(r) /\ r # Null /\ r.height \in {t.height - 1, t.height}
         /\ Entries(r) = {<<t.key, t.page>>} \cup Entries(c) \cup Entries(t[Other(side)])
<1> DEFINE a == t[side]
           b == t[Other(side)]
<1>1. /\ t = Two(side, t.key, t.page, t.height, a, b)
      /\ Fits(side, t.key, t.page, a, b)
      /\ a.height - b.height \in -1 .. 1
      /\ t.height = Above(a, b) /\ t.height \in Nat
  BY Take
<1>2. [t EXCEPT ![side] = c] = Two(side, t.key, t.page, t.height, c, b)
  <2> HIDE DEF a, b
  <2>1. [Two(side, t.key, t.page, t.height, a, b) EXCEPT ![side] = c]
          = Two(side, t.key, t.page, t.height, c, b)
    BY TwoFacts
  <2>2. QED
    BY <1>1, <2>1
<1>3. c.height \in {a.height - 1, a.height} /\ Entries(c) \subseteq Entries(a)
  OBVIOUS
<1> HIDE DEF a, b
<1>4. Fits(side, t.key, t.page, c, b)
  BY <1>1, <1>3 DEF Fits
<1>5. a.height \in Int /\ b.height \in Int /\ c.height \in Int
  BY <1>1, GoodHeight DEF Fits
<1>6. c.height - b.height \in -2 .. 2 /\ Above(c, b) <= t.height
  BY <1>1, <1>3, <1>5, LowerSide
<1>7. Above(c, b) < MaxHeight
  <2>1. t.height < MaxHeight
    BY GoodHeight
  <2>2. Above(c, b) \in Int
    BY <1>5 DEF Above
  <2>3. QED
    BY <1>1, <1>6, <2>1, <2>2, MaxHeightAssumption
<1>8. /\ Good(r) /\ r # Null
      /\ r.height \in {Above(c, b) - 1, Above(c, b)}
      /\ c.height - b.height \in -1 .. 1 => r.height = Above(c, b)
      /\ Entries(r) = {<<t.key, t.page>>} \cup Entries(c) \cup Entries(b)
  BY <1>1, <1>2, <1>4, <1>6, <1>7, Balanced
<1>9. r.height \in {t.height - 1, t.height}
  BY <1>1, <1>3, <1>5, <1>8, LowerSide
<1>10. QED
  BY <1>8, <1>9 DEF b

(***************************************************************************)
(* Inserting.                                                              *)
(***************************************************************************)
LEMMA SideOfKey ==
  ASSUME NEW key \in Keys, NEW t, t.key \in Keys, key # t.key
  PROVE  /\ SideOf(key, t) \in Sides
         /\ On(SideOf(key, t), key, t.key)
<1>1. On("left", key, t.key) \/ On("left", t.key, key)
  BY OrderFacts DEF Sides
<1>2. QED
  BY <1>1, SideOfFacts DEF SideOf, On

LEMMA InsertFacts ==
  ASSUME NEW key \in Keys, NEW page \in Nat, NEW t, Good(t),
         t.height + 1 < MaxHeight, \A e \in Entries(t) : e[1] # key
  PROVE  LET u == Insert(t, key, page)
         IN /\ Good(u) /\ u.height \in {t.height, t.height + 1}
            /\ Entries(u) = Entries(t) \cup {<<key, page>>}
<1> DEFINE Result(v, u) == /\ Good(u) /\ u.height \in {v.height, v.height + 1}
                           /\ Entries(u) = Entries(v) \cup {<<key, page>>}
<1>1. PICK f : /\ \A v \in Trees : f[v] = Insert(v, key, page)
               /\ \A v \in Trees : f[v] = IntoStep(key, page, f, v)
  BY InsertStep
<1> DEFINE S == {v \in Trees : /\ v.height + 1 < MaxHeight
                               /\ \A e \in Entries(v) : e[1] # key
                               => Result(v, f[v])}
<1>2. Null \in S
  <2>1. SUFFICES ASSUME 0 < MaxHeight PROVE Result(Null, f[Null])
    BY TreeChildren, NullFacts
  <2>2. f[Null] = Two("left", key, page, 0, Null, Null)
    BY <1>1, TreeChildren DEF IntoStep, Leaf, Two, Node
  <2>3. Above(Null, Null) = 0
    BY NullFacts DEF Above
  <2>4. Fits("left", key, page, Null, Null)
    BY NullFacts DEF Fits
  <2>5. LET u == Two("left", key, page, 0, Null, Null)
        IN Good(u) /\ u.height = 0 /\ Entries(u) = {<<key, page>>} \cup Entries(Null) \cup Entries(Null)
    <3>1. Null.height - Null.height \in -1 .. 1
      BY NullFacts
    <3>2. "left" \in Sides
      BY DEF Sides
    <3>3. QED
      BY <2>1, <2>3, <2>4, <3>1, <3>2, Make
  <2>6. QED
    BY <2>2, <2>5, NullFacts
<1>3. ASSUME NEW v \in Trees, Good(v), v # Null, v.left \in S, v.right \in S PROVE v \in S
  <2>1. SUFFICES ASSUME v.height + 1 < MaxHeight, \A e \in Entries(v) : e[1] # key
                 PROVE  Result(v, f[v])
    OBVIOUS
  <2> DEFINE side == SideOf(key, v)
             a == v[side]
             b == v[Other(side)]
  <2>2. v.key \in Keys
    BY <1>3, TreeShape DEF Sides
  <2>3. key # v.key
    <3>1. <<v.key, v.page>> \in Entries(v) /\ <<v.key, v.page>>[1] = v.key
      BY <1>3, Take DEF Sides
    <3>2. QED
      BY <2>1, <3>1
  <2>4. side \in Sides /\ On(side, key, v.key)
    BY <2>2, <2>3, SideOfKey
  <2>5. a \in S
    BY <1>3, <2>4 DEF Sides
  <2>6. f[v] = Reheighted(DoBalance([v EXCEPT ![side] = f[a]]))
    BY <1>1, <1>3 DEF IntoStep
  <2> HIDE DEF side
  <2>7. /\ v = Two(side, v.key, v.page, v.height, a, b)
        /\ Fits(side, v.key, v.page, a, b)
        /\ a.height - b.height \in -1 .. 1
        /\ v.height = Above(a, b) /\ v.height \in Nat
        /\ Entries(v) = {<<v.key, v.page>>} \cup Entries(a) \cup Entries(b)
    BY <1>3, <2>4, Take
  <2>8. [v EXCEPT ![side] = f[a]] = Two(side, v.key, v.page, v.height, f[a], b)
    <3> HIDE DEF a, b
    <3>1. \A u : [Two(side, v.key, v.page, v.height, a, b) EXCEPT ![side] = u]
                   = Two(side, v.key, v.page, v.height, u, b)
      BY <2>4, TwoFacts
    <3>2. QED
      BY <2>7, <3>1
  <2> HIDE DEF a, b
  <2>9. a.height \in Int /\ b.height \in Int
    BY <2>7, GoodHeight DEF Fits
  <2>10. Result(a, f[a])
    <3>1. a.height + 1 < MaxHeight
      BY <2>1, <2>7, <2>9, MaxHeightAssumption DEF Above
    <3>2. QED
      BY <2>1, <2>5, <2>7, <3>1
  <2> DEFINE c == f[a]
  <2> HIDE DEF c
  <2>11. /\ Good(c) /\ c.height \in {a.height, a.height + 1}
         /\ Entries(c) = Entries(a) \cup {<<key, page>>}
    BY <2>10 DEF c
  <2>12. Fits(side, v.key, v.page, c, b)
    <3>1. <<key, page>>[1] = key
      OBVIOUS
    <3>2. QED
      BY <2>4, <2>7, <2>11, <3>1 DEF Fits
  <2>13. c.height \in Int
    BY <2>11, <2>9
  <2>14. c.height - b.height \in -2 .. 2 /\ Above(c, b) < MaxHeight
    BY <2>1, <2>7, <2>9, <2>11, <2>13, MaxHeightAssumption DEF Above
  <2> DEFINE r == Reheighted(DoBalance(Two(side, v.key, v.page, v.height, c, b)))
  <2>15. /\ Good(r) /\ r # Null
         /\ r.height \in {Above(c, b) - 1, Above(c, b)}
         /\ c.height - b.height \in -1 .. 1 => r.height = Above(c, b)
         /\ Entries(r) = {<<v.key, v.page>>} \cup Entries(c) \cup Entries(b)
    BY <2>4, <2>7, <2>12, <2>14, Balanced
  <2>16. f[v] = r
    BY <2>6, <2>8 DEF c
  <2> HIDE DEF r
  <2>17. r.height \in {v.height, v.height + 1}
    BY <2>7, <2>9, <2>11, <2>13, <2>15 DEF Above
  <2>18. QED
    BY <2>7, <2>11, <2>15, <2>16, <2>17
<1>4. t \in S
  <2> HIDE DEF S
  <2>1. QED
    BY <1>2, <1>3, TreeInduct
<1>5. QED
  BY <1>1, <1>4

(***************************************************************************)
(* Removing.                                                               *)
(***************************************************************************)
LEMMA NodeGiven ==
  ASSUME NEW k, NEW p, NEW h, NEW l, NEW r, NEW x, NEW y
  PROVE  LET n == Node(k, p, h, l, r)
         IN WithChildren(n, x, y) = Node(k, p, h, x, y)
<1> DEFINE n == Node(k, p, h, l, r)
           m == [n EXCEPT !.left = x, !.right = y]
           S == [key : {k}, page : {p}, height : {h}, left : {l, x}, right : {r, y}]
<1>1. n \in S /\ n.key = k /\ n.page = p /\ n.height = h
  BY DEF Node
<1> HIDE DEF n
<1>2. m \in S
  BY <1>1
<1>3. m.key = k /\ m.page = p /\ m.height = h /\ m.left = x /\ m.right = y
  BY <1>1
<1> HIDE DEF m
<1>4. m = Node(k, p, h, x, y)
  BY <1>2, <1>3 DEF Node
<1>5. QED
  BY <1>4 DEF m, n, WithChildren

EntryOf(n) == <<n.key, n.page>>

LEMMA EntryFacts ==
  ASSUME NEW t, Good(t), t # Null, NEW side \in Sides
  PROVE  LET x == EntryOf(t)
         IN /\ x[1] = t.key /\ x[2] = t.page /\ x \in Entries(t)
            /\ t.key \in Keys /\ t.page \in Nat
            /\ x \notin Entries(t[side])
            /\ \A e \in Entries(t[side]) : On(side, e[1], t.key) /\ e \notin Entries(t[Other(side)])
<1>1. /\ Fits(side, t.key, t.page, t[side], t[Other(side)])
      /\ Entries(t) = {<<t.key, t.page>>} \cup Entries(t[side]) \cup Entries(t[Other(side)])
  BY Take
<1>2. t.key \in Keys /\ t.page \in Nat
  BY <1>1 DEF Fits
<1>3. <<t.key, t.page>>[1] = t.key /\ <<t.key, t.page>>[2] = t.page
  OBVIOUS
<1>4. \A e \in Entries(t[side]) : e[1] \in Keys /\ On(side, e[1], t.key) /\ e[1] # t.key
  <2>1. ASSUME NEW e \in Entries(t[side])
        PROVE  e[1] \in Keys /\ On(side, e[1], t.key) /\ e[1] # t.key
    <3>1. e[1] \in Keys /\ On(side, e[1], t.key)
      BY <1>1, <2>1, EntriesTyped DEF Fits
    <3>2. QED
      BY <1>2, <3>1, OrderFacts
  <2>2. QED
    BY <2>1
<1>5. ASSUME NEW e \in Entries(t[side]) PROVE e \notin Entries(t[Other(side)])
  <2>1. SUFFICES ASSUME e \in Entries(t[Other(side)]) PROVE FALSE
    OBVIOUS
  <2>2. On(Other(side), e[1], t.key)
    BY <1>1, <2>1 DEF Fits
  <2>3. QED
    BY <1>2, <1>4, <1>5, <2>2, OrderFacts
<1>6. QED
  BY <1>1, <1>2, <1>3, <1>4, <1>5 DEF EntryOf

\* The outermost node of a side goes.
Unlinked(side, t, u) ==
  /\ t[side] = Null => u.rest = Null /\ u.found = t
  /\ t[side] # Null =>
       /\ Good(u.rest) /\ u.rest # Null /\ u.rest.height \in {t.height - 1, t.height}
       /\ u.found.height \in Nat
       /\ u.found = Two(side, u.found.key, u.found.page, u.found.height, Null, Null)
       /\ EntryOf(u.found) \in Entries(t)
       /\ Entries(u.rest) = Entries(t) \ {EntryOf(u.found)}
       /\ \A e \in Entries(u.rest) : On(side, u.found.key, e[1])

LEMMA UnlinkEndFacts ==
  ASSUME NEW side \in Sides, NEW t, Good(t)
  PROVE  LET u == UnlinkEnd(t, side)
         IN /\ t = Null => u.rest = Null
            /\ t # Null => Unlinked(side, t, u)
<1>1. PICK f : /\ \A v \in Trees : f[v] = UnlinkEnd(v, side)
               /\ \A v \in Trees : f[v] = OutStep(side, f, v)
  BY UnlinkEndStep
<1> DEFINE S == {v \in Trees : v # Null => Unlinked(side, v, f[v])}
<1>2. Null \in S
  BY TreeChildren
<1>3. ASSUME NEW v \in Trees, Good(v), v # Null, v.left \in S, v.right \in S PROVE v \in S
  <2> DEFINE a == v[side]
             b == v[Other(side)]
  <2>1. a \in S
    BY <1>3 DEF Sides
  <2>2. CASE a = Null
    <3>1. f[v] = [rest |-> Null, found |-> v]
      BY <1>1, <1>3, <2>2 DEF OutStep
    <3>2. QED
      BY <2>2, <3>1 DEF Unlinked
  <2>3. CASE a # Null
    <3>1. /\ Fits(side, v.key, v.page, a, b) /\ v.height \in Nat
          /\ Entries(v) = {EntryOf(v)} \cup Entries(a) \cup Entries(b)
      BY <1>3, Take DEF EntryOf
    <3>2. Good(a) /\ Good(b) /\ a \in Trees
      BY <3>1 DEF Fits, Good
    <3>3. Unlinked(side, a, f[a])
      BY <2>1, <2>3
    <3> DEFINE put(u) == DoBalance(Reheighted([v EXCEPT ![side] = u]))
    <3>4. /\ f[a].rest = Null => f[v] = [rest |-> put(f[a].found[Other(side)]),
                         found |-> WithChildren(f[a].found, Null, Null)]
          /\ f[a].rest # Null => f[v] = [rest |-> put(f[a].rest), found |-> f[a].found]
      BY <1>1, <1>3, <2>3 DEF OutStep
    <3>5. /\ v.key \in Keys /\ EntryOf(v)[1] = v.key /\ EntryOf(v) \notin Entries(a)
          /\ \A e \in Entries(a) : On(side, e[1], v.key) /\ e \notin Entries(b)
      BY <1>3, EntryFacts
    <3>6. \A e \in Entries(a) \cup Entries(b) : e[1] \in Keys
      BY <3>2, EntriesTyped
    <3>7. \A e \in Entries(b) : On(side, v.key, e[1])
      <4>1. ASSUME NEW e \in Entries(b) PROVE On(side, v.key, e[1])
        <5>1. On(Other(side), e[1], v.key)
          BY <3>1, <4>1 DEF Fits
        <5>2. QED
          BY <3>5, <3>6, <4>1, <5>1, OrderFacts
      <4>2. QED
        BY <4>1
    \* what lies beyond an entry of a lies beyond, too, what lies beyond v
    <3>8. \A x \in Entries(a) : \A e \in {EntryOf(v)} \cup Entries(b) : On(side, x[1], e[1])
      <4>1. ASSUME NEW x \in Entries(a), NEW e \in Entries(b) PROVE On(side, x[1], e[1])
        BY <3>5, <3>6, <3>7, <4>1, OrderFacts
      <4>2. QED
        BY <3>5, <4>1
    <3>9. CASE a[side] = Null
      <4> DEFINE d == a[Other(side)]
      <4>1. /\ a = Two(side, a.key, a.page, a.height, Null, d)
            /\ Fits(side, a.key, a.page, Null, d)
            /\ Null.height - d.height \in -1 .. 1
            /\ a.height = Above(Null, d) /\ a.height \in Nat
            /\ Entries(a) = {EntryOf(a)} \cup Entries(d)
        BY <2>3, <3>2, <3>9, Take, NullFacts DEF EntryOf
      <4>2. Good(d) /\ d.height \in Int
        BY <4>1, GoodHeight DEF Fits
      <4>3. d.height = a.height - 1
        BY <4>1, <4>2, GoodHeight, NullFacts DEF Above
      <4>4. f[a].rest = Null /\ f[a].found = a
        BY <3>3, <3>9 DEF Unlinked
      <4>5. WithChildren(a, Null, Null) = Two(side, a.key, a.page, a.height, Null, Null)
        <5>1. a = Node(a.key, a.page, a.height, a.left, a.right)
          BY <2>3, <3>2, TreeShape DEF Two, Other, Sides
        <5>2. LET n == Node(a.key, a.page, a.height, a.left, a.right)
              IN WithChildren(n, Null, Null)
                   = Node(a.key, a.page, a.height, Null, Null)
          BY NodeGiven
        <5> HIDE DEF a
        <5>3. QED
          BY <5>1, <5>2 DEF Two
      <4>6. f[v].rest = put(d) /\ f[v].found = Two(side, a.key, a.page, a.height, Null, Null)
        <5> HIDE DEF put, a
        <5>1. QED
          BY <3>4, <4>4, <4>5
      <4>7. /\ Good(put(d)) /\ put(d) # Null /\ put(d).height \in {v.height - 1, v.height}
            /\ Entries(put(d)) = {EntryOf(v)} \cup Entries(d) \cup Entries(b)
        <5>1. d.height \in {a.height - 1, a.height} /\ Entries(d) \subseteq Entries(a)
          BY <4>1, <4>3
        <5>2. QED
          BY <1>3, <4>2, <5>1, Shrunk DEF EntryOf
      <4> HIDE DEF put
      <4>8. EntryOf(f[v].found) = EntryOf(a) /\ f[v].found.key = a.key
            /\ f[v].found.page = a.page /\ f[v].found.height = a.height
        BY <4>6, TwoFacts DEF EntryOf
      <4>9. EntryOf(a) \notin Entries(d) /\ \A e \in Entries(d) : On(side, a.key, e[1])
        <5>1. /\ EntryOf(a) \notin Entries(d) /\ a.key \in Keys
              /\ \A e \in Entries(d) : On(Other(side), e[1], a.key)
          BY <2>3, <3>2, EntryFacts, SideFacts
        <5>2. \A e \in Entries(d) : e[1] \in Keys
          BY <3>6, <4>1
        <5>3. QED
          BY <5>1, <5>2, OrderFacts
      <4>10. EntryOf(a) \in Entries(a) /\ EntryOf(a)[1] = a.key
        BY <4>1 DEF EntryOf
      <4>11. Entries(put(d)) = Entries(v) \ {EntryOf(a)}
        BY <3>1, <3>5, <4>1, <4>7, <4>9, <4>10
      <4>12. \A e \in Entries(put(d)) : On(side, a.key, e[1])
        BY <3>8, <4>7, <4>9, <4>10
      <4>13. Unlinked(side, v, f[v])
        BY <2>3, <3>1, <4>1, <4>6, <4>7, <4>8, <4>10, <4>11, <4>12 DEF Unlinked
      <4>14. QED
        BY <4>13
    <3>10. CASE a[side] # Null
      <4> DEFINE u == f[a]
                 x == EntryOf(u.found)
                 r == put(u.rest)
      <4>1. /\ Good(u.rest) /\ u.rest # Null /\ u.rest.height \in {a.height - 1, a.height}
            /\ u.found.height \in Nat
            /\ u.found = Two(side, u.found.key, u.found.page, u.found.height, Null, Null)
            /\ x \in Entries(a)
            /\ Entries(u.rest) = Entries(a) \ {x}
            /\ \A e \in Entries(u.rest) : On(side, u.found.key, e[1])
        BY <3>3, <3>10 DEF Unlinked
      <4>2. /\ Good(r) /\ r # Null /\ r.height \in {v.height - 1, v.height}
            /\ Entries(r) = {EntryOf(v)} \cup Entries(u.rest) \cup Entries(b)
        <5>1. Entries(u.rest) \subseteq Entries(a)
          BY <4>1
        <5>2. QED
          BY <1>3, <4>1, <5>1, Shrunk DEF EntryOf
      <4>3. f[v].rest = r /\ f[v].found = u.found
        <5> HIDE DEF put, a
        <5>1. QED
          BY <3>4, <4>1
      <4>4. x[1] = u.found.key
        BY DEF EntryOf
      <4> HIDE DEF r, u, x
      <4>5. Entries(r) = Entries(v) \ {x}
        BY <3>1, <3>5, <4>1, <4>2
      <4>6. \A e \in Entries(r) : On(side, u.found.key, e[1])
        BY <3>8, <4>1, <4>2, <4>4
      <4>7. Unlinked(side, v, f[v])
        BY <2>3, <3>1, <4>1, <4>2, <4>3, <4>5, <4>6 DEF Unlinked, x
      <4>8. QED
        BY <4>7
    <3>11. QED
      BY <3>9, <3>10
  <2>4. QED
    BY <2>2, <2>3
<1>4. t \in S
  <2> HIDE DEF S
  <2>1. QED
    BY <1>2, <1>3, TreeInduct
<1>5. UnlinkEnd(Null, side).rest = Null
  <2>1. f[Null] = [rest |-> Null, found |-> Null]
    BY <1>1, TreeChildren DEF OutStep
  <2>2. QED
    BY <1>1, <2>1, TreeChildren
<1>6. QED
  BY <1>1, <1>4, <1>5
\* An inner node goes, its place being taken by its neighbour of one side.
LEMMA NeighbourTakesPlace ==
  ASSUME NEW side \in Sides, NEW t, Good(t), t # Null,
         LET c == t[Other(side)] IN c # Null /\ c[side] # Null
  PROVE  LET u == UnlinkEnd(t[Other(side)], side)
             n == Two(side, u.found.key, u.found.page, u.found.height, t[side], u.rest)
             r == Settled(Reheighted(n))
         IN /\ Good(r) /\ r.height \in {t.height - 1, t.height}
            /\ Entries(r) = Entries(t) \ {EntryOf(t)}
<1> DEFINE o == Other(side)
           a == t[side]
           c == t[o]
           u == UnlinkEnd(c, side)
           x == EntryOf(u.found)
           n == Two(side, u.found.key, u.found.page, u.found.height, a, u.rest)
           r == Settled(Reheighted(n))
<1>1. /\ Fits(side, t.key, t.page, a, c)
      /\ a.height - c.height \in -1 .. 1
      /\ t.height = Above(a, c) /\ t.height \in Nat
      /\ Entries(t) = {EntryOf(t)} \cup Entries(a) \cup Entries(c)
  BY Take DEF EntryOf
<1>2. Good(a) /\ Good(c) /\ c # Null /\ c[side] # Null
  BY <1>1 DEF Fits
<1>3. Unlinked(side, c, u)
  <2> HIDE DEF c
  <2>1. QED
    BY <1>2, UnlinkEndFacts
<1>4. /\ Good(u.rest) /\ u.rest # Null /\ u.rest.height \in {c.height - 1, c.height}
      /\ u.found.height \in Nat
      /\ x \in Entries(c)
      /\ Entries(u.rest) = Entries(c) \ {x}
      /\ \A e \in Entries(u.rest) : On(side, u.found.key, e[1])
  BY <1>2, <1>3 DEF Unlinked
<1>5. o \in Sides /\ Other(o) = side
  BY SideFacts
<1>6. /\ t.key \in Keys /\ EntryOf(t) \notin Entries(a) /\ EntryOf(t) \notin Entries(c)
      /\ \A e \in Entries(a) : On(side, e[1], t.key)
      /\ \A e \in Entries(c) : On(o, e[1], t.key) /\ e \notin Entries(a)
  <2>1. /\ t.key \in Keys /\ EntryOf(t) \notin Entries(a)
        /\ \A e \in Entries(a) : On(side, e[1], t.key)
    BY EntryFacts
  <2>2. /\ EntryOf(t) \notin Entries(c)
        /\ \A e \in Entries(c) : On(o, e[1], t.key) /\ e \notin Entries(a)
    <3>1. LET y == EntryOf(t)
          IN /\ y \notin Entries(t[o])
             /\ \A e \in Entries(t[o]) : On(o, e[1], t.key) /\ e \notin Entries(t[Other(o)])
      <4> HIDE DEF o
      <4>1. QED
        BY <1>5, EntryFacts
    <3>2. QED
      BY <1>5, <3>1
  <2>3. QED
    BY <2>1, <2>2
<1>7. x[1] = u.found.key /\ x[2] = u.found.page /\ x = <<u.found.key, u.found.page>>
  BY DEF EntryOf
<1>8. u.found.key \in Keys /\ u.found.page \in Nat
  BY <1>2, <1>4, <1>7, EntriesTyped
<1> HIDE DEF a, c, u, x, o
<1>9. \A e \in Entries(a) \cup Entries(u.rest) : e[1] \in Keys
  BY <1>2, <1>4, EntriesTyped
<1>10. On(side, t.key, u.found.key)
  <2>1. On(o, u.found.key, t.key)
    BY <1>4, <1>6, <1>7
  <2>2. QED
    BY <1>6, <1>8, <2>1, OrderFacts DEF o
<1>11. Fits(side, u.found.key, u.found.page, a, u.rest)
  <2>1. ASSUME NEW e \in Entries(a) PROVE On(side, e[1], u.found.key)
    BY <1>6, <1>8, <1>9, <1>10, <2>1, OrderFacts
  <2>2. ASSUME NEW e \in Entries(u.rest) PROVE On(Other(side), e[1], u.found.key)
    BY <1>4, <1>8, <1>9, <2>2, OrderFacts
  <2>3. QED
    BY <1>2, <1>4, <1>8, <2>1, <2>2 DEF Fits
<1>12. /\ a.height \in Int /\ c.height \in Int /\ u.rest.height \in Int
       /\ t.height < MaxHeight /\ t.height \in Int
  BY <1>2, <1>4, GoodHeight
<1>13. /\ a.height - u.rest.height \in -2 .. 2 /\ Above(a, u.rest) < MaxHeight
       /\ \A h : /\ h \in {Above(a, u.rest) - 1, Above(a, u.rest)}
                 /\ a.height - u.rest.height \in -1 .. 1 => h = Above(a, u.rest)
                 => h \in {t.height - 1, t.height}
  <2>1. /\ Above(a, u.rest) = Above(u.rest, a) /\ Above(a, c) = Above(c, a)
        /\ Above(u.rest, a) \in Int
    BY <1>12 DEF Above
  <2>2. c.height - a.height \in -1 .. 1
    BY <1>1, <1>12
  <2>3. /\ u.rest.height - a.height \in -2 .. 2 /\ Above(u.rest, a) <= Above(c, a)
        /\ \A h : /\ h \in {Above(u.rest, a) - 1, Above(u.rest, a)}
                  /\ u.rest.height - a.height \in -1 .. 1 => h = Above(u.rest, a)
                  => h \in {Above(c, a) - 1, Above(c, a)}
    BY <1>4, <1>12, <2>2, LowerSide
  <2>4. /\ a.height - u.rest.height \in -2 .. 2
        /\ a.height - u.rest.height \in -1 .. 1 <=> u.rest.height - a.height \in -1 .. 1
    BY <1>12, <2>3
  <2>5. Above(a, u.rest) < MaxHeight
    BY <1>1, <1>12, <2>1, <2>3, MaxHeightAssumption
  <2>6. QED
    BY <1>1, <2>1, <2>3, <2>4, <2>5
<1>14. /\ Good(r) /\ r # Null
       /\ r.height \in {Above(a, u.rest) - 1, Above(a, u.rest)}
       /\ a.height - u.rest.height \in -1 .. 1 => r.height = Above(a, u.rest)
       /\ Entries(r) = {x} \cup Entries(a) \cup Entries(u.rest)
  <2>1. Above(a, u.rest) < MaxHeight /\ a.height - u.rest.height \in -2 .. 2
    BY <1>13
  <2>2. /\ Good(r) /\ r # Null
        /\ r.height \in {Above(a, u.rest) - 1, Above(a, u.rest)}
        /\ a.height - u.rest.height \in -1 .. 1 => r.height = Above(a, u.rest)
        /\ Entries(r) = {<<u.found.key, u.found.page>>} \cup Entries(a) \cup Entries(u.rest)
    <3> DEFINE k == u.found.key  p == u.found.page  h == u.found.height  b == u.rest
    <3> HIDE DEF k, p, h, b
    <3>1. /\ Fits(side, k, p, a, b) /\ h \in Nat
          /\ Above(a, b) < MaxHeight /\ a.height - b.height \in -2 .. 2
      BY <1>4, <1>11, <2>1 DEF k, p, h, b
    <3>2. LET v == Settled(Reheighted(Two(side, k, p, h, a, b)))
          IN /\ Good(v) /\ v # Null
             /\ v.height \in {Above(a, b) - 1, Above(a, b)}
             /\ a.height - b.height \in -1 .. 1 => v.height = Above(a, b)
             /\ Entries(v) = {<<k, p>>} \cup Entries(a) \cup Entries(b)
      BY <3>1, Balanced
    <3>3. QED
      BY <3>2 DEF k, p, h, b
  <2> HIDE DEF r
  <2>3. QED
    BY <1>7, <2>2
<1> HIDE DEF r
<1>15. r.height \in {t.height - 1, t.height}
  BY <1>13, <1>14
<1>16. Entries(r) = Entries(t) \ {EntryOf(t)}
  BY <1>1, <1>4, <1>6, <1>14
<1>17. QED
  BY <1>14, <1>15, <1>16 DEF r, n, u, a, c, o

LEMMA DoUnlinkFacts ==
  ASSUME NEW t, Good(t), t # Null
  PROVE  LET r == Settled(DoUnlink(t))
         IN /\ Good(r) /\ r.height \in {t.height - 1, t.height}
            /\ Entries(r) = Entries(t) \ {EntryOf(t)}
<1> DEFINE l == t.left
           c == t.right
           next == UnlinkEnd(c, "left")
           last == UnlinkEnd(l, "right")
           r == Settled(DoUnlink(t))
<1>1. /\ "left" \in Sides /\ "right" \in Sides /\ Other("left") = "right" /\ Other("right") = "left"
      /\ t["left"] = l /\ t["right"] = c
  BY DEF Sides, Other
<1>2. /\ Fits("left", t.key, t.page, l, c)
      /\ l.height - c.height \in -1 .. 1
      /\ t.height = Above(l, c) /\ t.height \in Nat
      /\ Entries(t) = {EntryOf(t)} \cup Entries(l) \cup Entries(c)
  BY <1>1, Take DEF EntryOf
<1>3. Good(l) /\ Good(c)
  BY <1>2 DEF Fits
<1> HIDE DEF l, c
<1>4. /\ c = Null => next.rest = Null
      /\ c # Null => Unlinked("left", c, next)
      /\ l = Null => last.rest = Null
      /\ l # Null => Unlinked("right", l, last)
  BY <1>1, <1>3, UnlinkEndFacts
<1>5. /\ next.rest # Null => c # Null /\ c["left"] # Null
      /\ last.rest # Null => l # Null /\ l["right"] # Null
      /\ next.rest = Null /\ c # Null => c["left"] = Null
  BY <1>4 DEF Unlinked
<1> HIDE DEF next, last
<1>6. CASE next.rest # Null
  <2>1. DoUnlink(t) = Reheighted(WithChildren(next.found, t.left, next.rest))
    BY <1>6 DEF DoUnlink, Replaced, next, c
  <2>2. next.found = Two("left", next.found.key, next.found.page, next.found.height, Null, Null)
    BY <1>4, <1>5, <1>6 DEF Unlinked
  <2> DEFINE n == Two("left", next.found.key, next.found.page, next.found.height, l, next.rest)
  <2>3. WithChildren(next.found, t.left, next.rest) = n
    <3>1. next.found = Node(next.found.key, next.found.page, next.found.height, Null, Null)
      BY <2>2 DEF Two
    <3>2. LET m == Node(next.found.key, next.found.page, next.found.height, Null, Null)
          IN WithChildren(m, l, next.rest)
               = Node(next.found.key, next.found.page, next.found.height, l, next.rest)
      BY NodeGiven
    <3>3. QED
      BY <3>1, <3>2 DEF Two, l
  <2>4. LET m == Settled(Reheighted(n))
        IN /\ Good(m) /\ m.height \in {t.height - 1, t.height}
           /\ Entries(m) = Entries(t) \ {EntryOf(t)}
    <3>1. LET d == t[Other("left")] IN d # Null /\ d["left"] # Null
      BY <1>1, <1>5, <1>6
    <3>2. LET u == UnlinkEnd(t[Other("left")], "left")
              k == Two("left", u.found.key, u.found.page, u.found.height, t["left"], u.rest)
              m == Settled(Reheighted(k))
          IN /\ Good(m) /\ m.height \in {t.height - 1, t.height}
             /\ Entries(m) = Entries(t) \ {EntryOf(t)}
      BY <1>1, <3>1, NeighbourTakesPlace
    <3>3. QED
      BY <1>1, <3>2 DEF next
  <2> HIDE DEF n
  <2>5. QED
    BY <2>1, <2>3, <2>4
<1>7. CASE next.rest = Null /\ last.rest # Null
  <2>1. DoUnlink(t) = Reheighted(WithChildren(last.found, last.rest, t.right))
    BY <1>7 DEF DoUnlink, Replaced, next, last, l, c
  <2>2. last.found = Two("right", last.found.key, last.found.page, last.found.height, Null, Null)
    BY <1>4, <1>5, <1>7 DEF Unlinked
  <2> DEFINE n == Two("right", last.found.key, last.found.page, last.found.height, c, last.rest)
  <2>3. WithChildren(last.found, last.rest, t.right) = n
    <3>1. last.found = Node(last.found.key, last.found.page, last.found.height, Null, Null)
      BY <2>2 DEF Two
    <3>2. LET m == Node(last.found.key, last.found.page, last.found.height, Null, Null)
          IN WithChildren(m, last.rest, c)
               = Node(last.found.key, last.found.page, last.found.height, last.rest, c)
      BY NodeGiven
    <3>3. QED
      BY <3>1, <3>2 DEF Two, c
  <2>4. LET m == Settled(Reheighted(n))
        IN /\ Good(m) /\ m.height \in {t.height - 1, t.height}
           /\ Entries(m) = Entries(t) \ {EntryOf(t)}
    <3>1. LET d == t[Other("right")] IN d # Null /\ d["right"] # Null
      BY <1>1, <1>5, <1>7
    <3>2. LET u == UnlinkEnd(t[Other("right")], "right")
              k == Two("right", u.found.key, u.found.page, u.found.height, t["right"], u.rest)
              m == Settled(Reheighted(k))
          IN /\ Good(m) /\ m.height \in {t.height - 1, t.height}
             /\ Entries(m) = Entries(t) \ {EntryOf(t)}
      BY <1>1, <3>1, NeighbourTakesPlace
    <3>3. QED
      BY <1>1, <3>2 DEF last
  <2> HIDE DEF n
  <2>5. QED
    BY <2>1, <2>3, <2>4
<1>8. CASE next.rest = Null /\ last.rest = Null /\ c # Null
  <2> DEFINE d == c.right
             n == Two("left", c.key, c.page, c.height, l, d)
  <2>1. DoUnlink(t) = Reheighted([c EXCEPT !.left = l])
    BY <1>8 DEF DoUnlink, Replaced, next, last, l, c
  <2>2. c["left"] = Null /\ c.left = Null
    BY <1>5, <1>8
  <2>3. /\ c = Two("left", c.key, c.page, c.height, Null, d)
        /\ Fits("left", c.key, c.page, Null, d)
        /\ Null.height - d.height \in -1 .. 1
        /\ c.height = Above(Null, d) /\ c.height \in Nat
        /\ Entries(c) = {EntryOf(c)} \cup Entries(Null) \cup Entries(d)
    <3>1. c["right"] = d
      OBVIOUS
    <3>2. QED
      BY <1>1, <1>3, <1>8, <2>2, <3>1, Take DEF EntryOf
  <2>4. [c EXCEPT !.left = l] = n
    <3> DEFINE side == "left"
    <3>1. c = Two(side, c.key, c.page, c.height, Null, d) /\ side \in Sides
      BY <1>1, <2>3
    <3>2. [c EXCEPT !.left = l] = [c EXCEPT ![side] = l]
      OBVIOUS
    <3> HIDE DEF d, n, side
    <3>3. [Two(side, c.key, c.page, c.height, Null, d) EXCEPT ![side] = l]
            = Two(side, c.key, c.page, c.height, l, d)
      BY <3>1, TwoFacts
    <3>4. [c EXCEPT ![side] = l] = Two(side, c.key, c.page, c.height, l, d)
      BY <3>1, <3>3
    <3>5. QED
      BY <3>2, <3>4 DEF side, n
  <2>5. Good(d) /\ c.key \in Keys /\ c.page \in Nat
    BY <2>3 DEF Fits
  <2> HIDE DEF d
  <2>6. /\ l.height \in Int /\ c.height \in Int /\ d.height \in Int /\ d.height >= -1
        /\ t.height < MaxHeight
    BY <1>3, <2>5, GoodHeight
  <2>7. d.height = c.height - 1
    BY <2>3, <2>6, NullFacts DEF Above
  <2>8. EntryOf(c) \in Entries(c) /\ EntryOf(c)[1] = c.key /\ EntryOf(t)[1] = t.key
    BY <2>3 DEF EntryOf
  <2>9. /\ t.key \in Keys /\ EntryOf(t) \notin Entries(l) /\ EntryOf(t) \notin Entries(c)
        /\ \A e \in Entries(l) : On("left", e[1], t.key)
        /\ \A e \in Entries(c) : On("right", e[1], t.key)
    BY <1>1, EntryFacts
  <2>10. On("left", t.key, c.key)
    <3>1. On("right", c.key, t.key)
      BY <2>8, <2>9
    <3>2. QED
      BY <1>1, <2>5, <2>9, <3>1, OrderFacts
  <2>11. Fits("left", c.key, c.page, l, d)
    <3>1. ASSUME NEW e \in Entries(l) PROVE On("left", e[1], c.key)
      <4>1. e[1] \in Keys
        BY <1>3, <3>1, EntriesTyped
      <4>2. QED
        BY <1>1, <2>5, <2>9, <2>10, <3>1, <4>1, OrderFacts
    <3>2. QED
      BY <1>3, <2>3, <2>5, <3>1 DEF Fits
  <2>12. l.height - d.height \in -2 .. 2 /\ Above(l, d) < MaxHeight
    BY <1>2, <2>6, <2>7, MaxHeightAssumption DEF Above
  <2> DEFINE m == Settled(Reheighted(n))
  <2>13. /\ Good(m) /\ m # Null
         /\ m.height \in {Above(l, d) - 1, Above(l, d)}
         /\ l.height - d.height \in -1 .. 1 => m.height = Above(l, d)
         /\ Entries(m) = {<<c.key, c.page>>} \cup Entries(l) \cup Entries(d)
    BY <1>1, <2>3, <2>11, <2>12, Balanced
  <2>14. r = m
    <3> HIDE DEF n
    <3>1. QED
      BY <2>1, <2>4
  <2> HIDE DEF m, r
  <2>15. m.height \in {t.height - 1, t.height}
    BY <1>2, <2>6, <2>7, <2>13 DEF Above
  <2>16. Entries(m) = Entries(t) \ {EntryOf(t)}
    BY <1>2, <2>3, <2>9, <2>13, NullFacts DEF EntryOf
  <2>17. QED
    BY <2>13, <2>14, <2>15, <2>16 DEF r
<1>9. CASE next.rest = Null /\ last.rest = Null /\ c = Null
  <2>1. DoUnlink(t) = l
    BY <1>9 DEF DoUnlink, Replaced, next, last, l, c
  <2>2. r = l
    BY <1>3, <2>1, GoodStays
  <2>3. l.height \in Int /\ l.height >= -1
    BY <1>3, GoodHeight
  <2>4. l.height = t.height - 1
    BY <1>2, <1>9, <2>3, NullFacts DEF Above
  <2>5. Entries(l) = Entries(t) \ {EntryOf(t)}
    BY <1>1, <1>2, <1>9, EntryFacts, NullFacts
  <2> HIDE DEF r
  <2>6. QED
    BY <1>3, <2>2, <2>4, <2>5 DEF r
<1>10. QED
  BY <1>6, <1>7, <1>8, <1>9

\* What is left when the node found below one side has gone.
Down(side, t, c) == Settled([t EXCEPT ![side] = c])

LEMMA RestBelow ==
  ASSUME NEW side \in Sides, NEW t, Good(t), t # Null,
         NEW a, a = t[side], NEW x, x \in Entries(a),
         NEW c, Good(c), c.height \in {a.height - 1, a.height},
         Entries(c) = Entries(a) \ {x},
         NEW r, r = Down(side, t, c)
  PROVE  /\ Good(r) /\ r.height \in {t.height - 1, t.height}
         /\ x \in Entries(t) /\ Entries(r) = Entries(t) \ {x}
<1>1. Entries(c) \subseteq Entries(t[side])
  OBVIOUS
<1>2. /\ Good(r) /\ r.height \in {t.height - 1, t.height}
      /\ Entries(r) = {EntryOf(t)} \cup Entries(c) \cup Entries(t[Other(side)])
  BY <1>1, Shrunk DEF EntryOf, Down
<1>3. Entries(t) = {EntryOf(t)} \cup Entries(t[side]) \cup Entries(t[Other(side)])
  BY Take DEF EntryOf
<1>4. /\ EntryOf(t) \notin Entries(t[side])
      /\ \A e \in Entries(t[side]) : e \notin Entries(t[Other(side)])
  BY EntryFacts
<1>5. QED
  BY <1>2, <1>3, <1>4

LEMMA Unchanged ==
  ASSUME NEW side \in Sides, NEW t, Good(t), t # Null
  PROVE  [t EXCEPT ![side] = t[side]] = t /\ Settled(t) = t
<1> DEFINE a == t[side]
           b == t[Other(side)]
<1>1. t = Two(side, t.key, t.page, t.height, a, b)
  BY TreeShape DEF Good
<1>2. [Two(side, t.key, t.page, t.height, a, b) EXCEPT ![side] = a]
        = Two(side, t.key, t.page, t.height, a, b)
  <2> HIDE DEF a, b
  <2>1. QED
    BY TwoFacts
<1> HIDE DEF a, b
<1>3. [t EXCEPT ![side] = a] = t
  BY <1>1, <1>2
<1>4. QED
  BY <1>3, GoodStays DEF a

\* The keys on the other side than the one on which a key belongs.
LEMMA OtherKeys ==
  ASSUME NEW key \in Keys, NEW t, Good(t), t # Null, key # t.key
  PROVE  LET side == SideOf(key, t)
         IN \A e \in Entries(t[Other(side)]) \cup {EntryOf(t)} : On(side, key, e[1]) /\ e[1] # key
<1> DEFINE side == SideOf(key, t)
<1>1. t.key \in Keys /\ EntryOf(t)[1] = t.key
  BY EntryFacts DEF Sides
<1>2. side \in Sides /\ On(side, key, t.key)
  BY <1>1, SideOfKey
<1> HIDE DEF side
<1>3. Fits(side, t.key, t.page, t[side], t[Other(side)])
  BY <1>2, Take
<1>4. ASSUME NEW e \in Entries(t[Other(side)]) PROVE On(side, key, e[1]) /\ e[1] # key
  <2>1. e[1] \in Keys /\ On(Other(side), e[1], t.key)
    BY <1>3, <1>4, EntriesTyped DEF Fits
  <2>2. On(side, t.key, e[1])
    BY <1>1, <1>2, <2>1, OrderFacts
  <2>3. On(side, key, e[1])
    BY <1>1, <1>2, <2>1, <2>2, OrderFacts
  <2>4. QED
    BY <1>2, <2>1, <2>3, OrderFacts
<1>5. QED
  BY <1>1, <1>2, <1>4 DEF side

LEMMA RemoveFacts ==
  ASSUME NEW key \in Keys, NEW t, Good(t)
  PROVE  LET u == Remove(t, key)
         IN /\ Good(u.rest)
            /\ u.found = Null => /\ u.rest = t
                                 /\ \A e \in Entries(t) : e[1] # key
            /\ u.found # Null => /\ u.found.key = key /\ EntryOf(u.found) \in Entries(t)
                                 /\ u.rest.height \in {t.height - 1, t.height}
                                 /\ Entries(u.rest) = Entries(t) \ {EntryOf(u.found)}
<1> DEFINE Result(v, u) ==
             /\ Good(u.rest)
             /\ u.found = Null => /\ u.rest = v
                                  /\ \A e \in Entries(v) : e[1] # key
             /\ u.found # Null => /\ u.found.key = key /\ EntryOf(u.found) \in Entries(v)
                                  /\ u.rest.height \in {v.height - 1, v.height}
                                  /\ Entries(u.rest) = Entries(v) \ {EntryOf(u.found)}
<1>1. PICK f : /\ \A v \in Trees : f[v] = Remove(v, key)
               /\ \A v \in Trees : f[v] = FromStep(key, f, v)
  BY RemoveStep
<1> DEFINE S == {v \in Trees : Result(v, f[v])}
<1>2. Null \in S
  <2>1. f[Null] = [rest |-> Null, found |-> Null]
    BY <1>1, TreeChildren DEF FromStep
  <2>2. f[Null].rest = Null /\ f[Null].found = Null
    BY <2>1
  <2>3. QED
    BY <2>2, TreeChildren, NullFacts
<1>3. ASSUME NEW v \in Trees, Good(v), v # Null, v.left \in S, v.right \in S PROVE v \in S
  <2>1. SUFFICES Result(v, f[v])
    BY <1>3
  <2>2. v.key \in Keys /\ EntryOf(v)[1] = v.key /\ EntryOf(v) \in Entries(v)
    BY <1>3, EntryFacts DEF Sides
  <2>3. CASE key = v.key
    <3>1. f[v] = [rest |-> Settled(DoUnlink(v)), found |-> v]
      BY <1>1, <1>3, <2>3 DEF FromStep
    <3>2. f[v].rest = Settled(DoUnlink(v)) /\ f[v].found = v
      BY <3>1
    <3>3. QED
      BY <1>3, <2>2, <2>3, <3>2, DoUnlinkFacts
  <2>4. CASE key # v.key
    <3> DEFINE side == SideOf(key, v)
               a == v[side]
               b == v[Other(side)]
    <3>1. side \in Sides
      BY SideOfFacts
    <3>2. a \in S
      BY <1>3, <3>1 DEF Sides
    <3>3. f[v] = [rest |-> Settled([v EXCEPT ![side] = f[a].rest]), found |-> f[a].found]
      BY <1>1, <1>3, <2>4 DEF FromStep
    <3>4. /\ f[v].rest = Settled([v EXCEPT ![side] = f[a].rest])
          /\ f[v].found = f[a].found
      BY <3>3
    <3>5. \A e \in Entries(b) \cup {EntryOf(v)} : e[1] # key
      BY <1>3, <2>4, OtherKeys
    <3> HIDE DEF side
    <3>6. Entries(v) = {EntryOf(v)} \cup Entries(a) \cup Entries(b)
      BY <1>3, <3>1, Take DEF EntryOf
    <3>7. Result(a, f[a])
      BY <3>2
    <3>8. CASE f[a].found = Null
      <4>1. f[a].rest = a /\ \A e \in Entries(a) : e[1] # key
        BY <3>7, <3>8
      <4>2. [v EXCEPT ![side] = a] = v /\ Settled(v) = v
        BY <1>3, <3>1, Unchanged
      <4> HIDE DEF a, b
      <4>3. f[v].rest = v
        BY <3>4, <4>1, <4>2
      <4>4. QED
        BY <1>3, <3>4, <3>5, <3>6, <3>8, <4>1, <4>3
    <3>9. CASE f[a].found # Null
      <4> DEFINE x == EntryOf(f[a].found)
                 c == f[a].rest
      <4>1. /\ Good(c) /\ f[a].found.key = key /\ x \in Entries(a)
            /\ c.height \in {a.height - 1, a.height}
            /\ Entries(c) = Entries(a) \ {x}
        BY <3>7, <3>9
      <4>2. f[v].rest = Settled([v EXCEPT ![side] = c]) /\ f[v].found = f[a].found
        BY <3>4
      <4> DEFINE r == Settled([v EXCEPT ![side] = c])
      <4>a. a = v[side] /\ r = Down(side, v, c)
        BY DEF Down
      <4> HIDE DEF x, c, a, b, r
      <4>3. /\ Good(r) /\ r.height \in {v.height - 1, v.height}
            /\ x \in Entries(v) /\ Entries(r) = Entries(v) \ {x}
        BY <1>3, <3>1, <4>1, <4>a, RestBelow
      <4>4. QED
        BY <3>9, <4>1, <4>2, <4>3, <4>a DEF x, Down
    <3>10. QED
      BY <3>8, <3>9
  <2>5. QED
    BY <2>3, <2>4
<1>4. t \in S
  <2> HIDE DEF S
  <2>1. QED
    BY <1>2, <1>3, TreeInduct
<1>5. QED
  BY <1>1, <1>4 DEF Good

\* The least entry whose key is not below.
LEMMA RemoveApproxFacts ==
  ASSUME NEW key \in Keys, NEW t, Good(t)
  PROVE  LET u == RemoveApprox(t, key)
         IN /\ Good(u.rest)
            /\ u.found = Null => /\ u.rest = t
                                 /\ \A e \in Entries(t) : Below(e[1], key)
            /\ u.found # Null => /\ EntryOf(u.found) \in Entries(t)
                                 /\ ~Below(u.found.key, key)
                                 /\ \A e \in Entries(t) \ {EntryOf(u.found)} :
                                      Below(e[1], key) \/ Below(u.found.key, e[1])
                                 /\ u.rest.height \in {t.height - 1, t.height}
                                 /\ Entries(u.rest) = Entries(t) \ {EntryOf(u.found)}
<1> DEFINE Result(v, u) ==
             /\ Good(u.rest)
             /\ u.found = Null => /\ u.rest = v
                                  /\ \A e \in Entries(v) : Below(e[1], key)
             /\ u.found # Null => /\ EntryOf(u.found) \in Entries(v)
                                  /\ ~Below(u.found.key, key)
                                  /\ \A e \in Entries(v) \ {EntryOf(u.found)} :
                                       Below(e[1], key) \/ Below(u.found.key, e[1])
                                  /\ u.rest.height \in {v.height - 1, v.height}
                                  /\ Entries(u.rest) = Entries(v) \ {EntryOf(u.found)}
<1>1. PICK f : /\ \A v \in Trees : f[v] = RemoveApprox(v, key)
               /\ \A v \in Trees : f[v] = ApproxStep(key, f, v)
  BY RemoveApproxStep
<1> DEFINE S == {v \in Trees : Result(v, f[v])}
<1>2. Null \in S
  <2>1. f[Null] = [rest |-> Null, found |-> Null]
    BY <1>1, TreeChildren DEF ApproxStep
  <2>2. f[Null].rest = Null /\ f[Null].found = Null
    BY <2>1
  <2>3. QED
    BY <2>2, TreeChildren, NullFacts
<1>a. /\ "left" \in Sides /\ "right" \in Sides /\ Other("left") = "right" /\ Other("right") = "left"
      /\ \A x, y : On("left", x, y) <=> Below(x, y)
      /\ \A x, y : On("right", x, y) <=> Below(y, x)
  BY DEF Sides, Other, On
<1>3. ASSUME NEW v \in Trees, Good(v), v # Null, v.left \in S, v.right \in S PROVE v \in S
  <2>1. SUFFICES Result(v, f[v])
    BY <1>3
  <2>2. v.key \in Keys /\ EntryOf(v)[1] = v.key /\ EntryOf(v) \in Entries(v)
    BY <1>3, EntryFacts DEF Sides
  <2> DEFINE l == v.left
             c == v.right
  <2>3. /\ v["left"] = l /\ v["right"] = c
        /\ Entries(v) = {EntryOf(v)} \cup Entries(l) \cup Entries(c)
    BY <1>3, <1>a, Take DEF EntryOf
  <2>4. /\ \A e \in Entries(l) : e[1] \in Keys /\ Below(e[1], v.key)
        /\ \A e \in Entries(c) : e[1] \in Keys /\ Below(v.key, e[1])
    <3>1. /\ \A e \in Entries(l) : On("left", e[1], v.key)
          /\ \A e \in Entries(c) : On("right", e[1], v.key)
      BY <1>3, <1>a, <2>3, EntryFacts
    <3>2. \A e \in Entries(v) : e[1] \in Keys
      BY <1>3, EntriesTyped
    <3>3. QED
      BY <1>a, <2>3, <3>1, <3>2
  <2>5. /\ ~Below(key, key)
        /\ key # v.key => Below(key, v.key) \/ Below(v.key, key)
        /\ ~(Below(key, v.key) /\ Below(v.key, key))
    BY <1>a, <2>2, OrderFacts
  <2> DEFINE gone == Settled(DoUnlink(v))
  <2>6. /\ Good(gone) /\ gone.height \in {v.height - 1, v.height}
        /\ Entries(gone) = Entries(v) \ {EntryOf(v)}
    BY <1>3, DoUnlinkFacts
  <2> HIDE DEF gone
  <2>7. CASE key = v.key
    <3>1. f[v] = [rest |-> gone, found |-> v]
      BY <1>1, <1>3, <2>7 DEF ApproxStep, gone
    <3>2. f[v].rest = gone /\ f[v].found = v
      BY <3>1
    <3> HIDE DEF l, c
    <3>3. \A e \in Entries(v) \ {EntryOf(v)} : Below(e[1], key) \/ Below(v.key, e[1])
      BY <2>3, <2>4, <2>7
    <3>4. QED
      BY <1>3, <2>2, <2>5, <2>6, <2>7, <3>2, <3>3
  <2>8. CASE Below(key, v.key)
    <3>1. SideOf(key, v) = "left" /\ key # v.key
      BY <2>5, <2>8 DEF SideOf
    <3>2. /\ f[l].found = Null =>
               f[v] = [rest |-> Settled(DoUnlink([v EXCEPT !["left"] = f[l].rest])),
                       found |-> [v EXCEPT !["left"] = f[l].rest]]
          /\ f[l].found # Null =>
               f[v] = [rest |-> Settled([v EXCEPT !["left"] = f[l].rest]),
                       found |-> f[l].found]
      BY <1>1, <1>3, <2>3, <3>1 DEF ApproxStep
    <3>3. Result(l, f[l])
      BY <1>3
    <3>4. CASE f[l].found = Null
      <4>1. f[l].rest = l /\ \A e \in Entries(l) : Below(e[1], key)
        BY <3>3, <3>4
      <4>2. [v EXCEPT !["left"] = l] = v
        BY <1>3, <1>a, <2>3, Unchanged
      <4> HIDE DEF l, c
      <4>3. f[v] = [rest |-> gone, found |-> v]
        BY <3>2, <3>4, <4>1, <4>2 DEF gone
      <4>4. f[v].rest = gone /\ f[v].found = v
        BY <4>3
      <4>5. \A e \in Entries(v) \ {EntryOf(v)} : Below(e[1], key) \/ Below(v.key, e[1])
        BY <2>3, <2>4, <4>1
      <4>6. QED
        BY <1>3, <2>2, <2>5, <2>6, <2>8, <4>4, <4>5
    <3>5. CASE f[l].found # Null
      <4> DEFINE x == EntryOf(f[l].found)
                 d == f[l].rest
                 r == Settled([v EXCEPT !["left"] = d])
      <4>1. /\ Good(d) /\ x \in Entries(l) /\ ~Below(f[l].found.key, key)
            /\ \A e \in Entries(l) \ {x} : Below(e[1], key) \/ Below(f[l].found.key, e[1])
            /\ d.height \in {l.height - 1, l.height}
            /\ Entries(d) = Entries(l) \ {x}
        BY <3>3, <3>5
      <4>2. f[v].rest = r /\ f[v].found = f[l].found
        <5> HIDE DEF l
        <5>1. f[v] = [rest |-> r, found |-> f[l].found]
          BY <3>2, <3>5
        <5> HIDE DEF r
        <5>2. QED
          BY <5>1
      <4>3. x[1] = f[l].found.key
        BY DEF EntryOf
      <4> DEFINE side == "left"
      <4>a. l = v[side] /\ r = Down(side, v, d) /\ side \in Sides
        BY <1>a, <2>3 DEF Down
      <4> HIDE DEF l, c, d, x, r, side
      <4>4. /\ Good(r) /\ r.height \in {v.height - 1, v.height}
            /\ x \in Entries(v) /\ Entries(r) = Entries(v) \ {x}
        BY <1>3, <4>1, <4>a, RestBelow
      <4>5. x[1] \in Keys /\ Below(x[1], v.key)
        BY <2>4, <4>1
      <4>6. \A e \in Entries(c) : Below(x[1], e[1])
        <5>1. ASSUME NEW e \in Entries(c) PROVE Below(x[1], e[1])
          <6>1. e[1] \in Keys /\ Below(v.key, e[1])
            BY <2>4, <5>1
          <6>2. QED
            BY <1>a, <2>2, <4>5, <6>1, OrderFacts
        <5>2. QED
          BY <5>1
      <4>7. \A e \in Entries(v) \ {x} : Below(e[1], key) \/ Below(f[l].found.key, e[1])
        BY <2>2, <2>3, <4>1, <4>3, <4>5, <4>6
      <4>8. QED
        BY <3>5, <4>1, <4>2, <4>4, <4>7 DEF x
    <3>6. QED
      BY <3>4, <3>5
  <2>9. CASE key # v.key /\ ~Below(key, v.key)
    <3>1. SideOf(key, v) = "right" /\ Below(v.key, key)
      BY <2>5, <2>9 DEF SideOf
    <3>2. f[v] = [rest |-> Settled([v EXCEPT !["right"] = f[c].rest]), found |-> f[c].found]
      BY <1>1, <1>3, <2>3, <2>9, <3>1 DEF ApproxStep
    <3>3. Result(c, f[c])
      BY <1>3
    <3>4. \A e \in Entries(l) \cup {EntryOf(v)} : Below(e[1], key)
      <4>1. ASSUME NEW e \in Entries(l) PROVE Below(e[1], key)
        <5>1. e[1] \in Keys /\ Below(e[1], v.key)
          BY <2>4, <4>1
        <5>2. QED
          BY <1>a, <2>2, <3>1, <5>1, OrderFacts
      <4>2. QED
        BY <2>2, <3>1, <4>1
    <3>5. CASE f[c].found = Null
      <4>1. f[c].rest = c /\ \A e \in Entries(c) : Below(e[1], key)
        BY <3>3, <3>5
      <4>2. [v EXCEPT !["right"] = c] = v /\ Settled(v) = v
        BY <1>3, <1>a, <2>3, Unchanged
      <4> HIDE DEF l, c
      <4>3. f[v] = [rest |-> v, found |-> Null]
        BY <3>2, <3>5, <4>1, <4>2
      <4>4. f[v].rest = v /\ f[v].found = Null
        BY <4>3
      <4>5. QED
        BY <1>3, <2>3, <3>4, <4>1, <4>4
    <3>6. CASE f[c].found # Null
      <4> DEFINE x == EntryOf(f[c].found)
                 d == f[c].rest
                 r == Settled([v EXCEPT !["right"] = d])
      <4>1. /\ Good(d) /\ x \in Entries(c) /\ ~Below(f[c].found.key, key)
            /\ \A e \in Entries(c) \ {x} : Below(e[1], key) \/ Below(f[c].found.key, e[1])
            /\ d.height \in {c.height - 1, c.height}
            /\ Entries(d) = Entries(c) \ {x}
        BY <3>3, <3>6
      <4>2. f[v].rest = r /\ f[v].found = f[c].found
        <5> HIDE DEF c
        <5>1. f[v] = [rest |-> r, found |-> f[c].found]
          BY <3>2
        <5> HIDE DEF r
        <5>2. QED
          BY <5>1
      <4> DEFINE side == "right"
      <4>a. c = v[side] /\ r = Down(side, v, d) /\ side \in Sides
        BY <1>a, <2>3 DEF Down
      <4> HIDE DEF l, c, d, x, r, side
      <4>3. /\ Good(r) /\ r.height \in {v.height - 1, v.height}
            /\ x \in Entries(v) /\ Entries(r) = Entries(v) \ {x}
        BY <1>3, <4>1, <4>a, RestBelow
      <4>4. \A e \in Entries(v) \ {x} : Below(e[1], key) \/ Below(f[c].found.key, e[1])
        BY <2>3, <3>4, <4>1
      <4>5. QED
        BY <3>6, <4>1, <4>2, <4>3, <4>4 DEF x
    <3>7. QED
      BY <3>5, <3>6
  <2>10. QED
    BY <2>7, <2>8, <2>9
<1>4. t \in S
  <2> HIDE DEF S
  <2>1. QED
    BY <1>2, <1>3, TreeInduct
<1>5. QED
  BY <1>1, <1>4 DEF Good

\* A tree has as many entries as it is high.
LEMMA HeightCounted ==
  ASSUME NEW t, Good(t)
  PROVE  IsFiniteSet(Entries(t)) /\ t.height + 1 <= Cardinality(Entries(t))
<1> DEFINE P(v) == IsFiniteSet(Entries(v)) /\ v.height + 1 <= Cardinality(Entries(v))
           S == {v \in Trees : P(v)}
<1>1. Null \in S
  BY NullFacts, TreeChildren, FS_EmptySet
<1>2. ASSUME NEW v \in Trees, Good(v), v # Null, v.left \in S, v.right \in S PROVE v \in S
  <2> DEFINE l == v.left
             c == v.right
             L == {EntryOf(v)} \cup Entries(l)
             R == {EntryOf(v)} \cup Entries(c)
  <2>1. /\ Good(l) /\ Good(c) /\ v.height = Above(l, c)
        /\ Entries(v) = {EntryOf(v)} \cup Entries(l) \cup Entries(c)
        /\ EntryOf(v) \notin Entries(l) /\ EntryOf(v) \notin Entries(c)
    BY <1>2, Take, EntryFacts DEF Fits, EntryOf, Sides, Other
  <2>2. l.height \in Int /\ c.height \in Int
    BY <2>1, GoodHeight
  <2>3. P(l) /\ P(c)
    BY <1>2
  <2> HIDE DEF l, c
  <2> DEFINE x == EntryOf(v)
             F == Entries(l)
             G == Entries(c)
  <2>a. L = F \cup {x} /\ R = G \cup {x} /\ x \notin F /\ x \notin G
    BY <2>1
  <2>b. IsFiniteSet(F) /\ IsFiniteSet(G)
    BY <2>3
  <2>4. IsFiniteSet(L) /\ IsFiniteSet(R) /\ IsFiniteSet(Entries(v))
    <3>1. IsFiniteSet(L) /\ IsFiniteSet(R)
      BY <2>3, FS_AddElement
    <3>2. Entries(v) = L \cup R
      BY <2>1
    <3> HIDE DEF L, R
    <3>3. QED
      BY <3>1, <3>2, FS_Union
  <2>5. /\ Cardinality(L) = Cardinality(Entries(l)) + 1
        /\ Cardinality(R) = Cardinality(Entries(c)) + 1
    <3> HIDE DEF L, R, F, G, x
    <3>1. Cardinality(L) = Cardinality(F) + 1
      BY <2>a, <2>b, FS_AddElement
    <3>2. Cardinality(R) = Cardinality(G) + 1
      BY <2>a, <2>b, FS_AddElement
    <3>3. QED
      BY <3>1, <3>2 DEF F, G
  <2>6. Cardinality(L) <= Cardinality(Entries(v)) /\ Cardinality(R) <= Cardinality(Entries(v))
    <3>1. L \subseteq Entries(v) /\ R \subseteq Entries(v)
      BY <2>1
    <3> HIDE DEF L, R
    <3>2. QED
      BY <2>4, <3>1, FS_Subset
  <2>7. /\ Cardinality(Entries(v)) \in Nat /\ Cardinality(Entries(l)) \in Nat
        /\ Cardinality(Entries(c)) \in Nat
    BY <2>3, <2>4, FS_CardinalityType
  <2>8. v.height + 1 <= Cardinality(Entries(v))
    BY <2>1, <2>2, <2>3, <2>5, <2>6, <2>7 DEF Above
  <2>9. QED
    BY <1>2, <2>4, <2>8
<1>3. t \in S
  <2> HIDE DEF S
  <2>1. QED
    BY <1>1, <1>2, TreeInduct
<1>4. QED
  BY <1>3

(***************************************************************************)
(* The memory.                                                             *)
(***************************************************************************)

(* A block lies in the memory; two blocks do not overlap. *)
Inside(b) == b \in A!Block /\ A!After(b) <= num_pages
Apart(b, c) == A!After(b) <= c.first \/ A!After(c) <= b.first

AllInside == \A b \in A!Blocks : Inside(b)
AllApart == \A b, c \in A!Blocks : b # c => Apart(b, c)
Disjoint == FreeBlocks \cap HeldBlocks = {}
Covered == A!Blocks # {} => \A p \in A!PageNumbers : \E b \in A!Blocks : p \in A!PagesOf(b)

IInv == AllInside /\ AllApart /\ Disjoint /\ Covered /\ A!Joined

LEMMA BlockFacts ==
  ASSUME A!PagesAssumption, NEW b, Inside(b)
  PROVE  /\ b.first \in Nat /\ b.pages \in Nat /\ b.pages >= 1
         /\ A!After(b) \in Nat /\ A!After(b) = b.first + b.pages
         /\ b = [first |-> b.first, pages |-> b.pages]
BY DEF A!PagesAssumption, Inside, A!Block, A!After, A!PageNumbers

LEMMA InitHolds ==
  ASSUME A!PagesAssumption, A!Init
  PROVE  IInv
<1>1. A!Blocks = {A!Whole} /\ Inside(A!Whole)
  BY DEF A!PagesAssumption, A!Init, A!Blocks, Inside, A!Whole, A!Block, A!After, A!PageNumbers
<1>2. Covered
  BY <1>1 DEF A!PagesAssumption, Covered, A!PageNumbers, A!PagesOf, A!After, A!Whole
<1>3. A!Joined
  BY DEF A!PagesAssumption, A!Joined, A!Init, A!After, A!Whole
<1> QED
  BY <1>1, <1>2, <1>3 DEF IInv, AllInside, AllApart, Disjoint, A!Init

(* Cutting a free block in two keeps everything apart and covered. *)
LEMMA AllocKeeps ==
  ASSUME A!PagesAssumption, IInv, NEW n \in 1 .. num_pages, A!Alloc(n)
  PROVE  IInv'
<1>1. PICK b \in FreeBlocks : /\ A!BestFit(b, n)
                        /\ HeldBlocks' = HeldBlocks \cup {A!FrontOf(b, n)}
                        /\ FreeBlocks' = (FreeBlocks \ {b}) \cup A!RestOf(b, n)
  BY DEF A!Alloc
<1> DEFINE f == A!FrontOf(b, n)
           rest == [first |-> b.first + n, pages |-> b.pages - n]
<1>2. b \in A!Blocks /\ Inside(b) /\ b.pages >= n /\ n \in Nat /\ n >= 1
  BY <1>1 DEF A!PagesAssumption, IInv, AllInside, A!Blocks, A!BestFit
<1>3. /\ b.first \in Nat /\ b.pages \in Nat /\ b.pages >= 1
      /\ A!After(b) = b.first + b.pages /\ A!After(b) <= num_pages
  BY <1>2, BlockFacts DEF Inside
<1>4. Inside(f) /\ f.first = b.first /\ A!After(f) = b.first + n
  BY <1>2, <1>3 DEF A!PagesAssumption, A!FrontOf, Inside, A!Block, A!After, A!PageNumbers
<1>5. ASSUME b.pages # n
      PROVE  Inside(rest) /\ rest.first = b.first + n /\ A!After(rest) = A!After(b)
  BY <1>5, <1>2, <1>3 DEF A!PagesAssumption, Inside, A!Block, A!After, A!PageNumbers
<1>6. A!RestOf(b, n) = IF b.pages = n THEN {} ELSE {rest}
  BY DEF A!RestOf
<1>7. A!Blocks' = (A!Blocks \ {b}) \cup {f} \cup A!RestOf(b, n)
  BY <1>1 DEF IInv, Disjoint, A!Blocks
<1>8. AllInside'
  BY <1>4, <1>5, <1>6, <1>7 DEF IInv, AllInside, Inside, A!Block, A!After
<1>9. ASSUME NEW c \in A!Blocks, c # b
      PROVE  /\ Inside(c) /\ c.first \in Nat /\ c.pages \in Nat /\ c.pages >= 1
             /\ A!After(c) \in Nat /\ A!After(c) = c.first + c.pages
             /\ A!After(c) <= b.first \/ A!After(b) <= c.first
  <2>1. Inside(c) /\ (Apart(b, c))
    BY <1>2, <1>9 DEF IInv, AllInside, AllApart
  <2> QED
    BY <2>1, BlockFacts DEF Apart
<1>10. ASSUME NEW c \in A!Blocks, c # b
       PROVE  /\ Apart(c, f) /\ c # f
              /\ b.pages # n => Apart(c, rest) /\ c # rest
  BY <1>2, <1>3, <1>4, <1>5, <1>9, <1>10 DEF Apart
<1>11. b.pages # n => Apart(f, rest) /\ f # rest
  BY <1>2, <1>3, <1>4, <1>5 DEF Apart
<1>12. AllApart'
  <2> SUFFICES ASSUME NEW c \in A!Blocks', NEW d \in A!Blocks', c # d
               PROVE  Apart(c, d)
    BY DEF AllApart, Apart, A!After
  <2>1. \A x, y : Apart(x, y) <=> Apart(y, x)
    BY DEF Apart
  <2>2. CASE c \in A!Blocks \ {b} /\ d \in A!Blocks \ {b}
    BY <2>2 DEF IInv, AllApart
  <2>3. CASE c \in A!Blocks \ {b} /\ d \notin A!Blocks \ {b}
    BY <2>3, <1>6, <1>7, <1>10
  <2>4. CASE c \notin A!Blocks \ {b} /\ d \in A!Blocks \ {b}
    BY <2>1, <2>4, <1>6, <1>7, <1>10
  <2>5. CASE c \notin A!Blocks \ {b} /\ d \notin A!Blocks \ {b}
    BY <2>1, <2>5, <1>6, <1>7, <1>11
  <2> QED
    BY <2>2, <2>3, <2>4, <2>5
<1>13. Disjoint'
  BY <1>1, <1>6, <1>10, <1>11 DEF IInv, Disjoint, A!Blocks
<1>14. Covered'
  <2> SUFFICES ASSUME NEW p \in A!PageNumbers
               PROVE  \E c \in A!Blocks' : p \in A!PagesOf(c)
    BY DEF Covered, A!PagesOf, A!After
  <2>1. PICK e \in A!Blocks : p \in A!PagesOf(e)
    BY <1>2 DEF IInv, Covered
  <2>2. CASE e # b
    BY <2>1, <2>2, <1>7
  <2>3. CASE e = b
    <3>1. p \in Nat /\ b.first <= p /\ p < A!After(b)
      BY <2>1, <2>3, <1>3 DEF A!PagesAssumption, A!PagesOf, A!PageNumbers
    <3>2. CASE p < b.first + n
      BY <3>1, <3>2, <1>2, <1>3, <1>4, <1>7 DEF A!PagesOf
    <3>3. CASE p >= b.first + n
      BY <3>1, <3>3, <1>2, <1>3, <1>5, <1>6, <1>7 DEF A!PagesOf
    <3> QED
      BY <3>1, <3>2, <3>3, <1>2, <1>3
  <2> QED
    BY <2>2, <2>3
<1>15. A!Joined'
  <2> SUFFICES ASSUME NEW c \in FreeBlocks', NEW d \in FreeBlocks', A!After(c) = d.first
               PROVE  FALSE
    BY DEF A!Joined, A!After
  <2>1. \A x \in FreeBlocks : x \in A!Blocks
    BY DEF A!Blocks
  <2>2. CASE c \in FreeBlocks \ {b} /\ d \in FreeBlocks \ {b}
    BY <2>2 DEF IInv, A!Joined
  <2>3. CASE c \in FreeBlocks \ {b} /\ d \notin FreeBlocks \ {b}
    \* d is the rest; c, being apart from b, would end inside b
    BY <2>1, <2>3, <1>1, <1>2, <1>3, <1>5, <1>6, <1>9
  <2>4. CASE c \notin FreeBlocks \ {b} /\ d \in FreeBlocks \ {b}
    \* c is the rest and ends where b ended
    BY <2>4, <1>1, <1>5, <1>6 DEF IInv, A!Joined
  <2>5. CASE c \notin FreeBlocks \ {b} /\ d \notin FreeBlocks \ {b}
    BY <2>5, <1>1, <1>2, <1>3, <1>5, <1>6
  <2> QED
    BY <2>2, <2>3, <2>4, <2>5
<1> QED
  BY <1>8, <1>12, <1>13, <1>14, <1>15 DEF IInv

(* A block joined with its free neighbours lies apart from all the others. *)
Others(b) == (FreeBlocks \ A!Beside(b)) \cup (HeldBlocks \ {b})

LEMMA JoinApart ==
  ASSUME A!PagesAssumption, IInv, NEW b \in HeldBlocks, NEW j \in A!Block, A!IsJoin(j, b)
  PROVE  /\ Inside(j) /\ j.first <= b.first /\ A!After(b) <= A!After(j)
         /\ \A d \in Others(b) : Apart(d, j) /\ Apart(j, d)
<1>1. ASSUME NEW c \in A!Blocks
      PROVE  /\ Inside(c) /\ c.first \in Nat /\ c.pages \in Nat /\ c.pages >= 1
             /\ A!After(c) \in Nat /\ A!After(c) = c.first + c.pages /\ A!After(c) <= num_pages
  BY <1>1, BlockFacts DEF IInv, AllInside, Inside
<1>2. b \in A!Blocks /\ b \notin FreeBlocks
  BY DEF IInv, Disjoint, A!Blocks
<1>3. /\ j.first \in Nat /\ j.pages \in Nat /\ j.pages >= 1
      /\ A!After(j) \in Nat /\ A!After(j) = j.first + j.pages
  BY DEF A!PagesAssumption, A!Block, A!After, A!PageNumbers
<1>4. \/ j.first = b.first
      \/ \E c \in FreeBlocks : c \in A!Beside(b) /\ A!After(c) = b.first /\ j.first = c.first
  BY DEF A!IsJoin, A!Beside
<1>5. \/ A!After(j) = A!After(b)
      \/ \E c \in FreeBlocks : c \in A!Beside(b) /\ c.first = A!After(b) /\ A!After(j) = A!After(c)
  BY DEF A!IsJoin, A!Beside
<1>6. j.first <= b.first /\ A!After(b) <= A!After(j) /\ A!After(j) <= num_pages
  BY <1>1, <1>2, <1>3, <1>4, <1>5 DEF A!Blocks
<1>7. Inside(j)
  BY <1>6 DEF Inside
<1>8. Others(b) \subseteq A!Blocks
  BY DEF A!Blocks, Others
<1>9. \A d \in Others(b) : d # b /\ d \notin A!Beside(b)
  BY <1>2 DEF IInv, Disjoint, A!Beside, Others
<1>10. ASSUME NEW d \in Others(b)
       PROVE  Apart(d, j) /\ Apart(j, d)
  <2>1. /\ d.first \in Nat /\ A!After(d) \in Nat /\ A!After(d) = d.first + d.pages
        /\ d.pages \in Nat /\ d.pages >= 1
    BY <1>1, <1>8, <1>10
  <2>2. A!After(d) <= b.first \/ A!After(b) <= d.first
    BY <1>2, <1>8, <1>9, <1>10 DEF IInv, AllApart, Apart
  <2>3. \A c \in FreeBlocks : c \in A!Beside(b) => A!After(d) <= c.first \/ A!After(c) <= d.first
    BY <1>8, <1>9, <1>10 DEF IInv, AllApart, Apart, A!Blocks
  <2>4. A!After(d) <= b.first => A!After(d) <= j.first
    BY <2>1, <2>3, <1>1, <1>2, <1>4 DEF A!Blocks
  <2>5. A!After(b) <= d.first => A!After(j) <= d.first
    BY <2>1, <2>3, <1>1, <1>2, <1>5 DEF A!Blocks
  <2> QED
    BY <2>2, <2>4, <2>5 DEF Apart
<1> QED
  BY <1>6, <1>7, <1>10

(* Joining a block with its free neighbours does, too. *)
LEMMA GiveBackKeeps ==
  ASSUME A!PagesAssumption, IInv, NEW b \in HeldBlocks, A!GiveBack(b)
  PROVE  IInv'
<1>1. PICK j \in A!Block : A!IsJoin(j, b) /\ FreeBlocks' = (FreeBlocks \ A!Beside(b)) \cup {j}
  BY DEF A!GiveBack
<1>2. HeldBlocks' = HeldBlocks \ {b}
  BY DEF A!GiveBack
<1>3. ASSUME NEW c \in A!Blocks
      PROVE  /\ Inside(c) /\ c.first \in Nat /\ c.pages \in Nat /\ c.pages >= 1
             /\ A!After(c) \in Nat /\ A!After(c) = c.first + c.pages /\ A!After(c) <= num_pages
  BY <1>3, BlockFacts DEF IInv, AllInside, Inside
<1>4. b \in A!Blocks /\ b \notin FreeBlocks
  BY DEF IInv, Disjoint, A!Blocks
<1>5. /\ j.first \in Nat /\ j.pages \in Nat /\ j.pages >= 1
      /\ A!After(j) \in Nat /\ A!After(j) = j.first + j.pages
  BY <1>1 DEF A!PagesAssumption, A!Block, A!After, A!PageNumbers
<1>6. \/ j.first = b.first
      \/ \E c \in FreeBlocks : c \in A!Beside(b) /\ A!After(c) = b.first /\ j.first = c.first
  BY <1>1 DEF A!IsJoin, A!Beside
<1>7. \/ A!After(j) = A!After(b)
      \/ \E c \in FreeBlocks : c \in A!Beside(b) /\ c.first = A!After(b) /\ A!After(j) = A!After(c)
  BY <1>1 DEF A!IsJoin, A!Beside
<1>8. /\ Inside(j) /\ j.first <= b.first /\ A!After(b) <= A!After(j)
      /\ \A d \in Others(b) : Apart(d, j) /\ Apart(j, d)
  BY <1>1, JoinApart
<1>10. A!Blocks' = Others(b) \cup {j} /\ Others(b) \subseteq A!Blocks
  BY <1>1, <1>2 DEF A!Blocks, Others
<1>13. AllInside'
  BY <1>3, <1>8, <1>10 DEF AllInside, Inside, A!Block, A!After
<1>14. AllApart'
  <2> SUFFICES ASSUME NEW c \in A!Blocks', NEW d \in A!Blocks', c # d
               PROVE  Apart(c, d)
    BY DEF AllApart, Apart, A!After
  <2>1. CASE c \in Others(b) /\ d \in Others(b)
    BY <2>1, <1>10 DEF IInv, AllApart
  <2> QED
    BY <2>1, <1>10, <1>8
<1>15. j \notin Others(b)
  BY <1>5, <1>8 DEF Apart
<1>16. Disjoint'
  BY <1>1, <1>2, <1>15 DEF IInv, Disjoint, Others
<1>17. Covered'
  <2> SUFFICES ASSUME NEW p \in A!PageNumbers
               PROVE  \E c \in A!Blocks' : p \in A!PagesOf(c)
    BY DEF Covered, A!PagesOf, A!After
  <2>1. PICK e \in A!Blocks : p \in A!PagesOf(e)
    BY <1>4 DEF IInv, Covered
  <2>2. CASE e \in Others(b)
    BY <2>1, <2>2, <1>10
  <2>3. CASE e \in A!Beside(b)
    BY <2>1, <2>3, <1>1, <1>10 DEF A!IsJoin
  <2>4. CASE e = b
    BY <2>1, <2>4, <1>3, <1>4, <1>5, <1>8, <1>10 DEF A!PagesAssumption, A!PagesOf, A!PageNumbers
  <2> QED
    BY <2>2, <2>3, <2>4 DEF A!Blocks, Others
<1>18. A!Joined'
  <2> SUFFICES ASSUME NEW c \in FreeBlocks', NEW d \in FreeBlocks', A!After(c) = d.first
               PROVE  FALSE
    BY DEF A!Joined, A!After
  <2>1. CASE c # j /\ d # j
    BY <2>1, <1>1 DEF IInv, A!Joined
  <2>2. CASE c = j /\ d = j
    BY <2>2, <1>5
  <2>3. CASE c # j /\ d = j
    BY <2>3, <1>1, <1>6 DEF IInv, A!Joined, A!Beside
  <2>4. CASE c = j /\ d # j
    BY <2>4, <1>1, <1>7 DEF IInv, A!Joined, A!Beside
  <2> QED
    BY <2>1, <2>2, <2>3, <2>4
<1> QED
  BY <1>13, <1>14, <1>16, <1>17, <1>18 DEF IInv

LEMMA StepKeeps ==
  ASSUME A!PagesAssumption, IInv, [A!Next]_A!allocatorVars
  PROVE  IInv'
<1>1. ASSUME NEW n \in 1 .. num_pages, A!Alloc(n) PROVE IInv'
  BY <1>1, AllocKeeps
<1>2. ASSUME NEW b \in HeldBlocks, A!GiveBack(b) PROVE IInv'
  BY <1>2, GiveBackKeeps
<1>3. CASE A!Close
  BY <1>3 DEF A!Close, IInv, AllInside, AllApart, Disjoint, Covered, A!Joined, A!Blocks
<1>4. CASE UNCHANGED A!allocatorVars
  BY <1>4 DEF A!allocatorVars, IInv, AllInside, AllApart, Disjoint, Covered, A!Joined,
              A!Blocks, Inside, Apart, A!After, A!PagesOf
<1> QED
  BY <1>1, <1>2, <1>3, <1>4 DEF A!Next

LEMMA Inductive ==
  ASSUME A!PagesAssumption
  PROVE  A!Spec => []IInv
<1>1. A!Init => IInv
  BY InitHolds
<1>2. IInv /\ [A!Next]_A!allocatorVars => IInv'
  BY StepKeeps
<1> QED
  BY <1>1, <1>2, PTL DEF A!Spec

(* Until everything is closed every page is in one block and in no other, so
   that no memory of the VPU is handed out twice or lost, for any number of
   pages and any order of requests. *)
THEOREM PagesStayPartitioned ==
  ASSUME A!PagesAssumption
  PROVE  A!Spec => []A!OneBlockPerPage
<1>1. IInv => A!OneBlockPerPage
  <2> SUFFICES ASSUME IInv, NEW b \in A!Blocks, NEW c \in A!Blocks, b # c
               PROVE  A!PagesOf(b) \cap A!PagesOf(c) = {}
    BY DEF IInv, A!OneBlockPerPage, Disjoint, Covered
  <2>1. Apart(b, c) /\ Inside(b) /\ Inside(c)
    BY DEF IInv, AllApart, AllInside
  <2> QED
    BY <2>1, BlockFacts DEF Apart, A!PagesOf
<1>2. A!Spec => []IInv
  BY Inductive
<1> QED
  BY <1>1, <1>2, PTL

(* Free blocks never lie side by side (the merging in vmem_free): memory that
   is FreeBlocks in one piece is found in one piece. *)
THEOREM FreeBlocksAreJoined ==
  ASSUME A!PagesAssumption
  PROVE  A!Spec => []A!Joined
<1>1. IInv => A!Joined
  BY DEF IInv
<1>2. A!Spec => []IInv
  BY Inductive
<1> QED
  BY <1>1, <1>2, PTL

(***************************************************************************)
(* Numbers: addresses, lengths and how many pages a set holds.             *)
(***************************************************************************)
LEMMA BaseIsNat == base_addr \in Nat
<1> DEFINE q == (RegionAddr + PageSize - 1) \div PageSize
<1>1. PageSize \in Nat /\ PageSize >= 1 /\ RegionAddr \in Nat
  BY VideoMemoryAssumption
<1>2. q \in Nat
  BY <1>1
<1>3. base_addr = q * PageSize
  BY DEF base_addr
<1> HIDE DEF q
<1> QED
  BY <1>1, <1>2, <1>3

LEMMA Addresses ==
  /\ \A p \in Nat : Address(p) \in Nat
  /\ \A p, q \in Nat : Address(p) = Address(q) => p = q
<1>1. PageSize \in Nat /\ PageSize >= 1 /\ base_addr \in Nat
  BY VideoMemoryAssumption, BaseIsNat
<1>2. ASSUME NEW p \in Nat PROVE p * PageSize \in Nat
  BY <1>1
<1>3. ASSUME NEW p \in Nat, NEW q \in Nat, p < q PROVE p * PageSize < q * PageSize
  <2>1. q * PageSize = p * PageSize + (q - p) * PageSize
    BY <1>1
  <2>2. (q - p) * PageSize >= 1
    BY <1>1, <1>3
  <2>3. p * PageSize \in Nat /\ (q - p) * PageSize \in Nat
    BY <1>1, <1>3
  <2> QED
    BY <2>1, <2>2, <2>3
<1>4. ASSUME NEW p \in Nat, NEW q \in Nat, Address(p) = Address(q) PROVE p = q
  <2>1. p * PageSize = q * PageSize
    BY <1>1, <1>2, <1>4 DEF Address
  <2>2. ~(p < q) /\ ~(q < p)
    BY <1>2, <1>3, <2>1
  <2> QED
    BY <2>2
<1> QED
  BY <1>1, <1>2, <1>4 DEF Address

LEMMA PagesAreAskedFor ==
  ASSUME NEW size \in Int, size > 0
  PROVE  PagesFor(size) \in Nat /\ PagesFor(size) >= 1
<1>1. PageSize \in Nat /\ PageSize >= 1
  BY VideoMemoryAssumption
<1>2. size + PageSize - 1 >= PageSize /\ size + PageSize - 1 \in Int
  BY <1>1
<1>3. ASSUME NEW n \in Int, n >= PageSize PROVE n \div PageSize \in Nat /\ n \div PageSize >= 1
  BY <1>1, <1>3
<1> QED
  BY <1>2, <1>3 DEF PagesFor

LEMMA Counting ==
  ASSUME A!PagesAssumption, NEW b, Inside(b), NEW S \in SUBSET A!PageNumbers
  PROVE  /\ A!PagesOf(b) \subseteq A!PageNumbers
         /\ A!PagesOf(b) \subseteq S =>
              Cardinality(S \ A!PagesOf(b)) = Cardinality(S) - b.pages
         /\ A!PagesOf(b) \cap S = {} =>
              Cardinality(S \cup A!PagesOf(b)) = Cardinality(S) + b.pages
         /\ Cardinality(S) \in Nat
<1> DEFINE P == A!PagesOf(b)
<1>1. /\ b.first \in Nat /\ b.pages \in Nat /\ b.pages >= 1
      /\ A!After(b) = b.first + b.pages /\ A!After(b) <= num_pages /\ num_pages \in Nat
  BY BlockFacts DEF Inside, A!PagesAssumption
<1>2. IsFiniteSet(P) /\ Cardinality(P) = b.pages
  <2> DEFINE x == b.first
             y == b.first + b.pages - 1
  <2>1. P = x .. y /\ x \in Int /\ y \in Int /\ x <= y /\ y - x + 1 = b.pages
    BY <1>1 DEF A!PagesOf
  <2> HIDE DEF P, x, y
  <2> QED
    BY <2>1, FS_Interval
<1>3. IsFiniteSet(A!PageNumbers)
  BY <1>1, FS_Interval DEF A!PageNumbers
<1>4. IsFiniteSet(S)
  BY <1>3, FS_Subset
<1>5. P \subseteq A!PageNumbers
  BY <1>1 DEF A!PagesOf, A!PageNumbers
<1> HIDE DEF P
<1>6. P \subseteq S => Cardinality(S \ P) = Cardinality(S) - b.pages
  <2>1. Cardinality(S \ P) = Cardinality(S) - Cardinality(S \cap P)
    BY <1>4, FS_Difference
  <2>2. P \subseteq S => S \cap P = P
    OBVIOUS
  <2> QED
    BY <1>2, <2>1, <2>2
<1>7. P \cap S = {} => Cardinality(S \cup P) = Cardinality(S) + b.pages
  <2>1. Cardinality(S \cup P) = Cardinality(S) + Cardinality(P) - Cardinality(S \cap P)
    BY <1>2, <1>4, FS_Union
  <2>2. P \cap S = {} => S \cap P = {}
    OBVIOUS
  <2>3. Cardinality(S) \in Nat /\ Cardinality({}) = 0
    BY <1>4, FS_CardinalityType, FS_EmptySet
  <2>4. P \cap S = {} => Cardinality(S \cap P) = 0
    BY <2>2, <2>3
  <2> QED
    BY <1>1, <1>2, <2>1, <2>3, <2>4
<1>8. Cardinality(S) \in Nat
  BY <1>4, FS_CardinalityType
<1> QED
  BY <1>5, <1>6, <1>7, <1>8 DEF P

\* A tree with a node for some of the pages can take one more.
LEMMA RoomForOne ==
  ASSUME A!PagesAssumption, NEW t, Good(t),
         \A e \in Entries(t) : e[2] \in A!PageNumbers,
         \A e, d \in Entries(t) : e[2] = d[2] => e = d
  PROVE  t.height + 1 < MaxHeight
<1> DEFINE E == Entries(t)
           f == [e \in E |-> e[2]]
<1>1. IsFiniteSet(A!PageNumbers) /\ Cardinality(A!PageNumbers) = num_pages /\ num_pages \in Nat
  BY FS_Interval DEF A!PageNumbers, A!PagesAssumption
<1>2. IsFiniteSet(E) /\ t.height + 1 <= Cardinality(E)
  BY HeightCounted
<1>3. f \in Injection(E, A!PageNumbers)
  BY DEF Injection, IsInjective
<1>4. Cardinality(E) <= Cardinality(A!PageNumbers)
  <2> HIDE DEF E, f
  <2> QED
    BY <1>1, <1>3, FS_Injection
<1>5. Cardinality(E) \in Nat /\ t.height \in Int
  BY <1>2, GoodHeight, FS_CardinalityType
<1> HIDE DEF E
<1> QED
  BY <1>1, <1>2, <1>4, <1>5, TreesAssumption, MaxHeightAssumption

(***************************************************************************)
(* Tags.                                                                   *)
(***************************************************************************)
IsTagged(list, b, used) ==
  /\ list[b.first].alloc_pages = b.pages
  /\ list[b.first + b.pages - 1].first_pageno = b.first
  /\ \A p \in A!PagesOf(b) : list[p].used = used

\* l is the list when the tags of b have been set.
Retagged(list, b, used, l) ==
  DOMAIN list = A!PageNumbers /\ Inside(b) /\ l = Tagged(list, b.first, b.pages, used)

UsedPages(list, used) == {p \in DOMAIN list : list[p].used = used}

LEMMA TagValues ==
  ASSUME A!PagesAssumption, NEW list, NEW b, NEW used, NEW l, Retagged(list, b, used, l)
  PROVE  /\ A!PagesOf(b) = b.first .. b.first + b.pages - 1
         /\ A!PagesOf(b) \subseteq A!PageNumbers
         /\ DOMAIN l = A!PageNumbers
         /\ \A p \in A!PageNumbers \ A!PagesOf(b) : l[p] = list[p]
         /\ \A p \in A!PagesOf(b) :
              /\ l[p].used = used
              /\ p = b.first => l[p].alloc_pages = b.pages
              /\ p = b.first + b.pages - 1 => l[p].first_pageno = b.first
<1>1. /\ b.first \in Nat /\ b.pages \in Nat /\ b.pages >= 1
      /\ A!After(b) = b.first + b.pages /\ A!After(b) <= num_pages /\ num_pages \in Nat
  BY BlockFacts DEF Inside, A!PagesAssumption, Retagged
<1>2. A!PagesOf(b) = b.first .. b.first + b.pages - 1
  BY <1>1 DEF A!PagesOf
<1>3. A!PagesOf(b) \subseteq A!PageNumbers
  BY <1>1, <1>2 DEF A!PageNumbers
<1>4. /\ DOMAIN l = A!PageNumbers
      /\ \A p \in A!PageNumbers \ A!PagesOf(b) : l[p] = list[p]
      /\ \A p \in A!PagesOf(b) :
           l[p] = [used |-> used,
                   alloc_pages |-> IF p = b.first THEN b.pages ELSE 0,
                   first_pageno |-> IF p = b.first + b.pages - 1 THEN b.first ELSE -1]
  BY <1>2, <1>3 DEF Tagged, Retagged
<1>5. ASSUME NEW p \in A!PagesOf(b)
      PROVE  /\ l[p].used = used
             /\ p = b.first => l[p].alloc_pages = b.pages
             /\ p = b.first + b.pages - 1 => l[p].first_pageno = b.first
  <2> DEFINE n == IF p = b.first THEN b.pages ELSE 0
             f == IF p = b.first + b.pages - 1 THEN b.first ELSE -1
  <2>1. l[p] = [used |-> used, alloc_pages |-> n, first_pageno |-> f]
    BY <1>4
  <2>2. /\ p = b.first => n = b.pages
        /\ p = b.first + b.pages - 1 => f = b.first
    OBVIOUS
  <2> HIDE DEF n, f
  <2> QED
    BY <2>1, <2>2
<1> QED
  BY <1>2, <1>3, <1>4, <1>5

LEMMA TagFacts ==
  ASSUME A!PagesAssumption, NEW list, NEW b, NEW used, NEW l, Retagged(list, b, used, l)
  PROVE  /\ DOMAIN l = A!PageNumbers
         /\ IsTagged(l, b, used)
         /\ \A c, u : Inside(c) /\ Apart(b, c) /\ IsTagged(list, c, u) => IsTagged(l, c, u)
<1>1. /\ b.first \in Nat /\ b.pages \in Nat /\ b.pages >= 1
      /\ A!After(b) = b.first + b.pages /\ A!After(b) <= num_pages /\ num_pages \in Nat
  BY BlockFacts DEF Inside, A!PagesAssumption, Retagged
<1>2. A!PagesOf(b) = b.first .. b.first + b.pages - 1
  BY TagValues
<1>3. DOMAIN l = A!PageNumbers
  BY TagValues
<1>4. \A p \in A!PageNumbers \ A!PagesOf(b) : l[p] = list[p]
  BY TagValues
<1>5. ASSUME NEW p \in A!PagesOf(b)
      PROVE  /\ l[p].used = used
             /\ p = b.first => l[p].alloc_pages = b.pages
             /\ p = b.first + b.pages - 1 => l[p].first_pageno = b.first
  BY TagValues
<1>6. b.first \in A!PagesOf(b) /\ b.first + b.pages - 1 \in A!PagesOf(b)
  BY <1>1, <1>2
<1>7. IsTagged(l, b, used)
  BY <1>5, <1>6 DEF IsTagged
<1>8. ASSUME NEW c, NEW u, Inside(c), Apart(b, c), IsTagged(list, c, u) PROVE IsTagged(l, c, u)
  <2>1. /\ c.first \in Nat /\ c.pages \in Nat /\ c.pages >= 1
        /\ A!After(c) = c.first + c.pages /\ A!After(c) <= num_pages
    BY <1>8, BlockFacts DEF Inside
  <2>2. A!PagesOf(c) = c.first .. c.first + c.pages - 1
    BY <2>1 DEF A!PagesOf
  <2>3. \A p \in A!PagesOf(c) : p \in A!PageNumbers \ A!PagesOf(b)
    <3> TAKE p \in A!PagesOf(c)
    <3>1. p \in Int /\ c.first <= p /\ p < A!After(c)
      BY <2>1, <2>2
    <3>2. \A x \in A!PagesOf(b) : b.first <= x /\ x < A!After(b)
      BY <1>1, <1>2
    <3>3. A!After(b) <= c.first \/ A!After(c) <= b.first
      BY <1>8 DEF Apart
    <3>4. p \in A!PageNumbers
      BY <1>1, <2>1, <3>1 DEF A!PageNumbers
    <3>5. p \notin A!PagesOf(b)
      BY <1>1, <2>1, <3>1, <3>2, <3>3
    <3> QED
      BY <3>4, <3>5
  <2>4. \A p \in A!PagesOf(c) : l[p] = list[p]
    BY <1>4, <2>3
  <2>5. c.first \in A!PagesOf(c) /\ c.first + c.pages - 1 \in A!PagesOf(c)
    BY <2>1, <2>2
  <2> QED
    BY <1>8, <2>4, <2>5 DEF IsTagged
<1> QED
  BY <1>3, <1>7, <1>8

LEMMA TagUsed ==
  ASSUME A!PagesAssumption, NEW list, NEW b, NEW used, NEW l, Retagged(list, b, used, l)
  PROVE  UsedPages(l, used) = UsedPages(list, used) \cup A!PagesOf(b)
<1>1. DOMAIN l = A!PageNumbers
  BY TagValues
<1>5. DOMAIN list = A!PageNumbers
  BY DEF Retagged
<1>2. A!PagesOf(b) \subseteq A!PageNumbers
  BY TagValues
<1>3. \A p \in A!PageNumbers \ A!PagesOf(b) : l[p] = list[p]
  BY TagValues
<1>4. \A p \in A!PagesOf(b) : l[p].used = used
  BY TagValues
<1> QED
  BY <1>1, <1>2, <1>3, <1>4, <1>5 DEF UsedPages

LEMMA TagOthers ==
  ASSUME A!PagesAssumption, NEW list, NEW b, NEW used, NEW l, Retagged(list, b, used, l),
         NEW u, u # used
  PROVE  UsedPages(l, u) = UsedPages(list, u) \ A!PagesOf(b)
<1>1. DOMAIN l = A!PageNumbers
  BY TagValues
<1>5. DOMAIN list = A!PageNumbers
  BY DEF Retagged
<1>2. A!PagesOf(b) \subseteq A!PageNumbers
  BY TagValues
<1>3. \A p \in A!PageNumbers \ A!PagesOf(b) : l[p] = list[p]
  BY TagValues
<1>4. \A p \in A!PagesOf(b) : l[p].used = used
  BY TagValues
<1> QED
  BY <1>1, <1>2, <1>3, <1>4, <1>5 DEF UsedPages

(***************************************************************************)
(* The trees, the tags and the counts tell the same.                       *)
(***************************************************************************)
FreeEntry(b) == <<FreeKey(b.pages, b.first), b.first>>
HeldEntry(b) == <<AllocKey(Address(b.first)), b.first>>

Told ==
  /\ DOMAIN page_list = A!PageNumbers
  /\ \A b \in FreeBlocks : IsTagged(page_list, b, 0)
  /\ \A b \in HeldBlocks : IsTagged(page_list, b, 1)
  /\ free_page_count = Cardinality(UsedPages(page_list, 0))
  /\ alloc_page_count = Cardinality(UsedPages(page_list, 1))
Exited == page_list = <<>> /\ free_tree = Null /\ alloc_tree = Null

MemoryInv ==
  /\ ~stuck
  /\ Good(free_tree) /\ Entries(free_tree) = {FreeEntry(b) : b \in FreeBlocks}
  /\ Good(alloc_tree) /\ Entries(alloc_tree) = {HeldEntry(b) : b \in HeldBlocks}
  /\ IInv
  /\ Told \/ Exited

\* The blocks of a tree are known by its entries.
LEMMA FreeBlocksAre ==
  ASSUME NEW t, NEW X, \A b \in X : b = [first |-> b.first, pages |-> b.pages],
         Entries(t) = {FreeEntry(b) : b \in X}
  PROVE  {[first |-> n.page, pages |-> n.key[1]] : n \in NodesOf(t)} = X
<1>1. ASSUME NEW n \in NodesOf(t)
      PROVE  [first |-> n.page, pages |-> n.key[1]] \in X
  <2>1. PICK b \in X : <<n.key, n.page>> = FreeEntry(b)
    BY DEF Entries
  <2>2. n.page = b.first /\ n.key = <<b.pages, b.first>>
    BY <2>1 DEF FreeEntry, FreeKey
  <2>3. n.key[1] = b.pages
    BY <2>2
  <2> QED
    BY <2>2, <2>3
<1>2. ASSUME NEW b \in X
      PROVE  \E n \in NodesOf(t) : b = [first |-> n.page, pages |-> n.key[1]]
  <2>1. PICK n \in NodesOf(t) : <<n.key, n.page>> = FreeEntry(b)
    <3>1. FreeEntry(b) \in Entries(t)
      OBVIOUS
    <3> QED
      BY <3>1 DEF Entries
  <2>2. n.page = b.first /\ n.key = <<b.pages, b.first>>
    BY <2>1 DEF FreeEntry, FreeKey
  <2>3. n.key[1] = b.pages
    BY <2>2
  <2> QED
    BY <2>2, <2>3
<1> QED
  BY <1>1, <1>2

LEMMA HeldBlocksAre ==
  ASSUME NEW t, NEW X, NEW list, \A b \in X : b = [first |-> b.first, pages |-> b.pages],
         \A b \in X : IsTagged(list, b, 1),
         Entries(t) = {HeldEntry(b) : b \in X}
  PROVE  {[first |-> n.page, pages |-> list[n.page].alloc_pages] : n \in NodesOf(t)} = X
<1>1. ASSUME NEW n \in NodesOf(t)
      PROVE  [first |-> n.page, pages |-> list[n.page].alloc_pages] \in X
  <2>1. PICK b \in X : <<n.key, n.page>> = HeldEntry(b)
    BY DEF Entries
  <2>2. n.page = b.first
    BY <2>1 DEF HeldEntry
  <2> QED
    BY <2>2 DEF IsTagged
<1>2. ASSUME NEW b \in X
      PROVE  \E n \in NodesOf(t) : b = [first |-> n.page, pages |-> list[n.page].alloc_pages]
  <2>1. PICK n \in NodesOf(t) : <<n.key, n.page>> = HeldEntry(b)
    <3>1. HeldEntry(b) \in Entries(t)
      OBVIOUS
    <3> QED
      BY <3>1 DEF Entries
  <2>2. n.page = b.first
    BY <2>1 DEF HeldEntry
  <2> QED
    BY <2>2 DEF IsTagged
<1> QED
  BY <1>1, <1>2

LEMMA BlocksTyped ==
  ASSUME A!PagesAssumption, IInv, NEW b \in A!Blocks
  PROVE  /\ Inside(b) /\ b = [first |-> b.first, pages |-> b.pages]
         /\ b.first \in Nat /\ b.pages \in Nat /\ b.pages >= 1 /\ b.first \in A!PageNumbers
         /\ A!After(b) = b.first + b.pages /\ A!After(b) <= num_pages /\ num_pages \in Nat
         /\ \A c \in A!Blocks : /\ c # b => Apart(b, c) /\ Apart(c, b) /\ c.first # b.first
                                /\ c.first = b.first => c = b
<1>1. \A c \in A!Blocks : /\ Inside(c) /\ c = [first |-> c.first, pages |-> c.pages]
                          /\ c.first \in Nat /\ c.pages \in Nat /\ c.pages >= 1
                          /\ A!After(c) = c.first + c.pages /\ A!After(c) <= num_pages
  BY BlockFacts DEF IInv, AllInside, Inside
<1>2. num_pages \in Nat /\ b.first \in A!PageNumbers
  BY <1>1 DEF A!PagesAssumption, A!PageNumbers
<1>3. ASSUME NEW c \in A!Blocks, c # b
      PROVE  Apart(b, c) /\ Apart(c, b) /\ c.first # b.first
  <2>1. Apart(b, c) /\ Apart(c, b)
    BY <1>3 DEF IInv, AllApart
  <2> QED
    BY <1>1, <2>1 DEF Apart
<1> QED
  BY <1>1, <1>2, <1>3

(***************************************************************************)
(* One node put into a tree of blocks, or taken out.                       *)
(***************************************************************************)
LEMMA FreeRoom ==
  ASSUME A!PagesAssumption, IInv, NEW X \in SUBSET A!Blocks,
         NEW t, Good(t), Entries(t) = {FreeEntry(c) : c \in X}
  PROVE  t.height + 1 < MaxHeight
<1>1. ASSUME NEW e \in Entries(t) PROVE e[2] \in A!PageNumbers
  <2>1. PICK c \in X : e = FreeEntry(c)
    OBVIOUS
  <2>2. e[2] = c.first
    BY <2>1 DEF FreeEntry
  <2> QED
    BY <2>2, BlocksTyped
<1>2. ASSUME NEW e \in Entries(t), NEW d \in Entries(t), e[2] = d[2] PROVE e = d
  <2>1. PICK x \in X : e = FreeEntry(x)
    OBVIOUS
  <2>2. PICK y \in X : d = FreeEntry(y)
    OBVIOUS
  <2>3. x.first = y.first
    BY <1>2, <2>1, <2>2 DEF FreeEntry
  <2>4. x = y
    BY <2>3, BlocksTyped
  <2> QED
    BY <2>1, <2>2, <2>4
<1> QED
  BY <1>1, <1>2, RoomForOne

LEMMA HeldRoom ==
  ASSUME A!PagesAssumption, IInv, NEW X \in SUBSET A!Blocks,
         NEW t, Good(t), Entries(t) = {HeldEntry(c) : c \in X}
  PROVE  t.height + 1 < MaxHeight
<1>1. ASSUME NEW e \in Entries(t) PROVE e[2] \in A!PageNumbers
  <2>1. PICK c \in X : e = HeldEntry(c)
    OBVIOUS
  <2>2. e[2] = c.first
    BY <2>1 DEF HeldEntry
  <2> QED
    BY <2>2, BlocksTyped
<1>2. ASSUME NEW e \in Entries(t), NEW d \in Entries(t), e[2] = d[2] PROVE e = d
  <2>1. PICK x \in X : e = HeldEntry(x)
    OBVIOUS
  <2>2. PICK y \in X : d = HeldEntry(y)
    OBVIOUS
  <2>3. x.first = y.first
    BY <1>2, <2>1, <2>2 DEF HeldEntry
  <2> QED
    BY <2>1, <2>2, <2>3 DEF HeldEntry
<1> QED
  BY <1>1, <1>2, RoomForOne

LEMMA FreeInserted ==
  ASSUME A!PagesAssumption, IInv, NEW X \in SUBSET A!Blocks,
         NEW t, Good(t), Entries(t) = {FreeEntry(c) : c \in X},
         NEW b, b.first \in Nat, b.pages \in Nat, \A c \in X : c.first # b.first,
         NEW u, u = Insert(t, FreeKey(b.pages, b.first), b.first)
  PROVE  Good(u) /\ Entries(u) = {FreeEntry(c) : c \in X \cup {b}}
<1> DEFINE key == FreeKey(b.pages, b.first)
           page == b.first
<1>1. key \in Keys /\ page \in Nat
  BY DEF FreeKey, Keys
<1>2. t.height + 1 < MaxHeight
  BY FreeRoom
<1>3. ASSUME NEW e \in Entries(t) PROVE e[1] # key
  <2>1. PICK c \in X : e = FreeEntry(c)
    OBVIOUS
  <2>2. e[1] = <<c.pages, c.first>>
    BY <2>1 DEF FreeEntry, FreeKey
  <2> QED
    BY <2>2 DEF FreeKey
<1>4. FreeEntry(b) = <<key, page>>
  BY DEF FreeEntry
<1> HIDE DEF key, page
<1>5. Good(Insert(t, key, page)) /\ Entries(Insert(t, key, page)) = Entries(t) \cup {<<key, page>>}
  BY <1>1, <1>2, <1>3, InsertFacts
<1>6. u = Insert(t, key, page)
  BY DEF key, page
<1>7. Entries(u) = {FreeEntry(c) : c \in X} \cup {FreeEntry(b)}
  BY <1>4, <1>5, <1>6
<1> QED
  BY <1>5, <1>6, <1>7

LEMMA HeldInserted ==
  ASSUME A!PagesAssumption, IInv, NEW X \in SUBSET A!Blocks,
         NEW t, Good(t), Entries(t) = {HeldEntry(c) : c \in X},
         NEW b, b.first \in Nat, \A c \in X : c.first # b.first,
         NEW u, u = Insert(t, AllocKey(Address(b.first)), b.first)
  PROVE  Good(u) /\ Entries(u) = {HeldEntry(c) : c \in X \cup {b}}
<1> DEFINE key == AllocKey(Address(b.first))
           page == b.first
<1>1. key \in Keys /\ page \in Nat
  BY Addresses DEF AllocKey, Keys
<1>2. t.height + 1 < MaxHeight
  BY HeldRoom
<1>3. ASSUME NEW e \in Entries(t) PROVE e[1] # key
  <2>1. PICK c \in X : e = HeldEntry(c)
    OBVIOUS
  <2>2. e[1] = <<Address(c.first), 0>>
    BY <2>1 DEF HeldEntry, AllocKey
  <2>3. Address(c.first) # Address(b.first)
    BY Addresses, BlocksTyped
  <2> QED
    BY <2>2, <2>3 DEF AllocKey
<1>4. HeldEntry(b) = <<key, page>>
  BY DEF HeldEntry
<1> HIDE DEF key, page
<1>5. Good(Insert(t, key, page)) /\ Entries(Insert(t, key, page)) = Entries(t) \cup {<<key, page>>}
  BY <1>1, <1>2, <1>3, InsertFacts
<1>6. u = Insert(t, key, page)
  BY DEF key, page
<1>7. Entries(u) = {HeldEntry(c) : c \in X} \cup {HeldEntry(b)}
  BY <1>4, <1>5, <1>6
<1> QED
  BY <1>5, <1>6, <1>7

\* What is left when the entry of one block has gone.
LEMMA OneEntryLess ==
  ASSUME A!PagesAssumption, IInv, NEW X \in SUBSET A!Blocks, NEW b \in X
  PROVE  /\ {FreeEntry(c) : c \in X} \ {FreeEntry(b)} = {FreeEntry(c) : c \in X \ {b}}
         /\ {HeldEntry(c) : c \in X} \ {HeldEntry(b)} = {HeldEntry(c) : c \in X \ {b}}
<1>1. ASSUME NEW c \in X, c # b PROVE FreeEntry(c) # FreeEntry(b) /\ HeldEntry(c) # HeldEntry(b)
  <2>1. c.first # b.first
    BY <1>1, BlocksTyped
  <2> QED
    BY <2>1 DEF FreeEntry, HeldEntry
<1> QED
  BY <1>1

LEMMA FreeRemoved ==
  ASSUME A!PagesAssumption, IInv, NEW X \in SUBSET A!Blocks,
         NEW t, Good(t), Entries(t) = {FreeEntry(c) : c \in X}, NEW b \in X,
         NEW u, u = Remove(t, FreeKey(b.pages, b.first))
  PROVE  /\ u.found # Null /\ Good(u.rest)
         /\ Entries(u.rest) = {FreeEntry(c) : c \in X \ {b}}
<1> DEFINE key == FreeKey(b.pages, b.first)
<1>1. key \in Keys
  BY BlocksTyped DEF FreeKey, Keys
<1>2. FreeEntry(b) \in Entries(t) /\ FreeEntry(b)[1] = key
  BY DEF FreeEntry
<1>3. ASSUME NEW e \in Entries(t), e[1] = key PROVE e = FreeEntry(b)
  <2>1. PICK c \in X : e = FreeEntry(c)
    OBVIOUS
  <2>2. c.first = b.first
    BY <1>3, <2>1 DEF FreeEntry, FreeKey
  <2> QED
    BY <2>1, <2>2, BlocksTyped
<1>4. u = Remove(t, key)
  OBVIOUS
<1> HIDE DEF key
<1>5. /\ Good(u.rest) /\ u.found # Null
      /\ u.found.key = key /\ EntryOf(u.found) \in Entries(t)
      /\ Entries(u.rest) = Entries(t) \ {EntryOf(u.found)}
  <2>1. Good(u.rest)
    BY <1>1, <1>4, RemoveFacts
  <2>3. u.found = Null => \A e \in Entries(t) : e[1] # key
    BY <1>1, <1>4, RemoveFacts
  <2>4. u.found # Null => u.found.key = key /\ EntryOf(u.found) \in Entries(t)
    BY <1>1, <1>4, RemoveFacts
  <2>5. u.found # Null => Entries(u.rest) = Entries(t) \ {EntryOf(u.found)}
    BY <1>1, <1>4, RemoveFacts
  <2>2. PICK x \in Entries(t) : x[1] = key
    BY <1>2
  <2> QED
    BY <2>1, <2>2, <2>3, <2>4, <2>5
<1>6. EntryOf(u.found) = FreeEntry(b)
  BY <1>3, <1>5 DEF EntryOf
<1> QED
  BY <1>5, <1>6, OneEntryLess

LEMMA HeldRemoved ==
  ASSUME A!PagesAssumption, IInv, NEW X \in SUBSET A!Blocks,
         NEW t, Good(t), Entries(t) = {HeldEntry(c) : c \in X}, NEW addr \in Nat,
         NEW u, u = Remove(t, AllocKey(addr)), u.found # Null
  PROVE  \E b \in X : /\ u.found.page = b.first /\ Good(u.rest)
                      /\ Entries(u.rest) = {HeldEntry(c) : c \in X \ {b}}
<1> DEFINE key == AllocKey(addr)
<1>1. key \in Keys
  BY DEF AllocKey, Keys
<1>2. u = Remove(t, key)
  OBVIOUS
<1> HIDE DEF key
<1>3. /\ Good(u.rest) /\ EntryOf(u.found) \in Entries(t)
      /\ Entries(u.rest) = Entries(t) \ {EntryOf(u.found)}
  BY <1>1, <1>2, RemoveFacts
<1>4. PICK b \in X : EntryOf(u.found) = HeldEntry(b)
  BY <1>3
<1>5. u.found.page = b.first
  BY <1>4 DEF EntryOf, HeldEntry
<1> QED
  BY <1>3, <1>4, <1>5, OneEntryLess

LEMMA AllFree ==
  ASSUME A!PagesAssumption, NEW list, NEW b, NEW l, Retagged(list, b, 0, l)
  PROVE  /\ DOMAIN l = A!PageNumbers /\ IsTagged(l, b, 0)
         /\ A!PagesOf(b) = A!PageNumbers =>
              UsedPages(l, 0) = A!PageNumbers /\ UsedPages(l, 1) = {}
<1>1. DOMAIN l = A!PageNumbers /\ IsTagged(l, b, 0)
  BY TagFacts
<1>2. UsedPages(l, 1) = UsedPages(list, 1) \ A!PagesOf(b)
  BY TagOthers
<1>3. UsedPages(l, 0) = UsedPages(list, 0) \cup A!PagesOf(b)
  BY TagUsed
<1>4. UsedPages(list, 0) \subseteq A!PageNumbers /\ UsedPages(list, 1) \subseteq A!PageNumbers
  BY DEF UsedPages, Retagged
<1> QED
  BY <1>1, <1>2, <1>3, <1>4

LEMMA InitTold ==
  ASSUME A!PagesAssumption, Init
  PROVE  MemoryInv /\ A!Init
<1> DEFINE W == A!Whole
           list == [p \in 0 .. num_pages - 1 |-> FreePage]
<1>1. /\ num_pages \in Nat /\ num_pages >= 1
      /\ W.first = 0 /\ W.pages = num_pages /\ W = [first |-> W.first, pages |-> W.pages]
      /\ Inside(W)
  BY DEF A!PagesAssumption, A!Whole, Inside, A!Block, A!After, A!PageNumbers
<1>2. A!PagesOf(W) = A!PageNumbers
  BY <1>1 DEF A!PagesOf, A!PageNumbers, A!After
<1>3. DOMAIN list = A!PageNumbers /\ \A p \in A!PageNumbers : list[p].used = 0
  BY DEF A!PageNumbers, FreePage
<1>4. page_list = Tagged(list, W.first, W.pages, 0)
  BY <1>1 DEF Init
<1>5. free_tree = Insert(Null, FreeKey(W.pages, W.first), W.first)
  BY <1>1 DEF Init
<1> HIDE DEF W, list
<1>6. /\ DOMAIN page_list = A!PageNumbers /\ IsTagged(page_list, W, 0)
      /\ UsedPages(page_list, 0) = A!PageNumbers /\ UsedPages(page_list, 1) = {}
  BY <1>1, <1>2, <1>3, <1>4, AllFree DEF Retagged
<1>8. Cardinality(A!PageNumbers) = num_pages /\ Cardinality({}) = 0
  <2>1. 0 \in Int /\ num_pages - 1 \in Int /\ ~(0 > num_pages - 1) /\ num_pages - 1 - 0 + 1 = num_pages
    BY <1>1
  <2>2. Cardinality(0 .. num_pages - 1) = num_pages
    BY <2>1, FS_Interval
  <2> QED
    BY <2>2, FS_EmptySet DEF A!PageNumbers
<1>9. free_page_count = num_pages /\ alloc_page_count = 0 /\ alloc_tree = Null
  BY DEF Init
<1>10. Good(free_tree) /\ Entries(free_tree) = {FreeEntry(W)}
  <2> DEFINE key == FreeKey(W.pages, W.first)
             page == W.first
  <2>1. key \in Keys /\ page \in Nat
    BY <1>1 DEF FreeKey, Keys
  <2>2. Good(Null) /\ Null.height + 1 < MaxHeight /\ Entries(Null) = {}
    BY <1>1, NullFacts, TreesAssumption, MaxHeightAssumption
  <2>3. free_tree = Insert(Null, key, page) /\ FreeEntry(W) = <<key, page>>
    BY <1>5 DEF FreeEntry
  <2> HIDE DEF key, page
  <2>4. /\ Good(Insert(Null, key, page))
        /\ Entries(Insert(Null, key, page)) = Entries(Null) \cup {<<key, page>>}
    BY <2>1, <2>2, InsertFacts
  <2> QED
    BY <2>2, <2>3, <2>4
<1>11. FreeBlocks = {W}
  <2> DEFINE X == {W}
  <2>1. \A b \in X : b = [first |-> b.first, pages |-> b.pages]
    BY <1>1
  <2>2. Entries(free_tree) = {FreeEntry(b) : b \in X}
    BY <1>10
  <2> HIDE DEF X
  <2>3. FreeBlocks = X
    BY <2>1, <2>2, FreeBlocksAre DEF FreeBlocks
  <2> QED
    BY <2>3 DEF X
<1>12. HeldBlocks = {}
  BY <1>9, NodesOfIs DEF HeldBlocks
<1>13. A!Init
  BY <1>11, <1>12 DEF A!Init, W
<1>14. IInv
  BY <1>13, InitHolds
<1>15. Told
  BY <1>6, <1>8, <1>9, <1>11, <1>12 DEF Told
<1>16. ~stuck
  <2>1. ~BlockIsBad(0, num_pages)
    BY <1>1 DEF BlockIsBad
  <2> QED
    BY <2>1 DEF Init
<1>17. Good(alloc_tree) /\ Entries(alloc_tree) = {}
  BY <1>9, NullFacts
<1>18. /\ Entries(free_tree) = {FreeEntry(b) : b \in FreeBlocks}
       /\ Entries(alloc_tree) = {HeldEntry(b) : b \in HeldBlocks}
  BY <1>10, <1>11, <1>12, <1>17
<1> QED
  BY <1>10, <1>13, <1>14, <1>15, <1>16, <1>17, <1>18 DEF MemoryInv

(***************************************************************************)
(* Allocating.                                                             *)
(***************************************************************************)

\* The front of a free block and what is left of it, beside the other blocks.
LEMMA Cut ==
  ASSUME A!PagesAssumption, IInv, NEW b \in FreeBlocks, NEW n \in Nat, n >= 1, b.pages >= n,
         NEW f, f = A!FrontOf(b, n),
         NEW r, r = [first |-> b.first + n, pages |-> b.pages - n]
  PROVE  /\ Inside(f) /\ f = [first |-> f.first, pages |-> f.pages]
         /\ f.first = b.first /\ f.pages = n
         /\ \A c \in A!Blocks \ {b} : Apart(f, c) /\ c.first # f.first
         /\ b.pages # n =>
              /\ Inside(r) /\ r = [first |-> r.first, pages |-> r.pages]
              /\ r.first = b.first + n /\ r.pages = b.pages - n
              /\ Apart(r, f) /\ r.first # f.first
              /\ \A c \in A!Blocks \ {b} : Apart(r, c) /\ c.first # r.first
<1>1. b \in A!Blocks
  BY DEF A!Blocks
<1>2. /\ b.first \in Nat /\ b.pages \in Nat /\ b.pages >= 1 /\ num_pages \in Nat
      /\ A!After(b) = b.first + b.pages /\ A!After(b) <= num_pages
  BY <1>1, BlocksTyped
<1>3. /\ f.first = b.first /\ f.pages = n /\ f = [first |-> f.first, pages |-> f.pages]
      /\ A!After(f) = b.first + n
  BY DEF A!FrontOf, A!After
<1>4. Inside(f)
  BY <1>2, <1>3 DEF Inside, A!Block, A!PageNumbers
<1>5. ASSUME NEW c \in A!Blocks \ {b}
      PROVE  /\ Apart(f, c) /\ c.first # f.first
             /\ b.pages # n => A!After(c) <= b.first \/ A!After(b) <= c.first
             /\ c.first \in Nat /\ A!After(c) = c.first + c.pages /\ c.pages \in Nat /\ c.pages >= 1
  <2>1. /\ c.first \in Nat /\ c.pages \in Nat /\ c.pages >= 1
        /\ A!After(c) = c.first + c.pages /\ c.first # b.first
        /\ A!After(c) <= b.first \/ A!After(b) <= c.first
    BY <1>1, BlocksTyped DEF Apart
  <2> QED
    BY <1>2, <1>3, <2>1 DEF Apart
<1>6. ASSUME b.pages # n
      PROVE  /\ Inside(r) /\ r = [first |-> r.first, pages |-> r.pages]
             /\ r.first = b.first + n /\ r.pages = b.pages - n
             /\ Apart(r, f) /\ r.first # f.first
             /\ \A c \in A!Blocks \ {b} : Apart(r, c) /\ c.first # r.first
  <2>1. /\ r.first = b.first + n /\ r.pages = b.pages - n
        /\ r = [first |-> r.first, pages |-> r.pages] /\ A!After(r) = (b.first + n) + (b.pages - n)
    BY DEF A!After
  <2>2. r.pages \in Nat /\ r.pages >= 1 /\ A!After(r) = A!After(b)
    BY <1>2, <1>6, <2>1
  <2>3. Inside(r)
    BY <1>2, <2>1, <2>2 DEF Inside, A!Block, A!PageNumbers
  <2>4. ASSUME NEW c \in A!Blocks \ {b} PROVE Apart(r, c) /\ c.first # r.first
    BY <1>2, <1>5, <1>6, <2>1, <2>2 DEF Apart
  <2>5. Apart(r, f) /\ r.first # f.first
    BY <1>2, <1>3, <2>1 DEF Apart
  <2> QED
    BY <2>1, <2>3, <2>4, <2>5
<1> QED
  BY <1>3, <1>4, <1>5, <1>6

LEMMA FreeIsFree ==
  ASSUME NEW b \in FreeBlocks
  PROVE  b \in A!Blocks
BY DEF A!Blocks

LEMMA HeldIsHeld ==
  ASSUME NEW b \in HeldBlocks
  PROVE  b \in A!Blocks
BY DEF A!Blocks

\* remove_approx_value finds the best fit.
LEMMA BestFound ==
  ASSUME A!PagesAssumption, MemoryInv, NEW n \in Nat, n >= 1,
         NEW got, got = RemoveApprox(free_tree, FreeKey(n, 0)), got.found # Null
  PROVE  \E b \in FreeBlocks :
           /\ A!BestFit(b, n)
           /\ got.found.page = b.first /\ got.found.key[1] = b.pages
           /\ Good(got.rest) /\ Entries(got.rest) = {FreeEntry(c) : c \in FreeBlocks \ {b}}
<1> DEFINE key == FreeKey(n, 0)
           X == FreeBlocks
<1>1. key \in Keys /\ key = <<n, 0>>
  BY DEF FreeKey, Keys
<1>2. Good(free_tree) /\ Entries(free_tree) = {FreeEntry(c) : c \in X} /\ IInv /\ X \subseteq A!Blocks
  BY FreeIsFree DEF MemoryInv
<1>3. got = RemoveApprox(free_tree, key)
  OBVIOUS
<1> HIDE DEF key, X
<1>4. Good(got.rest) /\ EntryOf(got.found) \in Entries(free_tree) /\ ~Below(got.found.key, key)
  BY <1>1, <1>2, <1>3, RemoveApproxFacts
<1>5. \A e \in Entries(free_tree) \ {EntryOf(got.found)} :
        Below(e[1], key) \/ Below(got.found.key, e[1])
  BY <1>1, <1>2, <1>3, RemoveApproxFacts
<1>6. Entries(got.rest) = Entries(free_tree) \ {EntryOf(got.found)}
  <2>1. Good(free_tree)
    BY <1>2
  <2> QED
    BY <1>1, <1>3, <2>1, RemoveApproxFacts
<1>7. PICK b \in X : EntryOf(got.found) = FreeEntry(b)
  BY <1>2, <1>4
<1>8. /\ got.found.page = b.first /\ got.found.key = <<b.pages, b.first>>
      /\ got.found.key[1] = b.pages
  <2>1. got.found.page = b.first /\ got.found.key = <<b.pages, b.first>>
    BY <1>7 DEF EntryOf, FreeEntry, FreeKey
  <2> QED
    BY <2>1
<1>9. b \in A!Blocks /\ b.first \in Nat /\ b.pages \in Nat
  BY <1>2, BlocksTyped
<1>10. b.pages >= n
  BY <1>1, <1>4, <1>8, <1>9 DEF Below
<1>11. ASSUME NEW c \in X \ {b}, c.pages >= n PROVE A!Smaller(b, c)
  <2>1. c \in A!Blocks /\ c.first \in Nat /\ c.pages \in Nat /\ c.first # b.first
    BY <1>2, <1>9, <1>11, BlocksTyped
  <2>2. FreeEntry(c) \in Entries(free_tree) /\ FreeEntry(c) # EntryOf(got.found)
    BY <1>2, <1>7, <2>1 DEF FreeEntry
  <2>3. FreeEntry(c)[1] = <<c.pages, c.first>>
    BY DEF FreeEntry, FreeKey
  <2>4. Below(<<c.pages, c.first>>, <<n, 0>>) \/ Below(<<b.pages, b.first>>, <<c.pages, c.first>>)
    BY <1>1, <1>5, <1>8, <2>2, <2>3
  <2> QED
    BY <1>9, <1>11, <2>1, <2>4 DEF Below, A!Smaller
<1>12. A!BestFit(b, n)
  BY <1>10, <1>11 DEF A!BestFit, X
<1>13. Entries(got.rest) = {FreeEntry(c) : c \in X \ {b}}
  <2>1. {FreeEntry(c) : c \in X} \ {FreeEntry(b)} = {FreeEntry(c) : c \in X \ {b}}
    BY <1>2, OneEntryLess
  <2> QED
    BY <1>2, <1>6, <1>7, <2>1
<1> QED
  BY <1>4, <1>8, <1>12, <1>13 DEF X

LEMMA AllocTold ==
  ASSUME A!PagesAssumption, MemoryInv, NEW size \in Int, VmemAlloc(size)
  PROVE  MemoryInv' /\ \E n \in 1 .. num_pages : A!Alloc(n)
<1> DEFINE n == PagesFor(size)
           got == RemoveApprox(free_tree, FreeKey(n, 0))
<1>1. n \in Nat /\ n >= 1
  BY PagesAreAskedFor DEF VmemAlloc
<1>2. got.found # Null
  BY DEF VmemAlloc
<1>3. /\ alloc_tree' = Insert(alloc_tree, AllocKey(Address(got.found.page)), got.found.page)
      /\ n # got.found.key[1] =>
           /\ page_list' = Tagged(Tagged(page_list, got.found.page, n, 1),
                                  got.found.page + n, got.found.key[1] - n, 0)
           /\ free_tree' = Insert(got.rest, FreeKey(got.found.key[1] - n, got.found.page + n),
                                  got.found.page + n)
      /\ n = got.found.key[1] =>
           /\ page_list' = Tagged(page_list, got.found.page, n, 1)
           /\ free_tree' = got.rest
      /\ stuck' = BlockIsBad(got.found.page, got.found.key[1])
      /\ alloc_page_count' = alloc_page_count + n
      /\ free_page_count' = free_page_count - n
  BY DEF VmemAlloc
<1> HIDE DEF n
<1>4. PICK b \in FreeBlocks :
           /\ A!BestFit(b, n)
           /\ got.found.page = b.first /\ got.found.key[1] = b.pages
           /\ Good(got.rest) /\ Entries(got.rest) = {FreeEntry(c) : c \in FreeBlocks \ {b}}
  <2>1. got = RemoveApprox(free_tree, FreeKey(n, 0))
    OBVIOUS
  <2> HIDE DEF got
  <2> QED
    BY <1>1, <1>2, <2>1, BestFound
<1> HIDE DEF got
<1> DEFINE f == A!FrontOf(b, n)
           r == [first |-> b.first + n, pages |-> b.pages - n]
           less == FreeBlocks \ {b}
           X == IF b.pages = n THEN less ELSE less \cup {r}
           H == HeldBlocks \cup {f}
           l == Tagged(page_list, f.first, f.pages, 1)
<1>5. /\ IInv /\ ~stuck /\ Good(free_tree) /\ Good(alloc_tree)
      /\ Entries(free_tree) = {FreeEntry(c) : c \in FreeBlocks}
      /\ Entries(alloc_tree) = {HeldEntry(c) : c \in HeldBlocks}
  BY DEF MemoryInv
<1>6. Told
  <2>1. FreeEntry(b) \in Entries(free_tree)
    BY <1>5
  <2>2. free_tree # Null
    BY <2>1, NullFacts
  <2> QED
    BY <2>2 DEF MemoryInv, Exited
<1>7. b.pages >= n
  BY <1>4 DEF A!BestFit
<1>8. /\ b \in A!Blocks /\ b.first \in Nat /\ b.pages \in Nat /\ b.pages >= 1
      /\ A!After(b) = b.first + b.pages /\ A!After(b) <= num_pages /\ num_pages \in Nat
  BY <1>5, FreeIsFree, BlocksTyped
<1>9. r = [first |-> b.first + n, pages |-> b.pages - n] /\ f = A!FrontOf(b, n)
  OBVIOUS
<1>10. b \notin HeldBlocks /\ less \subseteq A!Blocks \ {b} /\ HeldBlocks \subseteq A!Blocks \ {b}
  BY <1>5 DEF IInv, Disjoint, A!Blocks
<1> HIDE DEF f, r, less
<1>11. /\ Inside(f) /\ f = [first |-> f.first, pages |-> f.pages]
       /\ f.first = b.first /\ f.pages = n
       /\ \A c \in A!Blocks \ {b} : Apart(f, c) /\ c.first # f.first
  BY <1>1, <1>5, <1>7, <1>9, Cut
<1>12. ASSUME b.pages # n
       PROVE  /\ Inside(r) /\ r = [first |-> r.first, pages |-> r.pages]
              /\ r.first = b.first + n /\ r.pages = b.pages - n
              /\ Apart(r, f) /\ r.first # f.first
              /\ \A c \in A!Blocks \ {b} : Apart(r, c) /\ c.first # r.first
  BY <1>1, <1>5, <1>7, <1>9, <1>12, Cut
<1>13. Retagged(page_list, f, 1, l)
  BY <1>6, <1>11 DEF Told, Retagged
<1>14. /\ alloc_tree' = Insert(alloc_tree, AllocKey(Address(f.first)), f.first)
       /\ b.pages # n => /\ page_list' = Tagged(l, r.first, r.pages, 0)
                         /\ free_tree' = Insert(got.rest, FreeKey(r.pages, r.first), r.first)
       /\ b.pages = n => page_list' = l /\ free_tree' = got.rest
  BY <1>3, <1>4, <1>11, <1>12
<1> HIDE DEF l
\* the trees
<1>15. Good(alloc_tree') /\ Entries(alloc_tree') = {HeldEntry(c) : c \in H}
  <2>1. HeldBlocks \in SUBSET A!Blocks /\ \A c \in HeldBlocks : c.first # f.first
    BY <1>10, <1>11
  <2>2. f.first \in Nat
    BY <1>8, <1>11
  <2>3. alloc_tree' = Insert(alloc_tree, AllocKey(Address(f.first)), f.first)
    BY <1>14
  <2> QED
    BY <1>5, <2>1, <2>2, <2>3, HeldInserted
<1>16. Good(free_tree') /\ Entries(free_tree') = {FreeEntry(c) : c \in X}
  <2>1. CASE b.pages = n
    BY <1>4, <1>14, <2>1 DEF less
  <2>2. CASE b.pages # n
    <3>1. less \in SUBSET A!Blocks /\ \A c \in less : c.first # r.first
      BY <1>10, <1>12, <2>2
    <3>2. r.first \in Nat /\ r.pages \in Nat
      BY <1>1, <1>7, <1>8, <1>12, <2>2
    <3>3. /\ free_tree' = Insert(got.rest, FreeKey(r.pages, r.first), r.first)
          /\ Good(got.rest) /\ Entries(got.rest) = {FreeEntry(c) : c \in less}
      BY <1>4, <1>14, <2>2 DEF less
    <3>4. Good(free_tree') /\ Entries(free_tree') = {FreeEntry(c) : c \in less \cup {r}}
      BY <1>5, <3>1, <3>2, <3>3, FreeInserted
    <3> QED
      BY <2>2, <3>4
  <2> QED
    BY <2>1, <2>2
<1>23. /\ A!PagesOf(f) \subseteq A!PagesOf(b)
       /\ b.pages # n => \A p \in A!PagesOf(r) : p \in A!PagesOf(b) /\ p \notin A!PagesOf(f)
  <2>1. A!PagesOf(b) = b.first .. A!After(b) - 1
    BY DEF A!PagesOf
  <2>2. A!PagesOf(f) = f.first .. A!After(f) - 1 /\ A!After(f) = f.first + f.pages
    BY DEF A!PagesOf, A!After
  <2>3. A!PagesOf(r) = r.first .. A!After(r) - 1 /\ A!After(r) = r.first + r.pages
    BY DEF A!PagesOf, A!After
  <2>4. A!PagesOf(f) \subseteq A!PagesOf(b)
    BY <1>1, <1>7, <1>8, <1>11, <2>1, <2>2
  <2>5. ASSUME b.pages # n, NEW p \in A!PagesOf(r)
        PROVE  p \in A!PagesOf(b) /\ p \notin A!PagesOf(f)
    BY <1>1, <1>7, <1>8, <1>11, <1>12, <2>1, <2>2, <2>3, <2>5
  <2> QED
    BY <2>4, <2>5
<1>24. A!PagesOf(b) \subseteq UsedPages(page_list, 0)
  <2>1. IsTagged(page_list, b, 0) /\ DOMAIN page_list = A!PageNumbers
    BY <1>6 DEF Told
  <2>2. A!PagesOf(b) \subseteq A!PageNumbers
    BY <1>8 DEF A!PagesOf, A!PageNumbers
  <2> QED
    BY <2>1, <2>2 DEF IsTagged, UsedPages
<1>25. A!PagesOf(b) \cap UsedPages(page_list, 1) = {}
  BY <1>24 DEF UsedPages
\* the tags
<1>17. \A c \in HeldBlocks : Inside(c) /\ IsTagged(page_list, c, 1) /\ Apart(f, c)
  BY <1>5, <1>6, <1>10, <1>11, BlocksTyped DEF Told
<1>18. \A c \in less : Inside(c) /\ IsTagged(page_list, c, 0) /\ Apart(f, c)
  BY <1>5, <1>6, <1>10, <1>11, BlocksTyped DEF Told, less
<1>19. /\ DOMAIN l = A!PageNumbers /\ IsTagged(l, f, 1)
       /\ \A c \in HeldBlocks : IsTagged(l, c, 1)
       /\ \A c \in less : IsTagged(l, c, 0)
  BY <1>13, <1>17, <1>18, TagFacts
<1>20. /\ UsedPages(l, 1) = UsedPages(page_list, 1) \cup A!PagesOf(f)
       /\ UsedPages(l, 0) = UsedPages(page_list, 0) \ A!PagesOf(f)
  <2>1. UsedPages(l, 1) = UsedPages(page_list, 1) \cup A!PagesOf(f)
    BY <1>13, TagUsed
  <2>2. UsedPages(l, 0) = UsedPages(page_list, 0) \ A!PagesOf(f)
    BY <1>13, TagOthers
  <2> QED
    BY <2>1, <2>2
<1>21. /\ DOMAIN page_list' = A!PageNumbers
       /\ \A c \in H : IsTagged(page_list', c, 1)
       /\ \A c \in X : IsTagged(page_list', c, 0)
       /\ UsedPages(page_list', 1) = UsedPages(page_list, 1) \cup A!PagesOf(f)
       /\ UsedPages(page_list', 0) = UsedPages(page_list, 0) \ A!PagesOf(f)
  <2>1. CASE b.pages = n
    BY <1>14, <1>19, <1>20, <2>1
  <2>2. CASE b.pages # n
    <3>1. Retagged(l, r, 0, page_list')
      BY <1>12, <1>14, <1>19, <2>2 DEF Retagged
    <3>2. DOMAIN page_list' = A!PageNumbers /\ IsTagged(page_list', r, 0)
      BY <3>1, TagFacts
    <3>3. ASSUME NEW c \in H PROVE IsTagged(page_list', c, 1)
      <4>1. Inside(c) /\ Apart(r, c) /\ IsTagged(l, c, 1)
        BY <1>10, <1>11, <1>12, <1>17, <1>19, <2>2, <3>3
      <4> QED
        BY <3>1, <4>1, TagFacts
    <3>4. ASSUME NEW c \in less PROVE IsTagged(page_list', c, 0)
      <4>1. Inside(c) /\ Apart(r, c) /\ IsTagged(l, c, 0)
        BY <1>10, <1>12, <1>18, <1>19, <2>2, <3>4
      <4> QED
        BY <3>1, <4>1, TagFacts
    <3>5. /\ UsedPages(page_list', 0) = UsedPages(l, 0) \cup A!PagesOf(r)
          /\ UsedPages(page_list', 1) = UsedPages(l, 1) \ A!PagesOf(r)
      <4>1. UsedPages(page_list', 0) = UsedPages(l, 0) \cup A!PagesOf(r)
        BY <3>1, TagUsed
      <4>2. UsedPages(page_list', 1) = UsedPages(l, 1) \ A!PagesOf(r)
        BY <3>1, TagOthers
      <4> QED
        BY <4>1, <4>2
    \* the rest was free before
    <3>6. \A p \in A!PagesOf(r) : p \in UsedPages(page_list, 0) /\ p \notin A!PagesOf(f)
      BY <1>23, <1>24, <2>2
    <3>7. \A p : p \in UsedPages(page_list, 0) => p \notin UsedPages(page_list, 1)
      BY DEF UsedPages
    <3> QED
      BY <1>20, <2>2, <3>2, <3>3, <3>4, <3>5, <3>6, <3>7
  <2> QED
    BY <2>1, <2>2
\* the blocks
<1>26. \A c \in A!Blocks : c = [first |-> c.first, pages |-> c.pages]
  BY <1>5, BlocksTyped
<1>27. /\ \A c \in H : c = [first |-> c.first, pages |-> c.pages]
       /\ \A c \in X : c = [first |-> c.first, pages |-> c.pages]
  <2>1. \A c \in H : c = [first |-> c.first, pages |-> c.pages]
    BY <1>10, <1>11, <1>26
  <2>2. \A c \in X : c = [first |-> c.first, pages |-> c.pages]
    BY <1>10, <1>12, <1>26
  <2> QED
    BY <2>1, <2>2
<1>28. FreeBlocks' = X /\ HeldBlocks' = H
  <2> HIDE DEF X, H
  <2>1. {[first |-> m.page, pages |-> m.key[1]] : m \in NodesOf(free_tree')} = X
    BY <1>16, <1>27, FreeBlocksAre
  <2>2. {[first |-> m.page, pages |-> page_list'[m.page].alloc_pages] : m \in NodesOf(alloc_tree')} = H
    <3> DEFINE list == page_list'
    <3>1. /\ \A c \in H : c = [first |-> c.first, pages |-> c.pages]
          /\ \A c \in H : IsTagged(list, c, 1)
          /\ Entries(alloc_tree') = {HeldEntry(c) : c \in H}
      BY <1>15, <1>21, <1>27
    <3> HIDE DEF list
    <3>2. {[first |-> m.page, pages |-> list[m.page].alloc_pages] : m \in NodesOf(alloc_tree')} = H
      BY <3>1, HeldBlocksAre
    <3> QED
      BY <3>2 DEF list
  <2> QED
    BY <2>1, <2>2 DEF FreeBlocks, HeldBlocks
<1>29. n \in 1 .. num_pages
  BY <1>1, <1>7, <1>8
<1>30. A!Alloc(n)
  <2>1. X = (FreeBlocks \ {b}) \cup A!RestOf(b, n)
    BY DEF less, r, A!RestOf
  <2>2. H = HeldBlocks \cup {A!FrontOf(b, n)}
    BY DEF f
  <2> QED
    BY <1>4, <1>28, <2>1, <2>2 DEF A!Alloc
<1>31. IInv'
  BY <1>5, <1>29, <1>30, AllocKeeps
<1>32. ~stuck'
  <2>1. ~BlockIsBad(b.first, b.pages)
    BY <1>8 DEF BlockIsBad
  <2> QED
    BY <1>3, <1>4, <2>1
\* the counts
<1>33. /\ free_page_count' = Cardinality(UsedPages(page_list', 0))
       /\ alloc_page_count' = Cardinality(UsedPages(page_list', 1))
  <2> DEFINE S == UsedPages(page_list, 0)
             U == UsedPages(page_list, 1)
             P == A!PagesOf(f)
  <2>1. S \in SUBSET A!PageNumbers /\ U \in SUBSET A!PageNumbers
    BY <1>6 DEF Told, UsedPages
  <2>2. P \subseteq S /\ P \cap U = {}
    BY <1>23, <1>24, <1>25
  <2>3. free_page_count = Cardinality(S) /\ alloc_page_count = Cardinality(U)
    BY <1>6 DEF Told
  <2>4. UsedPages(page_list', 0) = S \ P /\ UsedPages(page_list', 1) = U \cup P
    BY <1>21
  <2> HIDE DEF S, U
  <2>5. Cardinality(S \ P) = Cardinality(S) - f.pages
    BY <1>11, <2>1, <2>2, Counting
  <2>6. Cardinality(U \cup P) = Cardinality(U) + f.pages
    BY <1>11, <2>1, <2>2, Counting
  <2> HIDE DEF P
  <2> QED
    BY <1>3, <1>11, <2>3, <2>4, <2>5, <2>6
<1>34. Told'
  BY <1>21, <1>28, <1>33 DEF Told
<1>35. MemoryInv'
  <2>1. /\ Entries(free_tree') = {FreeEntry(c) : c \in FreeBlocks'}
        /\ Entries(alloc_tree') = {HeldEntry(c) : c \in HeldBlocks'}
    BY <1>15, <1>16, <1>28
  <2> QED
    BY <1>15, <1>16, <1>31, <1>32, <1>34, <2>1 DEF MemoryInv
<1> QED
  BY <1>29, <1>30, <1>35

(***************************************************************************)
(* Giving back.  The tags beside a block show the free blocks beside it.   *)
(***************************************************************************)
LEMMA TheOne == \A x : The({x}) = x
BY DEF The

\* A page whose flag says that it is free lies in a free block.
LEMMA FreePageIn ==
  ASSUME IInv, Told, A!Blocks # {}, NEW p \in A!PageNumbers, page_list[p].used = 0
  PROVE  \E c \in FreeBlocks : p \in A!PagesOf(c)
<1>1. PICK c \in A!Blocks : p \in A!PagesOf(c)
  BY DEF IInv, Covered
<1>2. c \notin HeldBlocks
  BY <1>1 DEF Told, IsTagged
<1> QED
  BY <1>1, <1>2 DEF A!Blocks

\* The free blocks that end where b begins, and those that begin where it ends.
Ending(b) == {c \in FreeBlocks : A!After(c) = b.first}
Following(b) == {c \in FreeBlocks : c.first = A!After(b)}

\* What the pages beside the block tell of them.
Shown(C, firsts) == \/ C = {} /\ firsts = {}
                    \/ \E c \in C : C = {c} /\ firsts = {c.first}

LEMMA BeforeShown ==
  ASSUME A!PagesAssumption, IInv, Told, NEW b \in HeldBlocks
  PROVE  Shown(Ending(b), FreeBefore(b.first))
<1> DEFINE p == b.first - 1
<1>1. b \in A!Blocks /\ b \notin FreeBlocks
  BY HeldIsHeld DEF IInv, Disjoint
<1>2. /\ b.first \in Nat /\ b.pages \in Nat /\ b.pages >= 1
      /\ A!After(b) = b.first + b.pages /\ A!After(b) <= num_pages /\ num_pages \in Nat
  BY <1>1, BlocksTyped
<1>3. \A c \in FreeBlocks :
        /\ c.first \in Nat /\ c.pages \in Nat /\ c.pages >= 1 /\ A!After(c) = c.first + c.pages
        /\ A!After(c) <= b.first \/ A!After(b) <= c.first
        /\ IsTagged(page_list, c, 0) /\ A!PagesOf(c) = c.first .. A!After(c) - 1
  <2> TAKE c \in FreeBlocks
  <2>1. c \in A!Blocks /\ c # b
    BY <1>1, FreeIsFree
  <2>2. /\ c.first \in Nat /\ c.pages \in Nat /\ c.pages >= 1 /\ A!After(c) = c.first + c.pages
        /\ Apart(b, c)
    BY <1>1, <2>1, BlocksTyped
  <2>3. IsTagged(page_list, c, 0) /\ A!PagesOf(c) = c.first .. A!After(c) - 1
    BY DEF Told, A!PagesOf
  <2> QED
    BY <2>2, <2>3 DEF Apart
<1>4. ASSUME NEW c \in Ending(b)
      PROVE  /\ b.first > 0 /\ page_list[p].used = 0 /\ page_list[p].first_pageno = c.first
             /\ p \in A!PagesOf(c)
  <2>1. c \in FreeBlocks /\ A!After(c) = b.first
    BY <1>4 DEF Ending
  <2>2. b.first > 0 /\ p = c.first + c.pages - 1 /\ p \in c.first .. A!After(c) - 1
    BY <1>2, <1>3, <2>1
  <2> HIDE DEF p
  <2> QED
    BY <1>3, <2>1, <2>2 DEF IsTagged
<1>5. ASSUME b.first > 0, page_list[p].used = 0
      PROVE  \E c \in Ending(b) : TRUE
  <2>1. p \in A!PageNumbers
    BY <1>2, <1>5 DEF A!PageNumbers
  <2>2. PICK c \in FreeBlocks : p \in A!PagesOf(c)
    <3> HIDE DEF p
    <3> QED
      BY <1>1, <1>5, <2>1, FreePageIn
  <2>3. A!After(c) = b.first
    <3>1. p \in c.first .. A!After(c) - 1
      BY <1>3, <2>2
    <3>2. /\ c.first \in Nat /\ c.pages \in Nat /\ A!After(c) = c.first + c.pages
          /\ A!After(c) <= b.first \/ A!After(b) <= c.first
      BY <1>3
    <3> QED
      BY <1>2, <3>1, <3>2
  <2> QED
    BY <2>3 DEF Ending
<1>6. ASSUME NEW c \in Ending(b), NEW d \in Ending(b) PROVE c = d
  <2>1. c.first = d.first
    BY <1>4, <1>6
  <2>2. c \in A!Blocks /\ d \in A!Blocks
    BY FreeIsFree DEF Ending
  <2> QED
    BY <2>1, <2>2, BlocksTyped
<1>7. CASE Ending(b) = {}
  <2>1. FreeBefore(b.first) = {}
    BY <1>5, <1>7 DEF FreeBefore
  <2> QED
    BY <1>7, <2>1 DEF Shown
<1>8. CASE Ending(b) # {}
  <2>1. PICK c \in Ending(b) : TRUE
    BY <1>8
  <2>2. Ending(b) = {c}
    BY <1>6
  <2>3. FreeBefore(b.first) = {c.first}
    BY <1>4 DEF FreeBefore
  <2> QED
    BY <2>2, <2>3 DEF Shown
<1> QED
  BY <1>7, <1>8

LEMMA AfterShown ==
  ASSUME A!PagesAssumption, IInv, Told, NEW b \in HeldBlocks
  PROVE  Shown(Following(b), FreeAfter(b.first))
<1> DEFINE p == A!After(b)
<1>1. b \in A!Blocks /\ b \notin FreeBlocks /\ page_list[b.first].alloc_pages = b.pages
  BY HeldIsHeld DEF IInv, Disjoint, Told, IsTagged
<1>2. /\ b.first \in Nat /\ b.pages \in Nat /\ b.pages >= 1
      /\ A!After(b) = b.first + b.pages /\ A!After(b) <= num_pages /\ num_pages \in Nat
  BY <1>1, BlocksTyped
<1>3. \A c \in FreeBlocks :
        /\ c.first \in Nat /\ c.pages \in Nat /\ c.pages >= 1 /\ A!After(c) = c.first + c.pages
        /\ A!After(c) <= num_pages /\ (A!After(c) <= b.first \/ A!After(b) <= c.first)
        /\ IsTagged(page_list, c, 0) /\ A!PagesOf(c) = c.first .. A!After(c) - 1
  <2> TAKE c \in FreeBlocks
  <2>1. c \in A!Blocks /\ c # b
    BY <1>1, FreeIsFree
  <2>2. /\ c.first \in Nat /\ c.pages \in Nat /\ c.pages >= 1 /\ A!After(c) = c.first + c.pages
        /\ A!After(c) <= num_pages /\ Apart(b, c)
    BY <1>1, <2>1, BlocksTyped
  <2>3. IsTagged(page_list, c, 0) /\ A!PagesOf(c) = c.first .. A!After(c) - 1
    BY DEF Told, A!PagesOf
  <2> QED
    BY <2>2, <2>3 DEF Apart
<1>4. ASSUME NEW c \in Following(b)
      PROVE  p # num_pages /\ page_list[p].used = 0 /\ c.first = p
  <2>1. c \in FreeBlocks /\ c.first = p
    BY <1>4 DEF Following
  <2>2. p # num_pages /\ p \in A!PagesOf(c)
    BY <1>2, <1>3, <2>1
  <2> HIDE DEF p
  <2> QED
    BY <1>3, <2>1, <2>2 DEF IsTagged
<1>5. ASSUME p # num_pages, page_list[p].used = 0
      PROVE  \E c \in Following(b) : TRUE
  <2>1. p \in A!PageNumbers
    BY <1>2, <1>5 DEF A!PageNumbers
  <2>2. PICK c \in FreeBlocks : p \in A!PagesOf(c)
    <3> HIDE DEF p
    <3> QED
      BY <1>1, <1>5, <2>1, FreePageIn
  <2>3. c.first = A!After(b)
    <3>1. p \in c.first .. A!After(c) - 1
      BY <1>3, <2>2
    <3>2. /\ c.first \in Nat /\ c.pages \in Nat /\ A!After(c) = c.first + c.pages
          /\ A!After(c) <= b.first \/ A!After(b) <= c.first
      BY <1>3
    <3> QED
      BY <1>2, <3>1, <3>2
  <2> QED
    BY <2>3 DEF Following
<1>6. ASSUME NEW c \in Following(b), NEW d \in Following(b) PROVE c = d
  <2>1. c.first = d.first
    BY <1>4, <1>6
  <2>2. c \in A!Blocks /\ d \in A!Blocks
    BY FreeIsFree DEF Following
  <2> QED
    BY <2>1, <2>2, BlocksTyped
<1>7. FreeAfter(b.first) = IF p # num_pages /\ page_list[p].used = 0 THEN {p} ELSE {}
  BY <1>1, <1>2 DEF FreeAfter
<1> HIDE DEF p
<1>8. CASE Following(b) = {}
  <2>1. FreeAfter(b.first) = {}
    BY <1>5, <1>7, <1>8
  <2> QED
    BY <1>8, <2>1 DEF Shown
<1>9. CASE Following(b) # {}
  <2>1. PICK c \in Following(b) : TRUE
    BY <1>9
  <2>2. Following(b) = {c}
    BY <1>6
  <2>3. FreeAfter(b.first) = {c.first}
    BY <1>4, <1>7
  <2> QED
    BY <2>2, <2>3 DEF Shown
<1> QED
  BY <1>8, <1>9

\* The tree of the free blocks X.
Lists(t, X) == Good(t) /\ Entries(t) = {FreeEntry(c) : c \in X}

\* Their nodes are found and taken out.
LEMMA ShownUnlisted ==
  ASSUME A!PagesAssumption, IInv, Told, NEW C \in SUBSET FreeBlocks, NEW firsts, Shown(C, firsts),
         NEW X \in SUBSET FreeBlocks, C \subseteq X,
         NEW t, Lists(t, X), NEW u, u = Unlisted(t, firsts)
  PROVE  ~u.missing /\ Lists(u.rest, X \ C)
<1>1. CASE C = {} /\ firsts = {}
  <2>1. u = [rest |-> t, missing |-> FALSE]
    BY <1>1 DEF Unlisted
  <2>2. u.rest = t /\ ~u.missing
    BY <2>1
  <2>3. X \ C = X
    BY <1>1
  <2> QED
    BY <2>2, <2>3
<1>2. ASSUME NEW c \in C, C = {c}, firsts = {c.first}
      PROVE  ~u.missing /\ Lists(u.rest, X \ C)
  <2>1. The(firsts) = c.first /\ Length(firsts) = c.pages /\ firsts # {}
    BY <1>2, TheOne DEF Length, Told, IsTagged
  <2> DEFINE out == Remove(t, FreeKey(c.pages, c.first))
  <2>2. u = [rest |-> out.rest, missing |-> out.found = Null]
    BY <2>1 DEF Unlisted
  <2>3. /\ X \in SUBSET A!Blocks /\ c \in X
        /\ Good(t) /\ Entries(t) = {FreeEntry(d) : d \in X}
    BY <1>2, FreeIsFree DEF Lists
  <2>4. out = Remove(t, FreeKey(c.pages, c.first))
    OBVIOUS
  <2> HIDE DEF out
  <2>5. /\ out.found # Null /\ Good(out.rest)
        /\ Entries(out.rest) = {FreeEntry(d) : d \in X \ {c}}
    <3>1. out.found # Null
      BY <2>3, <2>4, FreeRemoved
    <3>2. Good(out.rest)
      BY <2>3, <2>4, FreeRemoved
    <3>3. Entries(out.rest) = {FreeEntry(d) : d \in X \ {c}}
      BY <2>3, <2>4, FreeRemoved
    <3> QED
      BY <3>1, <3>2, <3>3
  <2>6. u.rest = out.rest /\ u.missing = (out.found = Null)
    BY <2>2
  <2> QED
    BY <1>2, <2>5, <2>6 DEF Lists
<1> QED
  BY <1>1, <1>2 DEF Shown

LEMMA ShownLength ==
  ASSUME Told, NEW C \in SUBSET FreeBlocks, NEW firsts, Shown(C, firsts)
  PROVE  /\ C = {} => firsts = {} /\ Length(firsts) = 0
         /\ \A c \in C : C = {c} /\ firsts # {} /\ The(firsts) = c.first /\ Length(firsts) = c.pages
<1>1. CASE C = {} /\ firsts = {}
  BY <1>1 DEF Length
<1>2. ASSUME NEW c \in C, C = {c}, firsts = {c.first}
      PROVE  firsts # {} /\ The(firsts) = c.first /\ Length(firsts) = c.pages
  BY <1>2, TheOne DEF Length, Told, IsTagged
<1> QED
  BY <1>1, <1>2 DEF Shown

\* Where the joined block begins and how long it is.
Joint(b, first, n) ==
  /\ Ending(b) = {} => first = b.first
  /\ \A c \in Ending(b) : first = c.first
  /\ Ending(b) = {} /\ Following(b) = {} => n = b.pages
  /\ \A c \in Ending(b) : Following(b) = {} => n = c.pages + b.pages
  /\ \A d \in Following(b) : Ending(b) = {} => n = b.pages + d.pages
  /\ \A c \in Ending(b), d \in Following(b) : n = c.pages + b.pages + d.pages

LEMMA JointIsJoin ==
  ASSUME A!PagesAssumption, IInv, NEW b \in HeldBlocks, NEW first, NEW n, Joint(b, first, n),
         NEW j, j = [first |-> first, pages |-> n]
  PROVE  /\ j \in A!Block /\ A!IsJoin(j, b) /\ A!Beside(b) = Ending(b) \cup Following(b)
         /\ \A p \in A!PagesOf(j) : p \in A!PagesOf(b) \/ \E c \in A!Beside(b) : p \in A!PagesOf(c)
         /\ A!PagesOf(b) \subseteq A!PagesOf(j)
         /\ j.first = first /\ j.pages = n /\ j = [first |-> j.first, pages |-> j.pages]
<1>1. /\ b.first \in Nat /\ b.pages \in Nat /\ b.pages >= 1
      /\ A!After(b) = b.first + b.pages /\ A!After(b) <= num_pages /\ num_pages \in Nat
  BY HeldIsHeld, BlocksTyped
<1>2. A!Beside(b) = Ending(b) \cup Following(b)
  BY DEF A!Beside, Ending, Following
<1>3. \A c \in A!Beside(b) :
        /\ c \in FreeBlocks /\ c.first \in Nat /\ c.pages \in Nat /\ c.pages >= 1
        /\ A!After(c) = c.first + c.pages /\ A!After(c) <= num_pages
        /\ c \in Ending(b) => A!After(c) = b.first
        /\ c \in Following(b) => c.first = A!After(b)
  BY FreeIsFree, BlocksTyped DEF A!Beside, Ending, Following
<1>4. \A c : A!PagesOf(c) = c.first .. A!After(c) - 1
  BY DEF A!PagesOf
<1>5. j.first = first /\ j.pages = n /\ A!After(j) = first + n /\ j = [first |-> j.first, pages |-> j.pages]
  BY DEF A!After
<1> DEFINE Result == /\ first \in Nat /\ n \in Nat /\ first <= b.first /\ A!After(b) <= first + n
                     /\ first + n <= num_pages
                     /\ first = b.first \/ \E c \in Ending(b) : first = c.first
                     /\ first + n = A!After(b) \/ \E d \in Following(b) : first + n = A!After(d)
<1>6. Result
  <2>1. CASE Ending(b) = {} /\ Following(b) = {}
    BY <1>1, <2>1 DEF Joint
  <2>2. ASSUME NEW c \in Ending(b), Following(b) = {} PROVE Result
    <3>1. first = c.first /\ n = c.pages + b.pages
      BY <2>2 DEF Joint
    <3> QED
      BY <1>1, <1>2, <1>3, <2>2, <3>1
  <2>3. ASSUME NEW d \in Following(b), Ending(b) = {} PROVE Result
    <3>1. first = b.first /\ n = b.pages + d.pages
      BY <2>3 DEF Joint
    <3> QED
      BY <1>1, <1>2, <1>3, <2>3, <3>1
  <2>4. ASSUME NEW c \in Ending(b), NEW d \in Following(b) PROVE Result
    <3>1. first = c.first /\ n = c.pages + b.pages + d.pages
      BY <2>4 DEF Joint
    <3> QED
      BY <1>1, <1>2, <1>3, <2>4, <3>1
  <2> QED
    BY <2>1, <2>2, <2>3, <2>4
<1>7. j \in A!Block
  BY <1>1, <1>5, <1>6 DEF A!Block, A!PageNumbers
<1>8. ASSUME NEW c \in A!Beside(b) PROVE A!PagesOf(c) \subseteq A!PagesOf(j)
  <2>1. CASE c \in Ending(b)
    <3>1. first = c.first /\ A!After(c) = b.first
      BY <1>3, <2>1 DEF Joint
    <3>2. A!After(c) \in Nat /\ A!After(c) <= A!After(j)
      <4>1. first + n \in Nat /\ A!After(b) <= first + n
        BY ONLY <1>6
      <4> QED
        BY ONLY <1>1, <1>5, <3>1, <4>1
    <3>3. j.first = c.first /\ A!After(j) \in Nat /\ c.first \in Nat
      BY ONLY <1>3, <1>5, <1>6, <3>1, c \in A!Beside(b)
    <3> QED
      BY ONLY <1>4, <3>2, <3>3
  <2>2. CASE c \in Following(b)
    <3>1. c.first = A!After(b) /\ first + n = A!After(c)
      <4>1. CASE Ending(b) = {}
        <5>1. first = b.first /\ n = b.pages + c.pages
          BY <2>2, <4>1 DEF Joint
        <5> QED
          BY <1>1, <1>3, <2>2, <5>1
      <4>2. ASSUME NEW e \in Ending(b)
            PROVE  c.first = A!After(b) /\ first + n = A!After(c)
        <5>1. first = e.first /\ n = e.pages + b.pages + c.pages
          BY <2>2, <4>2 DEF Joint
        <5> QED
          BY <1>1, <1>2, <1>3, <2>2, <4>2, <5>1
      <4> QED
        BY <4>1, <4>2
    <3> QED
      BY <1>1, <1>3, <1>4, <1>5, <1>6, <3>1
  <2> QED
    BY <1>2, <2>1, <2>2
<1>9. A!IsJoin(j, b)
  <2>1. j.first = b.first \/ \E c \in FreeBlocks : A!After(c) = b.first /\ j.first = c.first
    BY <1>5, <1>6 DEF Ending
  <2>2. A!After(j) = A!After(b) \/ \E c \in FreeBlocks : c.first = A!After(b) /\ A!After(j) = A!After(c)
    BY <1>5, <1>6 DEF Following
  <2> QED
    BY <1>8, <2>1, <2>2 DEF A!IsJoin
<1>10. ASSUME NEW p \in A!PagesOf(j)
       PROVE  p \in A!PagesOf(b) \/ \E c \in A!Beside(b) : p \in A!PagesOf(c)
  <2>1. p \in Int /\ first <= p /\ p < first + n
    BY <1>4, <1>5, <1>6, <1>10
  <2>2. CASE p < b.first
    <3>1. PICK c \in Ending(b) : first = c.first
      BY <1>1, <1>6, <2>1, <2>2
    <3>2. p \in A!PagesOf(c) /\ c \in A!Beside(b)
      BY <1>1, <1>2, <1>3, <1>4, <2>1, <2>2, <3>1
    <3> QED
      BY <3>2
  <2>3. CASE p >= A!After(b)
    <3>1. PICK d \in Following(b) : first + n = A!After(d)
      BY <1>1, <1>6, <2>1, <2>3
    <3>2. p \in A!PagesOf(d) /\ d \in A!Beside(b)
      BY <1>1, <1>2, <1>3, <1>4, <2>1, <2>3, <3>1
    <3> QED
      BY <3>2
  <2>4. CASE b.first <= p /\ p < A!After(b)
    BY <1>1, <1>4, <2>1, <2>4
  <2> QED
    BY <1>1, <2>1, <2>2, <2>3, <2>4
<1>11. A!PagesOf(b) \subseteq A!PagesOf(j)
  BY <1>1, <1>4, <1>5, <1>6
<1> QED
  BY <1>2, <1>5, <1>7, <1>9, <1>10, <1>11

LEMMA JointFound ==
  ASSUME A!PagesAssumption, IInv, Told, NEW b \in HeldBlocks,
         NEW before, before = FreeBefore(b.first), NEW after, after = FreeAfter(b.first)
  PROVE  Joint(b, IF before = {} THEN b.first ELSE The(before),
               Length(before) + Length({b.first}) + Length(after))
<1> DEFINE first == IF before = {} THEN b.first ELSE The(before)
           n == Length(before) + Length({b.first}) + Length(after)
           E == Ending(b)
           F == Following(b)
<1>1. Shown(E, before) /\ Shown(F, after)
  BY BeforeShown, AfterShown
<1>2. E \in SUBSET FreeBlocks /\ F \in SUBSET FreeBlocks
  BY DEF Ending, Following
<1>3. Length({b.first}) = b.pages
  BY TheOne DEF Length, Told, IsTagged
<1>4. /\ b.pages \in Nat
      /\ \A c \in E \cup F : c.pages \in Nat
  BY HeldIsHeld, FreeIsFree, BlocksTyped DEF Ending, Following
<1> HIDE DEF E, F
<1>5. /\ E = {} => before = {} /\ Length(before) = 0
      /\ \A c \in E : before # {} /\ The(before) = c.first /\ Length(before) = c.pages
  BY <1>1, <1>2, ShownLength
<1>6. /\ F = {} => after = {} /\ Length(after) = 0
      /\ \A c \in F : Length(after) = c.pages
  BY <1>1, <1>2, ShownLength
<1>7. /\ E = {} => first = b.first
      /\ \A c \in E : first = c.first
  BY <1>5
<1>8. /\ E = {} /\ F = {} => n = b.pages
      /\ \A c \in E : F = {} => n = c.pages + b.pages
      /\ \A d \in F : E = {} => n = b.pages + d.pages
      /\ \A c \in E, d \in F : n = c.pages + b.pages + d.pages
  <2> DEFINE x == Length(before)
             y == Length({b.first})
             z == Length(after)
  <2>1. /\ n = x + y + z /\ y = b.pages
        /\ E = {} => x = 0
        /\ F = {} => z = 0
        /\ \A c \in E : x = c.pages
        /\ \A c \in F : z = c.pages
    BY <1>3, <1>5, <1>6
  <2> HIDE DEF n, x, y, z
  <2>2. E = {} /\ F = {} => n = b.pages
    BY <1>4, <2>1
  <2>3. ASSUME NEW c \in E, F = {} PROVE n = c.pages + b.pages
    BY <1>4, <2>1, <2>3
  <2>4. ASSUME NEW d \in F, E = {} PROVE n = b.pages + d.pages
    BY <1>4, <2>1, <2>4
  <2>5. ASSUME NEW c \in E, NEW d \in F PROVE n = c.pages + b.pages + d.pages
    BY <1>4, <2>1, <2>5
  <2> QED
    BY <2>2, <2>3, <2>4, <2>5
<1> HIDE DEF first, n
<1>9. Joint(b, first, n)
  BY <1>7, <1>8 DEF Joint, E, F
<1> QED
  BY <1>9 DEF first, n

LEMMA FreeTold ==
  ASSUME A!PagesAssumption, MemoryInv, NEW ptr \in Nat, VmemFree(ptr)
  PROVE  MemoryInv' /\ \E b \in HeldBlocks : A!GiveBack(b)
<1> DEFINE out == Remove(alloc_tree, AllocKey(ptr))
           pageno == out.found.page
           before == FreeBefore(pageno)
           after == FreeAfter(pageno)
           first == Unlisted(free_tree, before)
           second == Unlisted(first.rest, after)
           start == IF before = {} THEN pageno ELSE The(before)
           npages == Length(before) + Length({pageno}) + Length(after)
<1>1. /\ out.found # Null /\ alloc_tree' = out.rest
      /\ page_list' = Tagged(page_list, start, npages, 0)
      /\ free_tree' = Insert(second.rest, FreeKey(npages, start), start)
      /\ stuck' = (first.missing \/ second.missing \/ BlockIsBad(start, npages))
      /\ alloc_page_count' = alloc_page_count - Length({pageno})
      /\ free_page_count' = free_page_count + Length({pageno})
  BY DEF VmemFree
<1>2. /\ IInv /\ Good(free_tree) /\ Good(alloc_tree)
      /\ Entries(free_tree) = {FreeEntry(c) : c \in FreeBlocks}
      /\ Entries(alloc_tree) = {HeldEntry(c) : c \in HeldBlocks}
      /\ FreeBlocks \in SUBSET A!Blocks /\ HeldBlocks \in SUBSET A!Blocks
  BY FreeIsFree, HeldIsHeld DEF MemoryInv
<1>3. PICK b \in HeldBlocks :
        /\ pageno = b.first /\ Good(out.rest)
        /\ Entries(out.rest) = {HeldEntry(c) : c \in HeldBlocks \ {b}}
  <2>1. out = Remove(alloc_tree, AllocKey(ptr))
    OBVIOUS
  <2>2. out.found # Null
    BY <1>1
  <2> HIDE DEF out
  <2> DEFINE Y == HeldBlocks
  <2>3. /\ Good(alloc_tree) /\ Entries(alloc_tree) = {HeldEntry(c) : c \in Y} /\ IInv
        /\ Y \in SUBSET A!Blocks
    BY <1>2
  <2> HIDE DEF Y
  <2>4. \E b \in Y : /\ out.found.page = b.first /\ Good(out.rest)
                    /\ Entries(out.rest) = {HeldEntry(c) : c \in Y \ {b}}
    BY <2>1, <2>2, <2>3, HeldRemoved
  <2> QED
    BY <2>4 DEF Y
<1> HIDE DEF out
<1>4. Told
  <2>1. HeldEntry(b) \in Entries(alloc_tree)
    BY <1>2
  <2>2. alloc_tree # Null
    BY <2>1, NullFacts
  <2> QED
    BY <2>2 DEF MemoryInv, Exited
<1>5. before = FreeBefore(b.first) /\ after = FreeAfter(b.first)
  BY <1>3
<1>6. first = Unlisted(free_tree, before) /\ second = Unlisted(first.rest, after)
  OBVIOUS
<1>7. /\ start = (IF before = {} THEN b.first ELSE The(before))
      /\ npages = Length(before) + Length({b.first}) + Length(after)
  BY <1>3
<1>8. Length({pageno}) = b.pages
  BY <1>3, <1>4, TheOne DEF Length, Told, IsTagged
<1> HIDE DEF pageno, before, after, start, npages, first, second
<1>9. Shown(Ending(b), before) /\ Shown(Following(b), after)
  BY <1>2, <1>4, <1>5, BeforeShown, AfterShown
<1>10. Joint(b, start, npages)
  BY <1>2, <1>4, <1>5, <1>7, JointFound
<1> DEFINE j == [first |-> start, pages |-> npages]
           X == FreeBlocks \ A!Beside(b)
           H == HeldBlocks \ {b}
<1>11. /\ j \in A!Block /\ A!IsJoin(j, b) /\ A!Beside(b) = Ending(b) \cup Following(b)
       /\ \A p \in A!PagesOf(j) : p \in A!PagesOf(b) \/ \E c \in A!Beside(b) : p \in A!PagesOf(c)
       /\ A!PagesOf(b) \subseteq A!PagesOf(j)
       /\ j.first = start /\ j.pages = npages /\ j = [first |-> j.first, pages |-> j.pages]
  <2>1. j = [first |-> start, pages |-> npages]
    OBVIOUS
  <2> HIDE DEF j
  <2> QED
    BY <1>2, <1>10, <2>1, JointIsJoin
<1> HIDE DEF j
<1>12. /\ Inside(j)
       /\ \A d \in X \cup H : Apart(d, j) /\ Apart(j, d)
  BY <1>2, <1>11, JoinApart DEF Others
<1>13. /\ j.first \in Nat /\ j.pages \in Nat /\ j.pages >= 1
       /\ A!After(j) = j.first + j.pages /\ A!After(j) <= num_pages
  BY <1>12, BlockFacts DEF Inside
\* the trees
<1>14. ~first.missing /\ Lists(first.rest, FreeBlocks \ Ending(b))
  <2>1. Ending(b) \in SUBSET FreeBlocks /\ FreeBlocks \in SUBSET FreeBlocks
    BY DEF Ending
  <2>2. Lists(free_tree, FreeBlocks)
    BY <1>2 DEF Lists
  <2> QED
    BY <1>2, <1>4, <1>6, <1>9, <2>1, <2>2, ShownUnlisted
<1>15. ~second.missing /\ Lists(second.rest, X)
  <2> DEFINE Y == FreeBlocks \ Ending(b)
  <2>1. Following(b) \in SUBSET FreeBlocks /\ Y \in SUBSET FreeBlocks /\ IInv
    BY <1>2 DEF Following
  <2>2. Following(b) \subseteq Y
    <3>1. ASSUME NEW c \in Ending(b), c \in Following(b) PROVE FALSE
      <4>1. c \in FreeBlocks /\ A!After(c) = b.first /\ c.first = A!After(b)
        BY <3>1 DEF Ending, Following
      <4>2. /\ c.first \in Nat /\ c.pages \in Nat /\ c.pages >= 1
            /\ A!After(c) = c.first + c.pages
        BY <1>2, <4>1, BlocksTyped
      <4>3. b.first \in Nat /\ b.pages \in Nat /\ A!After(b) = b.first + b.pages
        BY <1>2, BlocksTyped
      <4> QED
        BY <4>1, <4>2, <4>3
    <3> QED
      BY <2>1, <3>1
  <2>3. X = Y \ Following(b)
    BY <1>11
  <2>4. Lists(first.rest, Y)
    BY <1>14
  <2> HIDE DEF Y, X
  <2>5. ~second.missing /\ Lists(second.rest, Y \ Following(b))
    BY <1>2, <1>4, <1>6, <1>9, <2>1, <2>2, <2>4, ShownUnlisted
  <2> QED
    BY <2>3, <2>5
<1>16. Good(free_tree') /\ Entries(free_tree') = {FreeEntry(c) : c \in X \cup {j}}
  <2>1. X \in SUBSET A!Blocks
    BY <1>2
  <2>2. ASSUME NEW c \in X PROVE c.first # j.first
    <3>1. Apart(c, j) /\ c.first \in Nat /\ c.pages \in Nat /\ c.pages >= 1 /\ A!After(c) = c.first + c.pages
      BY <1>2, <1>12, <2>1, BlocksTyped
    <3> QED
      BY <1>13, <3>1 DEF Apart
  <2>3. free_tree' = Insert(second.rest, FreeKey(j.pages, j.first), j.first)
    BY <1>1, <1>11
  <2> DEFINE t == second.rest
  <2>4. Good(t) /\ Entries(t) = {FreeEntry(c) : c \in X}
    BY <1>15 DEF Lists
  <2>5. free_tree' = Insert(t, FreeKey(j.pages, j.first), j.first)
    BY <2>3
  <2> HIDE DEF X, t
  <2> QED
    BY <1>2, <1>13, <2>1, <2>2, <2>4, <2>5, FreeInserted
<1>17. Good(alloc_tree') /\ Entries(alloc_tree') = {HeldEntry(c) : c \in H}
  BY <1>1, <1>3
\* the tags
<1>18. Retagged(page_list, j, 0, page_list')
  BY <1>1, <1>4, <1>11, <1>12 DEF Told, Retagged
<1>19. DOMAIN page_list' = A!PageNumbers /\ IsTagged(page_list', j, 0)
  BY <1>18, TagFacts
<1>20. ASSUME NEW c \in X PROVE IsTagged(page_list', c, 0)
  <2>1. Inside(c) /\ Apart(j, c) /\ IsTagged(page_list, c, 0)
    BY <1>2, <1>4, <1>12, <1>20, BlocksTyped DEF Told
  <2> QED
    BY <1>18, <2>1, TagFacts
<1>21. ASSUME NEW c \in H PROVE IsTagged(page_list', c, 1)
  <2>1. Inside(c) /\ Apart(j, c) /\ IsTagged(page_list, c, 1)
    BY <1>2, <1>4, <1>12, <1>21, BlocksTyped DEF Told
  <2> QED
    BY <1>18, <2>1, TagFacts
\* the blocks
<1>22. FreeBlocks' = X \cup {j} /\ HeldBlocks' = H
  <2> DEFINE Z == X \cup {j}
             list == page_list'
  <2>1. \A c \in A!Blocks : c = [first |-> c.first, pages |-> c.pages]
    BY <1>2, BlocksTyped
  <2>2. /\ \A c \in Z : c = [first |-> c.first, pages |-> c.pages]
        /\ \A c \in H : c = [first |-> c.first, pages |-> c.pages]
    BY <1>2, <1>11, <2>1
  <2>3. Entries(free_tree') = {FreeEntry(c) : c \in Z}
    BY <1>16
  <2>4. Entries(alloc_tree') = {HeldEntry(c) : c \in H} /\ \A c \in H : IsTagged(list, c, 1)
    BY <1>17, <1>21
  <2> HIDE DEF Z, H, list
  <2>5. {[first |-> m.page, pages |-> m.key[1]] : m \in NodesOf(free_tree')} = Z
    BY <2>2, <2>3, FreeBlocksAre
  <2>6. {[first |-> m.page, pages |-> list[m.page].alloc_pages] : m \in NodesOf(alloc_tree')} = H
    BY <2>2, <2>4, HeldBlocksAre
  <2> QED
    BY <2>5, <2>6 DEF FreeBlocks, HeldBlocks, Z, list
<1>23. A!GiveBack(b)
  BY <1>11, <1>22 DEF A!GiveBack
<1>24. IInv'
  BY <1>2, <1>23, GiveBackKeeps
<1>25. ~stuck'
  <2>1. ~BlockIsBad(start, npages)
    <3>1. num_pages \in Nat /\ npages >= 1 /\ start + npages <= num_pages /\ start \in Nat /\ npages \in Nat
      BY <1>11, <1>13 DEF A!PagesAssumption
    <3> QED
      BY <3>1 DEF BlockIsBad
  <2> QED
    BY <1>1, <1>14, <1>15, <2>1
\* the counts
<1>26. /\ free_page_count' = Cardinality(UsedPages(page_list', 0))
       /\ alloc_page_count' = Cardinality(UsedPages(page_list', 1))
  <2> DEFINE S == UsedPages(page_list, 0)
             U == UsedPages(page_list, 1)
             P == A!PagesOf(b)
  <2>1. S \in SUBSET A!PageNumbers /\ U \in SUBSET A!PageNumbers
    BY <1>4 DEF Told, UsedPages
  <2>2. Inside(b) /\ b.pages \in Nat
    BY <1>2, BlocksTyped
  <2>3. \A c \in A!Blocks : A!PagesOf(c) \subseteq A!PageNumbers
    BY <1>2, BlocksTyped, Counting
  <2>4. P \subseteq U /\ P \cap S = {}
    <3>1. IsTagged(page_list, b, 1) /\ DOMAIN page_list = A!PageNumbers
      BY <1>4 DEF Told
    <3> QED
      BY <1>2, <2>3, <3>1 DEF IsTagged, UsedPages
  <2>5. \A c \in A!Beside(b) : A!PagesOf(c) \subseteq S
    <3>1. \A c \in A!Beside(b) : c \in FreeBlocks /\ c \in A!Blocks
      BY <1>2 DEF A!Beside
    <3>2. \A c \in A!Beside(b) : IsTagged(page_list, c, 0) /\ DOMAIN page_list = A!PageNumbers
      BY <1>4, <3>1 DEF Told
    <3> QED
      BY <2>3, <3>1, <3>2 DEF IsTagged, UsedPages
  <2>6. S \cap U = {}
    BY DEF UsedPages
  <2>7. UsedPages(page_list', 0) = S \cup A!PagesOf(j)
    BY <1>18, TagUsed
  <2>8. UsedPages(page_list', 1) = U \ A!PagesOf(j)
    BY <1>18, TagOthers
  <2>9. free_page_count = Cardinality(S) /\ alloc_page_count = Cardinality(U)
    BY <1>4 DEF Told
  <2> HIDE DEF S, U
  <2>10. A!PagesOf(j) \subseteq P \cup S /\ P \subseteq A!PagesOf(j)
    BY <1>11, <2>5
  <2>11. UsedPages(page_list', 0) = S \cup P /\ UsedPages(page_list', 1) = U \ P
    BY <2>6, <2>7, <2>8, <2>10
  <2>12. Cardinality(S \cup P) = Cardinality(S) + b.pages
    BY <2>1, <2>2, <2>4, Counting
  <2>13. Cardinality(U \ P) = Cardinality(U) - b.pages
    BY <2>1, <2>2, <2>4, Counting
  <2> HIDE DEF P
  <2> QED
    BY <1>1, <1>8, <2>9, <2>11, <2>12, <2>13
<1>27. Told'
  BY <1>19, <1>20, <1>21, <1>22, <1>26 DEF Told
<1>28. MemoryInv'
  <2>1. /\ Entries(free_tree') = {FreeEntry(c) : c \in FreeBlocks'}
        /\ Entries(alloc_tree') = {HeldEntry(c) : c \in HeldBlocks'}
    BY <1>16, <1>17, <1>22
  <2> QED
    BY <1>16, <1>17, <1>24, <1>25, <1>27, <2>1 DEF MemoryInv
<1> QED
  BY <1>23, <1>28

(***************************************************************************)
(* Every step.                                                             *)
(***************************************************************************)
LEMMA ExitTold ==
  ASSUME A!PagesAssumption, MemoryInv, VmemExit
  PROVE  MemoryInv' /\ A!Close
<1>1. Exited' /\ ~stuck'
  BY DEF VmemExit, Exited, MemoryInv
<1>2. /\ Good(Null) /\ Entries(Null) = {} /\ NodesOf(Null) = {}
  BY NullFacts, NodesOfIs
<1>3. FreeBlocks' = {} /\ HeldBlocks' = {}
  BY <1>1, <1>2 DEF Exited, FreeBlocks, HeldBlocks
<1>4. A!Close
  BY <1>3 DEF A!Close
<1>5. IInv'
  BY <1>4, StepKeeps DEF A!Next, MemoryInv
<1>6. /\ Good(free_tree') /\ Entries(free_tree') = {FreeEntry(b) : b \in FreeBlocks'}
      /\ Good(alloc_tree') /\ Entries(alloc_tree') = {HeldEntry(b) : b \in HeldBlocks'}
  BY <1>1, <1>2, <1>3 DEF Exited
<1> QED
  BY <1>1, <1>4, <1>5, <1>6 DEF MemoryInv

LEMMA StutterTold ==
  ASSUME MemoryInv, UNCHANGED vars
  PROVE  MemoryInv' /\ UNCHANGED A!allocatorVars
<1>1. FreeBlocks' = FreeBlocks /\ HeldBlocks' = HeldBlocks
  BY DEF vars, FreeBlocks, HeldBlocks
<1>2. IInv'
  BY <1>1 DEF MemoryInv, IInv, AllInside, AllApart, Disjoint, Covered, A!Joined, A!Blocks,
              Inside, Apart, A!After, A!PagesOf
<1>3. Told' <=> Told
  BY <1>1 DEF vars, Told
<1>4. Exited' <=> Exited
  BY DEF vars, Exited
<1>5. /\ ~stuck'
      /\ Good(free_tree') /\ Entries(free_tree') = {FreeEntry(b) : b \in FreeBlocks'}
      /\ Good(alloc_tree') /\ Entries(alloc_tree') = {HeldEntry(b) : b \in HeldBlocks'}
  BY <1>1 DEF vars, MemoryInv
<1> QED
  BY <1>1, <1>2, <1>3, <1>4, <1>5 DEF MemoryInv, A!allocatorVars

LEMMA NextTold ==
  ASSUME A!PagesAssumption, MemoryInv, [Next]_vars
  PROVE  MemoryInv' /\ [A!Next]_A!allocatorVars
<1>1. ASSUME NEW size \in Requests, VmemAlloc(size) PROVE MemoryInv' /\ A!Next
  <2>1. size \in Int
    BY VideoMemoryAssumption
  <2> QED
    BY <1>1, <2>1, AllocTold DEF A!Next
<1>2. ASSUME NEW p \in 0 .. num_pages - 1, VmemFree(Address(p)) PROVE MemoryInv' /\ A!Next
  <2>1. Address(p) \in Nat
    BY Addresses DEF A!PagesAssumption
  <2> QED
    BY <1>2, <2>1, FreeTold DEF A!Next
<1>3. CASE VmemExit
  BY <1>3, ExitTold DEF A!Next
<1>4. CASE UNCHANGED vars
  BY <1>4, StutterTold
<1> QED
  BY <1>1, <1>2, <1>3, <1>4 DEF Next

LEMMA MemoryInductive ==
  ASSUME A!PagesAssumption
  PROVE  Spec => []MemoryInv
<1>1. Init => MemoryInv
  BY InitTold
<1>2. MemoryInv /\ [Next]_vars => MemoryInv'
  BY NextTold
<1> QED
  BY <1>1, <1>2, PTL DEF Spec

\* A memory of at least one page is what the allocator is given.
LEMMA PagesGiven ==
  ASSUME num_pages # 0
  PROVE  A!PagesAssumption
<1> DEFINE whole == RegionSize \div PageSize
<1>1. PageSize \in Nat /\ PageSize >= 1 /\ RegionSize \in Nat
  BY VideoMemoryAssumption
<1>2. whole \in Nat
  BY <1>1
<1>3. num_pages = IF whole % 2 = 1 THEN whole - 1 ELSE whole
  BY DEF num_pages
<1> HIDE DEF whole
<1>4. num_pages \in Nat
  BY <1>2, <1>3
<1> QED
  BY <1>4 DEF A!PagesAssumption

(* Whatever is asked for and given back, both trees of mm.c stay balanced
   search trees with the right heights, and no ASSERT of the allocator stops
   the program, for a memory of any size of which at least one page is usable. *)
THEOREM TreesStaySearchTrees ==
  ASSUME num_pages # 0
  PROVE  Spec => []SearchTrees
<1>1. MemoryInv => SearchTrees
  BY DEF MemoryInv, SearchTrees, Good
<1>2. Spec => []MemoryInv
  BY PagesGiven, MemoryInductive
<1> QED
  BY <1>1, <1>2, PTL

(* The nodes of the trees, the tags of the pages and the counts that
   vmem_get_info reports go on telling the same. *)
THEOREM TagsTellAlways ==
  ASSUME num_pages # 0
  PROVE  Spec => []TagsTell
<1>1. ASSUME MemoryInv, page_list # <<>> PROVE TagsTell
  <2>1. /\ Told /\ IInv
        /\ Entries(free_tree) = {FreeEntry(b) : b \in FreeBlocks}
        /\ Entries(alloc_tree) = {HeldEntry(b) : b \in HeldBlocks}
    BY <1>1 DEF MemoryInv, Exited
  <2>2. ASSUME NEW n \in NodesOf(free_tree) PROVE n.key[2] = n.page
    <3>1. <<n.key, n.page>> \in Entries(free_tree)
      BY DEF Entries
    <3>2. PICK b \in FreeBlocks : <<n.key, n.page>> = FreeEntry(b)
      BY <2>1, <3>1
    <3>3. n.key = <<b.pages, b.first>> /\ n.page = b.first
      BY <3>2 DEF FreeEntry, FreeKey
    <3> QED
      BY <3>3
  <2>3. ASSUME NEW n \in NodesOf(alloc_tree) PROVE n.key = AllocKey(Address(n.page))
    <3>1. <<n.key, n.page>> \in Entries(alloc_tree)
      BY DEF Entries
    <3>2. PICK b \in HeldBlocks : <<n.key, n.page>> = HeldEntry(b)
      BY <2>1, <3>1
    <3> QED
      BY <3>2 DEF HeldEntry
  <2>4. ASSUME NEW b \in FreeBlocks \cup HeldBlocks
        PROVE  IsTagged(page_list, b, IF b \in HeldBlocks THEN 1 ELSE 0)
    BY <2>1 DEF Told, IInv, Disjoint
  <2>5. ASSUME NEW b \in FreeBlocks \cup HeldBlocks
        PROVE  A!PagesOf(b) = b.first .. b.first + b.pages - 1
    <3>1. b \in A!Blocks
      BY DEF A!Blocks
    <3>2. A!After(b) = b.first + b.pages /\ b.first \in Nat /\ b.pages \in Nat
      BY <2>1, <3>1, PagesGiven, BlocksTyped
    <3>3. A!PagesOf(b) = b.first .. A!After(b) - 1
      BY DEF A!PagesOf
    <3> QED
      BY <3>2, <3>3
  <2>6. ASSUME NEW b \in FreeBlocks \cup HeldBlocks
        PROVE  /\ page_list[b.first].alloc_pages = b.pages
               /\ page_list[b.first + b.pages - 1].first_pageno = b.first
               /\ \A p \in b.first .. b.first + b.pages - 1 :
                    page_list[p].used = IF b \in HeldBlocks THEN 1 ELSE 0
    BY <2>4, <2>5 DEF IsTagged
  <2>7. /\ free_page_count = Cardinality({p \in DOMAIN page_list : page_list[p].used = 0})
        /\ alloc_page_count = Cardinality({p \in DOMAIN page_list : page_list[p].used = 1})
    BY <2>1 DEF Told, UsedPages
  <2> QED
    BY <2>2, <2>3, <2>6, <2>7 DEF TagsTell
<1>2. MemoryInv => TagsTell
  BY <1>1 DEF TagsTell
<1>3. Spec => []MemoryInv
  BY PagesGiven, MemoryInductive
<1> QED
  BY <1>2, <1>3, PTL

(* What mm.c does with its trees and its tags is what an allocator of pages
   promises: best fit, the front of the block, and one block again of what is
   given back and the free blocks beside it. *)
THEOREM MemoryIsPageAllocator ==
  ASSUME num_pages # 0
  PROVE  Spec => IsPageAllocator
<1>1. A!PagesAssumption
  BY PagesGiven
<1>2. Init => A!Init
  BY <1>1, InitTold
<1>3. MemoryInv /\ [Next]_vars => [A!Next]_A!allocatorVars
  BY <1>1, NextTold
<1>4. Spec => []MemoryInv
  BY <1>1, MemoryInductive
<1> QED
  BY <1>2, <1>3, <1>4, PTL DEF Spec, IsPageAllocator, A!Spec

(* So in the trees of mm.c every page is in exactly one block, free or
   allocated: none is handed out twice or lost; and vmem_free leaves no two
   free blocks side by side. *)
THEOREM MemoryIsPartitioned ==
  ASSUME num_pages # 0
  PROVE  Spec => [](A!OneBlockPerPage /\ A!Joined)
<1>1. Spec => A!Spec
  BY MemoryIsPageAllocator DEF IsPageAllocator
<1>2. A!Spec => []A!OneBlockPerPage /\ []A!Joined
  BY PagesGiven, PagesStayPartitioned, FreeBlocksAreJoined
<1> QED
  BY <1>1, <1>2, PTL
=============================================================================
