------------------------------ MODULE AvlTree ------------------------------
(***************************************************************************)
(* The balanced search tree of vdi/mm.c.  A node is a record; NULL is a    *)
(* record with the height HEIGHT() gives it and nothing else.  A key is a  *)
(* pair: MAKE_KEY puts one number above the other.  What the C code does   *)
(* to nodes in place is done here to copies; no two pointers to a node are *)
(* used at once but those the operators return together, the tree that is  *)
(* left and the node that was taken out.                                   *)
(***************************************************************************)
EXTENDS Integers

CONSTANT MaxHeight      \* no tree has more nodes one below the other

ASSUME MaxHeightAssumption == MaxHeight \in Nat

Null == [height |-> -1]
Branches(trees) ==
  [key : Nat \X Nat, page : Nat, height : Nat, left : trees, right : trees]
TreesUpTo[h \in 0 .. MaxHeight] ==
  IF h = 0 THEN {Null} ELSE {Null} \cup Branches(TreesUpTo[h - 1])
Trees == TreesUpTo[MaxHeight]

Leaf(key, page) ==
  [key |-> key, page |-> page, height |-> 0, left |-> Null, right |-> Null]

Below(k, l) == k[1] < l[1] \/ (k[1] = l[1] /\ k[2] < l[2])

Other(side) == IF side = "left" THEN "right" ELSE "left"

Balance(tree) == IF tree = Null THEN 0 ELSE tree.right.height - tree.left.height

Reheighted(tree) ==
  [tree EXCEPT !.height = 1 + IF tree.left.height >= tree.right.height
                              THEN tree.left.height ELSE tree.right.height]

WithChildren(node, left, right) == [node EXCEPT !.left = left, !.right = right]

(* rotation_left for side "left": the child on the other side becomes the
   root.  Without one, rotation_left leaves the tree and rotation_right
   gives NULL. *)
Rotated(tree, side) ==
  LET child == tree[Other(side)]
  IN IF child = Null
     THEN IF side = "left" THEN tree ELSE Null
     ELSE Reheighted([child EXCEPT ![side] =
            Reheighted([tree EXCEPT ![Other(side)] = child[side]])])

(* do_balance.  A child that is itself out of balance stops the program in
   ASSERT(0), before the NULL that is written after it. *)
DoBalanceOnce(tree) ==
  CASE Balance(tree) >= 2  -> Rotated(tree, "left")
    [] Balance(tree) <= -2 -> Rotated(tree, "right")
    [] OTHER -> tree
DoBalance(tree) ==
  LET heavy == IF Balance(tree) >= 2 THEN "right" ELSE "left"
      lean  == IF heavy = "right" THEN 1 ELSE -1
      child == Balance(tree[heavy])
  IN IF Balance(tree) \in -1 .. 1 THEN tree
     ELSE CASE child \in {lean, 0} -> Rotated(tree, Other(heavy))
            [] child = -lean ->
                 Rotated([tree EXCEPT ![heavy] = Rotated(@, heavy)], Other(heavy))
            [] OTHER -> Null

(* unlink_end_node: the outermost node of a side is taken out.  If that is
   the root itself, NULL is returned and the root keeps its children. *)
UnlinkEnd(tree, side) ==
  LET Out[t \in Trees] ==
        IF t = Null THEN [rest |-> Null, found |-> Null]
        ELSE IF t[side] = Null THEN [rest |-> Null, found |-> t]
        ELSE LET sub == Out[t[side]]
                 put(u) == DoBalance(Reheighted([t EXCEPT ![side] = u]))
             IN IF sub.rest = Null
                THEN [rest  |-> put(sub.found[Other(side)]),
                      found |-> WithChildren(sub.found, Null, Null)]
                ELSE [rest |-> put(sub.rest), found |-> sub.found]
  IN Out[tree]

(* do_unlink: the root goes, the next node of the right side takes its place,
   or the last of the left side, or the only child there is. *)
Replaced(tree, next, last) ==
  CASE next.rest # Null ->
         Reheighted(WithChildren(next.found, tree.left, next.rest))
    [] next.rest = Null /\ last.rest # Null ->
         Reheighted(WithChildren(last.found, last.rest, tree.right))
    [] next.rest = Null /\ last.rest = Null /\ tree.right # Null ->
         Reheighted([tree.right EXCEPT !.left = tree.left])
    [] OTHER -> tree.left
DoUnlink(tree) ==
  Replaced(tree, UnlinkEnd(tree.right, "left"), UnlinkEnd(tree.left, "right"))

(* What every level of an insertion or a removal does on the way back. *)
Settled(tree) == DoBalance(IF tree = Null THEN tree ELSE Reheighted(tree))

(* The side on which a key lies. *)
SideOf(key, tree) == IF Below(key, tree.key) THEN "left" ELSE "right"

Insert(tree, key, page) ==
  LET Into[t \in Trees] ==
        IF t = Null THEN Leaf(key, page)
        ELSE Reheighted(DoBalance([t EXCEPT ![SideOf(key, t)] = Into[t[SideOf(key, t)]]]))
  IN Into[tree]

(* avltree_remove: the node with that key, NULL if there is none. *)
Remove(tree, key) ==
  LET From[t \in Trees] ==
        IF t = Null THEN [rest |-> Null, found |-> Null]
        ELSE IF key = t.key THEN [rest |-> Settled(DoUnlink(t)), found |-> t]
        ELSE LET side == SideOf(key, t)
                 sub  == From[t[side]]
             IN [rest |-> Settled([t EXCEPT ![side] = sub.rest]), found |-> sub.found]
  IN From[tree]

(* remove_approx_value: the node with the least key that is not below. *)
RemoveApprox(tree, key) ==
  LET From[t \in Trees] ==
        IF t = Null THEN [rest |-> Null, found |-> Null]
        ELSE IF key = t.key THEN [rest |-> Settled(DoUnlink(t)), found |-> t]
        ELSE LET side == SideOf(key, t)
                 sub  == From[t[side]]
                 down == [t EXCEPT ![side] = sub.rest]
             IN IF side = "left" /\ sub.found = Null
                THEN [rest |-> Settled(DoUnlink(down)), found |-> down]
                ELSE [rest |-> Settled(down), found |-> sub.found]
  IN From[tree]

NodesOf(tree) ==
  LET In[t \in Trees] == IF t = Null THEN {} ELSE {t} \cup In[t.left] \cup In[t.right]
  IN In[tree]

(* An AVL tree: ordered, every height right, and no side two higher. *)
WellFormed(tree) ==
  \A n \in NodesOf(tree) :
    /\ \A m \in NodesOf(n.left) : Below(m.key, n.key)
    /\ \A m \in NodesOf(n.right) : Below(n.key, m.key)
    /\ n = Reheighted(n)
    /\ Balance(n) \in -1 .. 1
============================================================================
