---------------------------- MODULE PageAllocator ----------------------------
(***************************************************************************)
(* What an allocator of pages promises: every page is in one block, free   *)
(* or held; a request gets the front of the smallest free block it fits    *)
(* in, the lowest of several; what is given back becomes one block with    *)
(* the free blocks beside it.  In the end everything may be closed.        *)
(***************************************************************************)
EXTENDS Integers

CONSTANT Pages      \* how many pages there are

(* What the theorems assume of it. *)
PagesAssumption == Pages \in Nat \ {0}

VARIABLES
  free,   \* the free blocks
  held    \* the blocks handed out

allocatorVars == <<free, held>>

PageNumbers == 0 .. Pages - 1
Block == [first : PageNumbers, pages : 1 .. Pages]
After(b) == b.first + b.pages
PagesOf(b) == b.first .. After(b) - 1

Whole == [first |-> 0, pages |-> Pages]
FrontOf(b, n) == [first |-> b.first, pages |-> n]
RestOf(b, n) ==
  IF b.pages = n THEN {} ELSE {[first |-> b.first + n, pages |-> b.pages - n]}

(* The free blocks that end where b begins, or begin where it ends. *)
Beside(b) == {c \in free : After(c) = b.first \/ c.first = After(b)}

(* b and the blocks beside it, as one. *)
IsJoin(j, b) ==
  /\ j.first = b.first \/ \E c \in free : After(c) = b.first /\ j.first = c.first
  /\ After(j) = After(b) \/ \E c \in free : c.first = After(b) /\ After(j) = After(c)
  /\ \A c \in Beside(b) : PagesOf(c) \subseteq PagesOf(j)

Smaller(b, c) == b.pages < c.pages \/ (b.pages = c.pages /\ b.first < c.first)
BestFit(b, n) ==
  /\ b \in free /\ b.pages >= n
  /\ \A c \in free \ {b} : c.pages >= n => Smaller(b, c)
------------------------------------------------------------------------------
Init == free = {Whole} /\ held = {}

Alloc(n) ==
  \E b \in free :
    /\ BestFit(b, n)
    /\ held' = held \cup {FrontOf(b, n)}
    /\ free' = (free \ {b}) \cup RestOf(b, n)

GiveBack(b) ==
  /\ held' = held \ {b}
  /\ \E j \in Block : IsJoin(j, b) /\ free' = (free \ Beside(b)) \cup {j}

Close == free' = {} /\ held' = {}

Next ==
  \/ Close
  \/ \E n \in 1 .. Pages : Alloc(n)
  \/ \E b \in held : GiveBack(b)

Spec == Init /\ [][Next]_allocatorVars
------------------------------------------------------------------------------
Blocks == free \cup held

(* Until everything is closed, every page is in one block and in no other. *)
OneBlockPerPage ==
  /\ free \cap held = {}
  /\ Blocks # {} => \A p \in PageNumbers : \E b \in Blocks : p \in PagesOf(b)
  /\ \A b, c \in Blocks : b # c => PagesOf(b) \cap PagesOf(c) = {}

(* No two free blocks lie side by side: the largest request that could be
   met by joining blocks is met. *)
Joined == \A b, c \in free : After(b) # c.first
==============================================================================
