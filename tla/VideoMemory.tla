---------------------------- MODULE VideoMemory ----------------------------
(***************************************************************************)
(* The allocator of the VPU's memory, vdi/mm.c: a list of pages in which   *)
(* the first page of a block knows its length and the last page its first, *)
(* a tree of the free blocks by length and place, and a tree of the        *)
(* allocated ones by address.  vdi.c calls it when the memory does not     *)
(* come from the driver.                                                   *)
(***************************************************************************)
EXTENDS AvlTree, FiniteSets

CONSTANTS PageSize,     \* VMEM_PAGE_SIZE
          RegionAddr,   \* the memory vmem_init is given
          RegionSize,
          Requests      \* the sizes asked for

ASSUME VideoMemoryAssumption ==
  /\ PageSize \in Nat \ {0}
  /\ RegionAddr \in Nat /\ RegionSize \in Nat
  /\ Requests \subseteq Int

VARIABLES
  page_list,                \* empty after vmem_exit
  free_tree, alloc_tree,
  free_page_count, alloc_page_count,
  stuck                     \* an ASSERT failed: the call never returns

vars == <<page_list, free_tree, alloc_tree, free_page_count, alloc_page_count, stuck>>

(* base_addr and num_pages: the address is rounded up; of the size the bit
   that stands for one page is taken out, so that an odd page is lost. *)
base_addr == ((RegionAddr + PageSize - 1) \div PageSize) * PageSize
num_pages ==
  LET whole == RegionSize \div PageSize
  IN IF whole % 2 = 1 THEN whole - 1 ELSE whole

(* A tree has no more nodes than there are pages. *)
ASSUME TreesAssumption == MaxHeight > num_pages

FreePage == [used |-> 0, alloc_pages |-> 0, first_pageno |-> -1]
Address(p) == base_addr + p * PageSize

(* set_blocks_free and set_blocks_alloc: the tags of one block. *)
TaggedFirstOnly(list, pageno, npages, used) ==
  [p \in DOMAIN list |->
     IF p \in pageno .. pageno + npages - 1
     THEN [FreePage EXCEPT !.used = used,
             !.alloc_pages = IF p = pageno THEN npages ELSE 0]
     ELSE list[p]]
Tagged(list, pageno, npages, used) ==
  [p \in DOMAIN list |->
     IF p \in pageno .. pageno + npages - 1
     THEN [used |-> used,
           alloc_pages |-> IF p = pageno THEN npages ELSE 0,
           first_pageno |-> IF p = pageno + npages - 1 THEN pageno ELSE -1]
     ELSE list[p]]
BlockIsBad(pageno, npages) == npages = 0 \/ pageno + npages > num_pages

FreeKey(npages, pageno) == <<npages, pageno>>
AllocKey(addr) == <<addr, 0>>

(* vmem_init; with no page at all, set_blocks_free stops in ASSERT. *)
Init ==
  /\ page_list = Tagged([p \in 0 .. num_pages - 1 |-> FreePage], 0, num_pages, 0)
  /\ free_tree = Insert(Null, FreeKey(num_pages, 0), 0)
  /\ alloc_tree = Null
  /\ free_page_count = num_pages /\ alloc_page_count = 0
  /\ stuck = BlockIsBad(0, num_pages)

(* vmem_exit *)
VmemExit ==
  /\ ~stuck
  /\ page_list' = <<>> /\ free_tree' = Null /\ alloc_tree' = Null
  /\ UNCHANGED <<free_page_count, alloc_page_count, stuck>>

PagesFor(size) == (size + PageSize - 1) \div PageSize

(* vmem_alloc: nothing is changed when the size is not positive, or no free
   block is large enough. *)
VmemAlloc(size) ==
  LET npages == PagesFor(size)
      got    == RemoveApprox(free_tree, FreeKey(npages, 0))
      pageno == got.found.page
      length == got.found.key[1]
      rest   == pageno + npages
      list   == Tagged(page_list, pageno, npages, 1)
  IN
  /\ ~stuck
  /\ size > 0 /\ got.found # Null
  /\ alloc_tree' = Insert(alloc_tree, AllocKey(Address(pageno)), pageno)
  /\ IF npages # length
     THEN /\ page_list' = Tagged(list, rest, length - npages, 0)
          /\ free_tree' = Insert(got.rest, FreeKey(length - npages, rest), rest)
     ELSE page_list' = list /\ free_tree' = got.rest
  /\ stuck' = BlockIsBad(pageno, length)
  /\ alloc_page_count' = alloc_page_count + npages
  /\ free_page_count' = free_page_count - npages

(* The free blocks before and after a block, by the tags of the pages beside
   it: their first pages. *)
FreeBefore(pageno) ==
  IF pageno > 0 /\ page_list[pageno - 1].used = 0
  THEN {page_list[pageno - 1].first_pageno} ELSE {}
FreeAfterInside(pageno) ==
  LET next == pageno + page_list[pageno].alloc_pages
  IN IF next < num_pages - 1 /\ page_list[next].used = 0 THEN {next} ELSE {}
FreeAfter(pageno) ==
  LET next == pageno + page_list[pageno].alloc_pages
  IN IF next # num_pages /\ page_list[next].used = 0 THEN {next} ELSE {}

(* Taking the node of a free block out of the tree of the free ones. *)
The(blocks) == CHOOSE b \in blocks : TRUE
Length(blocks) == IF blocks = {} THEN 0 ELSE page_list[The(blocks)].alloc_pages
Unlisted(tree, blocks) ==
  LET out == Remove(tree, FreeKey(Length(blocks), The(blocks)))
  IN IF blocks = {} THEN [rest |-> tree, missing |-> FALSE]
     ELSE [rest |-> out.rest, missing |-> out.found = Null]

(* vmem_free: nothing is changed when nothing was allocated at ptr.  A free
   block whose node is not found stops the program in ASSERT. *)
VmemFree(ptr) ==
  LET out    == Remove(alloc_tree, AllocKey(ptr))
      pageno == out.found.page
      before == FreeBefore(pageno)
      after  == FreeAfter(pageno)
      first  == Unlisted(free_tree, before)
      second == Unlisted(first.rest, after)
      start  == IF before = {} THEN pageno ELSE The(before)
      freed  == Length({pageno})
      npages == Length(before) + freed + Length(after)
  IN
  /\ ~stuck
  /\ out.found # Null
  /\ alloc_tree' = out.rest
  /\ page_list' = Tagged(page_list, start, npages, 0)
  /\ free_tree' = Insert(second.rest, FreeKey(npages, start), start)
  /\ stuck' = (first.missing \/ second.missing \/ BlockIsBad(start, npages))
  /\ alloc_page_count' = alloc_page_count - freed
  /\ free_page_count' = free_page_count + freed

Next ==
  \/ \E size \in Requests : VmemAlloc(size)
  \/ \E p \in 0 .. num_pages - 1 : VmemFree(Address(p))
  \/ VmemExit

Spec == Init /\ [][Next]_vars
----------------------------------------------------------------------------
(* Both trees stay search trees, balanced and with the right heights, over
   every order of allocating and freeing (do_balance, the unlinking of inner
   nodes): otherwise a block is not found again, or ASSERT stops the program. *)
SearchTrees == WellFormed(free_tree) /\ WellFormed(alloc_tree) /\ ~stuck

FreeBlocks == {[first |-> n.page, pages |-> n.key[1]] : n \in NodesOf(free_tree)}
HeldBlocks == {[first |-> n.page, pages |-> page_list[n.page].alloc_pages]
                 : n \in NodesOf(alloc_tree)}

(* The three descriptions of the memory agree: each block of a tree is tagged
   in the page list from its first page to its last, its tree is the one the
   pages' used flags say, its address is its page's, and the counts that
   vmem_get_info reports are the sums. *)
TagsTell ==
  page_list # <<>> =>
    /\ \A n \in NodesOf(free_tree) : n.key[2] = n.page
    /\ \A n \in NodesOf(alloc_tree) : n.key = AllocKey(Address(n.page))
    /\ \A b \in FreeBlocks \cup HeldBlocks :
         /\ page_list[b.first].alloc_pages = b.pages
         /\ page_list[b.first + b.pages - 1].first_pageno = b.first
         /\ \A p \in b.first .. b.first + b.pages - 1 :
              page_list[p].used = IF b \in HeldBlocks THEN 1 ELSE 0
    /\ free_page_count = Cardinality({p \in DOMAIN page_list : page_list[p].used = 0})
    /\ alloc_page_count = Cardinality({p \in DOMAIN page_list : page_list[p].used = 1})

(* The trees and the tags are an allocator of pages: best fit, and no two
   free blocks side by side. *)
A == INSTANCE PageAllocator WITH Pages <- num_pages, free <- FreeBlocks, held <- HeldBlocks
IsPageAllocator == A!Spec
=============================================================================
