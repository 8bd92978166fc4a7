------------------------------ MODULE BuddyLoops ------------------------------
(***************************************************************************)
(* The three loops of the buddy allocator as the code runs them            *)
(* (zerox-kernel/src/memory.rs: add_region, alloc and free), one recursive *)
(* call per iteration, compared with the closed forms BuddyAllocator.tla   *)
(* uses.  Only TLC uses this module.                                       *)
(***************************************************************************)
EXTENDS BuddyAllocator, Bitwise

(* A free list with one more, or one less, entry. *)
Push(lists, o, p) == [lists EXCEPT ![o] = @ \cup {p}]
Drop(lists, o, p) == [lists EXCEPT ![o] = @ \ {p}]

(* add_region: while order > 0, stop at the first that fits and is aligned. *)
RECURSIVE LargestOrder(_, _, _)
LargestOrder(pfn, remaining, order) ==
  IF order = 0 \/ (remaining >= Pages(order) /\ (pfn & (Pages(order) - 1)) = 0)
  THEN order
  ELSE LargestOrder(pfn, remaining, order - 1)

(* add_region: while remaining > 0. *)
RECURSIVE RegionLoop(_, _, _)
RegionLoop(pfn, remaining, lists) ==
  IF remaining = 0 THEN lists
  ELSE LET order == LargestOrder(pfn, remaining, MaxOrder)
       IN RegionLoop(pfn + Pages(order), remaining - Pages(order), Push(lists, order, pfn))

(* alloc: while o > order, push the upper half. *)
RECURSIVE SplitLoop(_, _, _, _)
SplitLoop(block, o, order, lists) ==
  IF o = order THEN lists
  ELSE SplitLoop(block, o - 1, order, Push(lists, o - 1, block + Pages(o - 1)))

(* free: while o < MAX_ORDER and the buddy is on the list. *)
RECURSIVE MergeLoop(_, _, _)
MergeLoop(pfn, o, lists) ==
  LET buddy == pfn ^^ Pages(o)
  IN IF o < MaxOrder /\ buddy \in lists[o]
     THEN MergeLoop(IF pfn < buddy THEN pfn ELSE buddy, o + 1, Drop(lists, o, buddy))
     ELSE Push(lists, o, pfn)

------------------------------------------------------------------------------

(* RegionBlocks is what the loop of add_region pushes on top of the lists, *)
(* for every region of up to nine pages at every alignment.                *)
AddRegionAgrees ==
  \A start \in 0 .. 8, count \in 1 .. 9 :
    LET r == [start |-> start, count |-> count]
    IN [o \in Orders |-> free_lists[o] \cup RegionBlocks(r, o)]
         = RegionLoop(start, count, free_lists)

(* AfterSplit is what the loop of alloc leaves, for every block it may pop. *)
AllocAgrees ==
  \A order, o \in Orders :
    SmallestFit(order, o) =>
      \A p \in free_lists[o] :
        AfterSplit(p, o, order) = SplitLoop(p, o, order, Drop(free_lists, o, p))

(* AfterMerge is what the loop of free leaves, for every block a client may *)
(* hand back.                                                              *)
FreeAgrees ==
  \A b \in held : AfterMerge(b[1], b[2]) = MergeLoop(b[1], b[2], free_lists)

(* In every reachable state the closed forms the specification and the     *)
(* proofs use are what the loops of add_region, alloc and free compute:    *)
(* neither stops an order early or late, or pushes the wrong half.         *)
LoopsAgree == AddRegionAgrees /\ AllocAgrees /\ FreeAgrees

------------------------------------------------------------------------------

(* The instance TLC checks: two regions that touch in the middle of block  *)
(* 4 .. 7, so pages 6 and 7 are buddies that belong to different regions,  *)
(* and page 9 starts no block of order 1 or more.                          *)
ConstRegions == {[start |-> 0, count |-> 7], [start |-> 7, count |-> 3]}
===============================================================================
