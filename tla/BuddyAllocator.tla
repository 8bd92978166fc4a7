---------------------------- MODULE BuddyAllocator ----------------------------
(***************************************************************************)
(* The buddy allocator for physical pages                                  *)
(* (zerox-kernel/src/memory.rs, BuddyAllocator) and the clients that use   *)
(* it.                                                                     *)
(*                                                                         *)
(* A block is a pair <<pfn, order>>: 2^order pages from page frame pfn.    *)
(* The Vec of each order is a set here: the order of its entries decides   *)
(* only which of several equally large blocks pop() returns, and every one *)
(* of them is a possible answer below.  A duplicated entry, which a set    *)
(* would hide, shows up as a free_pages counter that exceeds the pages on  *)
(* the lists.                                                              *)
(*                                                                         *)
(* The three loops of the code run under the KERNEL mutex, so each call is *)
(* one step; their results are given in closed form and compared with the  *)
(* literal loops in BuddyLoops.tla.                                        *)
(***************************************************************************)
EXTENDS Integers, FiniteSets

CONSTANTS
  MaxOrder,  (* MAX_ORDER: the order of the largest block (9 in the code). *)
  Regions    (* The usable memory-map entries: [start |-> pfn, count |-> pages]. *)

Pages(o) == 2^o
Block(p, o) == p .. p + Pages(o) - 1
RegionPages(r) == r.start .. r.start + r.count - 1

(* Powers of two as the prover needs them: it has no theory of 2^o. *)
ASSUME OrderAssumption ==
  /\ MaxOrder \in Nat
  /\ Pages(0) = 1
  /\ \A k \in 0 .. MaxOrder : Pages(k) \in Nat \ {0} /\ Pages(k + 1) = 2 * Pages(k)
  /\ \A j, k \in 0 .. MaxOrder :
       j <= k => \E m \in 1 .. Pages(k) : Pages(k) = m * Pages(j)

(* The bootloader's usable entries do not overlap; register_region drops   *)
(* entries shorter than a page.                                            *)
ASSUME RegionAssumption ==
  /\ Regions \subseteq [start : Nat, count : Nat \ {0}]
  /\ \A r, s \in Regions : r # s => RegionPages(r) \cap RegionPages(s) = {}

VARIABLES
  free_lists,       (* order -> the pfns of the free blocks of that order.  *)
  total_pages,
  free_pages,
  pages_allocated,  (* The static PAGES_ALLOCATED.                          *)
  added,            (* The regions added so far.                            *)
  held              (* The blocks clients hold: returned by alloc, not freed. *)

vars == <<free_lists, total_pages, free_pages, pages_allocated, added, held>>

Orders == 0 .. MaxOrder

(* pfn ^ (1 << o), for a pfn that is a multiple of 1 << o. *)
Buddy(p, o) == IF (p \div Pages(o)) % 2 = 0 THEN p + Pages(o) ELSE p - Pages(o)

(* pfn with its o lowest bits cleared: where a block of order o that       *)
(* contains page pfn starts, and what pfn.min(buddy) arrives at after      *)
(* merging up to order o.                                                  *)
AlignDown(p, o) == p - (p % Pages(o))

Aligned(p, o) == p % Pages(o) = 0

(* Mutant of Fits: a block may stick out of its region by a page. *)
FitsLoosely(p, o, r) == p >= r.start /\ p + Pages(o) - 1 <= r.start + r.count

Fits(p, o, r) == Block(p, o) \subseteq RegionPages(r)

BlockPages(b) == Block(b[1], b[2])
FreeBlocks == UNION {free_lists[o] \X {o} : o \in Orders}

PagesOf(S) == UNION {BlockPages(b) : b \in S}
FreePages == PagesOf(FreeBlocks)
HeldPages == PagesOf(held)

PairwiseDisjoint(S) ==
  \A a, b \in S : a # b => BlockPages(a) \cap BlockPages(b) = {}

Init ==
  /\ free_lists = [o \in Orders |-> {}]
  /\ total_pages = 0
  /\ free_pages = 0
  /\ pages_allocated = 0
  /\ added = {}
  /\ held = {}

(* add_region cuts a region, from its first page on, into the largest      *)
(* blocks that are aligned and still fit: those no larger block of the     *)
(* region contains.                                                        *)
RegionBlocks(r, o) ==
  {p \in RegionPages(r) :
     /\ Aligned(p, o)
     /\ Fits(p, o, r)
     /\ o < MaxOrder => ~Fits(AlignDown(p, o + 1), o + 1, r)}

AddRegion(r) ==
  /\ r \notin added
  /\ added' = added \cup {r}
  /\ total_pages' = total_pages + r.count
  /\ free_pages' = free_pages + r.count
  /\ free_lists' = [o \in Orders |-> free_lists[o] \cup RegionBlocks(r, o)]
  /\ UNCHANGED <<pages_allocated, held>>

(* o is the smallest order from order up with a free block. *)
SmallestFit(order, o) ==
  /\ o >= order
  /\ free_lists[o] # {}
  /\ \A k \in order .. o - 1 : free_lists[k] = {}

(* Mutant of AfterSplit: the block to split is read, not popped. *)
SplitWithoutPop(p, o, order) ==
  [k \in Orders |->
     IF k \in order .. o - 1 THEN free_lists[k] \cup {p + Pages(k)} ELSE free_lists[k]]

(* Mutant of AfterSplit: the last split drops its upper half. *)
SplitDroppingHalf(p, o, order) ==
  [k \in Orders |->
     IF k = o THEN free_lists[k] \ {p}
     ELSE IF k \in order + 1 .. o - 1 THEN free_lists[k] \cup {p + Pages(k)}
     ELSE free_lists[k]]

(* The lists once block p of order o is popped and split down to order: the *)
(* upper half of every split stays free.                                   *)
AfterSplit(p, o, order) ==
  [k \in Orders |->
     IF k = o THEN free_lists[k] \ {p}
     ELSE IF k \in order .. o - 1 THEN free_lists[k] \cup {p + Pages(k)}
     ELSE free_lists[k]]

(* Mutant of Alloc: the counters charge the block popped, not the one granted. *)
AllocChargingPopped(order) ==
  \E o \in Orders :
    /\ SmallestFit(order, o)
    /\ \E p \in free_lists[o] :
         /\ free_lists' = AfterSplit(p, o, order)
         /\ held' = held \cup {<<p, order>>}
    /\ free_pages' = free_pages - Pages(o)
    /\ pages_allocated' = pages_allocated + Pages(o)
    /\ UNCHANGED <<total_pages, added>>

(* alloc(order), when it returns a block; it changes nothing when it       *)
(* returns None.                                                           *)
Alloc(order) ==
  \E o \in Orders :
    /\ SmallestFit(order, o)
    /\ \E p \in free_lists[o] :
         /\ free_lists' = AfterSplit(p, o, order)
         /\ held' = held \cup {<<p, order>>}
    /\ free_pages' = free_pages - Pages(order)
    /\ pages_allocated' = pages_allocated + Pages(order)
    /\ UNCHANGED <<total_pages, added>>

(* Mutant of Merges: the loop stops one order early. *)
MergesTooLow(frame, o) ==
  o < MaxOrder - 1 /\ Buddy(AlignDown(frame, o), o) \in free_lists[o]

(* The loop of free() merges at order o: the buddy of the block grown from *)
(* frame so far is free.                                                   *)
Merges(frame, o) ==
  o < MaxOrder /\ Buddy(AlignDown(frame, o), o) \in free_lists[o]

(* The order at which the loop stops. *)
TopOrder(frame, order) ==
  CHOOSE o \in order .. MaxOrder :
    ~Merges(frame, o) /\ \A k \in order .. o - 1 : Merges(frame, k)

AfterMerge(frame, order) ==
  LET top == TopOrder(frame, order)
  IN [k \in Orders |->
        IF k \in order .. top - 1 THEN free_lists[k] \ {Buddy(AlignDown(frame, k), k)}
        ELSE IF k = top THEN free_lists[k] \cup {AlignDown(frame, k)}
        ELSE free_lists[k]]

(* Mutant of Free: one page is given back, whatever the order. *)
FreeCountingOne(frame, order) ==
  /\ <<frame, order>> \in held
  /\ held' = held \ {<<frame, order>>}
  /\ free_lists' = AfterMerge(frame, order)
  /\ free_pages' = free_pages + 1
  /\ pages_allocated' = pages_allocated - 1
  /\ UNCHANGED <<total_pages, added>>

(* free(frame, order), called by the holder of the block. *)
Free(frame, order) ==
  /\ <<frame, order>> \in held
  /\ held' = held \ {<<frame, order>>}
  /\ free_lists' = AfterMerge(frame, order)
  /\ free_pages' = free_pages + Pages(order)
  /\ pages_allocated' = pages_allocated - Pages(order)
  /\ UNCHANGED <<total_pages, added>>

Next ==
  \/ \E r \in Regions : AddRegion(r)
  \/ \E order \in Orders : Alloc(order)
  \/ \E b \in held : Free(b[1], b[2])

Spec == Init /\ [][Next]_vars

------------------------------------------------------------------------------

(* The variables have their types, and the arithmetic on u64 never wraps.  *)
TypeOK ==
  /\ free_lists \in [Orders -> SUBSET Nat]
  /\ total_pages \in Nat
  /\ free_pages \in Nat
  /\ pages_allocated \in Nat
  /\ added \subseteq Regions
  /\ held \subseteq Nat \X Orders

(* The blocks on the free lists and the blocks clients hold never share a  *)
(* page: alloc never hands a page out twice, however blocks were split and *)
(* merged (memory.rs, alloc and free).                                     *)
NoPageTwice ==
  /\ FreeBlocks \cap held = {}
  /\ PairwiseDisjoint(FreeBlocks \cup held)

(* The counters are exact: free_pages counts the pages on the free lists,  *)
(* PAGES_ALLOCATED those in clients' hands, and they make up total_pages.  *)
CountersExact ==
  /\ free_pages = Cardinality(FreePages)
  /\ pages_allocated = Cardinality(HeldPages)
  /\ free_pages + pages_allocated = total_pages

(* Coalescing is complete: an aligned block inside one region whose pages  *)
(* are all free lies inside a single free block, so alloc of its order     *)
(* cannot fail, and freeing everything restores the largest blocks.        *)
FullyCoalesced ==
  \A r \in added, o \in Orders : \A p \in RegionPages(r) :
    Aligned(p, o) /\ Fits(p, o, r) /\ Block(p, o) \subseteq FreePages
      => \E k \in o .. MaxOrder : AlignDown(p, k) \in free_lists[k]

(* No page is lost: every page of a region is free or held.                *)
NoPageLost ==
  FreePages \cup HeldPages = UNION {RegionPages(r) : r \in added}

(* Every block starts at a multiple of its size, without which the exclusive *)
(* or in free() would not name the buddy.                                  *)
BlocksAligned == \A b \in FreeBlocks \cup held : Aligned(b[1], b[2])

(* The allocator implements page ownership: its free pages are the         *)
(* available ones, the held blocks are the owned ones.                     *)
Ownership == INSTANCE PageOwnership WITH
  BlocksOf <- {Pages(o) : o \in Orders},
  Sources  <- {RegionPages(r) : r \in Regions},
  avail    <- FreePages,
  owned    <- {BlockPages(b) : b \in held},
  donated  <- {RegionPages(r) : r \in added}

ImplementsOwnership == Ownership!Spec
=============================================================================
