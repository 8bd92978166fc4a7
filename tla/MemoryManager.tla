---------------------------- MODULE MemoryManager ----------------------------
(***************************************************************************)
(* The memory manager (zerox-kernel/src/memory.rs, MemoryManager): the     *)
(* buddy allocator, the statistics kept beside it in statics, and the      *)
(* copy-on-write fault.  All of it runs under the KERNEL mutex, so a call  *)
(* is one step.  KernelBoot.tla says who calls what, and when.             *)
(***************************************************************************)
EXTENDS Integers, FiniteSets

CONSTANTS
  MaxOrder,   (* MAX_ORDER.                                                *)
  PageSize,   (* PAGE_SIZE, bytes.                                         *)
  FakePages,  (* Pages of the fake RAM init() adds when nothing was registered. *)
  MemoryMap   (* The bootloader's entries: [base, len : bytes, usable : BOOLEAN]. *)

VARIABLES
  free_lists, total_pages, free_pages, pages_allocated, added, held,
  TOTAL_MEMORY,  (* bytes *)
  FREE_MEMORY,   (* bytes *)
  HUGE_PAGES,
  cow_faults     (* MemoryManager.cow_faults, and COW_FAULTS with it.      *)

buddyVars == <<free_lists, total_pages, free_pages, pages_allocated, added, held>>
statVars == <<TOTAL_MEMORY, FREE_MEMORY, HUGE_PAGES>>
mmVars == <<buddyVars, statVars, cow_faults>>

(* Mutant of RegionOf: the length is rounded up. *)
RegionRoundedUp(base, len) ==
  [start |-> base \div PageSize, count |-> (len + PageSize - 1) \div PageSize]

(* A byte range of the memory map as register_region rounds it: the start  *)
(* and the length to page numbers, downwards.                              *)
RegionOf(base, len) == [start |-> base \div PageSize, count |-> len \div PageSize]

FakeRegion == [start |-> 0, count |-> FakePages]

Usable == {e \in MemoryMap : e.usable}
UsableRegions == {r \in {RegionOf(e.base, e.len) : e \in Usable} : r.count > 0}

Buddy == INSTANCE BuddyAllocator WITH Regions <- UsableRegions

(* Powers of two, as in BuddyAllocator.tla.  A huge page is not a page.     *)
ASSUME OrderAssumption ==
  /\ MaxOrder \in Nat \ {0}
  /\ Buddy!Pages(0) = 1
  /\ \A k \in 0 .. MaxOrder :
       Buddy!Pages(k) \in Nat \ {0} /\ Buddy!Pages(k + 1) = 2 * Buddy!Pages(k)
  /\ \A j, k \in 0 .. MaxOrder :
       j <= k => \E m \in 1 .. Buddy!Pages(k) : Buddy!Pages(k) = m * Buddy!Pages(j)

(* The firmware's entries start at pages, and those it calls usable do not *)
(* overlap.                                                                *)
ASSUME MemoryMapAssumption ==
  /\ PageSize \in Nat \ {0} /\ FakePages \in Nat \ {0}
  /\ MemoryMap \subseteq [base : Nat, len : Nat, usable : BOOLEAN]
  /\ \A e \in Usable : e.base % PageSize = 0
  /\ \A e, f \in Usable :
       e # f => (e.base .. e.base + e.len - 1) \cap (f.base .. f.base + f.len - 1) = {}

HugePage2M == PageSize * Buddy!Pages(MaxOrder)

MMInit ==
  /\ Buddy!Init
  /\ TOTAL_MEMORY = 0
  /\ FREE_MEMORY = 0
  /\ HUGE_PAGES = 0
  /\ cow_faults = 0

RegisterRegion(base, len) ==
  LET r == RegionOf(base, len)
  IN /\ IF r.count > 0 THEN Buddy!AddRegion(r) ELSE UNCHANGED buddyVars
     /\ UNCHANGED <<statVars, cow_faults>>

(* MemoryManager::init. *)
MemoryInit ==
  /\ IF total_pages = 0 THEN Buddy!AddRegion(FakeRegion) ELSE UNCHANGED buddyVars
  /\ TOTAL_MEMORY' = total_pages' * PageSize
  /\ FREE_MEMORY' = total_pages' * PageSize
  /\ UNCHANGED <<HUGE_PAGES, cow_faults>>

(* alloc_page and alloc_huge_page; when the allocator has no block of that *)
(* order they return None and change nothing.                              *)
AllocPage ==
  /\ Buddy!Alloc(0)
  /\ FREE_MEMORY' = FREE_MEMORY - PageSize
  /\ UNCHANGED <<TOTAL_MEMORY, HUGE_PAGES, cow_faults>>

AllocHugePage ==
  /\ Buddy!Alloc(MaxOrder)
  /\ FREE_MEMORY' = FREE_MEMORY - HugePage2M
  /\ HUGE_PAGES' = HUGE_PAGES + 1
  /\ UNCHANGED <<TOTAL_MEMORY, cow_faults>>

FreePage(frame) ==
  /\ Buddy!Free(frame, 0)
  /\ FREE_MEMORY' = FREE_MEMORY + PageSize
  /\ UNCHANGED <<TOTAL_MEMORY, HUGE_PAGES, cow_faults>>

FreeHugePage(frame) ==
  /\ Buddy!Free(frame, MaxOrder)
  /\ FREE_MEMORY' = FREE_MEMORY + HugePage2M
  /\ HUGE_PAGES' = HUGE_PAGES - 1
  /\ UNCHANGED <<TOTAL_MEMORY, cow_faults>>

(* cow_fault(src): a fresh page, or src itself when there is none; in both *)
(* cases the copy is the caller's to make.                                 *)
CowFault ==
  /\ cow_faults' = cow_faults + 1
  /\ \/ /\ Buddy!Alloc(0)
        /\ FREE_MEMORY' = FREE_MEMORY - PageSize
     \/ /\ \A o \in Buddy!Orders : free_lists[o] = {}
        /\ UNCHANGED <<buddyVars, FREE_MEMORY>>
  /\ UNCHANGED <<TOTAL_MEMORY, HUGE_PAGES>>
==============================================================================
