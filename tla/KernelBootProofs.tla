--------------------------- MODULE KernelBootProofs ---------------------------
(***************************************************************************)
(* Proofs about the memory manager behind Kernel::boot, from those about   *)
(* its buddy allocator (BuddyProofs.tla): the statistics are exact however *)
(* often the kernel boots, and no page is made of memory the firmware      *)
(* keeps, for every memory map and page size.                              *)
(***************************************************************************)
EXTENDS KernelBoot, LibraryFacts, FiniteSetTheorems

(* The allocator holds the usable regions, or the fake one alone.          *)
Real == INSTANCE BuddyProofs WITH Regions <- UsableRegions
Fake == INSTANCE BuddyProofs WITH Regions <- {FakeRegion}

(* Its operations and what they are about do not depend on the regions.    *)
LEMMA SameAlloc ==
  ASSUME NEW order
  PROVE  (Buddy!Alloc(order) <=> Real!Alloc(order)) /\ (Buddy!Alloc(order) <=> Fake!Alloc(order))
BY Zenon
   DEF Buddy!Alloc, Buddy!SmallestFit, Buddy!AfterSplit, Buddy!Pages, Buddy!Orders,
       Real!Alloc, Real!SmallestFit, Real!AfterSplit, Real!Pages, Real!Orders,
       Fake!Alloc, Fake!SmallestFit, Fake!AfterSplit, Fake!Pages, Fake!Orders

LEMMA SameFree ==
  ASSUME NEW f, NEW order
  PROVE  /\ Buddy!Free(f, order) <=> Real!Free(f, order)
         /\ Buddy!Free(f, order) <=> Fake!Free(f, order)
BY Zenon
   DEF Buddy!Free, Buddy!AfterMerge, Buddy!TopOrder, Buddy!Merges, Buddy!Buddy,
       Buddy!AlignDown, Buddy!Pages, Buddy!Orders,
       Real!Free, Real!AfterMerge, Real!TopOrder, Real!Merges, Real!Buddy,
       Real!AlignDown, Real!Pages, Real!Orders,
       Fake!Free, Fake!AfterMerge, Fake!TopOrder, Fake!Merges, Fake!Buddy,
       Fake!AlignDown, Fake!Pages, Fake!Orders

LEMMA SameAdd ==
  ASSUME NEW r
  PROVE  (Buddy!AddRegion(r) <=> Real!AddRegion(r)) /\ (Buddy!AddRegion(r) <=> Fake!AddRegion(r))
BY Zenon
   DEF Buddy!AddRegion, Buddy!RegionBlocks, Buddy!RegionPages, Buddy!Aligned, Buddy!Fits,
       Buddy!AlignDown, Buddy!Block, Buddy!Pages, Buddy!Orders,
       Real!AddRegion, Real!RegionBlocks, Real!RegionPages, Real!Aligned, Real!Fits,
       Real!AlignDown, Real!Block, Real!Pages, Real!Orders,
       Fake!AddRegion, Fake!RegionBlocks, Fake!RegionPages, Fake!Aligned, Fake!Fits,
       Fake!AlignDown, Fake!Block, Fake!Pages, Fake!Orders

LEMMA SamePages ==
  /\ Buddy!FreePages = Real!FreePages /\ Buddy!FreePages = Fake!FreePages
  /\ Buddy!HeldPages = Real!HeldPages /\ Buddy!HeldPages = Fake!HeldPages
BY Zenon
   DEF Buddy!FreePages, Buddy!HeldPages, Buddy!PagesOf, Buddy!FreeBlocks, Buddy!BlockPages,
       Buddy!Block, Buddy!Pages, Buddy!Orders,
       Real!FreePages, Real!HeldPages, Real!PagesOf, Real!FreeBlocks, Real!BlockPages,
       Real!Block, Real!Pages, Real!Orders,
       Fake!FreePages, Fake!HeldPages, Fake!PagesOf, Fake!FreeBlocks, Fake!BlockPages,
       Fake!Block, Fake!Pages, Fake!Orders

LEMMA SameCounts ==
  ASSUME NEW S
  PROVE  /\ Real!IsFiniteSet(S) <=> IsFiniteSet(S)
         /\ Fake!IsFiniteSet(S) <=> IsFiniteSet(S)
         /\ Real!Cardinality(S) = Cardinality(S)
         /\ Fake!Cardinality(S) = Cardinality(S)
BY Zenon
   DEF Real!IsFiniteSet, Fake!IsFiniteSet, IsFiniteSet,
       Real!Cardinality, Fake!Cardinality, Cardinality

LEMMA SameConditions ==
  /\ Real!BlocksAligned <=> Fake!BlocksAligned
  /\ Real!NoPageTwice <=> Fake!NoPageTwice
  /\ Real!NoPageLost <=> Fake!NoPageLost
  /\ Real!PagesFinite <=> Fake!PagesFinite
  /\ Real!CountersExact <=> Fake!CountersExact
<1>1. /\ Real!FreeBlocks = Fake!FreeBlocks
      /\ \A b : Real!BlockPages(b) = Fake!BlockPages(b)
      /\ \A r : Real!RegionPages(r) = Fake!RegionPages(r)
      /\ \A p, o : Real!Aligned(p, o) <=> Fake!Aligned(p, o)
  BY Zenon
     DEF Real!FreeBlocks, Real!BlockPages, Real!Block, Real!RegionPages, Real!Aligned,
         Real!Pages, Real!Orders,
         Fake!FreeBlocks, Fake!BlockPages, Fake!Block, Fake!RegionPages, Fake!Aligned,
         Fake!Pages, Fake!Orders
<1>2. Real!FreePages = Fake!FreePages /\ Real!HeldPages = Fake!HeldPages
  BY SamePages
<1>3. Real!BlocksAligned <=> Fake!BlocksAligned
  BY <1>1 DEF Real!BlocksAligned, Fake!BlocksAligned
<1>4. Real!NoPageTwice <=> Fake!NoPageTwice
  <2>1. \A S : Real!PairwiseDisjoint(S) <=> Fake!PairwiseDisjoint(S)
    BY Zenon
       DEF Real!PairwiseDisjoint, Real!BlockPages, Real!Block, Real!Pages,
           Fake!PairwiseDisjoint, Fake!BlockPages, Fake!Block, Fake!Pages
  <2>. QED  BY <1>1, <2>1, Zenon DEF Real!NoPageTwice, Fake!NoPageTwice
<1>5. Real!NoPageLost <=> Fake!NoPageLost
  <2>1. UNION {Real!RegionPages(r) : r \in added} = UNION {Fake!RegionPages(r) : r \in added}
    BY Zenon DEF Real!RegionPages, Fake!RegionPages
  <2>. QED  BY <1>2, <2>1, Zenon DEF Real!NoPageLost, Fake!NoPageLost
<1>6. Real!PagesFinite <=> Fake!PagesFinite
  BY <1>2, SameCounts, Zenon DEF Real!PagesFinite, Fake!PagesFinite
<1>7. Real!CountersExact <=> Fake!CountersExact
  BY <1>2, SameCounts, Zenon DEF Real!CountersExact, Fake!CountersExact
<1>. QED
  BY <1>3, <1>4, <1>5, <1>6, <1>7

(***************************************************************************)
(* The regions are within the memory they were cut from.                   *)
(***************************************************************************)

LEMMA RegionTyped ==
  ASSUME NEW e \in Usable
  PROVE  /\ e.base \in Nat /\ e.len \in Nat
         /\ e.base \div PageSize \in Nat /\ e.len \div PageSize \in Nat
         /\ e.base = PageSize * (e.base \div PageSize)
         /\ PageSize * (e.len \div PageSize) <= e.len
<1>0. e \in [base : Nat, len : Nat, usable : BOOLEAN]
  BY MemoryMapAssumption DEF Usable
<1>1. /\ e.base \in Nat /\ e.len \in Nat /\ PageSize \in Nat \ {0}
      /\ e.base % PageSize = 0
  BY <1>0, MemoryMapAssumption
<1>. DEFINE b == e.base
            l == e.len
<1>. HIDE DEF b, l
<1>2. /\ b \in Nat /\ l \in Nat /\ b % PageSize = 0
  BY <1>1 DEF b, l
<1>3. /\ b \div PageSize \in Int /\ b = PageSize * (b \div PageSize) + (b % PageSize)
      /\ l \div PageSize \in Int /\ l = PageSize * (l \div PageSize) + (l % PageSize)
      /\ l % PageSize \in 0 .. PageSize - 1
  <2>1. b \in Int /\ l \in Int
    BY <1>2
  <2>. QED  BY <1>1, <2>1, DivMod, Zenon
<1>4. b \div PageSize \in Nat /\ l \div PageSize \in Nat
  BY <1>1, <1>2
<1>5. b = PageSize * (b \div PageSize)
  BY <1>1, <1>2, <1>3
<1>6. PageSize * (l \div PageSize) <= l
  <2>1. PageSize * (l \div PageSize) \in Int
    BY <1>1, <1>3
  <2>. QED  BY <1>1, <1>2, <1>3, <2>1
<1>. QED
  BY <1>2, <1>4, <1>5, <1>6 DEF b, l

LEMMA PageBytes ==
  ASSUME NEW e \in Usable, NEW p \in Buddy!RegionPages(RegionOf(e.base, e.len))
  PROVE  /\ p \in Nat
         /\ e.base <= p * PageSize
         /\ (p + 1) * PageSize <= e.base + e.len
<1>. DEFINE s == e.base \div PageSize
            c == e.len \div PageSize
<1>1. /\ e.base \in Nat /\ e.len \in Nat /\ s \in Nat /\ c \in Nat
      /\ e.base = PageSize * s /\ PageSize * c <= e.len
      /\ PageSize \in Nat \ {0}
  BY RegionTyped, MemoryMapAssumption
<1>2. p \in s .. s + c - 1
  BY DEF Buddy!RegionPages, RegionOf
<1>. HIDE DEF s, c
<1>3. p \in Nat /\ s <= p /\ p + 1 <= s + c
  BY <1>1, <1>2
<1>4. PageSize * s <= PageSize * p /\ PageSize * (p + 1) <= PageSize * (s + c)
  BY <1>1, <1>3, MultipleMonotone
<1>5. PageSize * (s + c) = PageSize * s + PageSize * c
  BY <1>1
<1>6. p * PageSize = PageSize * p /\ (p + 1) * PageSize = PageSize * (p + 1)
  BY <1>1, <1>3
<1>7. PageSize * s \in Int /\ PageSize * c \in Int /\ PageSize * (p + 1) \in Int
  BY <1>1, <1>3
<1>. QED
  BY <1>1, <1>3, <1>4, <1>5, <1>6, <1>7

LEMMA RealRegions ==
  /\ UsableRegions \subseteq [start : Nat, count : Nat \ {0}]
  /\ \A r, t \in UsableRegions : r # t => Real!RegionPages(r) \cap Real!RegionPages(t) = {}
<1>0. ASSUME NEW r \in UsableRegions
      PROVE  \E e \in Usable : r = RegionOf(e.base, e.len)
  BY DEF UsableRegions
<1>1. ASSUME NEW r \in UsableRegions PROVE r \in [start : Nat, count : Nat \ {0}]
  <2>1. PICK e \in Usable : r = RegionOf(e.base, e.len)
    BY <1>0
  <2>2. r.count > 0
    BY DEF UsableRegions
  <2>. QED  BY <2>1, <2>2, RegionTyped DEF RegionOf
<1>2. ASSUME NEW r \in UsableRegions, NEW t \in UsableRegions, r # t,
             NEW p \in Real!RegionPages(r), p \in Real!RegionPages(t)
      PROVE  FALSE
  <2>1. PICK e \in Usable : r = RegionOf(e.base, e.len)
    BY <1>0
  <2>2. PICK f \in Usable : t = RegionOf(f.base, f.len)
    BY <1>0
  <2>3. e # f
    BY <1>2, <2>1, <2>2
  <2>4. p \in Buddy!RegionPages(r) /\ p \in Buddy!RegionPages(t)
    BY <1>2 DEF Real!RegionPages, Buddy!RegionPages
  <2>5. /\ p \in Nat
        /\ e.base <= p * PageSize /\ (p + 1) * PageSize <= e.base + e.len
        /\ f.base <= p * PageSize /\ (p + 1) * PageSize <= f.base + f.len
    BY <2>1, <2>2, <2>4, PageBytes
  <2>. DEFINE x == p * PageSize
  <2>6. x \in Int /\ (p + 1) * PageSize = x + PageSize /\ PageSize \in Nat \ {0}
    BY <2>5, MemoryMapAssumption
  <2>7. e.base \in Nat /\ e.len \in Nat /\ f.base \in Nat /\ f.len \in Nat
    BY RegionTyped
  <2>. HIDE DEF x
  <2>8. x \in e.base .. e.base + e.len - 1 /\ x \in f.base .. f.base + f.len - 1
    BY <2>5, <2>6, <2>7 DEF x
  <2>. QED  BY <2>3, <2>8, MemoryMapAssumption
<1>. QED
  BY <1>1, <1>2

LEMMA FakeRegions ==
  /\ {FakeRegion} \subseteq [start : Nat, count : Nat \ {0}]
  /\ \A r, t \in {FakeRegion} : r # t => Fake!RegionPages(r) \cap Fake!RegionPages(t) = {}
BY MemoryMapAssumption DEF FakeRegion

(***************************************************************************)
(* The allocator under the memory manager.                                 *)
(***************************************************************************)

Sound == Real!IInv \/ (Fake!IInv /\ added = {FakeRegion} /\ booted)

(* What the allocator's invariants say, whichever regions it has.          *)
Counted ==
  /\ {free_pages, pages_allocated, total_pages} \subseteq Nat
  /\ held \subseteq Nat \X (0 .. MaxOrder)
  /\ free_pages = Cardinality(Buddy!FreePages)
  /\ pages_allocated = Cardinality(Buddy!HeldPages)
  /\ free_pages + pages_allocated = total_pages
  /\ IsFiniteSet(Buddy!FreePages) /\ IsFiniteSet(Buddy!HeldPages)
  /\ Buddy!FreePages \cup Buddy!HeldPages = UNION {Buddy!RegionPages(r) : r \in added}
  /\ added \subseteq UsableRegions \/ (added = {FakeRegion} /\ booted)

LEMMA SoundCounted == Sound => Counted
<1>0. UNION {Buddy!RegionPages(r) : r \in added} = UNION {Real!RegionPages(r) : r \in added}
      /\ UNION {Buddy!RegionPages(r) : r \in added} = UNION {Fake!RegionPages(r) : r \in added}
  BY Zenon DEF Buddy!RegionPages, Real!RegionPages, Fake!RegionPages
<1>1. ASSUME Real!IInv PROVE Counted
  <2>1. /\ {free_pages, pages_allocated, total_pages} \subseteq Nat
        /\ held \subseteq Nat \X (0 .. MaxOrder) /\ added \subseteq UsableRegions
    BY <1>1 DEF Real!IInv, Real!TypeOK, Real!Orders
  <2>2. /\ free_pages = Cardinality(Buddy!FreePages)
        /\ pages_allocated = Cardinality(Buddy!HeldPages)
        /\ free_pages + pages_allocated = total_pages
    BY <1>1, SamePages, SameCounts, Zenon DEF Real!IInv, Real!CountersExact
  <2>3. IsFiniteSet(Buddy!FreePages) /\ IsFiniteSet(Buddy!HeldPages)
    BY <1>1, SamePages, SameCounts, Zenon DEF Real!IInv, Real!PagesFinite
  <2>4. Buddy!FreePages \cup Buddy!HeldPages = UNION {Buddy!RegionPages(r) : r \in added}
    BY <1>0, <1>1, SamePages, Zenon DEF Real!IInv, Real!NoPageLost
  <2>. QED  BY <2>1, <2>2, <2>3, <2>4 DEF Counted
<1>2. ASSUME Fake!IInv, added = {FakeRegion}, booted PROVE Counted
  <2>1. /\ {free_pages, pages_allocated, total_pages} \subseteq Nat
        /\ held \subseteq Nat \X (0 .. MaxOrder)
    BY <1>2 DEF Fake!IInv, Fake!TypeOK, Fake!Orders
  <2>2. /\ free_pages = Cardinality(Buddy!FreePages)
        /\ pages_allocated = Cardinality(Buddy!HeldPages)
        /\ free_pages + pages_allocated = total_pages
    BY <1>2, SamePages, SameCounts, Zenon DEF Fake!IInv, Fake!CountersExact
  <2>3. IsFiniteSet(Buddy!FreePages) /\ IsFiniteSet(Buddy!HeldPages)
    BY <1>2, SamePages, SameCounts, Zenon DEF Fake!IInv, Fake!PagesFinite
  <2>4. Buddy!FreePages \cup Buddy!HeldPages = UNION {Buddy!RegionPages(r) : r \in added}
    BY <1>0, <1>2, SamePages, Zenon DEF Fake!IInv, Fake!NoPageLost
  <2>. QED  BY <1>2, <2>1, <2>2, <2>3, <2>4 DEF Counted
<1>. QED
  BY <1>1, <1>2 DEF Sound

LEMMA CountedNext == Sound' => Counted'
BY SoundCounted, PTL

(* The steps of the allocator.                                             *)
LEMMA RealStep ==
  ASSUME Real!IInv, [Real!Next]_(Real!vars)
  PROVE  Real!IInv'
BY Real!NextIInv, OrderAssumption, RealRegions
   DEF Buddy!Pages, Real!Pages, Real!RegionPages

LEMMA FakeStep ==
  ASSUME Fake!IInv, [Fake!Next]_(Fake!vars)
  PROVE  Fake!IInv'
BY Fake!NextIInv, OrderAssumption, FakeRegions
   DEF Buddy!Pages, Fake!Pages, Fake!RegionPages

LEMMA AllocSound ==
  ASSUME Sound, NEW order \in 0 .. MaxOrder, Buddy!Alloc(order), booted' = booted
  PROVE  Sound'
<1>1. /\ Real!Next /\ Fake!Next
  BY SameAlloc DEF Real!Next, Fake!Next, Real!Orders, Fake!Orders
<1>2. added' = added
  BY DEF Buddy!Alloc
<1>. QED
  BY <1>1, <1>2, RealStep, FakeStep DEF Sound

LEMMA FreeSound ==
  ASSUME Sound, NEW b \in held, Buddy!Free(b[1], b[2]), booted' = booted
  PROVE  Sound'
<1>1. /\ Real!Next /\ Fake!Next
  BY SameFree DEF Real!Next, Fake!Next
<1>2. added' = added
  BY DEF Buddy!Free
<1>. QED
  BY <1>1, <1>2, RealStep, FakeStep DEF Sound

LEMMA NoPagesNoRegions ==
  ASSUME Counted, total_pages = 0
  PROVE  added = {} \/ booted
<1>1. Cardinality(Buddy!FreePages) = 0 /\ Cardinality(Buddy!HeldPages) = 0
  BY DEF Counted
<1>2. Buddy!FreePages = {} /\ Buddy!HeldPages = {}
  BY <1>1, FS_EmptySet DEF Counted
<1>3. ASSUME NEW r \in added, added \subseteq UsableRegions PROVE FALSE
  <2>1. r.start \in Nat /\ r.count \in Nat \ {0}
    BY <1>3, RealRegions
  <2>2. r.start \in Buddy!RegionPages(r)
    BY <2>1 DEF Buddy!RegionPages
  <2>. QED  BY <1>2, <1>3, <2>2 DEF Counted
<1>. QED
  BY <1>3 DEF Counted

LEMMA ReadSound ==
  ASSUME Sound, ~booted, NEW e \in Usable, RegisterRegion(e.base, e.len), booted' = booted
  PROVE  Sound'
<1>. DEFINE r == RegionOf(e.base, e.len)
<1>0. Real!IInv
  BY DEF Sound
<1>1. CASE r.count > 0
  <2>1. r \in UsableRegions
    BY <1>1 DEF UsableRegions
  <2>2. Buddy!AddRegion(r)
    BY <1>1 DEF RegisterRegion
  <2>. HIDE DEF r
  <2>3. Real!Next
    BY <2>1, <2>2, SameAdd DEF Real!Next
  <2>. QED  BY <1>0, <2>3, RealStep DEF Sound
<1>2. CASE ~(r.count > 0)
  <2>1. UNCHANGED Real!vars
    BY <1>2 DEF RegisterRegion, buddyVars, Real!vars
  <2>. QED  BY <1>0, <2>1, RealStep DEF Sound
<1>. QED
  BY <1>1, <1>2

LEMMA InitSound ==
  ASSUME Sound, ~booted, MemoryInit, total_pages' # 0 => booted'
  PROVE  Sound' /\ total_pages' \in Nat \ {0}
<1>0. Real!IInv /\ Counted /\ total_pages \in Nat /\ FakePages \in Nat \ {0}
  BY SoundCounted, MemoryMapAssumption DEF Sound, Counted
<1>1. CASE total_pages = 0
  <2>1. added = {}
    BY <1>0, <1>1, NoPagesNoRegions
  <2>2. Fake!IInv
    <3>1. Fake!TypeOK
      BY <1>0, <2>1, Zenon
         DEF Real!IInv, Real!TypeOK, Fake!TypeOK, Real!Orders, Fake!Orders
    <3>. QED  BY <1>0, <3>1, SameConditions DEF Real!IInv, Fake!IInv
  <2>3. Buddy!AddRegion(FakeRegion)
    BY <1>1 DEF MemoryInit
  <2>4. Fake!Next
    BY <2>3, SameAdd DEF Fake!Next
  <2>5. Fake!IInv'
    BY <2>2, <2>4, FakeStep
  <2>6. total_pages' = 0 + FakePages /\ added' = {FakeRegion}
    BY <1>1, <2>1, <2>3 DEF Buddy!AddRegion, FakeRegion
  <2>. QED  BY <1>0, <2>5, <2>6 DEF Sound
<1>2. CASE total_pages # 0
  <2>1. UNCHANGED buddyVars
    BY <1>2 DEF MemoryInit
  <2>2. UNCHANGED Real!vars /\ total_pages' = total_pages
    BY <2>1 DEF buddyVars, Real!vars
  <2>. QED  BY <1>0, <1>2, <2>2, RealStep DEF Sound
<1>. QED
  BY <1>1, <1>2

(***************************************************************************)
(* The statistics.                                                         *)
(***************************************************************************)

Huge == {b \in held : b[2] = MaxOrder}

StatsKept ==
  /\ unread \subseteq MemoryMap
  /\ IsFiniteSet(held)
  /\ HUGE_PAGES = Cardinality(Huge)
  /\ IF booted THEN /\ FREE_MEMORY = PageSize * free_pages
                    /\ TOTAL_MEMORY = PageSize * total_pages
     ELSE held = {}

IInv == Sound /\ StatsKept

(* A block alloc grants was not held before. *)
LEMMA GrantedIsNew ==
  ASSUME Sound, Sound', NEW order \in 0 .. MaxOrder, Buddy!Alloc(order)
  PROVE  \E p \in Nat : <<p, order>> \notin held /\ held' = held \cup {<<p, order>>}
<1>1. Counted /\ Counted'
  BY SoundCounted, CountedNext
<1>2. PICK p : held' = held \cup {<<p, order>>}
  BY DEF Buddy!Alloc
<1>3. pages_allocated' = pages_allocated + Buddy!Pages(order)
  BY DEF Buddy!Alloc
<1>4. <<p, order>> \notin held
  <2>1. SUFFICES ASSUME <<p, order>> \in held PROVE FALSE
    OBVIOUS
  <2>2. held' = held
    BY <1>2, <2>1
  <2>3. Buddy!HeldPages' = Buddy!HeldPages
    BY <2>2 DEF Buddy!HeldPages, Buddy!PagesOf, Buddy!BlockPages
  <2>4. pages_allocated' = pages_allocated
    BY <1>1, <2>3 DEF Counted
  <2>5. pages_allocated \in Nat /\ Buddy!Pages(order) \in Nat \ {0}
    BY <1>1, OrderAssumption DEF Counted
  <2>. QED  BY <1>3, <2>4, <2>5
<1>5. p \in Nat
  <2>1. <<p, order>> \in Nat \X (0 .. MaxOrder)
    BY <1>1, <1>2 DEF Counted
  <2>. QED  BY <2>1
<1>. QED
  BY <1>2, <1>4, <1>5

LEMMA Bytes ==
  ASSUME NEW a \in Int, NEW b \in Int
  PROVE  /\ PageSize * (a - b) = PageSize * a - PageSize * b
         /\ PageSize * (a + b) = PageSize * a + PageSize * b
         /\ PageSize * 1 = PageSize
BY MemoryMapAssumption

LEMMA HugeFinite ==
  ASSUME IsFiniteSet(held)
  PROVE  IsFiniteSet(Huge) /\ Cardinality(Huge) \in Nat
<1>1. Huge \in SUBSET held
  BY DEF Huge
<1>. QED
  BY <1>1, FS_Subset, FS_CardinalityType

(* A block granted: the counter of huge pages follows the order. *)
LEMMA AllocKept ==
  ASSUME Sound, StatsKept, booted, booted' = booted, unread' = unread,
         NEW order \in 0 .. MaxOrder, Buddy!Alloc(order),
         FREE_MEMORY' = FREE_MEMORY - PageSize * Buddy!Pages(order),
         TOTAL_MEMORY' = TOTAL_MEMORY,
         HUGE_PAGES' = IF order = MaxOrder THEN HUGE_PAGES + 1 ELSE HUGE_PAGES
  PROVE  Sound' /\ StatsKept'
<1>1. Sound' /\ Counted
  BY AllocSound, SoundCounted
<1>2. PICK p \in Nat : <<p, order>> \notin held /\ held' = held \cup {<<p, order>>}
  BY <1>1, GrantedIsNew
<1>3. /\ free_pages' = free_pages - Buddy!Pages(order) /\ total_pages' = total_pages
      /\ free_pages \in Nat /\ Buddy!Pages(order) \in Nat
  BY <1>1, OrderAssumption DEF Buddy!Alloc, Counted
<1>4. PageSize * free_pages' = PageSize * free_pages - PageSize * Buddy!Pages(order)
  BY <1>3, Bytes
<1>5. IsFiniteSet(held')
  BY <1>2, FS_AddElement DEF StatsKept
<1>6. HUGE_PAGES' = Cardinality(Huge')
  <2>1. CASE order = MaxOrder
    <3>1. Huge' = Huge \cup {<<p, order>>} /\ <<p, order>> \notin Huge
      BY <1>2, <2>1 DEF Huge
    <3>. QED  BY <2>1, <3>1, HugeFinite, FS_AddElement DEF StatsKept
  <2>2. CASE order # MaxOrder
    <3>1. Huge' = Huge
      BY <1>2, <2>2 DEF Huge
    <3>. QED  BY <2>2, <3>1 DEF StatsKept
  <2>. QED  BY <2>1, <2>2
<1>. QED
  BY <1>1, <1>3, <1>4, <1>5, <1>6 DEF StatsKept

LEMMA FreeKept ==
  ASSUME Sound, StatsKept, booted, booted' = booted, unread' = unread,
         NEW b \in held, Buddy!Free(b[1], b[2]),
         FREE_MEMORY' = FREE_MEMORY + PageSize * Buddy!Pages(b[2]),
         TOTAL_MEMORY' = TOTAL_MEMORY,
         HUGE_PAGES' = IF b[2] = MaxOrder THEN HUGE_PAGES - 1 ELSE HUGE_PAGES
  PROVE  Sound' /\ StatsKept'
<1>1. Sound' /\ Counted
  BY FreeSound, SoundCounted
<1>2. b = <<b[1], b[2]>> /\ b[2] \in 0 .. MaxOrder
  BY <1>1 DEF Counted
<1>3. held' = held \ {b}
  BY <1>2 DEF Buddy!Free
<1>4. /\ free_pages' = free_pages + Buddy!Pages(b[2]) /\ total_pages' = total_pages
      /\ free_pages \in Nat /\ Buddy!Pages(b[2]) \in Nat
  BY <1>1, <1>2, OrderAssumption DEF Buddy!Free, Counted
<1>5. PageSize * free_pages' = PageSize * free_pages + PageSize * Buddy!Pages(b[2])
  BY <1>4, Bytes
<1>6. IsFiniteSet(held')
  BY <1>3, FS_RemoveElement DEF StatsKept
<1>7. HUGE_PAGES' = Cardinality(Huge')
  <2>1. CASE b[2] = MaxOrder
    <3>1. Huge' = Huge \ {b} /\ b \in Huge
      BY <1>3, <2>1 DEF Huge
    <3>. QED  BY <2>1, <3>1, HugeFinite, FS_RemoveElement DEF StatsKept
  <2>2. CASE b[2] # MaxOrder
    <3>1. Huge' = Huge
      BY <1>3, <2>2 DEF Huge
    <3>. QED  BY <2>2, <3>1 DEF StatsKept
  <2>. QED  BY <2>1, <2>2
<1>. QED
  BY <1>1, <1>4, <1>5, <1>6, <1>7 DEF StatsKept

LEMMA InitIInv == Init => IInv
<1>. SUFFICES ASSUME Init PROVE IInv
  OBVIOUS
<1>1. Real!Init
  BY Zenon DEF Init, MMInit, Buddy!Init, Real!Init, Buddy!Orders, Real!Orders
<1>2. Real!IInv
  BY <1>1, Real!InitIInv, OrderAssumption, RealRegions
     DEF Buddy!Pages, Real!Pages, Real!RegionPages
<1>3. held = {} /\ HUGE_PAGES = 0 /\ ~booted /\ unread \subseteq MemoryMap
  BY DEF Init, MMInit, Buddy!Init
<1>4. Huge = {}
  BY <1>3 DEF Huge
<1>. QED
  BY <1>2, <1>3, <1>4, FS_EmptySet DEF IInv, Sound, StatsKept

LEMMA BootStep ==
  ASSUME IInv, Boot
  PROVE  IInv'
<1>1. CASE booted
  <2>1. UNCHANGED <<Real!vars, Fake!vars, FREE_MEMORY, TOTAL_MEMORY, HUGE_PAGES, booted, unread>>
    BY <1>1 DEF Boot, mmVars, buddyVars, statVars, Real!vars, Fake!vars
  <2>2. Sound'
    BY <2>1, RealStep, FakeStep DEF IInv, Sound, Real!vars
  <2>3. held' = held /\ free_pages' = free_pages /\ total_pages' = total_pages
    BY <2>1 DEF Real!vars
  <2>. QED  BY <2>1, <2>2, <2>3 DEF IInv, StatsKept, Huge
<1>2. CASE ~booted
  <2>1. MemoryInit /\ (total_pages' # 0 => booted') /\ unread' = unread
    BY <1>2 DEF Boot
  <2>2. Sound' /\ total_pages' \in Nat \ {0} /\ booted'
    BY <1>2, <2>1, InitSound DEF IInv
  <2>3. Counted'
    BY <2>2, CountedNext
  <2>4. held' = held /\ held = {}
    BY <1>2, <2>1 DEF MemoryInit, Buddy!AddRegion, buddyVars, IInv, StatsKept
  <2>5. free_pages' = total_pages'
    <3>1. Buddy!HeldPages' = {}
      BY <2>4 DEF Buddy!HeldPages, Buddy!PagesOf
    <3>2. pages_allocated' = 0 /\ free_pages' \in Nat
      BY <2>3, <3>1, FS_EmptySet DEF Counted
    <3>. QED  BY <2>2, <2>3, <3>2 DEF Counted
  <2>6. /\ FREE_MEMORY' = PageSize * free_pages' /\ TOTAL_MEMORY' = PageSize * total_pages'
        /\ HUGE_PAGES' = HUGE_PAGES
    <3>1. total_pages' * PageSize = PageSize * total_pages'
      BY <2>2, MemoryMapAssumption
    <3>. QED  BY <2>1, <2>5, <3>1 DEF MemoryInit
  <2>. QED  BY <2>1, <2>2, <2>4, <2>6 DEF IInv, StatsKept, Huge
<1>. QED
  BY <1>1, <1>2

LEMMA ClientStep ==
  ASSUME IInv, Client
  PROVE  IInv'
<1>0. /\ booted /\ booted' = booted /\ unread' = unread
      /\ 0 \in 0 .. MaxOrder /\ MaxOrder \in 0 .. MaxOrder /\ 0 # MaxOrder
      /\ PageSize = PageSize * Buddy!Pages(0) /\ HugePage2M = PageSize * Buddy!Pages(MaxOrder)
  BY OrderAssumption, MemoryMapAssumption DEF Client, bootVars, HugePage2M
<1>1. CASE AllocPage
  BY <1>0, <1>1, AllocKept DEF AllocPage, IInv
<1>2. CASE AllocHugePage
  BY <1>0, <1>2, AllocKept DEF AllocHugePage, IInv
<1>3. ASSUME NEW b \in held, b[2] = 0, FreePage(b[1]) PROVE IInv'
  BY <1>0, <1>3, FreeKept DEF FreePage, IInv
<1>4. ASSUME NEW b \in held, b[2] = MaxOrder, FreeHugePage(b[1]) PROVE IInv'
  BY <1>0, <1>4, FreeKept DEF FreeHugePage, IInv
<1>5. CASE CowFault
  <2>1. CASE Buddy!Alloc(0) /\ FREE_MEMORY' = FREE_MEMORY - PageSize
    BY <1>0, <1>5, <2>1, AllocKept DEF CowFault, IInv
  <2>2. CASE UNCHANGED <<buddyVars, FREE_MEMORY>>
    <3>1. UNCHANGED <<Real!vars, Fake!vars>>
      BY <2>2 DEF buddyVars, Real!vars, Fake!vars
    <3>2. Sound'
      BY <1>0, <3>1, RealStep, FakeStep DEF IInv, Sound, Real!vars
    <3>3. /\ held' = held /\ free_pages' = free_pages /\ total_pages' = total_pages
          /\ FREE_MEMORY' = FREE_MEMORY /\ TOTAL_MEMORY' = TOTAL_MEMORY
          /\ HUGE_PAGES' = HUGE_PAGES
      BY <1>5, <2>2 DEF CowFault, buddyVars
    <3>. QED  BY <1>0, <3>2, <3>3 DEF IInv, StatsKept, Huge
  <2>. QED  BY <1>5, <2>1, <2>2 DEF CowFault
<1>. QED
  BY <1>1, <1>2, <1>3, <1>4, <1>5 DEF Client

LEMMA NextIInv == IInv /\ [Next]_vars => IInv'
<1>. SUFFICES ASSUME IInv, [Next]_vars PROVE IInv'
  OBVIOUS
<1>1. CASE ReadEntry
  <2>1. PICK e \in unread :
          /\ unread' = unread \ {e}
          /\ IF e.usable THEN RegisterRegion(e.base, e.len) ELSE UNCHANGED mmVars
    BY <1>1 DEF ReadEntry
  <2>2. ~booted /\ booted' = booted /\ e \in MemoryMap /\ unread' \subseteq MemoryMap
    BY <1>1, <2>1 DEF ReadEntry, IInv, StatsKept
  <2>3. Sound' /\ held' = held /\ HUGE_PAGES' = HUGE_PAGES
    <3>1. CASE e.usable
      <4>1. e \in Usable /\ RegisterRegion(e.base, e.len)
        BY <2>1, <2>2, <3>1 DEF Usable
      <4>2. Sound'
        BY <2>2, <4>1, ReadSound DEF IInv
      <4>3. held' = held /\ HUGE_PAGES' = HUGE_PAGES
        BY <4>1 DEF RegisterRegion, Buddy!AddRegion, buddyVars, statVars
      <4>. QED  BY <4>2, <4>3
    <3>2. CASE ~e.usable
      <4>1. UNCHANGED <<Real!vars, held, HUGE_PAGES>>
        BY <2>1, <3>2 DEF mmVars, buddyVars, statVars, Real!vars
      <4>. QED  BY <2>2, <4>1, RealStep DEF IInv, Sound
    <3>. QED  BY <3>1, <3>2
  <2>. QED  BY <2>2, <2>3 DEF IInv, StatsKept, Huge
<1>2. CASE Boot
  BY <1>2, BootStep
<1>3. CASE Client
  BY <1>3, ClientStep
<1>4. CASE UNCHANGED vars
  <2>1. UNCHANGED <<Real!vars, Fake!vars>>
    BY <1>4 DEF vars, mmVars, buddyVars, Real!vars, Fake!vars
  <2>2. /\ held' = held /\ free_pages' = free_pages /\ total_pages' = total_pages
        /\ added' = added /\ booted' = booted /\ unread' = unread
        /\ FREE_MEMORY' = FREE_MEMORY /\ TOTAL_MEMORY' = TOTAL_MEMORY
        /\ HUGE_PAGES' = HUGE_PAGES
    BY <1>4 DEF vars, mmVars, buddyVars, statVars, bootVars
  <2>3. Sound'
    BY <2>1, <2>2, RealStep, FakeStep DEF IInv, Sound
  <2>. QED  BY <2>2, <2>3 DEF IInv, StatsKept, Huge
<1>. QED
  BY <1>1, <1>2, <1>3, <1>4 DEF Next

LEMMA Invariance == Spec => []IInv
BY InitIInv, NextIInv, PTL DEF Spec

(* What MemoryManager::stats answers is what the allocator holds, however  *)
(* often Kernel::boot is called again while clients hold pages: no page is *)
(* counted free that a client has, and HUGE_PAGES is the huge pages        *)
(* clients hold (memory.rs:214-290, lib.rs, boot).                         *)
THEOREM StatsCorrect == Spec => []StatsExact
<1>1. IInv => StatsExact
  <2>. SUFFICES ASSUME IInv, booted PROVE
         /\ FREE_MEMORY = PageSize * Cardinality(Buddy!FreePages)
         /\ TOTAL_MEMORY = FREE_MEMORY + PageSize * Cardinality(Buddy!HeldPages)
         /\ HUGE_PAGES = Cardinality({b \in held : b[2] = MaxOrder})
    BY DEF StatsExact
  <2>1. Counted
    BY SoundCounted DEF IInv
  <2>2. /\ FREE_MEMORY = PageSize * free_pages /\ TOTAL_MEMORY = PageSize * total_pages
        /\ HUGE_PAGES = Cardinality({b \in held : b[2] = MaxOrder})
    BY DEF IInv, StatsKept, Huge
  <2>3. /\ free_pages \in Int /\ pages_allocated \in Int
        /\ total_pages = free_pages + pages_allocated
    BY <2>1 DEF Counted
  <2>4. PageSize * total_pages = PageSize * free_pages + PageSize * pages_allocated
    BY <2>3, Bytes
  <2>. QED  BY <2>1, <2>2, <2>4 DEF Counted
<1>. QED
  BY <1>1, Invariance, PTL

(* On a machine with usable memory every page of the allocator, free or    *)
(* held, lies within a range the bootloader called usable                  *)
(* (memory.rs, register_region).                                           *)
THEOREM UsableCorrect == Spec => []OnlyUsableMemory
<1>1. IInv => OnlyUsableMemory
  <2>. SUFFICES ASSUME IInv, added # {FakeRegion},
                       NEW pfn \in Buddy!FreePages \cup Buddy!HeldPages
       PROVE \E e \in Usable : /\ e.base <= pfn * PageSize
                               /\ (pfn + 1) * PageSize <= e.base + e.len
    BY DEF OnlyUsableMemory
  <2>1. Counted
    BY SoundCounted DEF IInv
  <2>2. PICK r \in added : pfn \in Buddy!RegionPages(r)
    BY <2>1 DEF Counted
  <2>3. r \in UsableRegions
    BY <2>1, <2>2 DEF Counted
  <2>4. PICK e \in Usable : r = RegionOf(e.base, e.len)
    BY <2>3 DEF UsableRegions
  <2>. QED  BY <2>2, <2>4, PageBytes
<1>. QED
  BY <1>1, Invariance, PTL
===============================================================================
