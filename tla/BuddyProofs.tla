----------------------------- MODULE BuddyProofs -----------------------------
(***************************************************************************)
(* Proofs about BuddyAllocator.tla.                                        *)
(***************************************************************************)
EXTENDS BuddyAllocator, LibraryFacts, FiniteSetTheorems, TLAPS

(***************************************************************************)
(* Arithmetic of aligned blocks.                                           *)
(***************************************************************************)

LEMMA PagesFacts ==
  ASSUME NEW k \in Orders
  PROVE  /\ Pages(k) \in Nat \ {0}
         /\ Pages(k + 1) \in Nat \ {0}
         /\ Pages(k + 1) = 2 * Pages(k)
<1>1. Pages(k) \in Nat \ {0} /\ Pages(k + 1) = 2 * Pages(k)
  BY OrderAssumption DEF Orders
<1>2. \A n \in Nat \ {0} : 2 * n \in Nat \ {0}
  OBVIOUS
<1>. QED
  BY <1>1, <1>2

(* A block's pages are numbers, and it is never empty. *)
LEMMA BlockFacts ==
  ASSUME NEW k \in Orders, NEW p \in Nat
  PROVE  /\ Block(p, k) \subseteq Nat
         /\ p \in Block(p, k)
BY PagesFacts DEF Block

(* A pfn is aligned when it is a multiple of the block size. *)
LEMMA AlignedMultiple ==
  ASSUME NEW k \in Orders, NEW p \in Nat
  PROVE  Aligned(p, k) <=> \E a \in Nat : p = Pages(k) * a
<1>1. ASSUME Aligned(p, k) PROVE \E a \in Nat : p = Pages(k) * a
  <2>. DEFINE a == p \div Pages(k)
  <2>1. a \in Int /\ p = Pages(k) * a
    <3>1. Pages(k) \in Nat \ {0} /\ p % Pages(k) = 0
      BY <1>1, PagesFacts DEF Aligned
    <3>2. p \in Int
      OBVIOUS
    <3>3. a \in Int /\ p = Pages(k) * a + (p % Pages(k))
      BY <3>1, <3>2, DivMod, Zenon
    <3>. QED  BY <3>1, <3>3
  <2>2. a \in Nat
    <3>1. Pages(k) * 0 <= Pages(k) * a + 0
      BY <2>1, PagesFacts
    <3>. HIDE DEF a
    <3>2. 0 <= a
      BY <3>1, <2>1, PagesFacts, MultipleBelow
    <3>. QED  BY <2>1, <3>2
  <2>. QED  BY <2>1, <2>2
<1>2. ASSUME NEW a \in Nat, p = Pages(k) * a PROVE Aligned(p, k)
  BY <1>2, PagesFacts, DivModUnique DEF Aligned
<1>. QED
  BY <1>1, <1>2

(* Blocks are nested or disjoint: one that meets a larger block lies in it. *)
LEMMA AlignedNested ==
  ASSUME NEW j \in Orders, NEW k \in Orders, j <= k,
         NEW p \in Nat, NEW q \in Nat, Aligned(p, j), Aligned(q, k),
         NEW y \in Block(p, j), y \in Block(q, k)
  PROVE  Block(p, j) \subseteq Block(q, k)
<1>. DEFINE P == Pages(j)
<1>1. P \in Nat \ {0}
  BY PagesFacts
<1>2. PICK a \in Nat : p = P * a
  BY AlignedMultiple
<1>3. PICK b \in Nat : q = Pages(k) * b
  BY AlignedMultiple
<1>4. PICK m \in 1 .. Pages(k) : Pages(k) = m * P
  BY OrderAssumption DEF Orders
<1>5. Pages(k) \in Nat
  BY PagesFacts
<1>. DEFINE n == m * b
<1>6. m \in Nat /\ n \in Nat
  BY <1>4, <1>5
<1>7. q = P * n /\ q + Pages(k) = P * (n + m)
  <2>. HIDE DEF P
  <2>1. (m * P) * b = P * (m * b)
    BY <1>1, <1>6
  <2>2. P * (m * b + m) = P * (m * b) + m * P
    BY <1>1, <1>6
  <2>. QED  BY <1>3, <1>4, <2>1, <2>2
<1>8. p <= y /\ y - p \in 0 .. P - 1 /\ y \in Nat
  BY <1>1 DEF Block
<1>9. q <= y /\ y < q + Pages(k)
  BY <1>5 DEF Block
<1>. HIDE DEF n, P
<1>10. n <= a
  <2>1. P * n <= P * a + (y - p)
    BY <1>2, <1>7, <1>8, <1>9
  <2>. QED  BY <2>1, <1>1, <1>6, <1>8, MultipleBelow
<1>11. a + 1 <= n + m
  <2>1. SUFFICES ASSUME n + m <= a PROVE FALSE
    BY <1>6
  <2>2. P * (n + m) <= P * a
    BY <2>1, <1>1, <1>6, MultipleMonotone
  <2>. QED  BY <2>2, <1>2, <1>7, <1>8, <1>9, <1>1, <1>6
<1>12. q <= p
  BY <1>10, <1>1, <1>2, <1>6, <1>7, MultipleMonotone
<1>13. p + P <= q + Pages(k)
  <2>1. P * (a + 1) <= P * (n + m)
    BY <1>11, <1>1, <1>6, MultipleMonotone
  <2>2. P * (a + 1) = p + P
    BY <1>1, <1>2
  <2>. QED  BY <2>1, <2>2, <1>7
<1>. QED
  BY <1>12, <1>13, <1>1, <1>5 DEF Block, P

(* Clearing the low bits of a pfn gives the aligned block that contains it. *)
LEMMA AlignDownFacts ==
  ASSUME NEW k \in Orders, NEW x \in Nat
  PROVE  /\ AlignDown(x, k) \in Nat
         /\ Aligned(AlignDown(x, k), k)
         /\ x \in Block(AlignDown(x, k), k)
<1>. DEFINE P == Pages(k)
            q == x \div P
            t == x % P
<1>1. P \in Nat \ {0} /\ x \in Int
  BY PagesFacts
<1>2. q \in Int /\ t \in 0 .. P - 1 /\ x = P * q + t
  BY <1>1, DivMod, Zenon
<1>3. 0 <= q
  <2>. HIDE DEF P, q, t
  <2>1. P * 0 <= P * q + t
    BY <1>1, <1>2
  <2>. QED  BY <2>1, <1>1, <1>2, MultipleBelow
<1>4. AlignDown(x, k) = x - t
  BY DEF AlignDown
<1>. HIDE DEF q, t
<1>5. x - t = P * q /\ P * q \in Nat
  BY <1>1, <1>2, <1>3
<1>6. Aligned(P * q, k)
  BY <1>2, <1>3, <1>5, AlignedMultiple
<1>7. x \in Block(x - t, k)
  BY <1>1, <1>2, <1>5 DEF Block
<1>. QED
  BY <1>4, <1>5, <1>6, <1>7

(* It is the only such block. *)
LEMMA AlignDownUnique ==
  ASSUME NEW k \in Orders, NEW q \in Nat, Aligned(q, k), NEW x \in Block(q, k)
  PROVE  AlignDown(x, k) = q
<1>1. Pages(k) \in Nat \ {0}
  BY PagesFacts
<1>2. PICK a \in Nat : q = Pages(k) * a
  BY AlignedMultiple
<1>3. PICK s \in 0 .. Pages(k) - 1 : x = q + s
  <2>1. x - q \in 0 .. Pages(k) - 1 /\ x = q + (x - q)
    BY <1>1 DEF Block
  <2>. QED  BY <2>1
<1>4. (Pages(k) * a + s) % Pages(k) = s
  BY <1>1, <1>3, DivModUnique
<1>5. x % Pages(k) = s
  BY <1>2, <1>3, <1>4
<1>6. AlignDown(x, k) = x - s
  BY <1>5 DEF AlignDown
<1>. QED
  BY <1>1, <1>3, <1>6

(* A block and its buddy are the two halves of the block one order up. *)
LEMMA BuddyFacts ==
  ASSUME NEW k \in Orders, k < MaxOrder, NEW p \in Nat, Aligned(p, k)
  PROVE  /\ Buddy(p, k) \in Nat
         /\ Aligned(Buddy(p, k), k)
         /\ Block(p, k) \cap Block(Buddy(p, k), k) = {}
         /\ Block(AlignDown(p, k + 1), k + 1) = Block(p, k) \cup Block(Buddy(p, k), k)
<1>. DEFINE P == Pages(k)
<1>1. P \in Nat \ {0} /\ Pages(k + 1) = 2 * P /\ 2 * P \in Nat \ {0}
  BY PagesFacts
<1>2. PICK a \in Nat : p = P * a
  BY AlignedMultiple
<1>3. p \div P = a
  <2>1. (P * a + 0) \div P = a
    BY <1>1, DivModUnique
  <2>. QED  BY <1>1, <1>2, <2>1
<1>4. Buddy(p, k) = IF a % 2 = 0 THEN p + P ELSE p - P
  BY <1>3 DEF Buddy
<1>. HIDE DEF P
<1>5. CASE a % 2 = 0
  <2>1. PICK c \in Nat : a = 2 * c
    BY <1>5
  <2>2. p = (2 * P) * c + 0
    BY <1>1, <1>2, <2>1
  <2>3. p % (2 * P) = 0
    <3>. DEFINE D == 2 * P
    <3>1. D \in Nat \ {0} /\ c \in Int /\ 0 \in 0 .. D - 1
      BY <1>1
    <3>2. p = D * c + 0
      BY <2>2
    <3>. HIDE DEF D
    <3>3. (D * c + 0) % D = 0
      BY <3>1, DivModUnique
    <3>4. p % D = 0
      BY <3>2, <3>3
    <3>. QED  BY <3>4 DEF D
  <2>4. AlignDown(p, k + 1) = p
    BY <1>1, <2>3 DEF AlignDown
  <2>5. p + P = P * (a + 1) /\ p + P \in Nat
    BY <1>1, <1>2
  <2>6. Aligned(p + P, k)
    BY <2>5, AlignedMultiple DEF P
  <2>. QED  BY <1>1, <1>4, <1>5, <2>4, <2>5, <2>6 DEF Block, P
<1>6. CASE a % 2 # 0
  <2>1. PICK c \in Nat : a = 2 * c + 1
    BY <1>6
  <2>2. p = (2 * P) * c + P
    BY <1>1, <1>2, <2>1
  <2>3. p % (2 * P) = P
    <3>. DEFINE D == 2 * P
    <3>1. D \in Nat \ {0} /\ c \in Int /\ P \in 0 .. D - 1
      BY <1>1
    <3>2. p = D * c + P
      BY <2>2
    <3>. HIDE DEF D
    <3>3. (D * c + P) % D = P
      BY <3>1, DivModUnique
    <3>4. p % D = P
      BY <3>2, <3>3
    <3>. QED  BY <3>4 DEF D
  <2>4. AlignDown(p, k + 1) = p - P
    BY <1>1, <2>3 DEF AlignDown
  <2>5. p - P = P * (a - 1) /\ a - 1 \in Nat /\ p - P \in Nat
    BY <1>1, <1>2, <2>1
  <2>6. Aligned(p - P, k)
    BY <2>5, AlignedMultiple DEF P
  <2>. QED  BY <1>1, <1>4, <1>6, <2>4, <2>5, <2>6 DEF Block, P
<1>. QED
  BY <1>5, <1>6

(***************************************************************************)
(* The three loops, page by page.                                          *)
(***************************************************************************)

(* One merge of free(): the block at order k + 1 is the block at order k   *)
(* together with its buddy.                                                *)
LEMMA MergeStep ==
  ASSUME NEW k \in Orders, k < MaxOrder, NEW f \in Nat
  PROVE  LET p == AlignDown(f, k)
             b == Buddy(p, k)
         IN  /\ b \in Nat
             /\ Aligned(b, k)
             /\ Block(p, k) \cap Block(b, k) = {}
             /\ Block(AlignDown(f, k + 1), k + 1) = Block(p, k) \cup Block(b, k)
<1>. DEFINE p == AlignDown(f, k)
            b == Buddy(p, k)
            u == AlignDown(p, k + 1)
<1>1. p \in Nat /\ Aligned(p, k) /\ f \in Block(p, k)
  BY AlignDownFacts
<1>. HIDE DEF p
<1>2. /\ b \in Nat /\ Aligned(b, k)
      /\ Block(p, k) \cap Block(b, k) = {}
      /\ Block(u, k + 1) = Block(p, k) \cup Block(b, k)
  BY <1>1, BuddyFacts
<1>3. k + 1 \in Orders
  BY OrderAssumption DEF Orders
<1>4. u \in Nat /\ Aligned(u, k + 1)
  BY <1>1, <1>3, AlignDownFacts
<1>5. f \in Block(u, k + 1)
  BY <1>1, <1>2
<1>. HIDE DEF u
<1>6. AlignDown(f, k + 1) = u
  BY <1>3, <1>4, <1>5, AlignDownUnique
<1>. QED
  BY <1>2, <1>6 DEF p

(* The block free() puts on a list covers the freed block and the buddies  *)
(* taken off the lists on the way, and nothing else.                       *)
LEMMA MergePages ==
  ASSUME NEW order \in Orders, NEW top \in order .. MaxOrder,
         NEW f \in Nat, Aligned(f, order), NEW x
  PROVE  x \in Block(AlignDown(f, top), top)
           <=> \/ x \in Block(f, order)
               \/ \E k \in order .. top - 1 : x \in Block(Buddy(AlignDown(f, k), k), k)
<1>. DEFINE B(k) == Block(AlignDown(f, k), k)
<1>1. \A k \in order .. top : k \in Orders
  BY OrderAssumption DEF Orders
<1>2. \A k \in order .. top - 1 :
        B(k + 1) = B(k) \cup Block(Buddy(AlignDown(f, k), k), k)
  <2>1. TAKE k \in order .. top - 1
  <2>2. k \in Orders /\ k < MaxOrder
    BY OrderAssumption DEF Orders
  <2>. QED  BY <2>2, MergeStep
<1>3. B(order) = Block(f, order)
  <2>1. f \in Block(f, order)
    BY BlockFacts
  <2>. QED  BY <2>1, AlignDownUnique
<1>4. \A k \in order .. top : B(k) \subseteq B(top)
  <2>1. TAKE k \in order .. top
  <2>2. k \in Orders /\ top \in Orders /\ k <= top
    BY <1>1 DEF Orders
  <2>. QED  BY <2>2, AlignDownFacts, AlignedNested
<1>. HIDE DEF B
<1>5. ASSUME x \in B(top), x \notin B(order)
      PROVE  \E k \in order .. top - 1 : x \in Block(Buddy(AlignDown(f, k), k), k)
  <2>. DEFINE S == {k \in order .. top : x \in B(k)}
  <2>1. S \subseteq Nat /\ top \in S
    BY <1>1, <1>5 DEF Orders
  <2>2. PICK n \in S : \A m \in S : n <= m
    BY <2>1, SmallestOf
  <2>3. n # order /\ n - 1 \in order .. top - 1 /\ n - 1 \in order .. top
    BY <1>5, <2>2 DEF Orders
  <2>4. n - 1 \notin S
    BY <2>1, <2>2
  <2>5. x \in B((n - 1) + 1) /\ x \notin B(n - 1)
    BY <2>2, <2>3, <2>4, <2>1
  <2>. QED  BY <1>2, <2>3, <2>5
<1>6. ASSUME NEW k \in order .. top - 1, x \in Block(Buddy(AlignDown(f, k), k), k)
      PROVE  x \in B(top)
  <2>1. k + 1 \in order .. top
    BY DEF Orders
  <2>. QED  BY <1>2, <1>4, <1>6, <2>1
<1>7. B(order) \subseteq B(top)
  BY <1>4 DEF Orders
<1>. QED
  BY <1>3, <1>5, <1>6, <1>7 DEF B

(* The loop of free() stops at some order. *)
LEMMA TopOrderFacts ==
  ASSUME NEW order \in Orders, NEW f \in Nat
  PROVE  /\ TopOrder(f, order) \in order .. MaxOrder
         /\ \A k \in order .. TopOrder(f, order) - 1 : Merges(f, k)
         /\ ~Merges(f, TopOrder(f, order))
<1>. DEFINE S == {k \in order .. MaxOrder : ~Merges(f, k)}
            Stop(o) == ~Merges(f, o) /\ \A k \in order .. o - 1 : Merges(f, k)
<1>1. S \subseteq Nat
  BY DEF Orders
<1>2. MaxOrder \in S
  BY OrderAssumption DEF Orders, Merges
<1>3. PICK n \in S : \A m \in S : n <= m
  BY <1>1, <1>2, SmallestOf
<1>4. \A k \in order .. n - 1 : k \notin S /\ k \in order .. MaxOrder
  <2>1. TAKE k \in order .. n - 1
  <2>2. n \in order .. MaxOrder
    BY <1>3
  <2>3. k \in order .. MaxOrder /\ ~(n <= k)
    BY <2>2, OrderAssumption DEF Orders
  <2>. HIDE DEF S
  <2>. QED  BY <1>3, <2>3
<1>5. Stop(n) /\ n \in order .. MaxOrder
  BY <1>3, <1>4
<1>6. TopOrder(f, order) = CHOOSE o \in order .. MaxOrder : Stop(o)
  BY DEF TopOrder
<1>. HIDE DEF Stop
<1>7. TopOrder(f, order) \in order .. MaxOrder /\ Stop(TopOrder(f, order))
  BY <1>5, <1>6
<1>. QED
  BY <1>7 DEF Stop

LEMMA PagesMonotone ==
  ASSUME NEW j \in Orders, NEW k \in Orders, j <= k
  PROVE  Pages(j) <= Pages(k)
<1>1. PICK m \in 1 .. Pages(k) : Pages(k) = m * Pages(j)
  BY OrderAssumption DEF Orders
<1>2. Pages(j) \in Nat \ {0} /\ Pages(k) \in Nat /\ m \in Nat /\ 1 <= m
  BY <1>1, PagesFacts
<1>3. Pages(j) * 1 <= Pages(j) * m
  BY <1>2, MultipleMonotone
<1>4. Pages(j) * m = m * Pages(j) /\ Pages(j) * 1 = Pages(j)
  BY <1>2
<1>. QED
  BY <1>1, <1>2, <1>3, <1>4

(* The halves alloc() splits off are aligned. *)
LEMMA SplitAligned ==
  ASSUME NEW o \in Orders, NEW k \in 0 .. o, NEW p \in Nat, Aligned(p, o)
  PROVE  Aligned(p, k) /\ Aligned(p + Pages(k), k)
<1>. DEFINE d == AlignDown(p, k)
<1>1. k \in Orders /\ k <= o
  BY OrderAssumption DEF Orders
<1>2. d \in Nat /\ Aligned(d, k) /\ p \in Block(d, k)
  BY <1>1, AlignDownFacts
<1>. HIDE DEF d
<1>3. p \in Block(p, o) /\ d \in Block(d, k)
  BY <1>1, <1>2, BlockFacts
<1>4. Block(d, k) \subseteq Block(p, o)
  BY <1>1, <1>2, <1>3, AlignedNested
<1>5. Pages(k) \in Nat \ {0} /\ Pages(o) \in Nat \ {0}
  BY <1>1, PagesFacts
<1>6. d \in Block(p, o)
  BY <1>3, <1>4
<1>7. d = p
  BY <1>2, <1>5, <1>6 DEF Block
<1>8. PICK a \in Nat : p = Pages(k) * a
  BY <1>1, <1>2, <1>7, AlignedMultiple
<1>9. p + Pages(k) = Pages(k) * (a + 1) /\ p + Pages(k) \in Nat
  BY <1>5, <1>8
<1>10. Aligned(p + Pages(k), k)
  BY <1>1, <1>9, AlignedMultiple
<1>. QED
  BY <1>2, <1>7, <1>10

(* The popped block is the granted block and the halves split off above it. *)
LEMMA SplitPages ==
  ASSUME NEW order \in Orders, NEW o \in order .. MaxOrder, NEW p \in Nat, NEW x
  PROVE  x \in Block(p, o)
           <=> \/ x \in Block(p, order)
               \/ \E k \in order .. o - 1 : x \in Block(p + Pages(k), k)
<1>1. \A k \in order .. o : k \in Orders
  BY OrderAssumption DEF Orders
<1>2. \A k \in order .. o - 1 :
        Block(p, k + 1) = Block(p, k) \cup Block(p + Pages(k), k)
  <2>1. TAKE k \in order .. o - 1
  <2>2. k \in Orders
    BY OrderAssumption DEF Orders
  <2>3. Pages(k) \in Nat \ {0} /\ Pages(k + 1) = 2 * Pages(k)
    BY <2>2, PagesFacts
  <2>. QED  BY <2>3 DEF Block
<1>3. \A k \in order .. o : Block(p, k) \subseteq Block(p, o)
  <2>1. TAKE k \in order .. o
  <2>2. k \in Orders /\ o \in Orders /\ k <= o
    BY <1>1 DEF Orders
  <2>3. Pages(k) \in Nat /\ Pages(o) \in Nat /\ Pages(k) <= Pages(o)
    BY <2>2, PagesFacts, PagesMonotone
  <2>. QED  BY <2>3 DEF Block
<1>4. ASSUME x \in Block(p, o), x \notin Block(p, order)
      PROVE  \E k \in order .. o - 1 : x \in Block(p + Pages(k), k)
  <2>. DEFINE S == {k \in order .. o : x \in Block(p, k)}
  <2>1. S \subseteq Nat /\ o \in S
    BY <1>1, <1>4 DEF Orders
  <2>2. PICK n \in S : \A m \in S : n <= m
    BY <2>1, SmallestOf
  <2>3. n # order /\ n - 1 \in order .. o - 1 /\ n - 1 \in order .. o
    BY <1>4, <2>2 DEF Orders
  <2>4. n - 1 \notin S
    BY <2>1, <2>2
  <2>5. x \in Block(p, (n - 1) + 1) /\ x \notin Block(p, n - 1)
    BY <2>2, <2>3, <2>4, <2>1
  <2>. QED  BY <1>2, <2>3, <2>5
<1>5. ASSUME NEW k \in order .. o - 1, x \in Block(p + Pages(k), k)
      PROVE  x \in Block(p, o)
  <2>1. k + 1 \in order .. o
    BY DEF Orders
  <2>. QED  BY <1>2, <1>3, <1>5, <2>1
<1>. QED
  BY <1>1, <1>3, <1>4, <1>5 DEF Orders

(* The halves split off at different orders, and the granted block, are    *)
(* disjoint.                                                               *)
LEMMA SplitDisjoint ==
  ASSUME NEW j \in Orders, NEW k \in Orders, NEW p \in Nat
  PROVE  /\ j <= k => Block(p, j) \cap Block(p + Pages(k), k) = {}
         /\ j < k => Block(p + Pages(j), j) \cap Block(p + Pages(k), k) = {}
<1>1. Pages(j) \in Nat \ {0} /\ Pages(k) \in Nat \ {0} /\ Pages(j + 1) = 2 * Pages(j)
  BY PagesFacts
<1>2. ASSUME j <= k PROVE Block(p, j) \cap Block(p + Pages(k), k) = {}
  <2>1. Pages(j) <= Pages(k)
    BY <1>2, PagesMonotone
  <2>. QED  BY <1>1, <2>1 DEF Block
<1>3. ASSUME j < k PROVE Block(p + Pages(j), j) \cap Block(p + Pages(k), k) = {}
  <2>1. j + 1 \in Orders /\ j + 1 <= k
    BY <1>3, OrderAssumption DEF Orders
  <2>2. Pages(j + 1) <= Pages(k)
    BY <2>1, PagesMonotone
  <2>. QED  BY <1>1, <2>2 DEF Block
<1>. QED
  BY <1>2, <1>3

(* The blocks add_region cuts a region into. *)
Cut(r) == UNION {RegionBlocks(r, o) \X {o} : o \in Orders}

LEMMA CutFacts ==
  ASSUME NEW r \in Regions
  PROVE  /\ RegionPages(r) \subseteq Nat
         /\ Cut(r) \subseteq Nat \X Orders
         /\ \A b \in Cut(r) : b[1] \in RegionBlocks(r, b[2]) /\ Aligned(b[1], b[2])
         /\ PagesOf(Cut(r)) \subseteq RegionPages(r)
<1>1. r.start \in Nat /\ r.count \in Nat \ {0}
  BY RegionAssumption
<1>2. RegionPages(r) \subseteq Nat
  BY <1>1 DEF RegionPages
<1>3. \A b \in Cut(r) : /\ b \in Nat \X Orders
                        /\ b[1] \in RegionBlocks(r, b[2])
                        /\ Aligned(b[1], b[2])
                        /\ Block(b[1], b[2]) \subseteq RegionPages(r)
  BY <1>2 DEF Cut, RegionBlocks, Fits
<1>. QED
  BY <1>2, <1>3 DEF PagesOf, BlockPages

LEMMA CutDisjoint ==
  ASSUME NEW r \in Regions
  PROVE  PairwiseDisjoint(Cut(r))
<1>1. ASSUME NEW a \in Cut(r), NEW b \in Cut(r), a[2] <= b[2],
             NEW y \in BlockPages(a) \cap BlockPages(b)
      PROVE  a = b
  <2>. DEFINE p == a[1]  j == a[2]  q == b[1]  k == b[2]
  <2>1. /\ p \in Nat /\ j \in Orders /\ q \in Nat /\ k \in Orders
        /\ a = <<p, j>> /\ b = <<q, k>>
        /\ p \in RegionBlocks(r, j) /\ q \in RegionBlocks(r, k)
        /\ Aligned(p, j) /\ Aligned(q, k)
        /\ y \in Block(p, j) /\ y \in Block(q, k)
    BY CutFacts DEF BlockPages
  <2>. HIDE DEF p, j, q, k
  <2>2. CASE j = k
    BY <2>1, <2>2, AlignDownUnique
  <2>3. CASE j < k
    <3>. DEFINE u == AlignDown(p, j + 1)
    <3>1. j < MaxOrder /\ j + 1 \in Orders /\ j + 1 <= k
      BY <2>1, <2>3, OrderAssumption DEF Orders
    <3>2. u \in Nat /\ Aligned(u, j + 1)
      BY <2>1, <3>1, AlignDownFacts
    <3>3. y \in Block(u, j + 1)
      BY <2>1, <3>1, BuddyFacts
    <3>4. Block(u, j + 1) \subseteq Block(q, k)
      BY <2>1, <3>1, <3>2, <3>3, AlignedNested
    <3>5. Fits(u, j + 1, r)
      BY <2>1, <3>4 DEF RegionBlocks, Fits
    <3>. QED  BY <2>1, <3>1, <3>5 DEF RegionBlocks
  <2>. QED
    BY <1>1, <2>1, <2>2, <2>3 DEF Orders, j, k
<1>2. \A b \in Cut(r) : b[2] \in Int
  BY CutFacts DEF Orders
<1>. QED
  BY <1>1, <1>2 DEF PairwiseDisjoint

(* The cut covers the region. *)
LEMMA CutCovers ==
  ASSUME NEW r \in Regions, NEW x \in RegionPages(r)
  PROVE  x \in PagesOf(Cut(r))
<1>1. x \in Nat
  BY CutFacts
<1>. DEFINE K == {k \in Orders : Fits(AlignDown(x, k), k, r)}
            S == {MaxOrder - k : k \in K}
<1>2. 0 \in K
  <2>1. 0 \in Orders /\ Pages(0) = 1
    BY OrderAssumption DEF Orders
  <2>2. x \in Block(x, 0) /\ Aligned(x, 0)
    BY <1>1, <2>1, BlockFacts DEF Aligned
  <2>3. AlignDown(x, 0) = x
    BY <1>1, <2>1, <2>2, AlignDownUnique
  <2>4. Block(x, 0) = {x}
    BY <1>1, <2>1 DEF Block
  <2>. QED  BY <2>1, <2>3, <2>4 DEF Fits
<1>3. S \subseteq Nat /\ MaxOrder - 0 \in S
  <2>1. \A k \in K : MaxOrder - k \in Nat
    BY OrderAssumption DEF Orders
  <2>. HIDE DEF K
  <2>. QED  BY <1>2, <2>1
<1>4. PICK n \in S : \A m \in S : n <= m
  BY <1>3, SmallestOf
<1>5. PICK k \in K : n = MaxOrder - k
  BY <1>4
<1>6. k < MaxOrder => k + 1 \notin K
  <2>1. SUFFICES ASSUME k + 1 \in K PROVE FALSE
    OBVIOUS
  <2>2. MaxOrder - (k + 1) \in S
    BY <2>1
  <2>3. MaxOrder - k <= MaxOrder - (k + 1)
    BY <1>4, <1>5, <2>2
  <2>. QED  BY <2>3, <1>5, OrderAssumption DEF Orders
<1>. DEFINE p == AlignDown(x, k)
<1>7. k \in Orders /\ p \in Nat /\ Aligned(p, k) /\ x \in Block(p, k) /\ Fits(p, k, r)
  BY <1>1, <1>5, AlignDownFacts
<1>8. ASSUME k < MaxOrder PROVE ~Fits(AlignDown(p, k + 1), k + 1, r)
  <2>1. k + 1 \in Orders /\ ~Fits(AlignDown(x, k + 1), k + 1, r)
    BY <1>6, <1>7, <1>8, OrderAssumption DEF Orders
  <2>2. AlignDown(p, k + 1) \in Nat /\ Aligned(AlignDown(p, k + 1), k + 1)
    BY <1>7, <2>1, AlignDownFacts
  <2>3. x \in Block(AlignDown(p, k + 1), k + 1)
    BY <1>7, <1>8, BuddyFacts
  <2>. HIDE DEF p
  <2>4. AlignDown(x, k + 1) = AlignDown(p, k + 1)
    BY <2>1, <2>2, <2>3, AlignDownUnique
  <2>. QED  BY <2>1, <2>4
<1>. HIDE DEF p
<1>9. p \in Block(p, k)
  BY <1>7, BlockFacts
<1>10. p \in RegionBlocks(r, k)
  BY <1>7, <1>8, <1>9 DEF RegionBlocks, Fits
<1>11. <<p, k>> \in Cut(r)
  BY <1>7, <1>10 DEF Cut
<1>12. x \in BlockPages(<<p, k>>)
  BY <1>7 DEF BlockPages
<1>. QED
  BY <1>11, <1>12 DEF PagesOf

(***************************************************************************)
(* Sets of blocks.                                                         *)
(***************************************************************************)

LEMMA ListBlocks ==
  ASSUME NEW L \in [Orders -> SUBSET Nat]
  PROVE  UNION {L[o] \X {o} : o \in Orders} = {b \in Nat \X Orders : b[1] \in L[b[2]]}
OBVIOUS

LEMMA BlockNotEmpty ==
  ASSUME NEW b \in Nat \X Orders
  PROVE  b[1] \in BlockPages(b)
BY BlockFacts DEF BlockPages

LEMMA PagesOfMember ==
  ASSUME NEW S, NEW x
  PROVE  x \in PagesOf(S) <=> \E b \in S : x \in BlockPages(b)
BY DEF PagesOf

(* Replacing the blocks A by blocks B that use only pages of A keeps a set *)
(* of disjoint blocks disjoint.                                            *)
LEMMA Replace ==
  ASSUME NEW S, NEW A, NEW B, S \subseteq Nat \X Orders, B \subseteq Nat \X Orders,
         A \subseteq S,
         PairwiseDisjoint(S), PairwiseDisjoint(B),
         PagesOf(B) \subseteq PagesOf(A)
  PROVE  /\ PairwiseDisjoint((S \ A) \cup B)
         /\ (S \ A) \cap B = {}
<1>1. \A a \in S \ A, b \in B : BlockPages(a) \cap BlockPages(b) = {}
  <2>1. SUFFICES ASSUME NEW a \in S \ A, NEW b \in B, NEW x \in BlockPages(a), x \in BlockPages(b)
                 PROVE  FALSE
    OBVIOUS
  <2>2. x \in PagesOf(A)
    BY <2>1, PagesOfMember
  <2>3. PICK c \in A : x \in BlockPages(c)
    BY <2>2, PagesOfMember
  <2>. QED  BY <2>1, <2>3 DEF PairwiseDisjoint
<1>2. (S \ A) \cap B = {}
  BY <1>1, BlockNotEmpty
<1>. QED
  BY <1>1, <1>2 DEF PairwiseDisjoint

(* The pages of what is left when disjoint blocks are taken away.          *)
LEMMA PagesLeft ==
  ASSUME NEW S, NEW A, A \subseteq S, PairwiseDisjoint(S)
  PROVE  PagesOf(S \ A) = PagesOf(S) \ PagesOf(A)
<1>1. ASSUME NEW x, x \in PagesOf(S \ A) PROVE x \in PagesOf(S) /\ x \notin PagesOf(A)
  <2>1. PICK a \in S \ A : x \in BlockPages(a)
    BY <1>1, PagesOfMember
  <2>2. \A b \in A : x \notin BlockPages(b)
    BY <2>1 DEF PairwiseDisjoint
  <2>. QED  BY <2>1, <2>2, PagesOfMember
<1>2. ASSUME NEW x, x \in PagesOf(S), x \notin PagesOf(A) PROVE x \in PagesOf(S \ A)
  <2>1. PICK a \in S : x \in BlockPages(a)
    BY <1>2, PagesOfMember
  <2>2. a \notin A
    BY <1>2, <2>1, PagesOfMember
  <2>. QED  BY <2>1, <2>2, PagesOfMember
<1>. QED
  BY <1>1, <1>2

LEMMA PagesOfCup ==
  ASSUME NEW S, NEW T
  PROVE  PagesOf(S \cup T) = PagesOf(S) \cup PagesOf(T)
BY DEF PagesOf

LEMMA PagesOfOne ==
  ASSUME NEW p, NEW o
  PROVE  PagesOf({<<p, o>>}) = Block(p, o)
BY DEF PagesOf, BlockPages

(***************************************************************************)
(* The inductive invariant: the safety properties, and that the pages are  *)
(* finitely many, so that the counters count something.                    *)
(***************************************************************************)
PagesFinite == IsFiniteSet(FreePages) /\ IsFiniteSet(HeldPages)

IInv ==
  /\ TypeOK
  /\ BlocksAligned
  /\ NoPageTwice
  /\ NoPageLost
  /\ PagesFinite
  /\ CountersExact

LEMMA FreeBlocksType ==
  ASSUME TypeOK
  PROVE  /\ FreeBlocks = {b \in Nat \X Orders : b[1] \in free_lists[b[2]]}
         /\ FreeBlocks \cup held \subseteq Nat \X Orders
<1>1. FreeBlocks = {b \in Nat \X Orders : b[1] \in free_lists[b[2]]}
  BY ListBlocks DEF TypeOK, FreeBlocks
<1>. QED
  BY <1>1 DEF TypeOK

LEMMA PagesAreApart ==
  ASSUME TypeOK, NoPageTwice
  PROVE  FreePages \cap HeldPages = {}
<1>1. SUFFICES ASSUME NEW x \in FreePages, x \in HeldPages PROVE FALSE
  OBVIOUS
<1>2. PICK a \in FreeBlocks : x \in BlockPages(a)
  BY PagesOfMember DEF FreePages
<1>3. PICK b \in held : x \in BlockPages(b)
  BY <1>1, PagesOfMember DEF HeldPages
<1>. QED
  BY <1>2, <1>3 DEF NoPageTwice, PairwiseDisjoint

(* alloc on the free lists: one block is replaced by the halves of its     *)
(* splits, and the granted block is what is missing.                       *)
LEMMA AllocStep ==
  ASSUME TypeOK, BlocksAligned, NoPageTwice, NEW order \in Orders, Alloc(order)
  PROVE  \E p \in Nat :
           /\ free_lists' \in [Orders -> SUBSET Nat]
           /\ held' = held \cup {<<p, order>>}
           /\ BlocksAligned'
           /\ NoPageTwice'
           /\ Block(p, order) \subseteq FreePages
           /\ FreePages' = FreePages \ Block(p, order)
           /\ HeldPages' = HeldPages \cup Block(p, order)
<1>1. PICK o \in Orders :
        /\ SmallestFit(order, o)
        /\ \E p \in free_lists[o] :
             free_lists' = AfterSplit(p, o, order) /\ held' = held \cup {<<p, order>>}
  BY DEF Alloc
<1>2. PICK p \in free_lists[o] :
        free_lists' = AfterSplit(p, o, order) /\ held' = held \cup {<<p, order>>}
  BY <1>1
<1>3. o \in order .. MaxOrder /\ p \in Nat /\ <<p, o>> \in FreeBlocks
  BY <1>1, FreeBlocksType DEF SmallestFit, Orders, TypeOK
<1>. DEFINE Halves == {<<p + Pages(k), k>> : k \in order .. o - 1}
            Granted == {<<p, order>>}
            S == FreeBlocks \cup held
            A == {<<p, o>>}
            B == Halves \cup Granted
<1>4. \A k \in order .. o - 1 : k \in Orders /\ k \in 0 .. o /\ p + Pages(k) \in Nat
  <2>1. TAKE k \in order .. o - 1
  <2>2. k \in Orders /\ k \in 0 .. o
    BY <1>3, OrderAssumption DEF Orders
  <2>. QED  BY <2>2, <1>3, PagesFacts
<1>5. free_lists' \in [Orders -> SUBSET Nat]
  BY <1>2, <1>4 DEF AfterSplit, TypeOK
<1>6. FreeBlocks' = (FreeBlocks \ A) \cup Halves
  <2>1. FreeBlocks' = {b \in Nat \X Orders : b[1] \in free_lists'[b[2]]}
    BY <1>5, ListBlocks DEF FreeBlocks
  <2>2. FreeBlocks = {b \in Nat \X Orders : b[1] \in free_lists[b[2]]}
    BY FreeBlocksType
  <2>3. \A k \in Orders : free_lists'[k] = IF k = o THEN free_lists[k] \ {p}
                                        ELSE IF k \in order .. o - 1
                                             THEN free_lists[k] \cup {p + Pages(k)}
                                             ELSE free_lists[k]
    BY <1>2 DEF AfterSplit
  <2>4. o \notin order .. o - 1
    BY <1>3
  <2>5. ASSUME NEW b \in Nat \X Orders
        PROVE  b \in FreeBlocks' <=> b \in (FreeBlocks \ A) \cup Halves
    <3>1. b = <<b[1], b[2]>> /\ b[2] \in Orders /\ b[1] \in Nat
      OBVIOUS
    <3>2. b \in Halves <=> b[2] \in order .. o - 1 /\ b[1] = p + Pages(b[2])
      BY <3>1
    <3>3. b \in A <=> b[1] = p /\ b[2] = o
      BY <3>1
    <3>4. b \in FreeBlocks' <=> b[1] \in free_lists'[b[2]]
      BY <2>1
    <3>5. b \in FreeBlocks <=> b[1] \in free_lists[b[2]]
      BY <2>2
    <3>. HIDE DEF Halves, A
    <3>6. CASE b[2] = o
      BY <3>2, <3>3, <3>4, <3>5, <3>6, <2>3, <2>4
    <3>7. CASE b[2] \in order .. o - 1
      <4>1. b[2] # o
        BY <3>7, <2>4
      <4>. QED  BY <3>1, <3>2, <3>3, <3>4, <3>5, <3>7, <4>1, <2>3
    <3>8. CASE b[2] # o /\ b[2] \notin order .. o - 1
      BY <3>1, <3>2, <3>3, <3>4, <3>5, <3>8, <2>3
    <3>. QED  BY <3>6, <3>7, <3>8
  <2>6. Halves \subseteq Nat \X Orders
    BY <1>4
  <2>. QED  BY <2>1, <2>2, <2>5, <2>6
<1>7. B \subseteq Nat \X Orders /\ S \subseteq Nat \X Orders /\ A \subseteq S
  BY <1>3, <1>4, FreeBlocksType
<1>8. \A b \in B : Aligned(b[1], b[2])
  <2>1. Aligned(p, o)
    BY <1>3 DEF BlocksAligned
  <2>2. order \in 0 .. o
    BY <1>3, OrderAssumption DEF Orders
  <2>. QED  BY <1>3, <1>4, <2>1, <2>2, SplitAligned
<1>9. PairwiseDisjoint(B)
  <2>1. \A j, k \in order .. o - 1 : j # k =>
          Block(p + Pages(j), j) \cap Block(p + Pages(k), k) = {}
    <3>1. TAKE j, k \in order .. o - 1
    <3>2. j \in Orders /\ k \in Orders /\ (j # k => j < k \/ k < j)
      BY <1>4
    <3>. QED  BY <3>2, <1>3, SplitDisjoint
  <2>2. \A k \in order .. o - 1 : Block(p, order) \cap Block(p + Pages(k), k) = {}
    <3>1. TAKE k \in order .. o - 1
    <3>2. k \in Orders /\ order <= k
      BY <1>4
    <3>. QED  BY <3>2, <1>3, SplitDisjoint
  <2>. QED  BY <2>1, <2>2 DEF PairwiseDisjoint, BlockPages
<1>10. Block(p, o) = Block(p, order) \cup PagesOf(Halves)
  <2>1. ASSUME NEW x PROVE x \in PagesOf(Halves) <=> \E k \in order .. o - 1 : x \in Block(p + Pages(k), k)
    <3>1. x \in PagesOf(Halves) <=> \E b \in Halves : x \in BlockPages(b)
      BY PagesOfMember
    <3>2. \A k \in order .. o - 1 : BlockPages(<<p + Pages(k), k>>) = Block(p + Pages(k), k)
      BY DEF BlockPages
    <3>. QED  BY <3>1, <3>2
  <2>. HIDE DEF Halves
  <2>. QED  BY <2>1, <1>3, SplitPages
<1>11. Block(p, order) \cap PagesOf(Halves) = {}
  <2>1. SUFFICES ASSUME NEW x \in Block(p, order), x \in PagesOf(Halves) PROVE FALSE
    OBVIOUS
  <2>2. PICK b \in Halves : x \in BlockPages(b)
    BY <2>1, PagesOfMember
  <2>3. PICK k \in order .. o - 1 : b = <<p + Pages(k), k>>
    OBVIOUS
  <2>4. k \in Orders /\ order <= k /\ x \in Block(p + Pages(k), k)
    BY <1>4, <2>2, <2>3 DEF BlockPages
  <2>. QED  BY <2>1, <2>4, <1>3, SplitDisjoint
<1>12. PagesOf(A) = Block(p, o) /\ PagesOf(Granted) = Block(p, order)
  BY PagesOfOne
<1>. HIDE DEF Halves, Granted, A
<1>13. PagesOf(B) \subseteq PagesOf(A)
  <2>1. PagesOf(B) = PagesOf(Halves) \cup PagesOf(Granted)
    BY PagesOfCup
  <2>. QED  BY <1>10, <1>12, <2>1
<1>14. PairwiseDisjoint((S \ A) \cup B) /\ (S \ A) \cap B = {}
  <2>1. PairwiseDisjoint(S)
    BY DEF NoPageTwice
  <2>. HIDE DEF S, B
  <2>. QED  BY <1>7, <1>9, <1>13, <2>1, Replace
<1>15. A \subseteq FreeBlocks /\ A \cap held = {}
  BY <1>3 DEF A, NoPageTwice
<1>16. (FreeBlocks \cup held)' = (S \ A) \cup B
  BY <1>2, <1>6, <1>15 DEF Granted
<1>17. Halves \cap Granted = {}
  <2>1. SUFFICES ASSUME NEW b \in Halves, b \in Granted PROVE FALSE
    OBVIOUS
  <2>2. b[1] \in BlockPages(b)
    BY <1>7, BlockNotEmpty
  <2>3. b[1] \in PagesOf(Halves) /\ b[1] \in PagesOf(Granted)
    BY <2>1, <2>2, PagesOfMember
  <2>. QED  BY <1>11, <1>12, <2>3
<1>18. NoPageTwice'
  <2>1. FreeBlocks' \cap held' = {}
    BY <1>2, <1>6, <1>14, <1>15, <1>17 DEF Granted, NoPageTwice
  <2>2. PairwiseDisjoint((FreeBlocks \cup held)')
    BY <1>14, <1>16
  <2>. QED  BY <2>1, <2>2 DEF NoPageTwice, PairwiseDisjoint, BlockPages
<1>19. BlocksAligned'
  <2>1. \A b \in S : Aligned(b[1], b[2])
    BY DEF BlocksAligned
  <2>. QED  BY <2>1, <1>8, <1>16 DEF BlocksAligned, Aligned
<1>20. FreePages' = (FreePages \ Block(p, o)) \cup PagesOf(Halves)
  <2>1. PairwiseDisjoint(FreeBlocks)
    BY DEF NoPageTwice, PairwiseDisjoint
  <2>2. PagesOf(FreeBlocks \ A) = FreePages \ Block(p, o)
    BY <1>12, <1>15, <2>1, PagesLeft DEF FreePages
  <2>3. FreePages' = PagesOf(FreeBlocks')
    BY DEF FreePages, PagesOf, BlockPages
  <2>. QED  BY <1>6, <2>2, <2>3, PagesOfCup
<1>21. Block(p, o) \subseteq FreePages
  BY <1>3, PagesOfMember DEF FreePages, BlockPages
<1>22. HeldPages' = HeldPages \cup Block(p, order)
  <2>1. HeldPages' = PagesOf(held')
    BY DEF HeldPages, PagesOf, BlockPages
  <2>. QED  BY <1>2, <1>12, <2>1, PagesOfCup DEF HeldPages, Granted
<1>. QED
  BY <1>2, <1>3, <1>5, <1>10, <1>11, <1>18, <1>19, <1>20, <1>21, <1>22

(* free on the lists: the freed block and the free buddies it meets are    *)
(* replaced by the block they make up.                                     *)
LEMMA FreeStep ==
  ASSUME TypeOK, BlocksAligned, NoPageTwice, NEW f, NEW order, Free(f, order)
  PROVE  /\ f \in Nat /\ order \in Orders /\ <<f, order>> \in held
         /\ free_lists' \in [Orders -> SUBSET Nat]
         /\ held' = held \ {<<f, order>>}
         /\ BlocksAligned'
         /\ NoPageTwice'
         /\ Block(f, order) \subseteq HeldPages
         /\ FreePages' = FreePages \cup Block(f, order)
         /\ HeldPages' = HeldPages \ Block(f, order)
<1>. DEFINE top == TopOrder(f, order)
            bud(k) == Buddy(AlignDown(f, k), k)
            Buds == {<<bud(k), k>> : k \in order .. top - 1}
            Freed == {<<f, order>>}
            Merged == {<<AlignDown(f, top), top>>}
            S == FreeBlocks \cup held
            A == Buds \cup Freed
<1>1. /\ f \in Nat /\ order \in Orders /\ <<f, order>> \in held
      /\ held' = held \ Freed
      /\ free_lists' = AfterMerge(f, order)
      /\ Aligned(f, order)
  <2>1. <<f, order>> \in held /\ held' = held \ Freed /\ free_lists' = AfterMerge(f, order)
    BY DEF Free
  <2>. QED  BY <2>1 DEF TypeOK, BlocksAligned
<1>2. top \in order .. MaxOrder /\ \A k \in order .. top - 1 : Merges(f, k)
  BY <1>1, TopOrderFacts
<1>3. \A k \in order .. top - 1 :
        k \in Orders /\ k < MaxOrder /\ bud(k) \in free_lists[k] /\ bud(k) \in Nat
  <2>1. TAKE k \in order .. top - 1
  <2>2. k \in Orders /\ k < MaxOrder
    BY <1>1, <1>2, OrderAssumption DEF Orders
  <2>3. bud(k) \in free_lists[k]
    BY <1>2 DEF Merges
  <2>. QED  BY <2>2, <2>3 DEF TypeOK
<1>4. top \in Orders /\ AlignDown(f, top) \in Nat /\ Aligned(AlignDown(f, top), top)
  <2>1. top \in Orders
    BY <1>1, <1>2, OrderAssumption DEF Orders
  <2>. QED  BY <2>1, <1>1, AlignDownFacts
<1>5. \A k \in Orders :
        free_lists'[k] = IF k \in order .. top - 1 THEN free_lists[k] \ {bud(k)}
                         ELSE IF k = top THEN free_lists[k] \cup {AlignDown(f, k)}
                         ELSE free_lists[k]
  BY <1>1 DEF AfterMerge
<1>6. free_lists' \in [Orders -> SUBSET Nat]
  <2>. HIDE DEF top, bud
  <2>1. \A k \in Orders : free_lists'[k] \in SUBSET Nat
    BY <1>4, <1>5 DEF TypeOK
  <2>. QED  BY <1>1, <2>1 DEF AfterMerge
<1>. HIDE DEF top, bud
<1>7. FreeBlocks' = (FreeBlocks \ Buds) \cup Merged
  <2>1. FreeBlocks' = {b \in Nat \X Orders : b[1] \in free_lists'[b[2]]}
    BY <1>6, ListBlocks DEF FreeBlocks
  <2>2. FreeBlocks = {b \in Nat \X Orders : b[1] \in free_lists[b[2]]}
    BY FreeBlocksType
  <2>3. top \notin order .. top - 1
    BY <1>2
  <2>4. ASSUME NEW b \in Nat \X Orders
        PROVE  b \in FreeBlocks' <=> b \in (FreeBlocks \ Buds) \cup Merged
    <3>1. b = <<b[1], b[2]>> /\ b[2] \in Orders /\ b[1] \in Nat
      OBVIOUS
    <3>2. b \in Buds <=> b[2] \in order .. top - 1 /\ b[1] = bud(b[2])
      BY <3>1
    <3>3. b \in Merged <=> b[1] = AlignDown(f, top) /\ b[2] = top
      BY <3>1
    <3>4. b \in FreeBlocks' <=> b[1] \in free_lists'[b[2]]
      BY <2>1
    <3>5. b \in FreeBlocks <=> b[1] \in free_lists[b[2]]
      BY <2>2
    <3>. HIDE DEF Buds, Merged
    <3>. QED  BY <3>1, <3>2, <3>3, <3>4, <3>5, <1>5, <2>3
  <2>5. Merged \subseteq Nat \X Orders
    BY <1>4
  <2>. QED  BY <2>1, <2>2, <2>4, <2>5
<1>8. Buds \subseteq FreeBlocks
  <2>1. \A k \in order .. top - 1 : <<bud(k), k>> \in FreeBlocks
    BY <1>3, FreeBlocksType
  <2>. QED  BY <2>1
<1>9. Merged \subseteq Nat \X Orders /\ S \subseteq Nat \X Orders /\ A \subseteq S
  BY <1>1, <1>4, <1>8, FreeBlocksType
<1>10. PairwiseDisjoint(Merged)
  BY DEF PairwiseDisjoint
<1>11. PagesOf(Merged) = Block(AlignDown(f, top), top) /\ PagesOf(Freed) = Block(f, order)
  BY PagesOfOne
<1>12. Block(AlignDown(f, top), top) = Block(f, order) \cup PagesOf(Buds)
  <2>1. ASSUME NEW x PROVE x \in PagesOf(Buds) <=> \E k \in order .. top - 1 : x \in Block(bud(k), k)
    <3>1. x \in PagesOf(Buds) <=> \E b \in Buds : x \in BlockPages(b)
      BY PagesOfMember
    <3>2. \A k \in order .. top - 1 : BlockPages(<<bud(k), k>>) = Block(bud(k), k)
      BY DEF BlockPages
    <3>. QED  BY <3>1, <3>2
  <2>2. ASSUME NEW x
        PROVE  x \in Block(AlignDown(f, top), top)
                 <=> \/ x \in Block(f, order)
                     \/ \E k \in order .. top - 1 : x \in Block(bud(k), k)
    BY <1>1, <1>2, MergePages DEF bud
  <2>. HIDE DEF Buds
  <2>. QED  BY <2>1, <2>2
<1>. HIDE DEF Buds, Freed, Merged
<1>13. PagesOf(Merged) \subseteq PagesOf(A)
  <2>1. PagesOf(A) = PagesOf(Buds) \cup PagesOf(Freed)
    BY PagesOfCup
  <2>. QED  BY <1>11, <1>12, <2>1
<1>14. PairwiseDisjoint((S \ A) \cup Merged) /\ (S \ A) \cap Merged = {}
  <2>1. PairwiseDisjoint(S)
    BY DEF NoPageTwice
  <2>. HIDE DEF S, A
  <2>. QED  BY <1>9, <1>10, <1>13, <2>1, Replace
<1>15. Freed \subseteq held /\ Freed \cap FreeBlocks = {} /\ Buds \cap held = {}
  BY <1>1, <1>8 DEF Freed, NoPageTwice
<1>16. (FreeBlocks \cup held)' = (S \ A) \cup Merged
  BY <1>1, <1>7, <1>15
<1>17. NoPageTwice'
  <2>1. FreeBlocks' \cap held' = {}
    BY <1>1, <1>7, <1>14, <1>15 DEF NoPageTwice
  <2>2. PairwiseDisjoint((FreeBlocks \cup held)')
    BY <1>14, <1>16
  <2>. QED  BY <2>1, <2>2 DEF NoPageTwice, PairwiseDisjoint, BlockPages
<1>18. BlocksAligned'
  <2>1. \A b \in S : Aligned(b[1], b[2])
    BY DEF BlocksAligned
  <2>2. \A b \in Merged : Aligned(b[1], b[2])
    BY <1>4 DEF Merged
  <2>. QED  BY <2>1, <2>2, <1>16 DEF BlocksAligned, Aligned
<1>19. FreePages' = (FreePages \ PagesOf(Buds)) \cup PagesOf(Merged) /\ PagesOf(Buds) \subseteq FreePages
  <2>1. PairwiseDisjoint(FreeBlocks)
    BY DEF NoPageTwice, PairwiseDisjoint
  <2>2. PagesOf(FreeBlocks \ Buds) = FreePages \ PagesOf(Buds)
    BY <1>8, <2>1, PagesLeft DEF FreePages
  <2>3. FreePages' = PagesOf(FreeBlocks')
    BY DEF FreePages, PagesOf, BlockPages
  <2>4. PagesOf(Buds) \subseteq FreePages
    BY <1>8 DEF FreePages, PagesOf
  <2>. QED  BY <1>7, <2>2, <2>3, <2>4, PagesOfCup
<1>20. HeldPages' = HeldPages \ Block(f, order)
  <2>1. PairwiseDisjoint(held)
    BY DEF NoPageTwice, PairwiseDisjoint
  <2>2. HeldPages' = PagesOf(held')
    BY DEF HeldPages, PagesOf, BlockPages
  <2>. QED  BY <1>1, <1>11, <1>15, <2>1, <2>2, PagesLeft DEF HeldPages
<1>21. Block(f, order) \subseteq HeldPages
  BY <1>1, PagesOfMember DEF HeldPages, BlockPages
<1>. QED
  BY <1>1, <1>6, <1>11, <1>12, <1>17, <1>18, <1>19, <1>20, <1>21 DEF Freed

AddedPages == UNION {RegionPages(r) : r \in added}

(* add_region on the lists: the cut of a new region meets no block. *)
LEMMA AddStep ==
  ASSUME TypeOK, BlocksAligned, NoPageTwice, NoPageLost, NEW r \in Regions, AddRegion(r)
  PROVE  /\ free_lists' \in [Orders -> SUBSET Nat]
         /\ BlocksAligned'
         /\ NoPageTwice'
         /\ FreePages' = FreePages \cup RegionPages(r)
         /\ HeldPages' = HeldPages
         /\ AddedPages' = AddedPages \cup RegionPages(r)
         /\ RegionPages(r) \cap (FreePages \cup HeldPages) = {}
<1>. DEFINE C == Cut(r)
            S == FreeBlocks \cup held
<1>1. /\ r \notin added /\ added' = added \cup {r} /\ held' = held
      /\ free_lists' = [o \in Orders |-> free_lists[o] \cup RegionBlocks(r, o)]
  BY DEF AddRegion
<1>2. RegionPages(r) \subseteq Nat /\ C \subseteq Nat \X Orders /\ \A b \in C : Aligned(b[1], b[2])
  BY CutFacts
<1>3. PagesOf(C) = RegionPages(r)
  <2>1. PagesOf(C) \subseteq RegionPages(r)
    BY CutFacts
  <2>2. \A x \in RegionPages(r) : x \in PagesOf(C)
    BY CutCovers
  <2>. QED  BY <2>1, <2>2
<1>4. \A o \in Orders : RegionBlocks(r, o) \subseteq Nat
  BY <1>2 DEF RegionBlocks
<1>5. free_lists' \in [Orders -> SUBSET Nat]
  BY <1>1, <1>4 DEF TypeOK
<1>6. FreeBlocks' = FreeBlocks \cup C
  BY <1>1 DEF FreeBlocks, Cut, TypeOK
<1>7. RegionPages(r) \cap (FreePages \cup HeldPages) = {}
  <2>1. \A s \in added : RegionPages(r) \cap RegionPages(s) = {}
    BY <1>1, RegionAssumption DEF TypeOK
  <2>. QED  BY <2>1 DEF NoPageLost
<1>8. \A a \in S, b \in C : BlockPages(a) \cap BlockPages(b) = {}
  <2>1. SUFFICES ASSUME NEW a \in S, NEW b \in C, NEW x \in BlockPages(a), x \in BlockPages(b)
                 PROVE  FALSE
    OBVIOUS
  <2>2. x \in RegionPages(r)
    BY <1>3, <2>1, PagesOfMember
  <2>3. x \in FreePages \/ x \in HeldPages
    BY <2>1, PagesOfMember DEF FreePages, HeldPages
  <2>. QED  BY <1>7, <2>2, <2>3
<1>. HIDE DEF C
<1>9. PairwiseDisjoint(C)
  BY CutDisjoint DEF C
<1>10. NoPageTwice'
  <2>1. \A b \in C : b[1] \in BlockPages(b)
    BY <1>2, BlockNotEmpty
  <2>2. C \cap S = {}
    BY <1>8, <2>1
  <2>3. PairwiseDisjoint(S \cup C)
    BY <1>8, <1>9 DEF PairwiseDisjoint, NoPageTwice
  <2>4. (FreeBlocks \cup held)' = S \cup C /\ FreeBlocks' \cap held' = {}
    BY <1>1, <1>6, <2>2 DEF NoPageTwice
  <2>. QED  BY <2>3, <2>4 DEF NoPageTwice, PairwiseDisjoint, BlockPages
<1>11. BlocksAligned'
  <2>1. \A b \in S : Aligned(b[1], b[2])
    BY DEF BlocksAligned
  <2>. QED  BY <1>1, <1>2, <1>6, <2>1 DEF BlocksAligned, Aligned
<1>12. FreePages' = FreePages \cup RegionPages(r) /\ HeldPages' = HeldPages
  <2>1. FreePages' = PagesOf(FreeBlocks') /\ HeldPages' = PagesOf(held')
    BY DEF FreePages, HeldPages, PagesOf, BlockPages
  <2>2. PagesOf(FreeBlocks') = PagesOf(FreeBlocks) \cup PagesOf(C)
    BY <1>6, PagesOfCup
  <2>. QED  BY <1>1, <1>3, <2>1, <2>2 DEF FreePages, HeldPages
<1>13. AddedPages' = AddedPages \cup RegionPages(r)
  BY <1>1 DEF AddedPages, RegionPages
<1>. QED
  BY <1>5, <1>7, <1>10, <1>11, <1>12, <1>13

(***************************************************************************)
(* The invariant is inductive.                                             *)
(***************************************************************************)

LEMMA BlockCount ==
  ASSUME NEW p \in Nat, NEW k \in Orders
  PROVE  IsFiniteSet(Block(p, k)) /\ Cardinality(Block(p, k)) = Pages(k)
<1>1. Pages(k) \in Nat \ {0} /\ p \in Int /\ p + Pages(k) - 1 \in Int
  BY PagesFacts
<1>2. /\ IsFiniteSet(p .. p + Pages(k) - 1)
      /\ Cardinality(p .. p + Pages(k) - 1)
           = IF p > p + Pages(k) - 1 THEN 0 ELSE (p + Pages(k) - 1) - p + 1
  BY <1>1, FS_Interval
<1>. QED
  BY <1>1, <1>2 DEF Block

LEMMA RegionCount ==
  ASSUME NEW r \in Regions
  PROVE  IsFiniteSet(RegionPages(r)) /\ Cardinality(RegionPages(r)) = r.count
<1>. DEFINE first == r.start
            last == r.start + r.count - 1
<1>1. r.count \in Nat \ {0} /\ first \in Int /\ last \in Int /\ last - first + 1 = r.count
  BY RegionAssumption
<1>2. RegionPages(r) = first .. last
  BY DEF RegionPages
<1>. HIDE DEF first, last
<1>3. /\ IsFiniteSet(first .. last)
      /\ Cardinality(first .. last) = IF first > last THEN 0 ELSE last - first + 1
  BY <1>1, FS_Interval
<1>. QED
  BY <1>1, <1>2, <1>3

(* Counting the union and the difference of disjoint or nested sets. *)
LEMMA CountCup ==
  ASSUME NEW S, NEW T, IsFiniteSet(S), IsFiniteSet(T), S \cap T = {}
  PROVE  /\ IsFiniteSet(S \cup T)
         /\ Cardinality(S \cup T) = Cardinality(S) + Cardinality(T)
<1>1. Cardinality(S \cap T) = 0
  BY FS_EmptySet
<1>2. Cardinality(S) \in Nat /\ Cardinality(T) \in Nat
  BY FS_CardinalityType
<1>3. /\ IsFiniteSet(S \cup T)
      /\ Cardinality(S \cup T) = Cardinality(S) + Cardinality(T) - Cardinality(S \cap T)
  BY FS_Union
<1>. QED
  BY <1>1, <1>2, <1>3

LEMMA CountMinus ==
  ASSUME NEW S, NEW T, IsFiniteSet(S), T \subseteq S
  PROVE  /\ IsFiniteSet(S \ T)
         /\ Cardinality(S \ T) = Cardinality(S) - Cardinality(T)
<1>1. S \cap T = T
  OBVIOUS
<1>. QED
  BY <1>1, FS_Difference

LEMMA InitIInv == Init => IInv
<1>1. SUFFICES ASSUME Init PROVE IInv
  OBVIOUS
<1>2. TypeOK /\ held = {} /\ added = {}
  BY <1>1 DEF Init, TypeOK
<1>3. FreeBlocks = {}
  BY <1>1, <1>2, FreeBlocksType DEF Init
<1>4. FreePages = {} /\ HeldPages = {}
  BY <1>2, <1>3 DEF FreePages, HeldPages, PagesOf
<1>5. BlocksAligned /\ NoPageTwice /\ NoPageLost
  BY <1>2, <1>3, <1>4 DEF BlocksAligned, NoPageTwice, NoPageLost, PairwiseDisjoint
<1>6. PagesFinite /\ CountersExact
  BY <1>1, <1>4, FS_EmptySet DEF Init, PagesFinite, CountersExact
<1>. QED
  BY <1>2, <1>5, <1>6 DEF IInv

LEMMA NextIInv == IInv /\ [Next]_vars => IInv'
<1>1. SUFFICES ASSUME IInv, [Next]_vars PROVE IInv'
  OBVIOUS
<1>. USE <1>1
<1>2. TypeOK /\ BlocksAligned /\ NoPageTwice /\ NoPageLost
  BY DEF IInv
<1>3. /\ IsFiniteSet(FreePages) /\ IsFiniteSet(HeldPages)
      /\ free_pages = Cardinality(FreePages) /\ pages_allocated = Cardinality(HeldPages)
      /\ total_pages = free_pages + pages_allocated
      /\ free_pages \in Nat /\ pages_allocated \in Nat /\ total_pages \in Nat
      /\ FreePages \cap HeldPages = {}
  BY <1>2, PagesAreApart DEF IInv, PagesFinite, CountersExact, TypeOK
<1>4. ASSUME NEW r \in Regions, AddRegion(r) PROVE IInv'
  <2>1. /\ free_lists' \in [Orders -> SUBSET Nat]
        /\ BlocksAligned' /\ NoPageTwice'
        /\ FreePages' = FreePages \cup RegionPages(r) /\ HeldPages' = HeldPages
        /\ AddedPages' = AddedPages \cup RegionPages(r)
        /\ RegionPages(r) \cap FreePages = {}
    BY <1>2, <1>4, AddStep
  <2>2. /\ total_pages' = total_pages + r.count /\ free_pages' = free_pages + r.count
        /\ pages_allocated' = pages_allocated /\ held' = held /\ added' = added \cup {r}
    BY <1>4 DEF AddRegion
  <2>3. IsFiniteSet(RegionPages(r)) /\ Cardinality(RegionPages(r)) = r.count /\ r.count \in Nat
    BY RegionCount, RegionAssumption
  <2>4. IsFiniteSet(FreePages') /\ Cardinality(FreePages') = Cardinality(FreePages) + r.count
    BY <1>3, <2>1, <2>3, CountCup
  <2>5. TypeOK'
    BY <1>2, <1>3, <2>1, <2>2, <2>3 DEF TypeOK
  <2>6. NoPageLost'
    BY <1>2, <2>1 DEF NoPageLost, AddedPages, RegionPages
  <2>7. PagesFinite' /\ CountersExact'
    BY <1>3, <2>1, <2>2, <2>3, <2>4 DEF PagesFinite, CountersExact
  <2>. QED  BY <2>1, <2>5, <2>6, <2>7 DEF IInv
<1>5. ASSUME NEW order \in Orders, Alloc(order) PROVE IInv'
  <2>1. PICK p \in Nat :
        /\ free_lists' \in [Orders -> SUBSET Nat]
        /\ held' = held \cup {<<p, order>>}
        /\ BlocksAligned' /\ NoPageTwice'
        /\ Block(p, order) \subseteq FreePages
        /\ FreePages' = FreePages \ Block(p, order)
        /\ HeldPages' = HeldPages \cup Block(p, order)
    BY <1>2, <1>5, AllocStep
  <2>2. /\ free_pages' = free_pages - Pages(order)
        /\ pages_allocated' = pages_allocated + Pages(order)
        /\ total_pages' = total_pages /\ added' = added
    BY <1>5 DEF Alloc
  <2>3. /\ IsFiniteSet(Block(p, order)) /\ Cardinality(Block(p, order)) = Pages(order)
        /\ Pages(order) \in Nat
    BY BlockCount, PagesFacts
  <2>4. HeldPages \cap Block(p, order) = {}
    BY <1>3, <2>1
  <2>5. /\ IsFiniteSet(FreePages') /\ Cardinality(FreePages') = free_pages - Pages(order)
        /\ IsFiniteSet(HeldPages') /\ Cardinality(HeldPages') = pages_allocated + Pages(order)
    BY <1>3, <2>1, <2>3, <2>4, CountCup, CountMinus
  <2>6. free_pages' \in Nat /\ pages_allocated' \in Nat
    BY <2>2, <2>5, FS_CardinalityType
  <2>7. TypeOK'
    BY <1>2, <2>1, <2>2, <2>6 DEF TypeOK
  <2>8. NoPageLost'
    BY <1>2, <2>1, <2>2 DEF NoPageLost, RegionPages
  <2>9. PagesFinite' /\ CountersExact'
    BY <1>3, <2>2, <2>3, <2>5 DEF PagesFinite, CountersExact
  <2>. QED  BY <2>1, <2>7, <2>8, <2>9 DEF IInv
<1>6. ASSUME NEW b \in held, Free(b[1], b[2]) PROVE IInv'
  <2>. DEFINE f == b[1]  order == b[2]
  <2>1. /\ f \in Nat /\ order \in Orders
        /\ free_lists' \in [Orders -> SUBSET Nat]
        /\ held' = held \ {<<f, order>>}
        /\ BlocksAligned' /\ NoPageTwice'
        /\ Block(f, order) \subseteq HeldPages
        /\ FreePages' = FreePages \cup Block(f, order)
        /\ HeldPages' = HeldPages \ Block(f, order)
    BY <1>2, <1>6, FreeStep
  <2>2. /\ free_pages' = free_pages + Pages(order)
        /\ pages_allocated' = pages_allocated - Pages(order)
        /\ total_pages' = total_pages /\ added' = added
    BY <1>6 DEF Free
  <2>. HIDE DEF f, order
  <2>3. /\ IsFiniteSet(Block(f, order)) /\ Cardinality(Block(f, order)) = Pages(order)
        /\ Pages(order) \in Nat
    BY <2>1, BlockCount, PagesFacts
  <2>4. FreePages \cap Block(f, order) = {}
    BY <1>3, <2>1
  <2>5. /\ IsFiniteSet(FreePages') /\ Cardinality(FreePages') = free_pages + Pages(order)
        /\ IsFiniteSet(HeldPages') /\ Cardinality(HeldPages') = pages_allocated - Pages(order)
    BY <1>3, <2>1, <2>3, <2>4, CountCup, CountMinus
  <2>6. free_pages' \in Nat /\ pages_allocated' \in Nat
    BY <2>2, <2>5, FS_CardinalityType
  <2>7. TypeOK'
    BY <1>2, <2>1, <2>2, <2>6 DEF TypeOK
  <2>8. NoPageLost'
    BY <1>2, <2>1, <2>2 DEF NoPageLost, RegionPages
  <2>9. PagesFinite' /\ CountersExact'
    BY <1>3, <2>2, <2>3, <2>5 DEF PagesFinite, CountersExact
  <2>. QED  BY <2>1, <2>7, <2>8, <2>9 DEF IInv
<1>7. CASE UNCHANGED vars
  <2>1. /\ free_lists' = free_lists /\ total_pages' = total_pages /\ free_pages' = free_pages
        /\ pages_allocated' = pages_allocated /\ added' = added /\ held' = held
    BY <1>7 DEF vars
  <2>2. FreeBlocks' = FreeBlocks
    BY <2>1 DEF FreeBlocks
  <2>3. FreePages' = FreePages /\ HeldPages' = HeldPages
    BY <2>1, <2>2 DEF FreePages, HeldPages, PagesOf, BlockPages
  <2>4. TypeOK' /\ BlocksAligned'
    BY <1>2, <2>1, <2>2 DEF TypeOK, BlocksAligned, Aligned
  <2>5. NoPageTwice'
    BY <1>2, <2>1, <2>2 DEF NoPageTwice, PairwiseDisjoint, BlockPages
  <2>6. NoPageLost'
    BY <1>2, <2>1, <2>3 DEF NoPageLost, RegionPages
  <2>7. PagesFinite' /\ CountersExact'
    BY <1>3, <2>1, <2>3 DEF PagesFinite, CountersExact
  <2>. QED  BY <2>4, <2>5, <2>6, <2>7 DEF IInv
<1>. QED
  BY <1>4, <1>5, <1>6, <1>7 DEF Next

LEMMA Invariance == Spec => []IInv
BY InitIInv, NextIInv, PTL DEF Spec

(* For every map of usable memory and every order, the allocator's         *)
(* variables keep their types: no counter wraps below zero.                *)
THEOREM TypeCorrect == Spec => []TypeOK
<1>1. IInv => TypeOK
  BY DEF IInv
<1>. QED
  BY <1>1, Invariance, PTL

(* alloc never hands out a page that is free elsewhere or already held,    *)
(* whatever the history of splits and merges.                              *)
THEOREM ExclusivePages == Spec => []NoPageTwice
<1>1. IInv => NoPageTwice
  BY DEF IInv
<1>. QED
  BY <1>1, Invariance, PTL

(* Every registered page is free or held: split, merge and refused         *)
(* allocations lose none.                                                  *)
THEOREM PagesConserved == Spec => []NoPageLost
<1>1. IInv => NoPageLost
  BY DEF IInv
<1>. QED
  BY <1>1, Invariance, PTL

(* free_pages, PAGES_ALLOCATED and total_pages count what they name.       *)
THEOREM CountersCorrect == Spec => []CountersExact
<1>1. IInv => CountersExact
  BY DEF IInv
<1>. QED
  BY <1>1, Invariance, PTL

(***************************************************************************)
(* The allocator implements page ownership.                                *)
(***************************************************************************)

LEMMA OwnershipInit == Init => Ownership!Init
<1>1. SUFFICES ASSUME Init PROVE Ownership!Init
  OBVIOUS
<1>2. TypeOK /\ held = {} /\ added = {}
  BY <1>1 DEF Init, TypeOK
<1>3. FreeBlocks = {}
  BY <1>1, <1>2, FreeBlocksType DEF Init
<1>. QED
  BY <1>2, <1>3 DEF Ownership!Init, FreePages, PagesOf

LEMMA OwnershipNext == IInv /\ [Next]_vars => [Ownership!Next]_(Ownership!vars)
<1>. DEFINE owned == {BlockPages(b) : b \in held}
            donated == {RegionPages(r) : r \in added}
<1>1. SUFFICES ASSUME IInv, [Next]_vars PROVE [Ownership!Next]_(Ownership!vars)
  OBVIOUS
<1>2. TypeOK /\ BlocksAligned /\ NoPageTwice /\ NoPageLost
  BY <1>1 DEF IInv
<1>3. ASSUME NEW r \in Regions, AddRegion(r) PROVE Ownership!Next
  <2>1. FreePages' = FreePages \cup RegionPages(r)
    BY <1>2, <1>3, AddStep
  <2>2. held' = held /\ added' = added \cup {r} /\ r \notin added
    BY <1>3 DEF AddRegion
  <2>3. owned' = owned
    BY <2>2 DEF BlockPages
  <2>4. donated' = donated \cup {RegionPages(r)}
    BY <2>2 DEF RegionPages
  <2>5. RegionPages(r) \notin donated
    <3>1. \A s \in added : RegionPages(r) \cap RegionPages(s) = {}
      BY <2>2, <1>2, RegionAssumption DEF TypeOK
    <3>2. r.start \in RegionPages(r)
      BY RegionAssumption DEF RegionPages
    <3>. QED  BY <3>1, <3>2
  <2>6. Ownership!Donate(RegionPages(r))
    BY <2>1, <2>3, <2>4, <2>5 DEF Ownership!Donate
  <2>. QED  BY <2>6 DEF Ownership!Next
<1>4. ASSUME NEW order \in Orders, Alloc(order) PROVE Ownership!Next
  <2>1. PICK p \in Nat :
        /\ held' = held \cup {<<p, order>>}
        /\ Block(p, order) \subseteq FreePages
        /\ FreePages' = FreePages \ Block(p, order)
    BY <1>2, <1>4, AllocStep
  <2>2. added' = added
    BY <1>4 DEF Alloc
  <2>3. owned' = owned \cup {Block(p, order)}
    <3>1. owned' = {BlockPages(c) : c \in held'}
      BY DEF BlockPages, Block, Pages
    <3>2. BlockPages(<<p, order>>) = Block(p, order)
      BY DEF BlockPages
    <3>. QED  BY <2>1, <3>1, <3>2
  <2>4. donated' = donated
    BY <2>2 DEF RegionPages
  <2>5. p \in FreePages
    BY <2>1, BlockFacts
  <2>6. Ownership!Take(p, Pages(order))
    BY <2>1, <2>3, <2>4 DEF Ownership!Take, Block
  <2>. QED  BY <2>5, <2>6 DEF Ownership!Next
<1>5. ASSUME NEW b \in held, Free(b[1], b[2]) PROVE Ownership!Next
  <2>. DEFINE f == b[1]  order == b[2]
  <2>1. /\ f \in Nat /\ order \in Orders /\ <<f, order>> \in held
        /\ held' = held \ {<<f, order>>}
        /\ FreePages' = FreePages \cup Block(f, order)
    BY <1>2, <1>5, FreeStep
  <2>2. added' = added
    BY <1>5 DEF Free
  <2>. HIDE DEF f, order
  <2>3. donated' = donated
    BY <2>2 DEF RegionPages
  <2>4. BlockPages(<<f, order>>) = Block(f, order)
    BY DEF BlockPages
  <2>5. \A c \in held : BlockPages(c) = Block(f, order) => c = <<f, order>>
    <3>1. TAKE c \in held
    <3>2. f \in Block(f, order)
      BY <2>1, BlockFacts
    <3>. QED  BY <3>2, <2>1, <2>4, <1>2 DEF NoPageTwice, PairwiseDisjoint
  <2>6. owned' = {BlockPages(c) : c \in held'}
    BY DEF BlockPages, Block, Pages
  <2>7. owned' = owned \ {Block(f, order)}
    BY <2>1, <2>4, <2>5, <2>6
  <2>8. Ownership!Return(Block(f, order))
    BY <2>1, <2>3, <2>7 DEF Ownership!Return
  <2>9. Block(f, order) \in owned
    BY <2>1, <2>4
  <2>. QED  BY <2>8, <2>9 DEF Ownership!Next
<1>6. CASE UNCHANGED vars
  <2>1. free_lists' = free_lists /\ added' = added /\ held' = held
    BY <1>6 DEF vars
  <2>2. FreeBlocks' = FreeBlocks
    BY <2>1 DEF FreeBlocks
  <2>3. FreePages' = FreePages
    BY <2>2 DEF FreePages, PagesOf, BlockPages
  <2>4. owned' = owned /\ donated' = donated
    BY <2>1 DEF BlockPages, RegionPages
  <2>. QED  BY <2>3, <2>4 DEF Ownership!vars
<1>. QED
  BY <1>1, <1>3, <1>4, <1>5, <1>6 DEF Next

(* Every behaviour of the allocator is one of the page-ownership           *)
(* specification: splitting and merging blocks is invisible to clients.    *)
THEOREM Implementation == Spec => ImplementsOwnership
<1>1. Init => Ownership!Init
  BY OwnershipInit
<1>2. IInv /\ [Next]_vars => [Ownership!Next]_(Ownership!vars)
  BY OwnershipNext
<1>. QED
  BY <1>1, <1>2, Invariance, PTL DEF Spec, ImplementsOwnership, Ownership!Spec

(***************************************************************************)
(* Coalescing.  What free maintains is local: of the two halves of a       *)
(* block, one at most is on its list.  That no block of any order is free  *)
(* in pieces follows.                                                      *)
(***************************************************************************)

(* Of a block inside one region, the two halves are never both free as     *)
(* blocks of their own.                                                    *)
NoFreeHalves ==
  \A r \in added, k \in Orders, p \in Nat :
    k < MaxOrder /\ Aligned(p, k + 1) /\ Fits(p, k + 1, r)
      => ~(p \in free_lists[k] /\ p + Pages(k) \in free_lists[k])

(* The lower and the upper half of a block, each other's buddy.            *)
LEMMA TwoHalves ==
  ASSUME NEW k \in Orders, k < MaxOrder, NEW p \in Nat, Aligned(p, k + 1)
  PROVE  /\ k + 1 \in Orders
         /\ p + Pages(k) \in Nat
         /\ Aligned(p, k) /\ Aligned(p + Pages(k), k)
         /\ Buddy(p, k) = p + Pages(k)
         /\ Buddy(p + Pages(k), k) = p
         /\ Block(p, k + 1) = Block(p, k) \cup Block(p + Pages(k), k)
<1>1. k + 1 \in Orders /\ k \in 0 .. k + 1
  BY OrderAssumption DEF Orders
<1>2. Pages(k) \in Nat \ {0} /\ Pages(k + 1) = 2 * Pages(k)
  BY PagesFacts
<1>3. Aligned(p, k) /\ Aligned(p + Pages(k), k)
  BY <1>1, SplitAligned
<1>4. PICK a \in Nat : p = Pages(k + 1) * a
  BY <1>1, AlignedMultiple
<1>. DEFINE P == Pages(k)
<1>5. P \in Nat \ {0} /\ p = P * (2 * a) + 0 /\ p + P = P * (2 * a + 1) + 0 /\ 0 \in 0 .. P - 1
  BY <1>2, <1>4
<1>. HIDE DEF P
<1>6. p \div P = 2 * a
  <2>1. 2 * a \in Int
    BY <1>4
  <2>2. (P * (2 * a) + 0) \div P = 2 * a
    BY <1>5, <2>1, DivModUnique, Zenon
  <2>. QED  BY <1>5, <2>2
<1>7. (p + P) \div P = 2 * a + 1
  <2>1. 2 * a + 1 \in Int
    BY <1>4
  <2>2. (P * (2 * a + 1) + 0) \div P = 2 * a + 1
    BY <1>5, <2>1, DivModUnique, Zenon
  <2>. QED  BY <1>5, <2>2
<1>8. Buddy(p, k) = p + Pages(k)
  BY <1>6 DEF P, Buddy
<1>9. Buddy(p + Pages(k), k) = p
  <2>1. ((p + P) \div P) % 2 = 1
    BY <1>7
  <2>. QED  BY <2>1, <1>2 DEF P, Buddy
<1>10. AlignDown(p, k + 1) = p
  BY <1>1, BlockFacts, AlignDownUnique
<1>. QED
  BY <1>1, <1>2, <1>3, <1>8, <1>9, <1>10, BuddyFacts

(* A region is cut into the largest blocks that fit.                       *)
LEMMA AddKeepsHalves ==
  ASSUME IInv, NoFreeHalves, NEW r \in Regions, AddRegion(r)
  PROVE  NoFreeHalves'
<1>1. TypeOK /\ BlocksAligned /\ NoPageTwice /\ NoPageLost
  BY DEF IInv
<1>2. RegionPages(r) \cap FreePages = {}
  BY <1>1, AddStep
<1>3. \A k \in Orders : free_lists'[k] = free_lists[k] \cup RegionBlocks(r, k)
  BY DEF AddRegion
<1>4. SUFFICES ASSUME NEW s \in added', NEW k \in Orders, NEW p \in Nat,
                      k < MaxOrder, Aligned(p, k + 1), Fits(p, k + 1, s),
                      p \in free_lists'[k], p + Pages(k) \in free_lists'[k]
               PROVE  FALSE
  BY DEF NoFreeHalves, Aligned, Fits, Block, Pages, RegionPages
<1>5. /\ p + Pages(k) \in Nat /\ k + 1 \in Orders
      /\ Block(p, k) \subseteq RegionPages(s) /\ Block(p + Pages(k), k) \subseteq RegionPages(s)
  BY <1>4, TwoHalves DEF Fits
<1>6. p \in RegionPages(s) /\ p + Pages(k) \in RegionPages(s)
  BY <1>5, BlockFacts
<1>7. CASE s = r
  <2>1. p \notin free_lists[k]
    <3>1. SUFFICES ASSUME p \in free_lists[k] PROVE p \in FreePages
      BY <1>2, <1>6, <1>7
    <3>2. <<p, k>> \in FreeBlocks
      BY <1>1, <3>1, FreeBlocksType
    <3>. QED  BY <3>2, BlockFacts, PagesOfMember DEF FreePages, BlockPages
  <2>2. ~Fits(AlignDown(p, k + 1), k + 1, r)
    BY <1>3, <1>4, <2>1 DEF RegionBlocks
  <2>3. AlignDown(p, k + 1) = p
    BY <1>4, <1>5, BlockFacts, AlignDownUnique
  <2>. QED  BY <1>4, <1>7, <2>2, <2>3
<1>8. CASE s # r
  <2>1. s \in added /\ s \in Regions
    BY <1>1, <1>4, <1>8 DEF AddRegion, TypeOK
  <2>2. RegionPages(s) \cap RegionPages(r) = {}
    BY <2>1, <1>8, RegionAssumption
  <2>3. p \in free_lists[k] /\ p + Pages(k) \in free_lists[k]
    BY <1>3, <1>4, <1>6, <2>2 DEF RegionBlocks
  <2>. QED  BY <1>4, <2>1, <2>3 DEF NoFreeHalves
<1>. QED
  BY <1>7, <1>8

(* A split leaves one half of each block it cuts, on a list that was empty. *)
LEMMA AllocKeepsHalves ==
  ASSUME IInv, NoFreeHalves, NEW order \in Orders, Alloc(order)
  PROVE  NoFreeHalves'
<1>0. PICK o \in Orders :
        /\ SmallestFit(order, o)
        /\ \E q \in free_lists[o] : free_lists' = AfterSplit(q, o, order)
  BY DEF Alloc
<1>1. PICK q \in free_lists[o] : free_lists' = AfterSplit(q, o, order)
  BY <1>0
<1>2. TypeOK /\ q \in Nat /\ added' = added
  BY DEF IInv, TypeOK, Alloc
<1>3. SUFFICES ASSUME NEW s \in added, NEW k \in Orders, NEW p \in Nat,
                      k < MaxOrder, Aligned(p, k + 1), Fits(p, k + 1, s),
                      p \in free_lists'[k], p + Pages(k) \in free_lists'[k]
               PROVE  FALSE
  BY <1>2 DEF NoFreeHalves, Aligned, Fits, Block, Pages, RegionPages
<1>4. free_lists'[k] = IF k = o THEN free_lists[k] \ {q}
                       ELSE IF k \in order .. o - 1 THEN free_lists[k] \cup {q + Pages(k)}
                       ELSE free_lists[k]
  BY <1>1 DEF AfterSplit
<1>5. CASE k \in order .. o - 1
  <2>1. k # o /\ free_lists[k] = {}
    BY <1>0, <1>5 DEF SmallestFit, Orders
  <2>2. p = q + Pages(k) /\ p + Pages(k) = q + Pages(k)
    BY <1>3, <1>4, <1>5, <2>1
  <2>3. Pages(k) \in Nat \ {0}
    BY PagesFacts
  <2>. QED  BY <2>2, <2>3
<1>6. CASE k \notin order .. o - 1
  BY <1>3, <1>4, <1>6 DEF NoFreeHalves
<1>. QED
  BY <1>5, <1>6

(* free goes on until the buddy of what it has is not free.                *)
LEMMA FreeKeepsHalves ==
  ASSUME IInv, NoFreeHalves, NEW b \in held, Free(b[1], b[2])
  PROVE  NoFreeHalves'
<1>. DEFINE f == b[1]  order == b[2]  top == TopOrder(f, order)  x == AlignDown(f, top)
<1>1. f \in Nat /\ order \in Orders /\ added' = added /\ free_lists' = AfterMerge(f, order)
  BY DEF IInv, TypeOK, Free
<1>. HIDE DEF f, order
<1>2. top \in order .. MaxOrder /\ top \in Orders /\ ~Merges(f, top)
  BY <1>1, TopOrderFacts, OrderAssumption DEF Orders
<1>3. SUFFICES ASSUME NEW s \in added, NEW k \in Orders, NEW p \in Nat,
                      k < MaxOrder, Aligned(p, k + 1), Fits(p, k + 1, s),
                      p \in free_lists'[k], p + Pages(k) \in free_lists'[k]
               PROVE  FALSE
  BY <1>1 DEF NoFreeHalves, Aligned, Fits, Block, Pages, RegionPages
<1>4. free_lists'[k] = IF k \in order .. top - 1
                       THEN free_lists[k] \ {Buddy(AlignDown(f, k), k)}
                       ELSE IF k = top THEN free_lists[k] \cup {x}
                       ELSE free_lists[k]
  BY <1>1 DEF AfterMerge
<1>5. ~(p \in free_lists[k] /\ p + Pages(k) \in free_lists[k])
  BY <1>3 DEF NoFreeHalves
<1>. HIDE DEF top, x
<1>6. k = top /\ (p = x \/ p + Pages(k) = x)
  BY <1>3, <1>4, <1>5
<1>7. Buddy(x, k) \notin free_lists[k]
  BY <1>2, <1>3, <1>6 DEF Merges, x
<1>8. Buddy(p, k) = p + Pages(k) /\ Buddy(p + Pages(k), k) = p /\ p # p + Pages(k)
  <2>1. Pages(k) \in Nat \ {0}
    BY PagesFacts
  <2>. QED  BY <1>3, <2>1, TwoHalves
<1>9. k \notin order .. top - 1
  BY <1>1, <1>2, <1>6 DEF Orders
<1>10. CASE p = x
  BY <1>3, <1>4, <1>6, <1>7, <1>8, <1>9, <1>10
<1>11. CASE p + Pages(k) = x
  BY <1>3, <1>4, <1>6, <1>7, <1>8, <1>9, <1>11
<1>. QED
  BY <1>6, <1>10, <1>11

LEMMA NextKeepsHalves == IInv /\ NoFreeHalves /\ [Next]_vars => NoFreeHalves'
<1>1. SUFFICES ASSUME IInv, NoFreeHalves, [Next]_vars PROVE NoFreeHalves'
  OBVIOUS
<1>2. CASE UNCHANGED vars
  BY <1>1, <1>2 DEF NoFreeHalves, Aligned, Fits, Block, Pages, RegionPages, vars
<1>. QED
  BY <1>1, <1>2, AddKeepsHalves, AllocKeepsHalves, FreeKeepsHalves DEF Next

(* A block that is free in pieces has two halves that are; the smallest    *)
(* such block has two halves that are free as blocks.                      *)
LEMMA CoalescedByHalves ==
  ASSUME IInv, NoFreeHalves
  PROVE  FullyCoalesced
<1>. DEFINE Whole(p, o) == \E k \in o .. MaxOrder : AlignDown(p, k) \in free_lists[k]
            InPieces(r, o, p) == /\ Aligned(p, o) /\ Fits(p, o, r)
                                 /\ Block(p, o) \subseteq FreePages /\ ~Whole(p, o)
            S == {o \in Orders : \E r \in added : \E p \in RegionPages(r) : InPieces(r, o, p)}
<1>1. TypeOK /\ BlocksAligned /\ added \subseteq Regions
  BY DEF IInv, TypeOK
<1>2. SUFFICES ASSUME S # {} PROVE FALSE
  BY DEF FullyCoalesced
<1>3. PICK o \in S : \A m \in S : o <= m
  <2>1. S \subseteq Nat
    BY DEF Orders
  <2>. HIDE DEF S
  <2>. QED  BY <1>2, <2>1, SmallestOf
<1>4. PICK r \in added : \E p \in RegionPages(r) : InPieces(r, o, p)
  OBVIOUS
<1>5. PICK p \in RegionPages(r) : InPieces(r, o, p)
  BY <1>4
<1>6. o \in Orders /\ r \in Regions /\ p \in Nat
  BY <1>1, CutFacts
<1>7. CASE o = 0
  <2>1. p \in FreePages
    BY <1>5, <1>6, BlockFacts
  <2>2. PICK b \in FreeBlocks : p \in BlockPages(b)
    BY <2>1, PagesOfMember DEF FreePages
  <2>3. b[1] \in Nat /\ b[2] \in Orders /\ b[1] \in free_lists[b[2]] /\ Aligned(b[1], b[2])
    BY <1>1, FreeBlocksType DEF BlocksAligned
  <2>4. AlignDown(p, b[2]) = b[1]
    BY <2>2, <2>3, AlignDownUnique DEF BlockPages
  <2>. QED  BY <1>5, <1>7, <2>3, <2>4 DEF Orders
<1>8. CASE o # 0
  <2>. DEFINE j == o - 1  h == p + Pages(j)
  <2>1. j \in Orders /\ j < MaxOrder /\ o = j + 1 /\ o <= MaxOrder
    BY <1>6, <1>8, OrderAssumption DEF Orders
  <2>. HIDE DEF j
  <2>2. /\ h \in Nat /\ Aligned(p, j) /\ Aligned(h, j)
        /\ Block(p, o) = Block(p, j) \cup Block(h, j)
    BY <1>5, <1>6, <2>1, TwoHalves
  <2>. HIDE DEF h
  <2>3. Fits(p, j, r) /\ Fits(h, j, r) /\ h \in RegionPages(r) /\ h \in Block(p, o)
    BY <1>5, <2>1, <2>2, BlockFacts DEF Fits
  <2>4. j \notin S
    BY <1>3, <2>1 DEF Orders
  <2>5. Whole(p, j) /\ Whole(h, j)
    <3>1. Block(p, j) \subseteq FreePages /\ Block(h, j) \subseteq FreePages
      BY <1>5, <2>2
    <3>. HIDE DEF Whole
    <3>. QED  BY <2>1, <2>2, <2>3, <2>4, <3>1
  <2>6. ASSUME NEW k \in o .. MaxOrder PROVE AlignDown(h, k) = AlignDown(p, k)
    <3>1. k \in Orders /\ o <= k
      BY <1>6, OrderAssumption DEF Orders
    <3>. DEFINE q == AlignDown(p, k)
    <3>2. q \in Nat /\ Aligned(q, k) /\ p \in Block(q, k)
      BY <1>6, <3>1, AlignDownFacts
    <3>. HIDE DEF q
    <3>3. p \in Block(p, o) /\ Aligned(p, o)
      BY <1>5, <1>6, BlockFacts
    <3>4. Block(p, o) \subseteq Block(q, k)
      BY <1>6, <3>1, <3>2, <3>3, AlignedNested
    <3>5. AlignDown(h, k) = q
      BY <2>3, <3>1, <3>2, <3>4, AlignDownUnique
    <3>. QED  BY <3>5 DEF q
  <2>7. AlignDown(p, j) = p /\ AlignDown(h, j) = h
    BY <1>6, <2>1, <2>2, BlockFacts, AlignDownUnique
  <2>8. \A k \in j .. MaxOrder : k = j \/ k \in o .. MaxOrder
    BY <2>1 DEF Orders
  <2>9. p \in free_lists[j]
    BY <1>5, <2>5, <2>7, <2>8
  <2>10. h \in free_lists[j]
    BY <1>5, <2>5, <2>6, <2>7, <2>8
  <2>. QED  BY <1>5, <1>6, <2>1, <2>9, <2>10 DEF NoFreeHalves, h
<1>. QED
  BY <1>7, <1>8

(* An aligned block of a region whose pages are all free is part of one    *)
(* free block, whatever was split, merged and registered before: free      *)
(* leaves no buddies apart (memory.rs:134-144).                            *)
THEOREM Coalescing == Spec => []FullyCoalesced
<1>1. Init => NoFreeHalves
  BY DEF Init, NoFreeHalves
<1>2. IInv /\ NoFreeHalves => FullyCoalesced
  BY CoalescedByHalves
<1>. QED
  BY <1>1, <1>2, Invariance, NextKeepsHalves, PTL DEF Spec
===============================================================================
