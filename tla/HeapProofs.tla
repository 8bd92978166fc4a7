------------------------------ MODULE HeapProofs ------------------------------
(***************************************************************************)
(* Proofs about Heap.tla, for every header size, arenas and layouts.       *)
(***************************************************************************)
EXTENDS Heap, LibraryFacts, FiniteSetTheorems, TLAPS

Region == [start : Nat, size : Nat]
Bytes(list) == UNION {Span(list[i]) : i \in DOMAIN list}
Interval(from, size) == from .. from + size - 1

(* A free list: every region holds a header, and no two share a byte.      *)
Headers(list) ==
  \A i \in DOMAIN list : list[i].start % MinAlign = 0 /\ list[i].size >= MinBlock
Apart(list) ==
  \A i, j \in DOMAIN list : i # j => Span(list[i]) \cap Span(list[j]) = {}
FreeList(list) == list \in Seq(Region) /\ Headers(list) /\ Apart(list)

IInv ==
  /\ TypeOK
  /\ NoByteTwice
  /\ IsFiniteSet(HeldBytes)
  /\ AllocatedExact
  /\ \A b \in held : b.ptr % MinAlign = 0

(***************************************************************************)
(* Alignment.                                                              *)
(***************************************************************************)

LEMMA MultipleOfMultiple ==
  ASSUME NEW a \in Nat, NEW P \in Nat \ {0}, NEW Q \in Nat \ {0}, a % P = 0, P % Q = 0
  PROVE  a % Q = 0
<1>. DEFINE x == a \div P
            y == P \div Q
<1>1. x \in Int /\ y \in Int /\ a = P * x /\ P = Q * y
  <2>1. x \in Int /\ a = P * x + (a % P)
    BY DivMod
  <2>2. y \in Int /\ P = Q * y + (P % Q)
    BY DivMod
  <2>. HIDE DEF x, y
  <2>3. P * x \in Int /\ Q * y \in Int
    BY <2>1, <2>2
  <2>. QED  BY <2>1, <2>2, <2>3
<1>. HIDE DEF x, y
<1>2. a = Q * (y * x) /\ y * x \in Int
  BY <1>1
<1>3. (Q * (y * x) + 0) % Q = 0
  <2>. DEFINE z == y * x
  <2>1. z \in Int /\ 0 \in 0 .. Q - 1
    BY <1>2
  <2>. HIDE DEF z
  <2>2. (Q * z + 0) % Q = 0
    BY <2>1, DivModUnique
  <2>. QED  BY <2>2 DEF z
<1>. QED
  BY <1>2, <1>3

LEMMA SumOfMultiples ==
  ASSUME NEW a \in Nat, NEW b \in Nat, NEW P \in Nat \ {0}, a % P = 0, b % P = 0
  PROVE  (a + b) % P = 0
<1>. DEFINE x == a \div P
            y == b \div P
<1>1. x \in Int /\ y \in Int /\ a = P * x /\ b = P * y
  <2>1. x \in Int /\ a = P * x + (a % P)
    BY DivMod
  <2>2. y \in Int /\ b = P * y + (b % P)
    BY DivMod
  <2>. HIDE DEF x, y
  <2>3. P * x \in Int /\ P * y \in Int
    BY <2>1, <2>2
  <2>. QED  BY <2>1, <2>2, <2>3
<1>. HIDE DEF x, y
<1>. DEFINE z == x + y
<1>2. a + b = P * z + 0 /\ z \in Int /\ 0 \in 0 .. P - 1
  BY <1>1
<1>. HIDE DEF z
<1>3. (P * z + 0) % P = 0
  BY <1>2, DivModUnique
<1>. QED
  BY <1>2, <1>3

LEMMA AlignUpFacts ==
  ASSUME NEW a \in Nat, NEW P \in Nat \ {0}
  PROVE  /\ AlignUp(a, P) \in Nat
         /\ a <= AlignUp(a, P) /\ AlignUp(a, P) < a + P
         /\ AlignUp(a, P) % P = 0
         /\ a % P = 0 => AlignUp(a, P) = a
<1>. DEFINE n == a + P - 1
            q == n \div P
<1>1. n \in Nat /\ q \in Int /\ n % P \in 0 .. P - 1 /\ n = P * q + (n % P)
  <2>1. n \in Nat /\ n \in Int
    OBVIOUS
  <2>. HIDE DEF n
  <2>. QED  BY <2>1, DivMod, Zenon
<1>2. AlignUp(a, P) = P * q
  BY <1>1 DEF AlignUp
<1>3. P * q \in Int /\ a <= P * q /\ P * q < a + P
  <2>. HIDE DEF q
  <2>1. P * q \in Int
    BY <1>1
  <2>. DEFINE m == P * q
  <2>. HIDE DEF m
  <2>2. m \in Int /\ n = m + (n % P)
    BY <1>1, <2>1 DEF m
  <2>3. a <= m /\ m < a + P
    BY <1>1, <2>2
  <2>. QED  BY <2>1, <2>3 DEF m
<1>4. (P * q + 0) % P = 0
  <2>1. 0 \in 0 .. P - 1
    OBVIOUS
  <2>. HIDE DEF q
  <2>. QED  BY <1>1, <2>1, DivModUnique
<1>5. ASSUME a % P = 0 PROVE P * q = a
  <2>. DEFINE x == a \div P
  <2>1. x \in Int /\ a = P * x
    <3>1. x \in Int /\ a = P * x + (a % P)
      BY DivMod
    <3>. HIDE DEF x
    <3>2. P * x \in Int
      BY <3>1
    <3>. QED  BY <1>5, <3>1, <3>2
  <2>. HIDE DEF x
  <2>2. n = P * x + (P - 1)
    BY <2>1
  <2>3. (P * x + (P - 1)) \div P = x
    BY <2>1, DivModUnique
  <2>. QED  BY <2>1, <2>2, <2>3
<1>. QED
  BY <1>2, <1>3, <1>4, <1>5

(* What a layout asks of the list.                                         *)
LEMMA LayoutFacts ==
  ASSUME NEW l \in Layouts
  PROVE  /\ AdjustedAlign(l) \in Nat \ {0} /\ AdjustedSize(l) \in Nat
         /\ AdjustedSize(l) >= MinBlock /\ AdjustedSize(l) >= l.size
         /\ AdjustedSize(l) % MinAlign = 0
         /\ AdjustedAlign(l) % MinAlign = 0
         /\ AdjustedAlign(l) % l.align = 0
<1>. DEFINE s == AtLeast(l.size, MinBlock)
            P == AdjustedAlign(l)
<1>1. /\ l.size \in Nat /\ l.align \in Nat \ {0} /\ MinBlock \in Nat /\ MinAlign \in Nat \ {0}
      /\ l.align % MinAlign = 0 \/ MinAlign % l.align = 0
  BY HeapAssumption
<1>2. s \in Nat /\ s >= MinBlock /\ s >= l.size
  BY <1>1 DEF AtLeast
<1>3. P \in Nat \ {0} /\ P >= l.align /\ P >= MinAlign /\ (P = l.align \/ P = MinAlign)
  BY <1>1 DEF AdjustedAlign, AtLeast
<1>4. ASSUME NEW u \in Nat \ {0}, NEW v \in Nat \ {0}, u % v = 0 PROVE u >= v /\ u % u = 0 /\ v % v = 0
  BY <1>4
<1>5. P % MinAlign = 0 /\ P % l.align = 0
  <2>1. \A u, v \in Nat \ {0} : u % v = 0 => u >= v
    BY <1>4
  <2>2. MinAlign % MinAlign = 0 /\ l.align % l.align = 0
    BY <1>1
  <2>. QED  BY <1>1, <1>3, <2>1, <2>2
<1>. HIDE DEF s, P
<1>6. AdjustedSize(l) = AlignUp(s, P)
  BY DEF AdjustedSize, s, P
<1>7. AdjustedSize(l) \in Nat /\ AdjustedSize(l) >= s /\ AdjustedSize(l) % P = 0
  BY <1>2, <1>3, <1>6, AlignUpFacts
<1>8. AdjustedSize(l) % MinAlign = 0
  BY <1>1, <1>3, <1>5, <1>7, MultipleOfMultiple
<1>. QED
  BY <1>1, <1>2, <1>3, <1>5, <1>7, <1>8 DEF P

(***************************************************************************)
(* Free lists.                                                             *)
(***************************************************************************)

LEMMA RemoveFacts ==
  ASSUME NEW list, FreeList(list), NEW i \in DOMAIN list
  PROVE  /\ FreeList(RemoveAt(list, i))
         /\ Bytes(RemoveAt(list, i)) = Bytes(list) \ Span(list[i])
         /\ Span(list[i]) \subseteq Bytes(list)
         /\ list[i] \in Region /\ list[i].start % MinAlign = 0 /\ list[i].size >= MinBlock
<1>. DEFINE n == Len(list)
            t == RemoveAt(list, i)
            From(m) == IF m < i THEN m ELSE m + 1
<1>1. n \in Nat /\ DOMAIN list = 1 .. n /\ i \in 1 .. n /\ list \in Seq(Region)
  BY LenProperties DEF FreeList
<1>2. t \in Seq(Region) /\ Len(t) = n - 1 /\ \A k \in 1 .. n - 1 : t[k] = list[From(k)]
  BY <1>1, RemoveAtPlaces
<1>. HIDE DEF t, n
<1>3. DOMAIN t = 1 .. n - 1
  BY <1>2, LenProperties
<1>4. /\ \A m \in 1 .. n - 1 : From(m) \in 1 .. n /\ From(m) # i
      /\ \A l, m \in 1 .. n - 1 : From(l) = From(m) => l = m
  BY <1>1
<1>5. \A k \in 1 .. n : k # i => \E m \in 1 .. n - 1 : From(m) = k
  <2>1. SUFFICES ASSUME NEW k \in 1 .. n, k # i PROVE \E m \in 1 .. n - 1 : From(m) = k
    OBVIOUS
  <2>2. CASE k < i
    <3>1. k \in 1 .. n - 1 /\ From(k) = k
      BY <1>1, <2>2
    <3>. QED  BY <3>1
  <2>3. CASE k > i
    <3>1. k - 1 \in 1 .. n - 1 /\ From(k - 1) = k
      BY <1>1, <2>3
    <3>. QED  BY <3>1
  <2>. QED  BY <1>1, <2>1, <2>2, <2>3
<1>. HIDE DEF From
<1>6. FreeList(t)
  <2>1. Headers(t)
    BY <1>1, <1>2, <1>3, <1>4 DEF FreeList, Headers
  <2>2. Apart(t)
    BY <1>1, <1>2, <1>3, <1>4 DEF FreeList, Apart
  <2>. QED  BY <1>2, <2>1, <2>2 DEF FreeList
<1>7. Bytes(t) = Bytes(list) \ Span(list[i])
  <2>1. ASSUME NEW x \in Bytes(t) PROVE x \in Bytes(list) \ Span(list[i])
    <3>1. PICK m \in 1 .. n - 1 : x \in Span(t[m])
      BY <1>3, <2>1 DEF Bytes
    <3>2. x \in Span(list[From(m)]) /\ From(m) \in 1 .. n /\ From(m) # i
      BY <1>2, <1>4, <3>1
    <3>3. Span(list[From(m)]) \cap Span(list[i]) = {}
      BY <1>1, <3>2 DEF FreeList, Apart
    <3>. QED  BY <1>1, <3>2, <3>3 DEF Bytes
  <2>2. ASSUME NEW x \in Bytes(list), x \notin Span(list[i]) PROVE x \in Bytes(t)
    <3>1. PICK k \in 1 .. n : x \in Span(list[k])
      BY <1>1, <2>2 DEF Bytes
    <3>2. PICK m \in 1 .. n - 1 : From(m) = k
      BY <1>5, <2>2, <3>1
    <3>3. x \in Span(t[m])
      BY <1>2, <3>1, <3>2
    <3>. QED  BY <1>3, <3>3 DEF Bytes
  <2>. QED  BY <2>1, <2>2
<1>8. list[i] \in Region /\ list[i].start % MinAlign = 0 /\ list[i].size >= MinBlock
  BY <1>1 DEF FreeList, Headers
<1>9. Span(list[i]) \subseteq Bytes(list)
  BY <1>1 DEF Bytes
<1>. QED
  BY <1>6, <1>7, <1>8, <1>9 DEF t

(* Nothing but the region is added, and all of it when it is aligned and   *)
(* not too short.                                                          *)
LEMMA AddFacts ==
  ASSUME NEW list, FreeList(list), NEW addr \in Nat, NEW size \in Nat,
         Interval(addr, size) \cap Bytes(list) = {}
  PROVE  /\ FreeList(AddFreeRegion(list, addr, size))
         /\ Bytes(list) \subseteq Bytes(AddFreeRegion(list, addr, size))
         /\ Bytes(AddFreeRegion(list, addr, size)) \subseteq Bytes(list) \cup Interval(addr, size)
         /\ addr % MinAlign = 0 /\ size >= MinBlock =>
              Interval(addr, size) \subseteq Bytes(AddFreeRegion(list, addr, size))
<1>. DEFINE aligned == AlignUp(addr, MinAlign)
            adjust == aligned - addr
            r == [start |-> aligned, size |-> size - adjust]
            new == <<r>> \o list
<1>1. MinAlign \in Nat \ {0} /\ MinBlock \in Nat \ {0}
  BY HeapAssumption
<1>2. /\ aligned \in Nat /\ adjust \in Nat /\ aligned % MinAlign = 0
      /\ addr % MinAlign = 0 => aligned = addr
  <2>1. /\ aligned \in Nat /\ addr <= aligned /\ aligned % MinAlign = 0
        /\ addr % MinAlign = 0 => aligned = addr
    BY <1>1, AlignUpFacts, Zenon
  <2>. HIDE DEF aligned
  <2>. QED  BY <2>1
<1>3. /\ size < adjust + MinBlock => AddFreeRegion(list, addr, size) = list
      /\ ~(size < adjust + MinBlock) => AddFreeRegion(list, addr, size) = new
  BY DEF AddFreeRegion
<1>4. CASE size < adjust + MinBlock
  BY <1>1, <1>2, <1>3, <1>4
<1>5. CASE ~(size < adjust + MinBlock)
  <2>1. /\ r \in Region /\ r.start % MinAlign = 0 /\ r.size >= MinBlock
        /\ Span(r) \subseteq Interval(addr, size)
        /\ addr % MinAlign = 0 => Span(r) = Interval(addr, size)
    BY <1>1, <1>2, <1>5, SMTT(60) DEF Region, Span, Interval
  <2>. HIDE DEF r
  <2>2. list \in Seq(Region) /\ Len(list) \in Nat /\ DOMAIN list = 1 .. Len(list)
    BY LenProperties DEF FreeList
  <2>3. /\ new \in Seq(Region) /\ DOMAIN new = 1 .. Len(list) + 1
        /\ new[1] = r /\ \A k \in 1 .. Len(list) : new[k + 1] = list[k]
    <3>. DEFINE first == <<r>>
    <3>1. first \in Seq(Region) /\ Len(first) = 1 /\ first[1] = r
      BY <2>1
    <3>. HIDE DEF first
    <3>2. /\ first \o list \in Seq(Region) /\ Len(first \o list) = Len(first) + Len(list)
          /\ \A k \in 1 .. Len(first) + Len(list) :
               (first \o list)[k] = IF k <= Len(first) THEN first[k] ELSE list[k - Len(first)]
      BY <2>2, <3>1, ConcatProperties
    <3>3. DOMAIN (first \o list) = 1 .. Len(list) + 1
      BY <2>2, <3>1, <3>2, LenProperties
    <3>4. (first \o list)[1] = r
      BY <2>2, <3>1, <3>2
    <3>5. \A k \in 1 .. Len(list) : (first \o list)[k + 1] = list[k]
      BY <2>2, <3>1, <3>2
    <3>. QED  BY <3>2, <3>3, <3>4, <3>5 DEF first
  <2>. HIDE DEF new
  <2>4. \A k \in 1 .. Len(list) + 1 : k = 1 \/ \E m \in 1 .. Len(list) : k = m + 1 /\ new[k] = list[m]
    <3>1. SUFFICES ASSUME NEW k \in 1 .. Len(list) + 1, k # 1
                   PROVE  \E m \in 1 .. Len(list) : k = m + 1 /\ new[k] = list[m]
      OBVIOUS
    <3>2. k - 1 \in 1 .. Len(list) /\ k = (k - 1) + 1
      BY <2>2, <3>1
    <3>. QED  BY <2>3, <3>2
  <2>5. Bytes(new) = Bytes(list) \cup Span(r)
    <3>1. ASSUME NEW x \in Bytes(new) PROVE x \in Bytes(list) \cup Span(r)
      BY <2>2, <2>3, <2>4, <3>1 DEF Bytes
    <3>2. Span(r) \subseteq Bytes(new)
      <4>1. 1 \in DOMAIN new
        BY <2>2, <2>3
      <4>. QED  BY <2>3, <4>1 DEF Bytes
    <3>3. ASSUME NEW x \in Bytes(list) PROVE x \in Bytes(new)
      <4>1. PICK m \in 1 .. Len(list) : x \in Span(list[m])
        BY <2>2, <3>3 DEF Bytes
      <4>2. m + 1 \in DOMAIN new /\ x \in Span(new[m + 1])
        BY <2>2, <2>3, <4>1
      <4>. QED  BY <4>2 DEF Bytes
    <3>. QED  BY <3>1, <3>2, <3>3
  <2>6. Headers(new)
    BY <2>1, <2>2, <2>3, <2>4, SMTT(60) DEF FreeList, Headers
  <2>7. Apart(new)
    <3>1. \A m \in 1 .. Len(list) : Span(r) \cap Span(list[m]) = {}
      BY <2>1, <2>2 DEF Bytes
    <3>2. ASSUME NEW j \in DOMAIN new, NEW k \in DOMAIN new, j # k
          PROVE  Span(new[j]) \cap Span(new[k]) = {}
      <4>1. CASE j = 1
        BY <2>3, <2>4, <3>1, <3>2, <4>1
      <4>2. CASE k = 1
        BY <2>3, <2>4, <3>1, <3>2, <4>2
      <4>3. CASE j # 1 /\ k # 1
        <5>1. PICK l \in 1 .. Len(list) : j = l + 1 /\ new[j] = list[l]
          BY <2>3, <2>4, <4>3
        <5>2. PICK m \in 1 .. Len(list) : k = m + 1 /\ new[k] = list[m]
          BY <2>3, <2>4, <4>3
        <5>3. l # m
          BY <3>2, <5>1, <5>2
        <5>. QED  BY <2>2, <5>1, <5>2, <5>3 DEF FreeList, Apart
      <4>. QED  BY <4>1, <4>2, <4>3
    <3>. QED  BY <3>2 DEF Apart
  <2>8. AddFreeRegion(list, addr, size) = new
    BY <1>3, <1>5
  <2>. QED  BY <2>1, <2>3, <2>5, <2>6, <2>7, <2>8 DEF FreeList
<1>. QED
  BY <1>4, <1>5

(* An allocation leaves of its region the padding in front and the tail,   *)
(* but for one that is too short for a header.                             *)
LEMMA CarveFacts ==
  ASSUME FreeList(free), NEW i \in DOMAIN free, NEW l \in Layouts, Fits(free[i], l),
         NEW ptr, ptr = AllocStart(free[i], l), NEW size, size = AdjustedSize(l)
  PROVE  /\ ptr \in Nat /\ size \in Nat /\ ptr % MinAlign = 0 /\ ptr % l.align = 0
         /\ FreeList(Carve(i, l))
         /\ Interval(ptr, size) \subseteq Bytes(free)
         /\ Bytes(Carve(i, l)) \subseteq Bytes(free) \ Interval(ptr, size)
         /\ \A x \in Bytes(free) \ (Bytes(Carve(i, l)) \cup Interval(ptr, size)) :
              /\ x \in Nat
              /\ x < ptr => ptr - x < MinBlock
              /\ x >= ptr => x >= ptr + size /\ x - (ptr + size) < MinBlock - 1
<1>. DEFINE region == free[i]
            end == ptr + size
            pad == ptr - region.start
            tail == region.start + region.size - end
            rest == RemoveAt(free, i)
            padded == IF pad >= MinBlock THEN AddFreeRegion(rest, region.start, pad) ELSE rest
            list == IF tail >= MinBlock THEN AddFreeRegion(padded, end, tail) ELSE padded
            front == Interval(region.start, pad)
            block == Interval(ptr, size)
            back == Interval(end, tail)
<1>1. /\ region \in Region /\ region.start % MinAlign = 0 /\ region.size >= MinBlock
      /\ FreeList(rest) /\ Bytes(rest) = Bytes(free) \ Span(region)
      /\ Span(region) \subseteq Bytes(free)
  BY RemoveFacts
<1>2. region.start \in Nat /\ region.size \in Nat /\ MinAlign \in Nat \ {0} /\ MinBlock \in Nat \ {0}
      /\ l.align \in Nat \ {0}
  BY <1>1, HeapAssumption DEF Region
<1>3. /\ size \in Nat /\ size % MinAlign = 0
      /\ AdjustedAlign(l) \in Nat \ {0} /\ AdjustedAlign(l) % MinAlign = 0
      /\ AdjustedAlign(l) % l.align = 0
  BY LayoutFacts
<1>4. ptr \in Nat /\ ptr >= region.start /\ ptr % AdjustedAlign(l) = 0
  <2>1. ptr = AlignUp(region.start, AdjustedAlign(l))
    BY DEF AllocStart
  <2>2. region.start \in Nat /\ AdjustedAlign(l) \in Nat \ {0}
    BY <1>2, <1>3
  <2>3. /\ AlignUp(region.start, AdjustedAlign(l)) \in Nat
        /\ region.start <= AlignUp(region.start, AdjustedAlign(l))
        /\ AlignUp(region.start, AdjustedAlign(l)) % AdjustedAlign(l) = 0
    BY <2>2, AlignUpFacts, Zenon
  <2>. QED  BY <1>2, <2>1, <2>2, <2>3
<1>5. ptr % MinAlign = 0 /\ ptr % l.align = 0
  BY <1>2, <1>3, <1>4, MultipleOfMultiple
<1>6. end % MinAlign = 0
  BY <1>2, <1>3, <1>4, <1>5, SumOfMultiples
<1>7. end <= region.start + region.size
  BY DEF Fits
<1>8. Carve(i, l) = list
  BY DEF Carve
<1>. HIDE DEF region, rest
<1>9. pad \in Nat /\ tail \in Nat /\ end \in Nat
  BY <1>2, <1>3, <1>4, <1>7
<1>10. /\ Span(region) = front \cup block \cup back
       /\ front \cap block = {} /\ front \cap back = {} /\ block \cap back = {}
  BY <1>2, <1>3, <1>4, <1>7 DEF Span, Interval
<1>11. \A x \in front \cup back :
         /\ x \in Nat
         /\ x < ptr => x \in front /\ ptr - x <= pad
         /\ x >= ptr => x \in back /\ x >= end /\ x - end <= tail - 1
  BY <1>2, <1>3, <1>4, <1>7 DEF Interval
<1>. HIDE DEF front, block, back, end, pad, tail
<1>12. /\ FreeList(padded)
       /\ Bytes(padded) \subseteq Bytes(rest) \cup front /\ Bytes(rest) \subseteq Bytes(padded)
       /\ pad >= MinBlock => front \subseteq Bytes(padded)
  <2>1. CASE pad >= MinBlock
    <3>1. front \cap Bytes(rest) = {} /\ front = Interval(region.start, pad)
      BY <1>1, <1>10 DEF front
    <3>. QED  BY <1>1, <1>2, <1>9, <2>1, <3>1, AddFacts
  <2>2. CASE ~(pad >= MinBlock)
    BY <1>1, <2>2
  <2>. QED  BY <2>1, <2>2
<1>. HIDE DEF padded
<1>13. /\ FreeList(list)
       /\ Bytes(list) \subseteq Bytes(padded) \cup back /\ Bytes(padded) \subseteq Bytes(list)
       /\ tail >= MinBlock => back \subseteq Bytes(list)
  <2>1. CASE tail >= MinBlock
    <3>1. back \cap Bytes(padded) = {} /\ back = Interval(end, tail)
      BY <1>1, <1>10, <1>12 DEF back
    <3>. QED  BY <1>6, <1>9, <1>12, <2>1, <3>1, AddFacts
  <2>2. CASE ~(tail >= MinBlock)
    BY <1>12, <2>2
  <2>. QED  BY <2>1, <2>2
<1>. HIDE DEF list
<1>14. /\ block \subseteq Bytes(free)
       /\ Bytes(list) \subseteq Bytes(free) \ block
  BY <1>1, <1>10, <1>12, <1>13
<1>15. ASSUME NEW x \in Bytes(free) \ (Bytes(list) \cup block)
       PROVE  /\ x \in Nat
              /\ x < ptr => ptr - x < MinBlock
              /\ x >= ptr => x >= end /\ x - end < MinBlock - 1
  <2>1. x \in front \cup back /\ (x \in front => pad < MinBlock) /\ (x \in back => tail < MinBlock)
    <3>1. x \in Span(region)
      BY <1>1, <1>12, <1>13
    <3>2. x \in front => ~(pad >= MinBlock)
      BY <1>12, <1>13
    <3>3. x \in back => ~(tail >= MinBlock)
      BY <1>13
    <3>. QED  BY <1>2, <1>9, <1>10, <3>1, <3>2, <3>3
  <2>. QED  BY <1>2, <1>4, <1>9, <1>11, <2>1
<1>. QED
  BY <1>3, <1>4, <1>5, <1>8, <1>13, <1>14, <1>15 DEF block, end

(***************************************************************************)
(* The invariant.                                                          *)
(***************************************************************************)

LEMMA FreeListFacts ==
  /\ IInv => FreeList(free)
  /\ FreeBytes = Bytes(free)
  BY DEF IInv, TypeOK, NoByteTwice, FreeList, Headers, Apart, Region, FreeBytes, Bytes

(* The extent of a block is an interval of the size accounted for it.      *)
LEMMA ExtentFacts ==
  ASSUME NEW b \in [ptr : Nat, layout : Layouts]
  PROVE  /\ b.ptr \in Nat /\ b.layout \in Layouts /\ AdjustedSize(b.layout) \in Nat
         /\ AdjustedSize(b.layout) >= MinBlock /\ AdjustedSize(b.layout) >= b.layout.size
         /\ AdjustedSize(b.layout) % MinAlign = 0
         /\ Extent(b) = Interval(b.ptr, AdjustedSize(b.layout))
         /\ IsFiniteSet(Extent(b)) /\ Cardinality(Extent(b)) = AdjustedSize(b.layout)
         /\ b.ptr \in Extent(b)
<1>1. /\ b.ptr \in Nat /\ b.layout \in Layouts /\ AdjustedSize(b.layout) \in Nat
      /\ AdjustedSize(b.layout) >= MinBlock /\ AdjustedSize(b.layout) >= b.layout.size
      /\ AdjustedSize(b.layout) % MinAlign = 0
  BY LayoutFacts
<1>2. Extent(b) = Interval(b.ptr, AdjustedSize(b.layout))
  BY DEF Extent, Interval
<1>3. IsFiniteSet(Extent(b)) /\ Cardinality(Extent(b)) = AdjustedSize(b.layout)
  <2>. DEFINE from == b.ptr
              to == b.ptr + AdjustedSize(b.layout) - 1
  <2>1. from \in Int /\ to \in Int /\ (from > to => AdjustedSize(b.layout) = 0)
        /\ to - from + 1 = AdjustedSize(b.layout)
    BY <1>1
  <2>2. Extent(b) = from .. to
    BY DEF Extent
  <2>. HIDE DEF from, to
  <2>. QED  BY <2>1, <2>2, FS_Interval
<1>4. b.ptr \in Extent(b)
  <2>1. MinBlock \in Nat \ {0}
    BY HeapAssumption
  <2>. QED  BY <1>1, <2>1 DEF Extent
<1>. QED
  BY <1>1, <1>2, <1>3, <1>4

LEMMA InitIInv == Init => IInv
<1>. SUFFICES ASSUME Init PROVE IInv
  OBVIOUS
<1>1. HeldBytes = {} /\ FreeBytes = {}
  BY DEF Init, HeldBytes, FreeBytes
<1>. QED
  BY <1>1, FS_EmptySet DEF Init, IInv, TypeOK, NoByteTwice, AllocatedExact

LEMMA InitHeapStep ==
  ASSUME IInv, NEW a \in Arenas, InitHeap(a)
  PROVE  IInv'
<1>1. /\ a \notin arenas /\ arenas \subseteq Arenas /\ arenas' = arenas \cup {a}
      /\ free' = AddFreeRegion(free, a.start, a.size)
      /\ total' = total + a.size /\ UNCHANGED <<allocated, held>>
      /\ a.start \in Nat /\ a.size \in Nat /\ total \in Nat
  BY HeapAssumption DEF InitHeap, IInv, TypeOK
<1>2. Span(a) = Interval(a.start, a.size)
  BY DEF Span, Interval
<1>3. Span(a) \cap ArenaBytes = {} /\ ArenaBytes' = ArenaBytes \cup Span(a)
  <2>1. \A b \in arenas : Span(a) \cap Span(b) = {}
    BY <1>1, HeapAssumption
  <2>. QED  BY <1>1, <2>1 DEF ArenaBytes
<1>4. FreeBytes \cap Span(a) = {} /\ HeldBytes \cap Span(a) = {}
  BY <1>3 DEF IInv, NoByteTwice
<1>5. FreeList(free') /\ Bytes(free') \subseteq Bytes(free) \cup Span(a)
  BY <1>1, <1>2, <1>4, AddFacts, FreeListFacts
<1>6. HeldBytes' = HeldBytes
  BY <1>1 DEF HeldBytes
<1>7. FreeBytes' = Bytes(free')
  BY DEF FreeBytes, Bytes
<1>8. NoByteTwice'
  BY <1>1, <1>3, <1>4, <1>5, <1>6, <1>7, FreeListFacts DEF IInv, NoByteTwice, FreeList, Apart
<1>9. TypeOK'
  BY <1>1, <1>5 DEF IInv, TypeOK, FreeList, Headers, Region
<1>. QED
  BY <1>1, <1>6, <1>8, <1>9 DEF IInv, AllocatedExact

LEMMA AllocStep ==
  ASSUME IInv, NEW l \in Layouts, AllocFirstFit(l)
  PROVE  IInv' /\ Loss
<1>. PICK i \in DOMAIN free :
       /\ Fits(free[i], l)
       /\ free' = Carve(i, l)
       /\ held' = held \cup {[ptr |-> AllocStart(free[i], l), layout |-> l]}
       /\ allocated' = allocated + AdjustedSize(l)
       /\ UNCHANGED <<total, arenas>>
  BY DEF AllocFirstFit
<1>. DEFINE ptr == AllocStart(free[i], l)
            size == AdjustedSize(l)
            b == [ptr |-> ptr, layout |-> l]
            lost == (FreeBytes \cup HeldBytes) \ (FreeBytes' \cup HeldBytes')
<1>1. /\ ptr \in Nat /\ size \in Nat /\ ptr % MinAlign = 0 /\ ptr % l.align = 0
      /\ FreeList(free')
      /\ Interval(ptr, size) \subseteq Bytes(free)
      /\ Bytes(free') \subseteq Bytes(free) \ Interval(ptr, size)
      /\ \A x \in Bytes(free) \ (Bytes(free') \cup Interval(ptr, size)) :
           /\ x \in Nat
           /\ x < ptr => ptr - x < MinBlock
           /\ x >= ptr => x >= ptr + size /\ x - (ptr + size) < MinBlock - 1
  BY CarveFacts, FreeListFacts
<1>2. /\ b \in [ptr : Nat, layout : Layouts] /\ b.ptr = ptr /\ b.layout = l
      /\ Extent(b) = Interval(ptr, size) /\ IsFiniteSet(Extent(b)) /\ Cardinality(Extent(b)) = size
      /\ size >= l.size /\ size >= MinBlock /\ ptr \in Extent(b)
  BY <1>1, ExtentFacts
<1>3. /\ held' = held \cup {b} /\ allocated' = allocated + size
      /\ total' = total /\ arenas' = arenas
  OBVIOUS
<1>. HIDE DEF ptr, size, b
<1>4. HeldBytes' = HeldBytes \cup Extent(b)
  BY <1>3 DEF HeldBytes, Extent
<1>5. FreeBytes' = Bytes(free') /\ FreeBytes = Bytes(free) /\ ArenaBytes' = ArenaBytes
  BY <1>3 DEF FreeBytes, Bytes, ArenaBytes
<1>6. /\ FreeBytes \cap HeldBytes = {} /\ FreeBytes \cup HeldBytes \subseteq ArenaBytes
      /\ \A c, d \in held : c # d => Extent(c) \cap Extent(d) = {}
      /\ \A c \in held : Extent(c) \subseteq HeldBytes
  BY DEF IInv, NoByteTwice, HeldBytes
<1>7. Extent(b) \cap HeldBytes = {} /\ b \notin held
  BY <1>1, <1>2, <1>5, <1>6
<1>8. NoByteTwice'
  <2>1. \A c, d \in held' : c # d => Extent(c) \cap Extent(d) = {}
    BY <1>3, <1>6, <1>7
  <2>2. \A j, k \in DOMAIN free' : j # k => Span(free'[j]) \cap Span(free'[k]) = {}
    BY <1>1 DEF FreeList, Apart
  <2>3. FreeBytes' \cap HeldBytes' = {} /\ FreeBytes' \cup HeldBytes' \subseteq ArenaBytes'
    BY <1>1, <1>2, <1>4, <1>5, <1>6
  <2>. QED  BY <2>1, <2>2, <2>3 DEF NoByteTwice, Extent
<1>9. TypeOK'
  BY <1>1, <1>2, <1>3, SMTT(60) DEF IInv, TypeOK, FreeList, Headers, Region
<1>10. IsFiniteSet(HeldBytes') /\ allocated' = Cardinality(HeldBytes')
  <2>1. IsFiniteSet(HeldBytes) /\ allocated = Cardinality(HeldBytes) /\ allocated \in Nat
    BY DEF IInv, AllocatedExact, TypeOK
  <2>2. HeldBytes \cap Extent(b) = {} /\ Cardinality(HeldBytes \cap Extent(b)) = 0
    BY <1>7, FS_EmptySet
  <2>3. /\ IsFiniteSet(HeldBytes \cup Extent(b))
        /\ Cardinality(HeldBytes \cup Extent(b))
             = Cardinality(HeldBytes) + Cardinality(Extent(b)) - Cardinality(HeldBytes \cap Extent(b))
    BY <1>2, <2>1, FS_Union
  <2>4. Cardinality(HeldBytes \cup Extent(b)) = allocated + size
    BY <1>1, <1>2, <2>1, <2>2, <2>3
  <2>. QED  BY <1>3, <1>4, <2>3, <2>4
<1>11. \A c \in held' : c.ptr % c.layout.align = 0 /\ AdjustedSize(c.layout) >= c.layout.size
                        /\ c.ptr % MinAlign = 0
  BY <1>1, <1>2, <1>3 DEF IInv, AllocatedExact, size
<1>12. IInv'
  BY <1>8, <1>9, <1>10, <1>11 DEF IInv, AllocatedExact
<1>13. Loss
  <2>. HIDE DEF lost
  <2>1. FreeBytes' \cup HeldBytes' \subseteq FreeBytes \cup HeldBytes
    BY <1>1, <1>2, <1>4, <1>5
  <2>2. ~(held' \subseteq held) /\ \A c \in held' \ held : c.ptr = ptr
    BY <1>2, <1>3, <1>7
  <2>3. ASSUME NEW x \in lost
        PROVE  /\ x \in Nat
               /\ x < ptr => ptr - x < MinBlock
               /\ x >= ptr => x >= ptr + size /\ x - (ptr + size) < MinBlock - 1
    <3>1. x \in Bytes(free) \ (Bytes(free') \cup Interval(ptr, size))
      BY <1>2, <1>4, <1>5 DEF lost
    <3>. QED  BY <1>1, <3>1
  <2>4. ASSUME NEW from \in Int, NEW S, S \subseteq from .. from + (MinBlock - 2)
        PROVE  Cardinality(S) < MinBlock
    <3>1. MinBlock \in Nat \ {0}
      BY HeapAssumption
    <3>. DEFINE to == from + (MinBlock - 2)
    <3>2. to \in Int /\ (IF from > to THEN 0 ELSE to - from + 1) < MinBlock
      BY <3>1
    <3>. HIDE DEF to
    <3>3. IsFiniteSet(from .. to) /\ Cardinality(from .. to) < MinBlock /\ Cardinality(from .. to) \in Nat
      BY <3>2, FS_Interval, FS_CardinalityType
    <3>4. S \in SUBSET (from .. to)
      BY <2>4 DEF to
    <3>5. IsFiniteSet(S) /\ Cardinality(S) <= Cardinality(from .. to)
      BY <3>3, <3>4, FS_Subset
    <3>6. Cardinality(S) \in Nat
      BY <3>5, FS_CardinalityType
    <3>. QED  BY <3>1, <3>3, <3>5, <3>6
  <2>5. Cardinality({x \in lost : x < ptr}) < MinBlock
    <3>1. ptr - MinBlock + 1 \in Int /\ MinBlock \in Nat
      BY <1>1, HeapAssumption
    <3>2. {x \in lost : x < ptr} \subseteq ptr - MinBlock + 1 .. ptr - MinBlock + 1 + (MinBlock - 2)
      BY <1>1, <2>3, <3>1
    <3>. QED  BY <2>4, <3>1, <3>2
  <2>6. Cardinality({x \in lost : x > ptr}) < MinBlock
    <3>1. ptr + size \in Int /\ MinBlock \in Nat
      BY <1>1, HeapAssumption
    <3>2. {x \in lost : x > ptr} \subseteq ptr + size .. ptr + size + (MinBlock - 2)
      BY <1>1, <2>3, <3>1
    <3>. QED  BY <2>4, <3>1, <3>2
  <2>. QED  BY <2>1, <2>2, <2>5, <2>6 DEF Loss, lost
<1>. QED
  BY <1>12, <1>13

LEMMA DeallocStep ==
  ASSUME IInv, NEW b \in held, Dealloc(b)
  PROVE  IInv' /\ Loss
<1>. DEFINE size == AdjustedSize(b.layout)
<1>1. /\ held' = held \ {b} /\ free' = AddFreeRegion(free, b.ptr, size)
      /\ allocated' = allocated - size /\ total' = total /\ arenas' = arenas
  BY DEF Dealloc
<1>2. /\ b \in [ptr : Nat, layout : Layouts] /\ b.ptr % MinAlign = 0
      /\ FreeList(free) /\ FreeBytes = Bytes(free)
  BY FreeListFacts DEF IInv, TypeOK
<1>3. /\ b.ptr \in Nat /\ size \in Nat /\ size >= MinBlock
      /\ Extent(b) = Interval(b.ptr, size) /\ IsFiniteSet(Extent(b)) /\ Cardinality(Extent(b)) = size
  BY <1>2, ExtentFacts
<1>. HIDE DEF size
<1>4. /\ FreeBytes \cap HeldBytes = {} /\ FreeBytes \cup HeldBytes \subseteq ArenaBytes
      /\ \A c, d \in held : c # d => Extent(c) \cap Extent(d) = {}
      /\ \A c \in held : Extent(c) \subseteq HeldBytes
  BY DEF IInv, NoByteTwice, HeldBytes
<1>5. HeldBytes' = HeldBytes \ Extent(b) /\ Extent(b) \subseteq HeldBytes
  <2>1. HeldBytes' = UNION {Extent(c) : c \in held \ {b}}
    BY <1>1 DEF HeldBytes, Extent
  <2>. QED  BY <1>4, <2>1 DEF HeldBytes
<1>6. FreeList(free') /\ Bytes(free') = FreeBytes \cup Extent(b)
  <2>1. Interval(b.ptr, size) \cap Bytes(free) = {}
    BY <1>2, <1>3, <1>4, <1>5
  <2>. QED  BY <1>1, <1>2, <1>3, <2>1, AddFacts
<1>7. FreeBytes' = Bytes(free') /\ ArenaBytes' = ArenaBytes
  BY <1>1 DEF FreeBytes, Bytes, ArenaBytes
<1>8. NoByteTwice'
  <2>1. \A c, d \in held' : c # d => Extent(c) \cap Extent(d) = {}
    BY <1>1, <1>4
  <2>2. \A j, k \in DOMAIN free' : j # k => Span(free'[j]) \cap Span(free'[k]) = {}
    BY <1>6 DEF FreeList, Apart
  <2>3. FreeBytes' \cap HeldBytes' = {} /\ FreeBytes' \cup HeldBytes' \subseteq ArenaBytes'
    BY <1>4, <1>5, <1>6, <1>7
  <2>. QED  BY <2>1, <2>2, <2>3 DEF NoByteTwice, Extent
<1>9. IsFiniteSet(HeldBytes') /\ allocated' = Cardinality(HeldBytes') /\ allocated' \in Nat
  <2>1. IsFiniteSet(HeldBytes) /\ allocated = Cardinality(HeldBytes) /\ allocated \in Nat
    BY DEF IInv, AllocatedExact, TypeOK
  <2>2. HeldBytes \cap Extent(b) = Extent(b)
    BY <1>5
  <2>3. /\ IsFiniteSet(HeldBytes \ Extent(b))
        /\ Cardinality(HeldBytes \ Extent(b)) = Cardinality(HeldBytes) - Cardinality(HeldBytes \cap Extent(b))
    BY <2>1, FS_Difference
  <2>4. Cardinality(HeldBytes \ Extent(b)) \in Nat
    BY <2>3, FS_CardinalityType
  <2>. QED  BY <1>1, <1>3, <1>5, <2>1, <2>2, <2>3, <2>4
<1>10. TypeOK'
  BY <1>1, <1>6, <1>9 DEF IInv, TypeOK, FreeList, Headers, Region
<1>11. IInv'
  BY <1>1, <1>8, <1>9, <1>10 DEF IInv, AllocatedExact
<1>12. Loss
  BY <1>1, <1>5, <1>6, <1>7 DEF Loss
<1>. QED
  BY <1>11, <1>12

LEMMA NextIInv == IInv /\ [Next]_vars => IInv' /\ [arenas' = arenas => Loss]_vars
<1>. SUFFICES ASSUME IInv, [Next]_vars PROVE IInv' /\ [arenas' = arenas => Loss]_vars
  OBVIOUS
<1>1. CASE UNCHANGED vars
  <2>1. UNCHANGED <<free, total, allocated, arenas, held>>
    BY <1>1 DEF vars
  <2>3. UNCHANGED <<FreeBytes, HeldBytes, ArenaBytes>>
    BY <2>1 DEF FreeBytes, HeldBytes, ArenaBytes, Extent
  <2>5. TypeOK'
    BY <2>1 DEF IInv, TypeOK
  <2>6. NoByteTwice'
    BY <2>1, <2>3 DEF IInv, NoByteTwice, Extent
  <2>4. AllocatedExact'
    BY <2>1, <2>3 DEF IInv, AllocatedExact
  <2>. QED  BY <1>1, <2>1, <2>5, <2>6, <2>3, <2>4 DEF IInv
<1>2. ASSUME NEW a \in Arenas, InitHeap(a) PROVE arenas' # arenas
  BY <1>2 DEF InitHeap
<1>. QED
  BY <1>1, <1>2, InitHeapStep, AllocStep, DeallocStep DEF Next

LEMMA Invariance == Spec => []IInv
  BY InitIInv, NextIInv, PTL DEF Spec

(* The free list's regions are aligned for and hold their headers, and no  *)
(* counter goes below zero (heap.rs:88-160).                               *)
THEOREM TypeCorrect == Spec => []TypeOK
<1>1. IInv => TypeOK
  BY DEF IInv
<1>. QED
  BY <1>1, Invariance, PTL

(* No byte is ever in two blocks, free or held (heap.rs:99-191).           *)
THEOREM ExclusiveBytes == Spec => []NoByteTwice
<1>1. IInv => NoByteTwice
  BY DEF IInv
<1>. QED
  BY <1>1, Invariance, PTL

(* allocated counts the bytes clients hold, and what each holds is aligned *)
(* and long enough for its layout (heap.rs:164-191).                       *)
THEOREM AccountsCorrect == Spec => []AllocatedExact
<1>1. IInv => AllocatedExact
  BY DEF IInv
<1>. QED
  BY <1>1, Invariance, PTL

(* An allocation loses less than a header's worth of memory on each side   *)
(* of its block, and freeing loses none (heap.rs:131-160).                 *)
THEOREM LossesSmall == Spec => LossBounded
  BY Invariance, NextIInv, PTL DEF Spec, LossBounded
===============================================================================
