------------------------------- MODULE X86Proofs -------------------------------
(***************************************************************************)
(* Proofs about what the kernel does to an x86_64 processor.               *)
(*                                                                         *)
(* Page tables (PageTables.tla), for any depth, tables of the loader that  *)
(* are a tree, pages and frames: the tables own their frames, the TLB is   *)
(* coherent, and they implement an address space.                          *)
(*                                                                         *)
(* Context switches (ContextSwitch.tla), for any number of tasks, stacks   *)
(* of any size and whatever tasks compute: they implement coroutines,      *)
(* provided that the boot task's context is made with the root it runs in. *)
(***************************************************************************)
EXTENDS ContextSwitch, PageTables, LibraryFacts

(***************************************************************************)
(* Walks.                                                                  *)
(***************************************************************************)

(* The places a walk goes through, up to the n-th level.                   *)
PlaceAt(at, mem, page, l) ==
  IF l = 0 THEN {Link(Root, Rights)} ELSE Advance(mem, page, at[l - 1], l)
WalkUpto(at, mem, page, n) == at = [l \in 0 .. n |-> PlaceAt(at, mem, page, l)]

LEMMA WalkExists ==
  ASSUME NEW mem, NEW page, NEW n \in Nat
  PROVE  \E at : WalkUpto(at, mem, page, n)
<1>. DEFINE S == {k \in 0 .. n : ~\E f : WalkUpto(f, mem, page, k)}
<1>1. SUFFICES ASSUME S # {} PROVE FALSE
  OBVIOUS
<1>2. PICK k \in S : \A m \in S : k <= m
  <2>1. S \subseteq Nat
    OBVIOUS
  <2>. HIDE DEF S
  <2>. QED  BY <1>1, <2>1, SmallestOf
<1>3. k \in 0 .. n /\ ~\E f : WalkUpto(f, mem, page, k)
  OBVIOUS
<1>4. k # 0
  <2>. DEFINE f == [l \in 0 .. 0 |-> {Link(Root, Rights)}]
  <2>1. WalkUpto(f, mem, page, 0)
    BY DEF WalkUpto, PlaceAt
  <2>. QED  BY <1>3, <2>1
<1>5. k - 1 \in 0 .. n /\ k - 1 \notin S
  BY <1>2, <1>3, <1>4
<1>6. PICK f : WalkUpto(f, mem, page, k - 1)
  BY <1>5
<1>. HIDE DEF S
<1>. DEFINE h == [l \in 0 .. k |-> IF l < k THEN f[l] ELSE PlaceAt(f, mem, page, k)]
<1>7. ASSUME NEW l \in 0 .. k PROVE h[l] = PlaceAt(h, mem, page, l)
  <2>1. CASE l = k
    <3>1. h[k] = PlaceAt(f, mem, page, k) /\ h[k - 1] = f[k - 1]
      BY <1>3, <1>4
    <3>. HIDE DEF h
    <3>. QED  BY <1>4, <2>1, <3>1 DEF PlaceAt
  <2>2. CASE l < k
    <3>1. l \in 0 .. k - 1
      BY <1>3, <2>2
    <3>2. f[l] = PlaceAt(f, mem, page, l)
      BY <1>6, <3>1 DEF WalkUpto
    <3>3. h[l] = f[l] /\ (l # 0 => h[l - 1] = f[l - 1])
      BY <1>3, <2>2
    <3>. HIDE DEF h
    <3>. QED  BY <3>2, <3>3 DEF PlaceAt
  <2>. QED  BY <1>3, <2>1, <2>2
<1>8. WalkUpto(h, mem, page, k)
  <2>1. h = [l \in 0 .. k |-> h[l]]
    OBVIOUS
  <2>. HIDE DEF h
  <2>. QED  BY <1>7, <2>1 DEF WalkUpto
<1>. QED
  BY <1>3, <1>8

(* The recursion of a walk.                                                *)
LEMMA ReachStep ==
  ASSUME NEW mem, NEW page
  PROVE  /\ Reach(mem, page, 0) = {Link(Root, Rights)}
         /\ \A l \in 1 .. Depth + 1 :
              Reach(mem, page, l) = Advance(mem, page, Reach(mem, page, l - 1), l)
<1>. DEFINE at == CHOOSE f : WalkUpto(f, mem, page, Depth + 1)
<1>1. Depth + 1 \in Nat
  BY PagingAssumption
<1>2. WalkUpto(at, mem, page, Depth + 1)
  BY <1>1, WalkExists
<1>3. Walk(mem, page) = at
  BY DEF Walk, WalkUpto, PlaceAt
<1>. HIDE DEF at
<1>4. \A l \in 0 .. Depth + 1 : at[l] = PlaceAt(at, mem, page, l)
  BY <1>2 DEF WalkUpto
<1>5. \A l \in 0 .. Depth + 1 : Reach(mem, page, l) = at[l]
  BY <1>3 DEF Reach
<1>6. at[0] = {Link(Root, Rights)}
  BY <1>1, <1>4 DEF PlaceAt
<1>7. ASSUME NEW l \in 1 .. Depth + 1
      PROVE  at[l] = Advance(mem, page, at[l - 1], l)
  BY <1>1, <1>4 DEF PlaceAt
<1>. QED
  BY <1>1, <1>5, <1>6, <1>7

(* The entry a walk that has come to up reads at level l, and where that   *)
(* takes it.                                                               *)
Read(mem, page, up, l) == mem[up.frame][page[l]]
Taken(page, up, l, e) ==
  [kind |-> e.kind, flags |-> up.flags \cap e.flags,
   frame |-> IF e.kind = "huge" THEN e.frame + HugeOffset(page, l) ELSE e.frame]

(* to is where a walk that has come to u is after level l.                 *)
GoesOn(to, mem, page, u, l) ==
  /\ u.kind # "link" => to = {u}
  /\ u.kind = "link" /\ Read(mem, page, u, l) = Absent => to = {}
  /\ u.kind = "link" /\ Read(mem, page, u, l) # Absent
       => to = {Taken(page, u, l, Read(mem, page, u, l))}

LEMMA AdvanceNone ==
  ASSUME NEW mem, NEW page, NEW l
  PROVE  Advance(mem, page, {}, l) = {}
BY DEF Advance

LEMMA AdvanceOne ==
  ASSUME NEW mem, NEW page, NEW u, NEW l
  PROVE  GoesOn(Advance(mem, page, {u}, l), mem, page, u, l)
<1>. DEFINE x == Read(mem, page, u, l)
            To(e) == Taken(page, u, l, e)
<1>1. Follow(mem, page, u, l) = IF u.kind # "link" THEN {u} ELSE {To(e) : e \in {x} \ {Absent}}
  BY DEF Follow, Read, Taken
<1>2. Advance(mem, page, {u}, l) = Follow(mem, page, u, l)
  BY DEF Advance
<1>. HIDE DEF x, To
<1>3. x = Absent => {To(e) : e \in {x} \ {Absent}} = {}
  OBVIOUS
<1>4. x # Absent => {To(e) : e \in {x} \ {Absent}} = {To(x)}
  OBVIOUS
<1>. QED  BY <1>1, <1>2, <1>3, <1>4 DEF x, To, GoesOn

AtMostOne(r) == r = {} \/ \E e : r = {e}

(* A walk is at one place at most, and goes on from there.                 *)
LEMMA OnePlace ==
  ASSUME NEW mem, NEW page
  PROVE  \A l \in 0 .. Depth + 1 :
           AtMostOne(Reach(mem, page, l))
<1>. DEFINE S == {l \in 0 .. Depth + 1 : ~AtMostOne(Reach(mem, page, l))}
<1>1. SUFFICES ASSUME S # {} PROVE FALSE
  OBVIOUS
<1>2. PICK k \in S : \A m \in S : k <= m
  <2>1. S \subseteq Nat
    BY PagingAssumption
  <2>. HIDE DEF S
  <2>. QED  BY <1>1, <2>1, SmallestOf
<1>3. k \in 0 .. Depth + 1 /\ k # 0
  BY ReachStep DEF AtMostOne
<1>4. k - 1 \in 0 .. Depth + 1 /\ k - 1 \notin S /\ k \in 1 .. Depth + 1
  BY <1>2, <1>3, PagingAssumption
<1>5. Reach(mem, page, k) = Advance(mem, page, Reach(mem, page, k - 1), k)
  BY <1>4, ReachStep
<1>6. CASE Reach(mem, page, k - 1) = {}
  <2>1. Reach(mem, page, k) = {}
    BY <1>5, <1>6, AdvanceNone
  <2>. QED  BY <1>2, <2>1 DEF AtMostOne
<1>7. CASE \E e : Reach(mem, page, k - 1) = {e}
  <2>1. PICK u : Reach(mem, page, k - 1) = {u}
    BY <1>7
  <2>2. Reach(mem, page, k) = Advance(mem, page, {u}, k)
    BY <1>5, <2>1
  <2>3. Advance(mem, page, {u}, k) = {} \/ \E e : Advance(mem, page, {u}, k) = {e}
    <3>1. GoesOn(Advance(mem, page, {u}, k), mem, page, u, k)
      BY AdvanceOne
    <3>. QED  BY <3>1 DEF GoesOn
  <2>. QED  BY <1>2, <2>2, <2>3 DEF AtMostOne
<1>. QED
  BY <1>4, <1>6, <1>7 DEF AtMostOne

LEMMA Onward ==
  ASSUME NEW mem, NEW page, NEW u, NEW l \in 1 .. Depth + 1, Reach(mem, page, l - 1) = {u}
  PROVE  GoesOn(Reach(mem, page, l), mem, page, u, l)
<1>1. Reach(mem, page, l) = Advance(mem, page, Reach(mem, page, l - 1), l)
  BY ReachStep
<1>2. Reach(mem, page, l) = Advance(mem, page, {u}, l)
  BY <1>1
<1>3. GoesOn(Advance(mem, page, {u}, l), mem, page, u, l)
  BY AdvanceOne
<1>. QED
  BY <1>2, <1>3

LEMMA Nowhere ==
  ASSUME NEW mem, NEW page, NEW l \in 1 .. Depth + 1, Reach(mem, page, l - 1) = {}
  PROVE  Reach(mem, page, l) = {}
<1>1. Reach(mem, page, l) = Advance(mem, page, Reach(mem, page, l - 1), l)
  BY ReachStep
<1>. QED
  BY <1>1, AdvanceNone

(* A walk that reads the same entries takes the same way.                  *)
SameReads(mem, mem2, page, n) ==
  \A l \in 1 .. n : \A u \in Reach(mem, page, l - 1) :
    u.kind = "link" => Read(mem2, page, u, l) = Read(mem, page, u, l)
SameReach(mem, mem2, page, n) ==
  \A l \in 0 .. n : Reach(mem2, page, l) = Reach(mem, page, l)

LEMMA SameWalk ==
  ASSUME NEW mem, NEW mem2, NEW page, NEW n \in 0 .. Depth + 1, SameReads(mem, mem2, page, n)
  PROVE  SameReach(mem, mem2, page, n)
<1>. DEFINE S == {l \in 0 .. n : Reach(mem2, page, l) # Reach(mem, page, l)}
<1>1. SUFFICES ASSUME S # {} PROVE FALSE
  BY DEF SameReach
<1>2. PICK k \in S : \A m \in S : k <= m
  <2>1. S \subseteq Nat
    OBVIOUS
  <2>. HIDE DEF S
  <2>. QED  BY <1>1, <2>1, SmallestOf
<1>3. k \in 0 .. n /\ k # 0
  BY ReachStep
<1>4. k - 1 \in 0 .. n /\ k - 1 \notin S /\ k \in 1 .. n /\ k \in 1 .. Depth + 1
  BY <1>2, <1>3, PagingAssumption
<1>5. Reach(mem2, page, k - 1) = Reach(mem, page, k - 1)
  BY <1>4
<1>6. k - 1 \in 0 .. Depth + 1
  BY <1>4, PagingAssumption
<1>7. CASE Reach(mem, page, k - 1) = {}
  <2>1. Reach(mem, page, k) = {} /\ Reach(mem2, page, k) = {}
    BY <1>4, <1>5, <1>7, Nowhere
  <2>. QED  BY <1>2, <2>1
<1>8. CASE \E e : Reach(mem, page, k - 1) = {e}
  <2>1. PICK u : Reach(mem, page, k - 1) = {u}
    BY <1>8
  <2>2. u.kind = "link" => Read(mem2, page, u, k) = Read(mem, page, u, k)
    BY <1>4, <2>1 DEF SameReads
  <2>3. GoesOn(Reach(mem, page, k), mem, page, u, k)
    BY <1>4, <2>1, Onward
  <2>4. GoesOn(Reach(mem2, page, k), mem2, page, u, k)
    BY <1>4, <1>5, <2>1, Onward
  <2>5. u.kind = "link" => Taken(page, u, k, Read(mem2, page, u, k)) = Taken(page, u, k, Read(mem, page, u, k))
    BY <2>2
  <2>6. Reach(mem2, page, k) = Reach(mem, page, k)
    BY <2>2, <2>3, <2>4, <2>5 DEF GoesOn
  <2>. QED  BY <1>2, <2>6
<1>9. AtMostOne(Reach(mem, page, k - 1))
  BY <1>6, OnePlace
<1>. QED
  BY <1>7, <1>8, <1>9 DEF AtMostOne

(* No walk gets on from nowhere.                                           *)
LEMMA Stays ==
  ASSUME NEW mem, NEW page, NEW k \in 0 .. Depth + 1, Reach(mem, page, k) = {}
  PROVE  \A l \in k .. Depth + 1 : Reach(mem, page, l) = {}
<1>. DEFINE S == {l \in k .. Depth + 1 : Reach(mem, page, l) # {}}
<1>1. SUFFICES ASSUME S # {} PROVE FALSE
  OBVIOUS
<1>2. PICK m \in S : \A x \in S : m <= x
  <2>1. S \subseteq Nat
    OBVIOUS
  <2>. HIDE DEF S
  <2>. QED  BY <1>1, <2>1, SmallestOf
<1>3. m \in k .. Depth + 1 /\ m # k
  OBVIOUS
<1>4. m - 1 \in k .. Depth + 1 /\ m - 1 \notin S /\ m \in 1 .. Depth + 1
  BY <1>2, <1>3, PagingAssumption
<1>5. Reach(mem, page, m) = {}
  BY <1>4, Nowhere
<1>. QED
  BY <1>2, <1>5

(***************************************************************************)
(* Writing one entry.                                                      *)
(***************************************************************************)

(* The tables lie in frames of used, and grant everything; one way leads   *)
(* to each of them.                                                        *)
Within(mem, used) ==
  \A p \in Pages, n \in 0 .. Depth : \A e \in Reach(mem, p, n) :
    e.kind = "link" => e.frame \in used /\ e.flags = Rights
OneWay(mem) ==
  \A p, q \in Pages, n, m \in 0 .. Depth :
    TablesIn(mem, p, n) \cap TablesIn(mem, q, m) # {}
      => n = m /\ \A i \in 1 .. n : p[i] = q[i]

(* mem2 is mem but for the entry i of t.                                   *)
WrittenAt(mem, mem2, used, t, i) ==
  \A f \in used, j \in Indices : f # t \/ j # i => mem2[f][j] = mem[f][j]
(* The walk of p reads at level l the entry of t that the walk of q reads. *)
Hits(mem, p, q, t, l) == t \in TablesIn(mem, p, l - 1) /\ p[l] = q[l]

LEMMA TableOf ==
  ASSUME NEW mem, NEW page, NEW n
  PROVE  /\ \A u \in Reach(mem, page, n) : u.kind = "link" => u.frame \in TablesIn(mem, page, n)
         /\ \A t \in TablesIn(mem, page, n) :
              \E u \in Reach(mem, page, n) : u.kind = "link" /\ u.frame = t
BY DEF TablesIn

LEMMA HitsAgree ==
  ASSUME NEW mem, NEW t, NEW p \in Pages, NEW q \in Pages, NEW l \in Levels,
         OneWay(mem), t \in TablesIn(mem, q, l - 1), Hits(mem, p, q, t, l)
  PROVE  \A i \in 1 .. l : p[i] = q[i]
<1>1. l - 1 \in 0 .. Depth
  BY PagingAssumption DEF Levels
<1>2. TablesIn(mem, p, l - 1) \cap TablesIn(mem, q, l - 1) # {} /\ p[l] = q[l]
  BY DEF Hits
<1>3. \A i \in 1 .. l - 1 : p[i] = q[i]
  BY <1>1, <1>2 DEF OneWay
<1>. QED
  BY <1>1, <1>2, <1>3 DEF Levels

LEMMA EntryWritten ==
  ASSUME NEW mem, NEW mem2, NEW used, NEW t, NEW p \in Pages, NEW q \in Pages, NEW l \in Levels,
         Within(mem, used), OneWay(mem), t \in TablesIn(mem, q, l - 1),
         WrittenAt(mem, mem2, used, t, q[l])
  PROVE  /\ SameReach(mem, mem2, p, l - 1)
         /\ ~Hits(mem, p, q, t, l) => SameReach(mem, mem2, p, Depth + 1)
<1>1. l - 1 \in 0 .. Depth /\ l - 1 \in 0 .. Depth + 1 /\ Depth + 1 \in 0 .. Depth + 1
  BY PagingAssumption DEF Levels
<1>2. ASSUME NEW k \in 1 .. Depth + 1, NEW u \in Reach(mem, p, k - 1), u.kind = "link",
             Read(mem2, p, u, k) # Read(mem, p, u, k)
      PROVE  k = l /\ Hits(mem, p, q, t, l)
  <2>1. k - 1 \in 0 .. Depth /\ p[k] \in Indices
    BY PagingAssumption DEF Levels
  <2>2. u.frame \in used
    BY <1>2, <2>1 DEF Within
  <2>3. u.frame = t /\ p[k] = q[l]
    BY <1>2, <2>1, <2>2 DEF WrittenAt, Read
  <2>4. t \in TablesIn(mem, p, k - 1)
    BY <1>2, <2>3, TableOf
  <2>5. TablesIn(mem, p, k - 1) \cap TablesIn(mem, q, l - 1) # {}
    BY <2>4
  <2>6. k - 1 = l - 1
    BY <1>1, <2>1, <2>5 DEF OneWay
  <2>7. k = l
    BY <2>6 DEF Levels
  <2>. QED  BY <2>3, <2>4, <2>7 DEF Hits
<1>3. SameReads(mem, mem2, p, l - 1)
  <2>1. SUFFICES ASSUME NEW k \in 1 .. l - 1, NEW u \in Reach(mem, p, k - 1), u.kind = "link"
                 PROVE  Read(mem2, p, u, k) = Read(mem, p, u, k)
    BY DEF SameReads
  <2>2. k \in 1 .. Depth + 1 /\ k # l
    BY <1>1, PagingAssumption DEF Levels
  <2>. QED  BY <1>2, <2>1, <2>2
<1>4. ~Hits(mem, p, q, t, l) => SameReads(mem, mem2, p, Depth + 1)
  BY <1>2 DEF SameReads
<1>. QED
  BY <1>1, <1>3, <1>4, SameWalk

(* A write outside of the tables changes no walk.                          *)
LEMMA OutsideWritten ==
  ASSUME NEW mem, NEW mem2, NEW used, NEW p \in Pages,
         Within(mem, used), \A f \in used : mem2[f] = mem[f]
  PROVE  SameReach(mem, mem2, p, Depth + 1)
<1>1. ASSUME NEW k \in 1 .. Depth + 1, NEW u \in Reach(mem, p, k - 1), u.kind = "link"
      PROVE  Read(mem2, p, u, k) = Read(mem, p, u, k)
  <2>1. k - 1 \in 0 .. Depth
    BY PagingAssumption
  <2>2. u.frame \in used
    BY <1>1, <2>1 DEF Within
  <2>. QED  BY <2>2 DEF Read
<1>2. SameReads(mem, mem2, p, Depth + 1)
  BY <1>1 DEF SameReads
<1>3. Depth + 1 \in 0 .. Depth + 1
  BY PagingAssumption
<1>. QED
  BY <1>2, <1>3, SameWalk

(* What a hit changes: the walk that read an absent entry there now goes   *)
(* on to f.                                                                *)
Gained(mem, q, t, l, f, p, n) == IF Hits(mem, p, q, t, l) /\ n = l THEN {Link(f, Rights)} ELSE {}

(* u, with all rights, is where that walk reads the entry.                 *)
ReadsThere(u, mem, p, q, t, l) ==
  /\ Reach(mem, p, l - 1) = {u} /\ u.kind = "link" /\ u.flags = Rights
  /\ \A m : Read(m, p, u, l) = m[t][q[l]]

LEMMA HitReads ==
  ASSUME NEW mem, NEW used, NEW t, NEW p \in Pages, NEW q \in Pages, NEW l \in Levels,
         Within(mem, used), Hits(mem, p, q, t, l)
  PROVE  \E u : ReadsThere(u, mem, p, q, t, l)
<1>1. l - 1 \in 0 .. Depth + 1 /\ l - 1 \in 0 .. Depth
  BY PagingAssumption DEF Levels
<1>2. PICK u \in Reach(mem, p, l - 1) : u.kind = "link" /\ u.frame = t
  BY TableOf DEF Hits
<1>3. AtMostOne(Reach(mem, p, l - 1))
  BY <1>1, OnePlace
<1>4. Reach(mem, p, l - 1) = {u}
  BY <1>2, <1>3 DEF AtMostOne
<1>5. u.flags = Rights
  BY <1>1, <1>2 DEF Within
<1>6. \A m : Read(m, p, u, l) = m[t][q[l]]
  BY <1>2 DEF Read, Hits
<1>7. ReadsThere(u, mem, p, q, t, l)
  BY <1>2, <1>4, <1>5, <1>6 DEF ReadsThere
<1>. QED
  BY <1>7

LEMMA GrownWalk ==
  ASSUME NEW mem, NEW mem2, NEW used, NEW t, NEW f,
         NEW p \in Pages, NEW q \in Pages, NEW l \in 1 .. Depth, NEW n \in 0 .. Depth + 1,
         Within(mem, used), OneWay(mem), t \in TablesIn(mem, q, l - 1),
         WrittenAt(mem, mem2, used, t, q[l]),
         mem[t][q[l]] = Absent, mem2[t][q[l]] = Link(f, Rights), mem2[f] = Zeroed
  PROVE  Reach(mem2, p, n) = Reach(mem, p, n) \cup Gained(mem, q, t, l, f, p, n)
<1>1. /\ l \in Levels /\ l \in 1 .. Depth + 1 /\ l \in 0 .. Depth + 1
      /\ l + 1 \in 1 .. Depth + 1 /\ l + 1 \in 0 .. Depth + 1 /\ (l + 1) - 1 = l
  BY PagingAssumption DEF Levels
<1>2. /\ SameReach(mem, mem2, p, l - 1)
      /\ ~Hits(mem, p, q, t, l) => SameReach(mem, mem2, p, Depth + 1)
  BY <1>1, EntryWritten
<1>3. CASE ~Hits(mem, p, q, t, l)
  BY <1>2, <1>3 DEF SameReach, Gained
<1>4. CASE Hits(mem, p, q, t, l)
  <2>0. PICK u : ReadsThere(u, mem, p, q, t, l)
    BY <1>1, <1>4, HitReads
  <2>1. /\ Reach(mem, p, l - 1) = {u} /\ u.kind = "link" /\ u.flags = Rights
        /\ \A m : Read(m, p, u, l) = m[t][q[l]]
    BY <2>0 DEF ReadsThere
  <2>2. Reach(mem2, p, l - 1) = {u}
    BY <1>1, <1>2, <2>1 DEF SameReach
  <2>3. GoesOn(Reach(mem, p, l), mem, p, u, l)
    BY <1>1, <2>1, Onward
  <2>4. GoesOn(Reach(mem2, p, l), mem2, p, u, l)
    BY <1>1, <2>2, Onward
  <2>5. Reach(mem, p, l) = {}
    BY <2>1, <2>3 DEF GoesOn
  <2>6. Read(mem2, p, u, l) = Link(f, Rights) /\ Link(f, Rights) # Absent
    BY <2>1 DEF Link, Absent
  <2>7. Taken(p, u, l, Link(f, Rights)) = Link(f, Rights)
    BY <2>1 DEF Taken, Link
  <2>8. Reach(mem2, p, l) = {Link(f, Rights)}
    BY <2>1, <2>4, <2>6, <2>7 DEF GoesOn
  <2>9. Reach(mem2, p, l + 1) = {}
    <3>. DEFINE v == Link(f, Rights)
    <3>1. v.kind = "link" /\ v.frame = f
      BY DEF Link
    <3>2. Reach(mem2, p, (l + 1) - 1) = {v}
      BY <1>1, <2>8
    <3>. HIDE DEF v
    <3>3. GoesOn(Reach(mem2, p, l + 1), mem2, p, v, l + 1)
      BY <1>1, <3>2, Onward
    <3>4. p[l + 1] \in Indices
      BY <1>1, PagingAssumption DEF Levels
    <3>5. Read(mem2, p, v, l + 1) = Absent
      BY <3>1, <3>4 DEF Read, Zeroed
    <3>. QED  BY <3>1, <3>3, <3>5 DEF GoesOn
  <2>10. \A k \in l .. Depth + 1 : Reach(mem, p, k) = {}
    BY <1>1, <2>5, Stays
  <2>11. \A k \in l + 1 .. Depth + 1 : Reach(mem2, p, k) = {}
    BY <1>1, <2>9, Stays
  <2>12. CASE n < l
    <3>1. n \in 0 .. l - 1 /\ n # l
      BY <2>12
    <3>. QED  BY <1>2, <3>1 DEF SameReach, Gained
  <2>13. CASE n = l
    BY <1>4, <2>5, <2>8, <2>13 DEF Gained
  <2>14. CASE n > l
    <3>1. n \in l .. Depth + 1 /\ n \in l + 1 .. Depth + 1 /\ n # l
      BY <2>14
    <3>. QED  BY <2>10, <2>11, <3>1 DEF Gained
  <2>. QED  BY <2>12, <2>13, <2>14
<1>. QED
  BY <1>3, <1>4

(* A leaf is written: no walk changes before its last step, and that of no *)
(* other page changes.                                                     *)
LEMMA LeafWalk ==
  ASSUME NEW mem, NEW mem2, NEW used, NEW t, NEW p \in Pages, NEW q \in Pages,
         Within(mem, used), OneWay(mem), t \in TablesIn(mem, q, Depth),
         WrittenAt(mem, mem2, used, t, q[Depth + 1])
  PROVE  /\ SameReach(mem, mem2, p, Depth)
         /\ p # q => Reach(mem2, p, Depth + 1) = Reach(mem, p, Depth + 1)
<1>. DEFINE l == Depth + 1
<1>1. l \in Levels /\ l - 1 = Depth /\ l \in 0 .. Depth + 1
  BY PagingAssumption DEF Levels
<1>2. t \in TablesIn(mem, q, l - 1) /\ WrittenAt(mem, mem2, used, t, q[l])
  BY <1>1
<1>. HIDE DEF l
<1>3. /\ SameReach(mem, mem2, p, l - 1)
      /\ ~Hits(mem, p, q, t, l) => SameReach(mem, mem2, p, Depth + 1)
  BY <1>1, <1>2, EntryWritten
<1>4. ASSUME Hits(mem, p, q, t, l) PROVE p = q
  <2>1. \A i \in 1 .. l : p[i] = q[i]
    BY <1>1, <1>2, <1>4, HitsAgree
  <2>. QED  BY <2>1, PagingAssumption DEF l, Levels
<1>. QED
  BY <1>1, <1>3, <1>4 DEF SameReach, l

LEMMA TranslateOne ==
  ASSUME NEW mem, NEW page, NEW v, Reach(mem, page, Depth + 1) = {v}
  PROVE  Translate(mem, page) = {[frame |-> v.frame, flags |-> v.flags]}
<1>. DEFINE To(e) == [frame |-> e.frame, flags |-> e.flags]
<1>1. Translate(mem, page) = {To(e) : e \in {v}}
  BY DEF Translate
<1>. HIDE DEF To
<1>2. {To(e) : e \in {v}} = {To(v)}
  OBVIOUS
<1>. QED
  BY <1>1, <1>2 DEF To

(* The last step of a walk: the leaf.                                      *)
LEMMA LeafRead ==
  ASSUME NEW mem, NEW used, NEW t, NEW p \in Pages,
         Within(mem, used), t \in TablesIn(mem, p, Depth)
  PROVE  /\ mem[t][p[Depth + 1]] = Absent => Translate(mem, p) = {}
         /\ \A g : \A r \in SUBSET Rights :
              mem[t][p[Depth + 1]] = Link(g, r)
                => Translate(mem, p) = {[frame |-> g, flags |-> r]}
<1>. DEFINE l == Depth + 1
            x == mem[t][p[l]]
<1>1. l \in Levels /\ l \in 1 .. Depth + 1 /\ l - 1 = Depth
  BY PagingAssumption DEF Levels
<1>2. Hits(mem, p, p, t, l)
  BY <1>1 DEF Hits
<1>3. PICK u : ReadsThere(u, mem, p, p, t, l)
  BY <1>1, <1>2, HitReads
<1>. HIDE DEF l
<1>4. /\ Reach(mem, p, l - 1) = {u} /\ u.kind = "link" /\ u.flags = Rights
      /\ Read(mem, p, u, l) = x
  BY <1>3 DEF ReadsThere
<1>5. GoesOn(Reach(mem, p, l), mem, p, u, l)
  BY <1>1, <1>4, Onward
<1>6. x = Absent => Translate(mem, p) = {}
  <2>1. x = Absent => Reach(mem, p, l) = {}
    BY <1>4, <1>5 DEF GoesOn
  <2>. QED  BY <2>1 DEF l, Translate
<1>7. ASSUME NEW g, NEW r \in SUBSET Rights, x = Link(g, r)
      PROVE  Translate(mem, p) = {[frame |-> g, flags |-> r]}
  <2>1. x # Absent
    BY <1>7 DEF Link, Absent
  <2>2. Taken(p, u, l, x) = Link(g, r)
    <3>1. Rights \cap r = r
      OBVIOUS
    <3>2. x.kind = "link" /\ x.flags = r /\ x.frame = g
      BY <1>7 DEF Link
    <3>. QED  BY <1>4, <3>1, <3>2 DEF Taken, Link
  <2>3. Reach(mem, p, l) = {Link(g, r)}
    BY <1>4, <1>5, <2>1, <2>2 DEF GoesOn
  <2>4. Translate(mem, p) = {[frame |-> Link(g, r).frame, flags |-> Link(g, r).flags]}
    BY <2>3, TranslateOne DEF l
  <2>5. Link(g, r).frame = g /\ Link(g, r).flags = r
    BY DEF Link
  <2>. QED  BY <2>4, <2>5
<1>. QED
  BY <1>6, <1>7 DEF l

(* Walks that stay the same to the last table keep the tables as they are. *)
LEMMA TablesKept ==
  ASSUME NEW mem, NEW mem2, NEW used, \A p \in Pages : SameReach(mem, mem2, p, Depth)
  PROVE  /\ Within(mem, used) => Within(mem2, used)
         /\ \A p \in Pages, n \in 0 .. Depth : TablesIn(mem2, p, n) = TablesIn(mem, p, n)
         /\ OneWay(mem) => OneWay(mem2)
<1>1. \A p \in Pages, n \in 0 .. Depth : Reach(mem2, p, n) = Reach(mem, p, n)
  BY DEF SameReach
<1>2. \A p \in Pages, n \in 0 .. Depth : TablesIn(mem2, p, n) = TablesIn(mem, p, n)
  BY <1>1 DEF TablesIn
<1>3. OneWay(mem) => OneWay(mem2)
  BY <1>2 DEF OneWay
<1>4. Within(mem, used) => Within(mem2, used)
  BY <1>1 DEF Within
<1>. QED
  BY <1>2, <1>3, <1>4

(* Every walk after a table has been added, and the tables then.           *)
AllGained(mem, mem2, q, t, l, f) ==
  \A p \in Pages, n \in 0 .. Depth + 1 :
    Reach(mem2, p, n) = Reach(mem, p, n) \cup Gained(mem, q, t, l, f, p, n)
Grown(mem, mem2, used, q, l, f) ==
  /\ Within(mem2, used \cup {f})
  /\ \A p \in Pages, n \in 0 .. Depth : TablesIn(mem, p, n) \subseteq TablesIn(mem2, p, n)
  /\ f \in TablesIn(mem2, q, l)
  /\ OneWay(mem2)

(* A new table below an absent entry.                                      *)
LEMMA TablesGrown ==
  ASSUME NEW mem, NEW mem2, NEW used, NEW t, NEW f, NEW q \in Pages, NEW l \in 1 .. Depth,
         Within(mem, used), OneWay(mem), t \in TablesIn(mem, q, l - 1), f \notin used,
         AllGained(mem, mem2, q, t, l, f)
  PROVE  Grown(mem, mem2, used, q, l, f)
<1>0. \A n \in 0 .. Depth : n \in 0 .. Depth + 1
  BY PagingAssumption
<1>1. l \in Levels /\ l \in 0 .. Depth
  BY PagingAssumption DEF Levels
<1>2. Link(f, Rights).kind = "link" /\ Link(f, Rights).frame = f /\ Link(f, Rights).flags = Rights
  BY DEF Link
<1>3. ASSUME NEW p \in Pages, NEW n \in 0 .. Depth, NEW e \in Reach(mem2, p, n)
      PROVE  \/ e \in Reach(mem, p, n)
             \/ Hits(mem, p, q, t, l) /\ n = l /\ e = Link(f, Rights)
  BY <1>0, <1>3 DEF AllGained, Gained
<1>4. Within(mem2, used \cup {f})
  <2>1. ASSUME NEW p \in Pages, NEW n \in 0 .. Depth, NEW e \in Reach(mem2, p, n), e.kind = "link"
        PROVE  e.frame \in used \cup {f} /\ e.flags = Rights
    BY <1>2, <1>3, <2>1 DEF Within
  <2>. QED  BY <2>1 DEF Within
<1>5. ASSUME NEW p \in Pages, NEW n \in 0 .. Depth, NEW x \in TablesIn(mem2, p, n)
      PROVE  \/ x \in TablesIn(mem, p, n) /\ x # f
             \/ Hits(mem, p, q, t, l) /\ n = l /\ x = f
  <2>1. PICK e \in Reach(mem2, p, n) : e.kind = "link" /\ e.frame = x
    BY TableOf
  <2>2. CASE e \in Reach(mem, p, n)
    <3>1. x \in used
      BY <2>1, <2>2 DEF Within
    <3>2. x \in TablesIn(mem, p, n)
      BY <2>1, <2>2, TableOf
    <3>. QED  BY <3>1, <3>2
  <2>3. CASE Hits(mem, p, q, t, l) /\ n = l /\ e = Link(f, Rights)
    BY <1>2, <2>1, <2>3
  <2>. QED  BY <1>3, <2>2, <2>3
<1>6. ASSUME NEW p \in Pages, NEW n \in 0 .. Depth, NEW x \in TablesIn(mem, p, n)
      PROVE  x \in TablesIn(mem2, p, n)
  <2>1. PICK e \in Reach(mem, p, n) : e.kind = "link" /\ e.frame = x
    BY TableOf
  <2>2. e \in Reach(mem2, p, n)
    BY <1>0 DEF AllGained
  <2>. QED  BY <2>1, <2>2, TableOf
<1>7. f \in TablesIn(mem2, q, l)
  <2>1. Hits(mem, q, q, t, l)
    BY DEF Hits
  <2>2. Link(f, Rights) \in Reach(mem2, q, l)
    BY <1>0, <1>1, <2>1 DEF AllGained, Gained
  <2>. QED  BY <1>2, <2>2, TableOf
<1>8. OneWay(mem2)
  <2>1. SUFFICES ASSUME NEW p \in Pages, NEW r \in Pages, NEW n \in 0 .. Depth, NEW m \in 0 .. Depth,
                        NEW x \in TablesIn(mem2, p, n), x \in TablesIn(mem2, r, m)
                 PROVE  n = m /\ \A i \in 1 .. n : p[i] = r[i]
    BY DEF OneWay
  <2>2. CASE x = f
    <3>1. Hits(mem, p, q, t, l) /\ n = l /\ Hits(mem, r, q, t, l) /\ m = l
      BY <1>5, <2>1, <2>2
    <3>2. (\A i \in 1 .. l : p[i] = q[i]) /\ (\A i \in 1 .. l : r[i] = q[i])
      BY <1>1, <3>1, HitsAgree
    <3>. QED  BY <3>1, <3>2
  <2>3. CASE x # f
    <3>1. x \in TablesIn(mem, p, n) /\ x \in TablesIn(mem, r, m)
      BY <1>5, <2>1, <2>3
    <3>2. TablesIn(mem, p, n) \cap TablesIn(mem, r, m) # {}
      BY <3>1
    <3>. QED  BY <3>2 DEF OneWay
  <2>. QED  BY <2>2, <2>3
<1>. QED
  BY <1>4, <1>6, <1>7, <1>8 DEF Grown

(***************************************************************************)
(* The inductive invariant.                                                *)
(***************************************************************************)

Used == DOMAIN memory \ (avail \cup others \cup fresh)
AllTables == UNION {Tables(p, n) : p \in Pages, n \in 0 .. Depth}
NoFrameLost == Frames \ {0} \subseteq avail \cup others \cup fresh \cup AllTables
(* The huge pages stay.                                                    *)
LargeStays == \A p \in Large : \E e \in Reach(memory, p, Depth) : e.kind = "huge"

(* A frame has one owner.                                                  *)
OneOwner == avail \cap others = {} /\ fresh \cap (avail \cup others) = {}

TreeInv ==
  /\ OneOwner
  /\ Within(memory, Used)
  /\ OneWay(memory)
  /\ NoFrameLost
  /\ LargeStays

(* The table a call has come to is the one its page's walk comes to.       *)
OnItsWay == call.op = "map" => call.table \in Tables(call.page, call.level - 1)

(* The entry a fresh frame is for is still the absent one that was read.   *)
FreshWanted == fresh # {} => Mapping /\ call.level <= Depth /\ Current = Absent

PagingInv == TypeOK /\ TreeInv /\ OnItsWay /\ FreshWanted /\ TlbCoherent

LEMMA EntryPut ==
  ASSUME NEW t, NEW i \in Indices, NEW e, IsTable(t), IsEntry(e)
  PROVE  /\ IsTable([t EXCEPT ![i] = e])
         /\ [t EXCEPT ![i] = e][i] = e
         /\ \A j \in Indices : j # i => [t EXCEPT ![i] = e][j] = t[j]
<1>. DEFINE u == [t EXCEPT ![i] = e]
<1>1. t = [j \in Indices |-> t[j]] /\ \A j \in Indices : IsEntry(t[j])
  BY DEF IsTable
<1>2. DOMAIN t = Indices
  BY <1>1, Zenon
<1>3. DOMAIN u = Indices /\ \A j \in Indices : u[j] = IF j = i THEN e ELSE t[j]
  BY <1>2
<1>4. u = [j \in DOMAIN t |-> IF j = i THEN e ELSE t[j]]
  OBVIOUS
<1>5. u = [j \in Indices |-> u[j]]
  BY <1>2, <1>3, <1>4
<1>. HIDE DEF u
<1>6. \A j \in Indices : IsEntry(u[j])
  BY <1>1, <1>3
<1>. QED
  BY <1>3, <1>5, <1>6 DEF IsTable, u

LEMMA EmptyTables ==
  IsTable(Zeroed) /\ IsTable(Garbage)
<1>1. IsEntry(Absent) /\ IsEntry(Link(Root, Rights))
  BY DEF IsEntry, Link
<1>2. /\ Zeroed = [j \in Indices |-> Zeroed[j]] /\ \A j \in Indices : Zeroed[j] = Absent
      /\ Garbage = [j \in Indices |-> Garbage[j]] /\ \A j \in Indices : Garbage[j] = Link(Root, Rights)
  BY DEF Zeroed, Garbage
<1>. QED
  BY <1>1, <1>2, Zenon DEF IsTable

LEMMA InitPaging ==
  Init => PagingInv
<1>. SUFFICES ASSUME Init PROVE PagingInv
  OBVIOUS
<1>1. /\ memory = BootMemory /\ avail = Frames /\ others = {} /\ fresh = {} /\ call = Idle /\ tlb = {}
      /\ DOMAIN memory = Frames \cup DOMAIN BootTables
  BY DEF Init, BootMemory
<1>2. \A f \in DOMAIN memory : memory[f] = IF f \in Frames THEN Garbage ELSE BootTables[f]
  BY <1>1 DEF BootMemory
<1>3. TypeOK
  <2>1. memory = [f \in Frames \cup DOMAIN BootTables |-> memory[f]]
    BY <1>1 DEF BootMemory
  <2>2. \A f \in DOMAIN memory : IsTable(memory[f])
    BY <1>1, <1>2, PagingAssumption, EmptyTables
  <2>. QED  BY <1>1, <2>1, <2>2 DEF TypeOK
<1>4. Used = DOMAIN BootTables
  BY <1>1, PagingAssumption DEF Used
<1>5. Within(memory, Used)
  BY <1>1, <1>4, LoaderAssumption DEF Within
<1>6. OneWay(memory)
  BY <1>1, LoaderAssumption DEF OneWay
<1>7. LargeStays
  BY <1>1 DEF LargeStays, Large
<1>. QED
  BY <1>1, <1>3, <1>5, <1>6, <1>7
     DEF PagingInv, TreeInv, OneOwner, NoFrameLost, OnItsWay, FreshWanted, TlbCoherent, Idle

(***************************************************************************)
(* One call.                                                               *)
(***************************************************************************)

(* Where a call that maps is.                                              *)
LEMMA MappingAt ==
  ASSUME PagingInv, Mapping
  PROVE  /\ call.page \in Pages /\ call.level \in Levels /\ call.page[call.level] \in Indices
         /\ call.target \in Targets /\ call.flags \in Permissions
         /\ call.table \in Tables(call.page, call.level - 1)
         /\ call.level - 1 \in 0 .. Depth
         /\ call.table \in Used /\ call.table \in DOMAIN memory
         /\ IsTable(memory[call.table]) /\ IsEntry(Current)
<1>1. /\ call.page \in Pages /\ call.level \in Levels /\ call.table \in DOMAIN memory
      /\ call.target \in Targets /\ call.flags \in Permissions
  BY DEF PagingInv, TypeOK, Mapping, Idle
<1>2. call.page[call.level] \in Indices /\ call.level - 1 \in 0 .. Depth
  BY <1>1, PagingAssumption DEF Levels
<1>3. call.table \in Tables(call.page, call.level - 1)
  BY DEF PagingInv, OnItsWay, Mapping
<1>4. PICK u \in Reach(memory, call.page, call.level - 1) : u.kind = "link" /\ u.frame = call.table
  BY <1>3, TableOf DEF Tables
<1>5. call.table \in Used
  BY <1>1, <1>2, <1>4 DEF PagingInv, TreeInv, Within
<1>6. IsTable(memory[call.table])
  BY <1>1 DEF PagingInv, TypeOK
<1>7. IsEntry(Current)
  BY <1>2, <1>6 DEF Current, IsTable
<1>. QED
  BY <1>1, <1>2, <1>3, <1>5, <1>6, <1>7

(* The next table of the way, when it is there.                            *)
LEMMA Descend ==
  ASSUME PagingInv, Mapping, call.level <= Depth, Current.kind # "absent", Current.kind # "huge"
  PROVE  Current.frame \in Tables(call.page, call.level) /\ Current.frame \in DOMAIN memory
<1>. DEFINE q == call.page
            t == call.table
            l == call.level
<1>1. /\ q \in Pages /\ l \in Levels /\ t \in TablesIn(memory, q, l - 1)
      /\ IsEntry(Current) /\ l \in 1 .. Depth + 1 /\ l \in 0 .. Depth /\ Current = memory[t][q[l]]
  BY MappingAt, PagingAssumption DEF Tables, Levels, Current
<1>2. Current.kind = "link" /\ Current # Absent
  BY <1>1 DEF IsEntry, Absent
<1>. HIDE DEF q, t, l
<1>3. Hits(memory, q, q, t, l) /\ Within(memory, Used)
  BY <1>1 DEF Hits, PagingInv, TreeInv
<1>4. PICK u : ReadsThere(u, memory, q, q, t, l)
  BY <1>1, <1>3, HitReads
<1>5. GoesOn(Reach(memory, q, l), memory, q, u, l)
  BY <1>1, <1>4, Onward DEF ReadsThere
<1>6. Reach(memory, q, l) = {Taken(q, u, l, Current)}
  BY <1>1, <1>2, <1>4, <1>5 DEF GoesOn, ReadsThere
<1>7. Taken(q, u, l, Current).kind = "link" /\ Taken(q, u, l, Current).frame = Current.frame
  BY <1>2 DEF Taken
<1>8. Current.frame \in TablesIn(memory, q, l)
  BY <1>6, <1>7, TableOf
<1>9. Current.frame \in Used
  BY <1>1, <1>3, <1>6, <1>7 DEF Within
<1>. QED
  BY <1>8, <1>9 DEF Used, Tables, q, l

(* Writing a frame, and one entry of a frame.                              *)
IsMemory(mem) ==
  /\ mem = [g \in Frames \cup DOMAIN BootTables |-> mem[g]]
  /\ \A g \in DOMAIN mem : IsTable(mem[g])

EntryPutIn(mem, mem2, t, i, e) == mem2 = [mem EXCEPT ![t][i] = e]
OnlyEntryPut(mem, mem2, t, i, e) ==
  /\ IsMemory(mem2) /\ DOMAIN mem2 = DOMAIN mem
  /\ mem2[t][i] = e
  /\ \A g \in DOMAIN mem, j \in Indices : g # t \/ j # i => mem2[g][j] = mem[g][j]

LEMMA FrameWritten ==
  ASSUME NEW mem, NEW mem2, NEW x, NEW f \in DOMAIN mem,
         IsMemory(mem), IsTable(x), mem2 = [mem EXCEPT ![f] = x]
  PROVE  /\ IsMemory(mem2) /\ DOMAIN mem2 = DOMAIN mem
         /\ mem2[f] = x
         /\ \A g \in DOMAIN mem : g # f => mem2[g] = mem[g]
<1>1. DOMAIN mem = Frames \cup DOMAIN BootTables
  BY Zenon DEF IsMemory
<1>2. /\ DOMAIN mem2 = DOMAIN mem
      /\ \A g \in DOMAIN mem : mem2[g] = IF g = f THEN x ELSE mem[g]
  OBVIOUS
<1>3. mem2 = [g \in Frames \cup DOMAIN BootTables |-> mem2[g]]
  BY <1>1, <1>2
<1>4. \A g \in DOMAIN mem : IsTable(mem2[g])
  BY <1>2 DEF IsMemory
<1>. QED
  BY <1>2, <1>3, <1>4 DEF IsMemory

LEMMA TableWritten ==
  ASSUME NEW mem, NEW mem2, NEW e, NEW t \in DOMAIN mem, NEW i \in Indices,
         IsMemory(mem), IsEntry(e), EntryPutIn(mem, mem2, t, i, e)
  PROVE  OnlyEntryPut(mem, mem2, t, i, e)
<1>. DEFINE u == [mem[t] EXCEPT ![i] = e]
<1>1. mem2 = [mem EXCEPT ![t] = u]
  BY DEF EntryPutIn
<1>2. /\ IsTable(u) /\ u[i] = e
      /\ \A j \in Indices : j # i => u[j] = mem[t][j]
  BY EntryPut DEF IsMemory
<1>. HIDE DEF u
<1>3. /\ IsMemory(mem2) /\ DOMAIN mem2 = DOMAIN mem
      /\ mem2[t] = u
      /\ \A g \in DOMAIN mem : g # t => mem2[g] = mem[g]
  BY <1>1, <1>2, FrameWritten
<1>. QED
  BY <1>2, <1>3 DEF OnlyEntryPut

(* What LinkTable writes.                                                  *)
AddsTable(f) ==
  /\ Mapping /\ call.level <= Depth /\ Current = Absent
  /\ fresh = {f} /\ fresh' = {}
  /\ memory' = [memory EXCEPT ![f] = Zeroed,
                              ![call.table][call.page[call.level]] = Link(f, Rights)]
  /\ Down(f)
  /\ UNCHANGED <<avail, others, tlb>>

LEMMA AddTableWrites ==
  ASSUME NEW f, PagingInv, AddsTable(f)
  PROVE  /\ IsMemory(memory') /\ DOMAIN memory' = DOMAIN memory
         /\ f \in DOMAIN memory /\ f \notin Used
         /\ memory[call.table][call.page[call.level]] = Absent
         /\ memory'[call.table][call.page[call.level]] = Link(f, Rights)
         /\ memory'[f] = Zeroed
         /\ WrittenAt(memory, memory', Used, call.table, call.page[call.level])
<1>. DEFINE t == call.table
            i == call.page[call.level]
            mid == [memory EXCEPT ![f] = Zeroed]
            e == Link(f, Rights)
<1>1. t \in Used /\ t \in DOMAIN memory /\ i \in Indices /\ IsEntry(Current) /\ Current = memory[t][i]
  BY MappingAt DEF AddsTable, Current
<1>2. IsMemory(memory) /\ f \in DOMAIN memory /\ f \notin Used
  <2>1. memory = [g \in Frames \cup DOMAIN BootTables |-> memory[g]] /\ f \in Frames
    BY DEF PagingInv, TypeOK, AddsTable
  <2>2. DOMAIN memory = Frames \cup DOMAIN BootTables
    BY <2>1, Zenon
  <2>. QED  BY <2>1, <2>2 DEF PagingInv, TypeOK, IsMemory, AddsTable, Used
<1>3. EntryPutIn(mid, memory', t, i, e)
  BY DEF AddsTable, EntryPutIn
<1>. HIDE DEF t, i, e, mid
<1>4. /\ IsMemory(mid) /\ DOMAIN mid = DOMAIN memory /\ mid[f] = Zeroed
      /\ \A g \in DOMAIN memory : g # f => mid[g] = memory[g]
  BY <1>2, EmptyTables, FrameWritten DEF mid
<1>5. IsEntry(e)
  BY DEF e, Link, IsEntry
<1>6. t \in DOMAIN mid /\ i \in Indices /\ IsMemory(mid)
  BY <1>1, <1>4
<1>7. OnlyEntryPut(mid, memory', t, i, e)
  BY <1>3, <1>5, <1>6, TableWritten
<1>8. f # t
  BY <1>1, <1>2
<1>9. memory'[f] = Zeroed
  <2>1. \A j \in Indices : memory'[f][j] = Absent
    BY <1>2, <1>4, <1>7, <1>8 DEF OnlyEntryPut, Zeroed
  <2>2. IsTable(memory'[f])
    BY <1>2, <1>4, <1>7 DEF OnlyEntryPut, IsMemory
  <2>. QED  BY <2>1, <2>2 DEF IsTable, Zeroed
<1>10. WrittenAt(memory, memory', Used, t, i)
  BY <1>2, <1>4, <1>7 DEF OnlyEntryPut, WrittenAt, Used
<1>11. memory[t][i] = Absent
  BY <1>1 DEF AddsTable
<1>. QED
  BY <1>2, <1>4, <1>7, <1>9, <1>10, <1>11 DEF OnlyEntryPut, t, i, e

LEMMA AddTableWalks ==
  ASSUME NEW f, PagingInv, AddsTable(f)
  PROVE  AllGained(memory, memory', call.page, call.table, call.level, f)
<1>. DEFINE q == call.page
            t == call.table
            l == call.level
<1>1. /\ q \in Pages /\ l \in 1 .. Depth /\ t \in TablesIn(memory, q, l - 1)
      /\ Within(memory, Used) /\ OneWay(memory)
  BY MappingAt, PagingAssumption DEF AddsTable, Levels, Tables, PagingInv, TreeInv
<1>2. /\ memory[t][q[l]] = Absent /\ memory'[t][q[l]] = Link(f, Rights) /\ memory'[f] = Zeroed
      /\ WrittenAt(memory, memory', Used, t, q[l])
  BY AddTableWrites
<1>. HIDE DEF q, t, l
<1>3. ASSUME NEW p \in Pages, NEW n \in 0 .. Depth + 1
      PROVE  Reach(memory', p, n) = Reach(memory, p, n) \cup Gained(memory, q, t, l, f, p, n)
  BY <1>1, <1>2, GrownWalk
<1>. QED
  BY <1>3 DEF AllGained, q, t, l

LEMMA AddTableTree ==
  ASSUME NEW f, PagingInv, AddsTable(f)
  PROVE  TreeInv' /\ OnItsWay'
<1>. DEFINE q == call.page
            t == call.table
            l == call.level
<1>1. /\ q \in Pages /\ l \in 1 .. Depth /\ t \in TablesIn(memory, q, l - 1)
      /\ Within(memory, Used) /\ OneWay(memory)
  BY MappingAt, PagingAssumption DEF AddsTable, Levels, Tables, PagingInv, TreeInv
<1>2. AllGained(memory, memory', q, t, l, f)
  BY AddTableWalks
<1>3. /\ fresh = {f} /\ fresh' = {} /\ avail' = avail /\ others' = others /\ DOMAIN memory' = DOMAIN memory
      /\ f \in DOMAIN memory /\ f \notin Used /\ call' = [call EXCEPT !.level = @ + 1, !.table = f]
  BY AddTableWrites DEF AddsTable, Down
<1>4. f \notin avail /\ f \notin others
  BY <1>3 DEF PagingInv, TreeInv, OneOwner
<1>5. Used' = Used \cup {f}
  BY <1>3, <1>4 DEF Used
<1>. HIDE DEF q, t, l
<1>6. Grown(memory, memory', Used, q, l, f)
  BY <1>1, <1>2, <1>3, TablesGrown
<1>7. NoFrameLost'
  <2>1. \A x \in AllTables : x \in AllTables'
    BY <1>6 DEF Grown, AllTables, Tables
  <2>2. l \in 0 .. Depth
    BY <1>1
  <2>3. f \in AllTables'
    BY <1>1, <1>6, <2>2 DEF Grown, AllTables, Tables
  <2>4. NoFrameLost
    BY DEF PagingInv, TreeInv
  <2>. QED  BY <1>3, <2>1, <2>3, <2>4 DEF NoFrameLost
<1>8. LargeStays'
  <2>1. Depth \in 0 .. Depth + 1
    BY PagingAssumption
  <2>2. \A p \in Large : p \in Pages
    BY DEF Large
  <2>. QED  BY <1>2, <2>1, <2>2 DEF AllGained, PagingInv, TreeInv, LargeStays
<1>9. OnItsWay'
  <2>1. call \in [op : {"map"}, page : Pages, target : Targets, flags : Permissions,
                  level : Levels, table : DOMAIN memory]
    BY DEF PagingInv, TypeOK, AddsTable, Mapping, Idle
  <2>2. call'.page = q /\ call'.table = f /\ call'.level = l + 1
    BY <1>3, <2>1 DEF q, l
  <2>3. call'.level - 1 = l
    BY <1>1, <2>2
  <2>. QED  BY <1>6, <2>2, <2>3 DEF Grown, OnItsWay, Tables
<1>10. OneOwner'
  BY <1>3 DEF PagingInv, TreeInv, OneOwner
<1>. QED
  BY <1>5, <1>6, <1>7, <1>8, <1>9, <1>10 DEF Grown, TreeInv

(* The translations after a table has been added.                          *)
LEMMA AddTableTranslations ==
  ASSUME NEW f, PagingInv, AddsTable(f)
  PROVE  \A p \in Pages : Translate(memory', p) = Translate(memory, p)
<1>1. \A p \in Pages, n \in 0 .. Depth + 1 :
        Reach(memory', p, n) =
          Reach(memory, p, n) \cup Gained(memory, call.page, call.table, call.level, f, p, n)
  BY AddTableWalks DEF AllGained
<1>2. Depth + 1 \in 0 .. Depth + 1 /\ call.level # Depth + 1
  BY MappingAt, PagingAssumption DEF AddsTable, Levels
<1>3. \A p \in Pages : Reach(memory', p, Depth + 1) = Reach(memory, p, Depth + 1)
  BY <1>1, <1>2 DEF Gained
<1>. QED
  BY <1>3 DEF Translate

(* A leaf has been written in a table t of q's walk.                       *)
LeafWritten(q, t) ==
  /\ q \in Pages /\ t \in Tables(q, Depth)
  /\ DOMAIN memory' = DOMAIN memory
  /\ WrittenAt(memory, memory', Used, t, q[Depth + 1])

LEMMA LeafTree ==
  ASSUME NEW q, NEW t, PagingInv, LeafWritten(q, t), UNCHANGED <<avail, others, fresh>>
  PROVE  /\ TreeInv'
         /\ \A p \in Pages : p # q => Translate(memory', p) = Translate(memory, p)
         /\ t \in TablesIn(memory', q, Depth)
         /\ Within(memory, Used) /\ Within(memory', Used)
<1>1. /\ q \in Pages /\ t \in TablesIn(memory, q, Depth) /\ Within(memory, Used) /\ OneWay(memory)
      /\ WrittenAt(memory, memory', Used, t, q[Depth + 1])
  BY DEF LeafWritten, Tables, PagingInv, TreeInv
<1>2. Used' = Used
  BY DEF Used, LeafWritten
<1>3. ASSUME NEW p \in Pages
      PROVE  /\ SameReach(memory, memory', p, Depth)
             /\ p # q => Reach(memory', p, Depth + 1) = Reach(memory, p, Depth + 1)
  BY <1>1, LeafWalk
<1>4. \A p \in Pages : SameReach(memory, memory', p, Depth)
  BY <1>3
<1>5. /\ Within(memory, Used) => Within(memory', Used)
      /\ \A p \in Pages, n \in 0 .. Depth : TablesIn(memory', p, n) = TablesIn(memory, p, n)
      /\ OneWay(memory) => OneWay(memory')
  BY <1>4, TablesKept
<1>6. Depth \in 0 .. Depth
  BY PagingAssumption
<1>7. NoFrameLost'
  <2>1. \A x \in AllTables : x \in AllTables'
    BY <1>5 DEF AllTables, Tables
  <2>. QED  BY <2>1 DEF PagingInv, TreeInv, NoFrameLost
<1>8. LargeStays'
  <2>1. \A p \in Large : p \in Pages
    BY DEF Large
  <2>. QED  BY <1>4, <1>6, <2>1 DEF SameReach, PagingInv, TreeInv, LargeStays
<1>9. \A p \in Pages : p # q => Translate(memory', p) = Translate(memory, p)
  BY <1>3 DEF Translate
<1>10. OneOwner'
  BY DEF PagingInv, TreeInv, OneOwner
<1>11. t \in TablesIn(memory', q, Depth)
  BY <1>1, <1>5, <1>6
<1>. QED
  BY <1>1, <1>2, <1>5, <1>7, <1>8, <1>9, <1>10, <1>11 DEF TreeInv

(* What InstallLeaf writes.                                                *)
InstallsLeaf ==
  /\ Mapping /\ call.level = Depth + 1 /\ Current.kind = "absent"
  /\ memory' = [memory EXCEPT ![call.table][call.page[call.level]] = Link(call.target, call.flags)]
  /\ Finish
  /\ UNCHANGED <<avail, others, fresh, tlb>>

LEMMA InstallWrites ==
  ASSUME PagingInv, InstallsLeaf
  PROVE  /\ IsMemory(memory')
         /\ LeafWritten(call.page, call.table)
         /\ memory[call.table][call.page[Depth + 1]] = Absent
         /\ memory'[call.table][call.page[Depth + 1]] = Link(call.target, call.flags)
<1>. DEFINE t == call.table
            q == call.page
            i == q[Depth + 1]
            e == Link(call.target, call.flags)
<1>1. /\ q \in Pages /\ call.level = Depth + 1 /\ i \in Indices /\ t \in Tables(q, Depth)
      /\ t \in Used /\ t \in DOMAIN memory /\ IsEntry(Current) /\ Current = memory[t][i]
  BY MappingAt, PagingAssumption DEF InstallsLeaf, Current
<1>2. IsMemory(memory)
  BY DEF PagingInv, TypeOK, IsMemory
<1>3. EntryPutIn(memory, memory', t, i, e)
  BY <1>1 DEF InstallsLeaf, EntryPutIn
<1>. HIDE DEF t, q, i, e
<1>4. IsEntry(e)
  BY DEF e, Link, IsEntry
<1>5. OnlyEntryPut(memory, memory', t, i, e)
  BY <1>1, <1>2, <1>3, <1>4, TableWritten
<1>6. WrittenAt(memory, memory', Used, t, q[Depth + 1])
  BY <1>5 DEF OnlyEntryPut, WrittenAt, Used, i
<1>7. memory[t][i] = Absent
  BY <1>1 DEF InstallsLeaf, IsEntry
<1>. QED
  BY <1>1, <1>5, <1>6, <1>7 DEF OnlyEntryPut, LeafWritten, t, q, i, e

(* A page is mapped: its translation appears.                              *)
LEMMA InstallTranslation ==
  ASSUME PagingInv, InstallsLeaf
  PROVE  /\ Translate(memory, call.page) = {}
         /\ Translate(memory', call.page) = {[frame |-> call.target, flags |-> call.flags]}
         /\ call.page \in Pages /\ call.target \in Targets /\ call.flags \in Permissions
<1>. DEFINE t == call.table
            q == call.page
            g == call.target
            r == call.flags
<1>1. q \in Pages /\ g \in Targets /\ r \in Permissions /\ r \in SUBSET Rights
  BY MappingAt, PagingAssumption DEF InstallsLeaf
<1>2. /\ LeafWritten(q, t)
      /\ memory[t][q[Depth + 1]] = Absent /\ memory'[t][q[Depth + 1]] = Link(g, r)
  BY InstallWrites
<1>3. UNCHANGED <<avail, others, fresh>>
  BY DEF InstallsLeaf
<1>. HIDE DEF t, q, g, r
<1>4. t \in TablesIn(memory', q, Depth) /\ Within(memory, Used) /\ Within(memory', Used)
  BY <1>2, <1>3, LeafTree
<1>5. t \in TablesIn(memory, q, Depth)
  BY <1>2 DEF LeafWritten, Tables
<1>6. Translate(memory, q) = {}
  BY <1>1, <1>2, <1>4, <1>5, LeafRead
<1>7. Translate(memory', q) = {[frame |-> g, flags |-> r]}
  BY <1>1, <1>2, <1>4, LeafRead
<1>. QED
  BY <1>1, <1>6, <1>7 DEF q, g, r

(* What UnmapLeaf does: nothing, or it clears a leaf.                      *)
LEMMA TableUnique ==
  ASSUME NEW mem, NEW page, NEW t, NEW u, NEW n \in 0 .. Depth + 1,
         t \in TablesIn(mem, page, n), u \in TablesIn(mem, page, n)
  PROVE  t = u
BY TableOf, OnePlace DEF AtMostOne

LEMMA UnmapWrites ==
  ASSUME NEW page \in Pages, PagingInv, UnmapLeaf(page)
  PROVE  /\ IsMemory(memory')
         /\ \/ memory' = memory
            \/ \E t : LeafWritten(page, t) /\ memory'[t][page[Depth + 1]] = Absent
<1>. DEFINE i == page[Depth + 1]
            Cleared(f) == [memory[f] EXCEPT ![i] = Absent]
<1>1. /\ IsMemory(memory)
      /\ memory' = [f \in DOMAIN memory |-> IF f \in Tables(page, Depth) THEN Cleared(f) ELSE memory[f]]
      /\ i \in Indices
  <2>1. IsMemory(memory)
    BY DEF PagingInv, TypeOK, IsMemory
  <2>2. memory' = [f \in DOMAIN memory |-> IF f \in Tables(page, Depth) THEN Cleared(f) ELSE memory[f]]
    BY DEF UnmapLeaf
  <2>3. i \in Indices
    BY PagingAssumption DEF Levels
  <2>. HIDE DEF i, Cleared
  <2>. QED  BY <2>1, <2>2, <2>3
<1>2. ASSUME NEW f \in DOMAIN memory
      PROVE  /\ IsTable(memory[f]) /\ IsTable(Cleared(f)) /\ Cleared(f)[i] = Absent
             /\ \A j \in Indices : j # i => Cleared(f)[j] = memory[f][j]
  <2>1. IsTable(memory[f]) /\ IsEntry(Absent)
    BY <1>1 DEF IsMemory, IsEntry
  <2>. QED  BY <1>1, <2>1, EntryPut
<1>. HIDE DEF i, Cleared
<1>3. DOMAIN memory = Frames \cup DOMAIN BootTables
  BY <1>1, Zenon DEF IsMemory
<1>4. /\ DOMAIN memory' = DOMAIN memory
      /\ \A f \in DOMAIN memory :
           memory'[f] = IF f \in Tables(page, Depth) THEN Cleared(f) ELSE memory[f]
  BY <1>1
<1>5. IsMemory(memory')
  <2>1. memory' = [f \in Frames \cup DOMAIN BootTables |-> memory'[f]]
    BY <1>1, <1>3, <1>4
  <2>2. \A f \in DOMAIN memory' : IsTable(memory'[f])
    BY <1>2, <1>4
  <2>. QED  BY <2>1, <2>2 DEF IsMemory
<1>6. CASE Tables(page, Depth) = {}
  <2>1. \A f \in DOMAIN memory : memory'[f] = memory[f]
    BY <1>4, <1>6
  <2>2. memory' = memory
    BY <1>1, <1>3, <1>4, <1>5, <2>1 DEF IsMemory
  <2>. QED  BY <1>5, <2>2
<1>7. CASE Tables(page, Depth) # {}
  <2>1. PICK t : t \in Tables(page, Depth)
    BY <1>7
  <2>2. Depth \in 0 .. Depth + 1 /\ Depth \in 0 .. Depth
    BY PagingAssumption
  <2>3. \A f \in Tables(page, Depth) : f = t
    BY <2>1, <2>2, TableUnique DEF Tables
  <2>4. t \in Used
    BY <2>1, <2>2, TableOf DEF Tables, PagingInv, TreeInv, Within
  <2>5. memory'[t][i] = Absent
    BY <1>2, <1>4, <2>1, <2>4 DEF Used
  <2>6. WrittenAt(memory, memory', Used, t, i)
    BY <1>2, <1>4, <2>1, <2>3 DEF WrittenAt, Used
  <2>7. LeafWritten(page, t)
    BY <1>4, <2>1, <2>6 DEF LeafWritten, i
  <2>. QED  BY <1>5, <2>5, <2>7 DEF i
<1>. QED
  BY <1>6, <1>7

(***************************************************************************)
(* Every step.                                                             *)
(***************************************************************************)

CallTyped ==
  \/ call = Idle
  \/ call \in [op : {"flush"}, page : Pages]
  \/ call \in [op : {"map"}, page : Pages, target : Targets, flags : Permissions,
               level : Levels, table : DOMAIN memory]
TlbTyped == \A t \in tlb : t.page \in Pages /\ tlb = {t}
FreshTyped == \A f \in fresh : f \in Frames /\ fresh = {f}

LEMMA Types ==
  TypeOK <=> /\ IsMemory(memory) /\ avail \subseteq Frames /\ others \subseteq Frames
             /\ FreshTyped /\ CallTyped /\ TlbTyped
BY DEF TypeOK, IsMemory, FreshTyped, CallTyped, TlbTyped

LEMMA MapTyped ==
  ASSUME TypeOK, Mapping
  PROVE  call \in [op : {"map"}, page : Pages, target : Targets, flags : Permissions,
                   level : Levels, table : DOMAIN memory]
BY DEF TypeOK, Mapping, Idle

(* The memory and its owners stay.                                         *)
LEMMA QuietTree ==
  ASSUME TreeInv, UNCHANGED <<memory, avail, others, fresh>>
  PROVE  TreeInv' /\ AllTables' = AllTables /\ \A p, n : Tables(p, n)' = Tables(p, n)
BY DEF TreeInv, OneOwner, Used, NoFrameLost, AllTables, Tables, LargeStays

(* A translation the TLB may hold stays, or it is about to be flushed.     *)
KeepsTranslations ==
  \A p \in Pages : \/ Translate(memory', p) = Translate(memory, p)
                   \/ Translate(memory, p) = {}
                   \/ call'.op = "flush" /\ call'.page = p
LEMMA TlbKept ==
  ASSUME PagingInv, KeepsTranslations, tlb' = tlb, call.op # "flush" \/ call' = call
  PROVE  TlbCoherent'
<1>1. ASSUME NEW t \in tlb
      PROVE  Translate(memory', t.page) = {t.to} \/ (call'.op = "flush" /\ call'.page = t.page)
  <2>1. t.page \in Pages
    BY DEF PagingInv, TypeOK
  <2>2. Translate(memory, t.page) = {t.to} \/ (call.op = "flush" /\ call.page = t.page)
    BY DEF PagingInv, TlbCoherent
  <2>3. CASE call.op = "flush" /\ call.page = t.page
    BY <2>3
  <2>4. CASE Translate(memory, t.page) = {t.to}
    <3>1. Translate(memory, t.page) # {}
      BY <2>4
    <3>. QED  BY <2>1, <2>4, <3>1 DEF KeepsTranslations
  <2>. QED  BY <2>2, <2>3, <2>4
<1>. QED
  BY <1>1 DEF TlbCoherent

LEMMA StartMapStep ==
  ASSUME NEW page \in Pages, NEW target \in Targets, NEW flags \in Permissions,
         PagingInv, StartMap(page, target, flags)
  PROVE  PagingInv'
<1>1. /\ UNCHANGED <<memory, avail, others, fresh, tlb>> /\ call = Idle
      /\ call' = [op |-> "map", page |-> page, target |-> target, flags |-> flags,
                  level |-> 1, table |-> Root]
  BY DEF StartMap
<1>2. TreeInv' /\ TypeOK
  BY <1>1, QuietTree DEF PagingInv
<1>3. TypeOK'
  <2>1. DOMAIN memory = Frames \cup DOMAIN BootTables
    BY <1>2, Zenon DEF TypeOK
  <2>2. Root \in DOMAIN memory /\ 1 \in Levels
    BY <2>1, PagingAssumption DEF Levels
  <2>3. CallTyped'
    BY <1>1, <2>2 DEF CallTyped
  <2>4. TlbTyped' /\ FreshTyped' /\ IsMemory(memory)'
    BY <1>1, <1>2, Types DEF TlbTyped, FreshTyped, IsMemory
  <2>. QED  BY <1>1, <1>2, <2>3, <2>4, Types DEF TypeOK, CallTyped, TlbTyped, FreshTyped, IsMemory
<1>4. OnItsWay'
  <2>1. Reach(memory', page, 0) = {Link(Root, Rights)}
    BY ReachStep
  <2>2. Link(Root, Rights).kind = "link" /\ Link(Root, Rights).frame = Root
    BY DEF Link
  <2>3. Root \in TablesIn(memory', page, 0)
    BY <2>1, <2>2, TableOf
  <2>. QED  BY <1>1, <2>3 DEF OnItsWay, Tables
<1>5. TlbCoherent'
  <2>1. call.op # "flush" /\ KeepsTranslations
    BY <1>1 DEF Idle, KeepsTranslations
  <2>. QED  BY <1>1, <2>1, TlbKept
<1>6. FreshWanted'
  BY <1>1 DEF PagingInv, FreshWanted, Mapping, Idle
<1>. QED
  BY <1>2, <1>3, <1>4, <1>5, <1>6 DEF PagingInv

(* A call gives up, or has done its work: it goes on to the flush.         *)
LEMMA FinishStep ==
  ASSUME PagingInv, Mapping, Finish, tlb' = tlb, fresh = {}, fresh' = {},
         IsMemory(memory'), avail' \subseteq Frames, others' \subseteq Frames,
         TreeInv', KeepsTranslations
  PROVE  PagingInv'
<1>1. call' = [op |-> "flush", page |-> call.page] /\ call.page \in Pages /\ call.op # "flush"
  BY MappingAt DEF Finish, Mapping
<1>2. CallTyped' /\ OnItsWay' /\ FreshWanted' /\ FreshTyped'
  BY <1>1 DEF CallTyped, OnItsWay, FreshWanted, FreshTyped
<1>3. TlbTyped'
  BY Types DEF PagingInv, TlbTyped
<1>4. TypeOK'
  BY <1>2, <1>3 DEF TypeOK, CallTyped, TlbTyped, FreshTyped, IsMemory
<1>5. TlbCoherent'
  BY <1>1, TlbKept
<1>. QED
  BY <1>2, <1>4, <1>5 DEF PagingInv

(* A call goes down a level.                                               *)
LEMMA DownStep ==
  ASSUME NEW f, PagingInv, Mapping, Down(f), call.level <= Depth, f \in DOMAIN memory, tlb' = tlb, fresh' = {},
         IsMemory(memory'), DOMAIN memory' = DOMAIN memory,
         avail' \subseteq Frames, others' \subseteq Frames,
         TreeInv', OnItsWay', KeepsTranslations
  PROVE  PagingInv'
<1>1. call \in [op : {"map"}, page : Pages, target : Targets, flags : Permissions,
                level : Levels, table : DOMAIN memory]
  BY MapTyped DEF PagingInv
<1>2. call.level + 1 \in Levels
  BY <1>1, PagingAssumption DEF Levels
<1>3. call' \in [op : {"map"}, page : Pages, target : Targets, flags : Permissions,
                 level : Levels, table : DOMAIN memory']
  BY <1>1, <1>2 DEF Down
<1>4. TlbTyped'
  BY Types DEF PagingInv, TlbTyped
<1>5. TypeOK' /\ FreshWanted'
  BY <1>3, <1>4 DEF TypeOK, TlbTyped, IsMemory, FreshWanted
<1>6. TlbCoherent'
  <2>1. call.op # "flush"
    BY DEF Mapping
  <2>. QED  BY <2>1, TlbKept
<1>. QED
  BY <1>5, <1>6 DEF PagingInv

LEMMA FollowEntryStep ==
  PagingInv /\ FollowEntry => PagingInv'
<1>. SUFFICES ASSUME PagingInv, FollowEntry PROVE PagingInv'
  OBVIOUS
<1>1. /\ UNCHANGED <<memory, avail, others, fresh, tlb>> /\ Mapping /\ call.level <= Depth
      /\ Current.kind # "absent" /\ fresh = {}
  BY DEF FollowEntry, PagingInv, FreshWanted, Absent
<1>2. /\ TreeInv' /\ IsMemory(memory') /\ DOMAIN memory' = DOMAIN memory
      /\ avail' \subseteq Frames /\ others' \subseteq Frames
  BY <1>1, QuietTree, Types DEF PagingInv, IsMemory
<1>3. KeepsTranslations
  BY <1>1 DEF KeepsTranslations
<1>4. CASE Current.kind = "huge"
  BY <1>1, <1>2, <1>3, <1>4, FinishStep DEF FollowEntry
<1>5. CASE Current.kind # "huge"
  <2>. DEFINE g == Current.frame
  <2>1. Down(g) /\ g \in Tables(call.page, call.level) /\ g \in DOMAIN memory
    BY <1>1, <1>5, Descend DEF FollowEntry
  <2>2. OnItsWay'
    <3>1. call \in [op : {"map"}, page : Pages, target : Targets, flags : Permissions,
                    level : Levels, table : DOMAIN memory]
      BY <1>1, MapTyped DEF PagingInv
    <3>. HIDE DEF g
    <3>2. call'.table = g /\ call'.page = call.page /\ call'.level - 1 = call.level
      BY <2>1, <3>1 DEF Down, Levels
    <3>. QED  BY <1>1, <2>1, <3>2 DEF OnItsWay, Tables
  <2>. HIDE DEF g
  <2>. QED  BY <1>1, <1>2, <1>3, <2>1, <2>2, DownStep
<1>. QED
  BY <1>4, <1>5

(* The two ways a table is not had: no frame is free, or frame 0 is given. *)
LEMMA NoTableStep ==
  ASSUME PagingInv, Mapping, Finish, fresh = {}, UNCHANGED <<memory, others, fresh, tlb>>,
         avail' = avail \/ avail' = avail \ {0}
  PROVE  PagingInv'
<1>1. IsMemory(memory') /\ avail' \subseteq Frames /\ others' \subseteq Frames
  BY Types DEF PagingInv, IsMemory
<1>2. KeepsTranslations
  BY DEF KeepsTranslations
<1>3. TreeInv'
  <2>1. Used \subseteq Used'
    BY DEF Used
  <2>2. Within(memory, Used) /\ OneWay(memory) /\ NoFrameLost /\ LargeStays /\ OneOwner
    BY DEF PagingInv, TreeInv
  <2>3. Within(memory', Used')
    BY <2>1, <2>2 DEF Within
  <2>4. NoFrameLost' /\ OneOwner'
    BY <2>2 DEF NoFrameLost, OneOwner, AllTables, Tables
  <2>. QED  BY <2>2, <2>3, <2>4 DEF TreeInv, LargeStays
<1>. QED
  BY <1>1, <1>2, <1>3, FinishStep

(* A frame changes hands, and the call stays where it is.                  *)
LEMMA FrameTakenStep ==
  ASSUME NEW f \in avail, PagingInv, Mapping, call.level <= Depth, Current.kind = "absent",
         fresh = {}, fresh' = {f}, avail' = avail \ {f}, UNCHANGED <<memory, others, call, tlb>>
  PROVE  PagingInv'
<1>1. Used' = Used
  BY DEF Used
<1>2. TreeInv'
  <2>1. Within(memory, Used) /\ OneWay(memory) /\ NoFrameLost /\ LargeStays /\ OneOwner
    BY DEF PagingInv, TreeInv
  <2>2. NoFrameLost' /\ OneOwner'
    BY <2>1 DEF NoFrameLost, OneOwner, AllTables, Tables
  <2>. QED  BY <1>1, <2>1, <2>2 DEF TreeInv, LargeStays
<1>3. Current = Absent
  BY MappingAt DEF IsEntry
<1>4. OnItsWay' /\ FreshWanted' /\ TlbCoherent'
  BY <1>3 DEF PagingInv, OnItsWay, Tables, FreshWanted, Mapping, Current, TlbCoherent
<1>5. TypeOK'
  <2>1. IsMemory(memory') /\ CallTyped' /\ TlbTyped' /\ avail \subseteq Frames /\ others' \subseteq Frames
    BY Types DEF PagingInv, IsMemory, CallTyped, TlbTyped
  <2>2. FreshTyped' /\ avail' \subseteq Frames
    BY <2>1 DEF FreshTyped
  <2>. QED  BY <2>1, <2>2 DEF TypeOK, CallTyped, TlbTyped, FreshTyped, IsMemory
<1>. QED
  BY <1>2, <1>4, <1>5 DEF PagingInv

LEMMA TakeTableStep ==
  PagingInv /\ TakeTable => PagingInv'
<1>. SUFFICES ASSUME PagingInv, TakeTable PROVE PagingInv'
  OBVIOUS
<1>1. CASE avail = {} /\ Finish /\ UNCHANGED <<avail, fresh>>
  BY <1>1, NoTableStep DEF TakeTable
<1>2. ASSUME NEW f \in avail, avail' = avail \ {f}, f = 0, Finish, UNCHANGED fresh
      PROVE  PagingInv'
  BY <1>2, NoTableStep DEF TakeTable
<1>3. ASSUME NEW f \in avail, avail' = avail \ {f}, fresh' = {f}, UNCHANGED call
      PROVE  PagingInv'
  BY <1>3, FrameTakenStep DEF TakeTable
<1>. QED
  BY <1>1, <1>2, <1>3 DEF TakeTable

LEMMA LinkTableAdds ==
  ASSUME PagingInv, LinkTable
  PROVE  \E f : AddsTable(f)
<1>1. PICK f \in fresh :
        /\ memory' = [memory EXCEPT ![f] = Zeroed,
                                    ![call.table][call.page[call.level]] = Link(f, Rights)]
        /\ Down(f)
  BY DEF LinkTable
<1>2. fresh = {f}
  BY <1>1 DEF PagingInv, TypeOK
<1>3. Mapping /\ call.level <= Depth /\ Current = Absent
  BY <1>2 DEF PagingInv, FreshWanted
<1>4. AddsTable(f)
  BY <1>1, <1>2, <1>3 DEF LinkTable, AddsTable
<1>. QED
  BY <1>4

LEMMA LinkTableStep ==
  PagingInv /\ LinkTable => PagingInv'
<1>. SUFFICES ASSUME PagingInv, LinkTable PROVE PagingInv'
  OBVIOUS
<1>1. PICK f : AddsTable(f)
  BY LinkTableAdds
<1>2. /\ IsMemory(memory') /\ DOMAIN memory' = DOMAIN memory /\ f \in DOMAIN memory
      /\ TreeInv' /\ OnItsWay'
  BY <1>1, AddTableWrites, AddTableTree
<1>3. KeepsTranslations
  BY <1>1, AddTableTranslations DEF KeepsTranslations
<1>4. avail' \subseteq Frames /\ others' \subseteq Frames
  BY <1>1, Types DEF PagingInv, AddsTable
<1>5. Mapping /\ Down(f) /\ call.level <= Depth /\ tlb' = tlb /\ fresh' = {}
  BY <1>1 DEF AddsTable
<1>. QED
  BY <1>2, <1>3, <1>4, <1>5, DownStep

LEMMA InstallLeafStep ==
  PagingInv /\ InstallLeaf => PagingInv'
<1>. SUFFICES ASSUME PagingInv, InstallLeaf PROVE PagingInv'
  OBVIOUS
<1>1. Mapping /\ Finish /\ UNCHANGED <<avail, others, fresh, tlb>>
  BY DEF InstallLeaf
<1>0. fresh = {}
  BY PagingAssumption DEF InstallLeaf, PagingInv, FreshWanted
<1>2. avail' \subseteq Frames /\ others' \subseteq Frames
  BY <1>1, Types DEF PagingInv
<1>3. CASE InstallsLeaf
  <2>1. IsMemory(memory') /\ LeafWritten(call.page, call.table)
    BY <1>3, InstallWrites
  <2>2. TreeInv' /\ \A p \in Pages : p # call.page => Translate(memory', p) = Translate(memory, p)
    BY <1>1, <2>1, LeafTree
  <2>3. KeepsTranslations
    BY <1>3, <2>2, InstallTranslation DEF KeepsTranslations
  <2>. QED  BY <1>0, <1>1, <1>2, <2>1, <2>2, <2>3, FinishStep
<1>4. CASE UNCHANGED memory
  <2>1. TreeInv' /\ IsMemory(memory')
    BY <1>1, <1>4, QuietTree, Types DEF PagingInv, IsMemory
  <2>2. KeepsTranslations
    BY <1>4 DEF KeepsTranslations
  <2>. QED  BY <1>0, <1>1, <1>2, <2>1, <2>2, FinishStep
<1>. QED
  BY <1>3, <1>4 DEF InstallLeaf, InstallsLeaf

LEMMA UnmapLeafStep ==
  ASSUME NEW page \in Pages, PagingInv, UnmapLeaf(page)
  PROVE  PagingInv'
<1>1. /\ call = Idle /\ call' = [op |-> "flush", page |-> page]
      /\ UNCHANGED <<avail, others, fresh, tlb>>
  BY DEF UnmapLeaf
<1>2. IsMemory(memory')
  BY UnmapWrites
<1>3. TreeInv' /\ KeepsTranslations
  <2>1. CASE memory' = memory
    BY <1>1, <2>1, QuietTree DEF PagingInv, KeepsTranslations
  <2>2. CASE \E t : LeafWritten(page, t) /\ memory'[t][page[Depth + 1]] = Absent
    <3>1. PICK t : LeafWritten(page, t)
      BY <2>2
    <3>. QED  BY <1>1, <3>1, LeafTree DEF KeepsTranslations
  <2>. QED  BY <2>1, <2>2, UnmapWrites
<1>4. TypeOK'
  <2>1. CallTyped' /\ TlbTyped' /\ FreshTyped'
    BY <1>1, Types DEF PagingInv, CallTyped, TlbTyped, FreshTyped
  <2>2. avail' \subseteq Frames /\ others' \subseteq Frames
    BY <1>1, Types DEF PagingInv
  <2>. QED  BY <1>2, <2>1, <2>2 DEF TypeOK, CallTyped, TlbTyped, FreshTyped, IsMemory
<1>5. TlbCoherent'
  <2>1. call.op # "flush"
    BY <1>1 DEF Idle
  <2>. QED  BY <1>1, <1>3, <2>1, TlbKept
<1>6. OnItsWay' /\ FreshWanted'
  BY <1>1 DEF PagingInv, OnItsWay, FreshWanted, Mapping, Idle
<1>. QED
  BY <1>3, <1>4, <1>5, <1>6 DEF PagingInv

LEMMA FlushTlbStep ==
  PagingInv /\ FlushTlb => PagingInv'
<1>. SUFFICES ASSUME PagingInv, FlushTlb PROVE PagingInv'
  OBVIOUS
<1>1. /\ call.op = "flush" /\ call' = Idle /\ tlb' = {t \in tlb : t.page # call.page}
      /\ UNCHANGED <<memory, avail, others, fresh>>
  BY DEF FlushTlb
<1>2. TreeInv' /\ IsMemory(memory') /\ avail' \subseteq Frames /\ others' \subseteq Frames
  BY <1>1, QuietTree, Types DEF PagingInv, IsMemory
<1>3. TlbTyped' /\ FreshTyped'
  BY <1>1, Types DEF PagingInv, TlbTyped, FreshTyped
<1>4. TlbCoherent'
  BY <1>1 DEF PagingInv, TlbCoherent
<1>5. CallTyped' /\ OnItsWay' /\ FreshWanted'
  BY <1>1 DEF PagingInv, CallTyped, OnItsWay, FreshWanted, Mapping, Idle
<1>6. TypeOK'
  BY <1>2, <1>3, <1>5 DEF TypeOK, CallTyped, TlbTyped, FreshTyped, IsMemory
<1>. QED
  BY <1>2, <1>4, <1>5, <1>6 DEF PagingInv

LEMMA TlbFillStep ==
  ASSUME NEW page \in Pages, PagingInv, TlbFill(page)
  PROVE  PagingInv'
<1>1. PICK x \in Translate(memory, page) : tlb' = {[page |-> page, to |-> x]}
  BY DEF TlbFill
<1>2. UNCHANGED <<memory, avail, others, fresh, call>>
  BY DEF TlbFill
<1>3. /\ TreeInv' /\ IsMemory(memory') /\ avail' \subseteq Frames /\ others' \subseteq Frames
      /\ CallTyped' /\ FreshTyped' /\ OnItsWay' /\ FreshWanted'
  BY <1>2, QuietTree, Types
     DEF PagingInv, IsMemory, CallTyped, FreshTyped, OnItsWay, FreshWanted, Mapping, Current, Tables
<1>4. Translate(memory, page) = {x}
  <2>1. AtMostOne(Reach(memory, page, Depth + 1))
    BY OnePlace, PagingAssumption
  <2>2. Reach(memory, page, Depth + 1) # {}
    BY <1>1 DEF Translate
  <2>3. PICK e : Reach(memory, page, Depth + 1) = {e}
    BY <2>1, <2>2 DEF AtMostOne
  <2>4. Translate(memory, page) = {[frame |-> e.frame, flags |-> e.flags]}
    BY <2>3, TranslateOne
  <2>. QED  BY <1>1, <2>4
<1>5. TlbTyped' /\ TlbCoherent'
  BY <1>1, <1>2, <1>4 DEF TlbTyped, TlbCoherent
<1>6. TypeOK'
  BY <1>3, <1>5 DEF TypeOK, CallTyped, TlbTyped, FreshTyped, IsMemory
<1>. QED
  BY <1>3, <1>5, <1>6 DEF PagingInv

(* Other clients write to frames that are no tables.                       *)
LEMMA OthersTakeWrites ==
  ASSUME NEW f \in Frames, PagingInv, OthersTake(f)
  PROVE  /\ IsMemory(memory') /\ DOMAIN memory' = DOMAIN memory
         /\ \A g \in Used : memory'[g] = memory[g]
         /\ \A p \in Pages : SameReach(memory, memory', p, Depth + 1)
<1>1. IsMemory(memory) /\ Within(memory, Used)
  BY DEF PagingInv, TypeOK, IsMemory, TreeInv
<1>2. f \in DOMAIN memory
  BY <1>1, Zenon DEF IsMemory
<1>3. f \in avail /\ memory' = [memory EXCEPT ![f] = Garbage]
  BY DEF OthersTake
<1>4. /\ IsMemory(memory') /\ DOMAIN memory' = DOMAIN memory
      /\ \A g \in DOMAIN memory : g # f => memory'[g] = memory[g]
  BY <1>1, <1>2, <1>3, EmptyTables, FrameWritten
<1>5. \A g \in Used : memory'[g] = memory[g]
  BY <1>3, <1>4 DEF Used
<1>6. ASSUME NEW p \in Pages PROVE SameReach(memory, memory', p, Depth + 1)
  BY <1>1, <1>5, OutsideWritten
<1>. QED
  BY <1>4, <1>5, <1>6

(* Frames change hands between the allocator and others.                   *)
LEMMA OthersStep ==
  ASSUME PagingInv, IsMemory(memory'), DOMAIN memory' = DOMAIN memory,
         avail' \cup others' = avail \cup others, avail' \cap others' = {},
         \A g \in Used : memory'[g] = memory[g],
         \A p \in Pages : SameReach(memory, memory', p, Depth + 1), UNCHANGED <<fresh, call, tlb>>
  PROVE  PagingInv'
<1>1. Used' = Used
  BY DEF Used
<1>2. /\ \A p \in Pages : SameReach(memory, memory', p, Depth)
      /\ \A p \in Pages : Reach(memory', p, Depth + 1) = Reach(memory, p, Depth + 1)
  BY PagingAssumption DEF SameReach
<1>3. /\ Within(memory, Used) => Within(memory', Used)
      /\ \A p \in Pages, n \in 0 .. Depth : TablesIn(memory', p, n) = TablesIn(memory, p, n)
      /\ OneWay(memory) => OneWay(memory')
  BY <1>2, TablesKept
<1>4. NoFrameLost'
  <2>1. \A x \in AllTables : x \in AllTables'
    BY <1>3 DEF AllTables, Tables
  <2>2. NoFrameLost
    BY DEF PagingInv, TreeInv
  <2>. QED  BY <2>1, <2>2 DEF NoFrameLost
<1>5. LargeStays'
  <2>1. \A p \in Large : p \in Pages
    BY DEF Large
  <2>2. Depth \in 0 .. Depth
    BY PagingAssumption
  <2>. QED  BY <1>2, <2>1, <2>2 DEF SameReach, PagingInv, TreeInv, LargeStays
<1>6. TreeInv'
  BY <1>1, <1>3, <1>4, <1>5 DEF PagingInv, TreeInv, OneOwner
<1>7. OnItsWay'
  <2>1. SUFFICES ASSUME Mapping PROVE call.table \in TablesIn(memory', call.page, call.level - 1)
    BY DEF OnItsWay, Mapping, Tables
  <2>. QED  BY <1>3, <2>1, MappingAt DEF Tables
<1>8. KeepsTranslations
  BY <1>2 DEF KeepsTranslations, Translate
<1>9. TlbCoherent'
  BY <1>8, TlbKept
<1>10. TypeOK'
  <2>1. CallTyped' /\ TlbTyped' /\ FreshTyped'
    BY Types DEF PagingInv, CallTyped, TlbTyped, FreshTyped
  <2>2. avail' \subseteq Frames /\ others' \subseteq Frames
    BY Types DEF PagingInv
  <2>. QED  BY <2>1, <2>2 DEF TypeOK, CallTyped, TlbTyped, FreshTyped, IsMemory
<1>11. FreshWanted'
  <2>1. SUFFICES ASSUME fresh # {} PROVE FreshWanted'
    BY DEF FreshWanted
  <2>2. Mapping /\ call.level <= Depth /\ Current = Absent
    BY <2>1 DEF PagingInv, FreshWanted
  <2>3. call.table \in Used
    BY <2>2, MappingAt
  <2>. QED  BY <2>2, <2>3 DEF FreshWanted, Mapping, Current
<1>. QED
  BY <1>6, <1>7, <1>9, <1>10, <1>11 DEF PagingInv

LEMMA NextPaging ==
  PagingInv /\ [Next]_vars => PagingInv'
<1>. SUFFICES ASSUME PagingInv, [Next]_vars PROVE PagingInv'
  OBVIOUS
<1>1. CASE UNCHANGED vars
  <2>1. UNCHANGED <<memory, avail, others, fresh, call, tlb>>
    BY <1>1 DEF vars
  <2>2. TreeInv'
    BY <2>1, QuietTree DEF PagingInv
  <2>3. TypeOK' /\ OnItsWay' /\ FreshWanted' /\ TlbCoherent'
    BY <2>1 DEF PagingInv, TypeOK, OnItsWay, Tables, FreshWanted, Mapping, Current, TlbCoherent
  <2>. QED  BY <2>2, <2>3 DEF PagingInv
<1>2. ASSUME NEW page \in Pages, NEW target \in Targets, NEW flags \in Permissions,
             StartMap(page, target, flags)
      PROVE  PagingInv'
  BY <1>2, StartMapStep
<1>3. ASSUME NEW page \in Pages, UnmapLeaf(page) \/ TlbFill(page) PROVE PagingInv'
  BY <1>3, UnmapLeafStep, TlbFillStep
<1>4. ASSUME NEW f \in Frames, OthersTake(f) PROVE PagingInv'
  <2>1. f \in avail /\ avail' = avail \ {f} /\ others' = others \cup {f}
        /\ UNCHANGED <<fresh, call, tlb>>
    BY <1>4 DEF OthersTake
  <2>2. avail' \cup others' = avail \cup others /\ avail' \cap others' = {}
    BY <2>1 DEF PagingInv, TreeInv, OneOwner
  <2>. QED  BY <1>4, <2>1, <2>2, OthersTakeWrites, OthersStep
<1>5. ASSUME NEW f \in Frames, OthersReturn(f) PROVE PagingInv'
  <2>1. f \in others /\ avail' = avail \cup {f} /\ others' = others \ {f}
        /\ UNCHANGED <<memory, fresh, call, tlb>>
    BY <1>5 DEF OthersReturn
  <2>2. avail' \cup others' = avail \cup others /\ avail' \cap others' = {}
    BY <2>1 DEF PagingInv, TreeInv, OneOwner
  <2>3. IsMemory(memory') /\ \A p \in Pages : SameReach(memory, memory', p, Depth + 1)
    BY <2>1, Types DEF PagingInv, IsMemory, SameReach
  <2>. QED  BY <2>1, <2>2, <2>3, OthersStep
<1>. QED
  BY <1>1, <1>2, <1>3, <1>4, <1>5, FollowEntryStep, TakeTableStep,
     LinkTableStep, InstallLeafStep, FlushTlbStep DEF Next

LEMMA PagingInvariance ==
  Spec => []PagingInv
BY InitPaging, NextPaging, PTL DEF Spec

(* A page is the sequence of its indices.                                  *)
LEMMA SamePrefix ==
  ASSUME NEW p \in Pages, NEW q \in Pages, NEW n \in 0 .. Depth, \A i \in 1 .. n : p[i] = q[i]
  PROVE  SubSeq(p, 1, n) = SubSeq(q, 1, n)
<1>1. /\ p \in Seq(Indices) /\ q \in Seq(Indices) /\ Len(p) = Depth + 1 /\ Len(q) = Depth + 1
  BY PagingAssumption DEF Levels
<1>2. /\ SubSeq(p, 1, n) = [i \in 1 .. n |-> p[i]]
      /\ SubSeq(q, 1, n) = [i \in 1 .. n |-> q[i]]
  BY <1>1, PagingAssumption
<1>. QED
  BY <1>2

(* A frame in use as a table, or taken to be one, is neither free nor      *)
(* another client's, and one entry links it; a map that fails half-way     *)
(* loses no frame but frame 0.                                             *)
THEOREM TablesBelong == Spec => []TablesOwned
<1>1. PagingInv => TablesOwned
  <2>. SUFFICES ASSUME PagingInv PROVE TablesOwned
    OBVIOUS
  <2>1. AllTables \cap (avail \cup others \cup fresh) = {}
    <3>1. ASSUME NEW p \in Pages, NEW n \in 0 .. Depth, NEW t \in Tables(p, n) PROVE t \in Used
      BY TableOf DEF Tables, PagingInv, TreeInv, Within
    <3>. QED  BY <3>1 DEF AllTables, Used
  <2>2. OneOwner /\ Frames \ {0} \subseteq avail \cup others \cup fresh \cup AllTables
    BY DEF PagingInv, TreeInv, NoFrameLost
  <2>3. ASSUME NEW p \in Pages, NEW q \in Pages, NEW n \in 0 .. Depth, NEW m \in 0 .. Depth,
               Tables(p, n) \cap Tables(q, m) # {}
        PROVE  SubSeq(p, 1, n) = SubSeq(q, 1, m)
    <3>1. n = m /\ \A i \in 1 .. n : p[i] = q[i]
      BY <2>3 DEF Tables, PagingInv, TreeInv, OneWay
    <3>. QED  BY <3>1, SamePrefix
  <2>. QED  BY <2>1, <2>2, <2>3 DEF TablesOwned, OneOwner, AllTables
<1>. QED
  BY <1>1, PagingInvariance, PTL

(* The TLB answers with a translation that is gone only for the page whose *)
(* unmap has not flushed it yet.                                           *)
THEOREM TlbCorrect == Spec => []TlbCoherent
<1>1. PagingInv => TlbCoherent
  BY DEF PagingInv
<1>. QED
  BY <1>1, PagingInvariance, PTL

(***************************************************************************)
(* The refinement.                                                         *)
(***************************************************************************)

LEMMA SameMappings ==
  ASSUME \A p \in Pages : Translate(memory', p) = Translate(memory, p)
  PROVE  Translations(memory)' = Translations(memory)
BY DEF Translations

(* The translation of one page changes.                                    *)
LEMMA OneMapping ==
  ASSUME NEW q \in Pages, NEW x, Translate(memory', q) = x,
         \A p \in Pages : p # q => Translate(memory', p) = Translate(memory, p)
  PROVE  Translations(memory)' = [Translations(memory) EXCEPT ![q] = x]
<1>1. \A p \in Pages : Translate(memory', p) = IF p = q THEN x ELSE Translate(memory, p)
  OBVIOUS
<1>. QED
  BY <1>1 DEF Translations

(* Every step maps to a step of the address space, or to none.             *)
LEMMA SpaceStep ==
  PagingInv /\ [Next]_vars => [Space!Next]_(Translations(memory))
<1>. SUFFICES ASSUME PagingInv, [Next]_vars,
                     ~(\A p \in Pages : Translate(memory', p) = Translate(memory, p))
              PROVE  Space!Next
  BY SameMappings
<1>1. memory' # memory
  OBVIOUS
<1>2. CASE InstallLeaf
  <2>1. InstallsLeaf
    BY <1>1, <1>2 DEF InstallLeaf, InstallsLeaf
  <2>. DEFINE q == call.page
              x == {[frame |-> call.target, flags |-> call.flags]}
  <2>2. /\ q \in Pages /\ call.target \in Targets /\ call.flags \in Permissions
        /\ Translate(memory, q) = {} /\ Translate(memory', q) = x
    BY <2>1, InstallTranslation
  <2>3. \A p \in Pages : p # q => Translate(memory', p) = Translate(memory, p)
    <3>1. LeafWritten(q, call.table) /\ UNCHANGED <<avail, others, fresh>>
      BY <2>1, InstallWrites DEF InstallsLeaf
    <3>. HIDE DEF q
    <3>. QED  BY <3>1, LeafTree
  <2>. HIDE DEF q, x
  <2>4. Translations(memory)' = [Translations(memory) EXCEPT ![q] = x]
    BY <2>2, <2>3, OneMapping
  <2>5. Translations(memory)[q] = {}
    BY <2>2 DEF Translations
  <2>6. Space!Map(q, call.target, call.flags)
    BY <2>4, <2>5 DEF Space!Map, x
  <2>. QED  BY <2>2, <2>6 DEF Space!Next
<1>3. ASSUME NEW page \in Pages, UnmapLeaf(page) PROVE Space!Next
  <2>1. PICK t : LeafWritten(page, t) /\ memory'[t][page[Depth + 1]] = Absent
    BY <1>1, <1>3, UnmapWrites
  <2>2. UNCHANGED <<avail, others, fresh>>
    BY <1>3 DEF UnmapLeaf
  <2>3. /\ \A p \in Pages : p # page => Translate(memory', p) = Translate(memory, p)
        /\ t \in TablesIn(memory', page, Depth) /\ Within(memory', Used)
    BY <2>1, <2>2, LeafTree
  <2>4. Translate(memory', page) = {}
    BY <2>1, <2>3, LeafRead
  <2>5. Translations(memory)' = [Translations(memory) EXCEPT ![page] = {}]
    BY <2>3, <2>4, OneMapping
  <2>6. page \notin Large
    <3>1. t \in TablesIn(memory, page, Depth) /\ Depth \in 0 .. Depth + 1
      BY <2>1, PagingAssumption DEF LeafWritten, Tables
    <3>2. PICK u \in Reach(memory, page, Depth) : u.kind = "link"
      BY <3>1, TableOf
    <3>3. AtMostOne(Reach(memory, page, Depth))
      BY <3>1, OnePlace
    <3>4. \A e \in Reach(memory, page, Depth) : e.kind = "link"
      BY <3>2, <3>3 DEF AtMostOne
    <3>. QED  BY <3>4 DEF PagingInv, TreeInv, LargeStays
  <2>7. Space!Unmap(page)
    BY <2>5, <2>6 DEF Space!Unmap
  <2>. QED  BY <2>7 DEF Space!Next
<1>4. CASE LinkTable
  <2>1. PICK f : AddsTable(f)
    BY <1>4, LinkTableAdds
  <2>. QED  BY <2>1, AddTableTranslations
<1>5. ASSUME NEW f \in Frames, OthersTake(f) PROVE FALSE
  <2>1. \A p \in Pages : SameReach(memory, memory', p, Depth + 1)
    BY <1>5, OthersTakeWrites
  <2>2. Depth + 1 \in 0 .. Depth + 1
    BY PagingAssumption
  <2>3. \A p \in Pages : Reach(memory', p, Depth + 1) = Reach(memory, p, Depth + 1)
    BY <2>1, <2>2 DEF SameReach
  <2>. QED  BY <2>3 DEF Translate
<1>6. \/ InstallLeaf \/ LinkTable
      \/ \E page \in Pages : UnmapLeaf(page)
      \/ \E f \in Frames : OthersTake(f)
  BY <1>1 DEF Next, vars, StartMap, FollowEntry, TakeTable, TlbFill, FlushTlb, OthersReturn
<1>. QED
  BY <1>2, <1>3, <1>4, <1>5, <1>6

(* The tables are an address space: a mapping appears and disappears as a  *)
(* whole, with the frame and the rights asked for, and no operation on a   *)
(* page changes another.                                                   *)
THEOREM AddressSpaceImplemented == Spec => ImplementsAddressSpace
<1>1. Init => Space!Init
  BY DEF Init, Space!Init, Translations
<1>. QED
  BY <1>1, PagingInvariance, SpaceStep, PTL DEF Spec, ImplementsAddressSpace, Space!Spec
-------------------------------------------------------------------------------
(***************************************************************************)
(* Context switches.                                                       *)
(***************************************************************************)

Addresses == UNION {Stack(t) : t \in Tasks}
Spaces == {TaskRoot[t] : t \in Tasks} \cup {0, BootCr3}

(* A task's stack pointer, while it runs, leaves room for a switch; while  *)
(* it is suspended, the frame of that switch is above it.                  *)
RunningRange(t) == Top[t] - (StackWords - SAVED_REGS - 1) .. Top[t]
SuspendedRange(t) == Top[t] - StackWords .. Top[t] - (SAVED_REGS + 1)

SwitchInv ==
  /\ DOMAIN stacks = Addresses
  /\ context \in [Tasks -> [rsp : Int, cr3 : Spaces]]
  /\ created \subseteq Tasks /\ current \in created
  /\ regs = [r \in Registers |-> regs[r]]
  /\ rsp \in RunningRange(current)
  /\ \A t \in created \ {current} : Saved(t) \in SuspendedRange(t)
  /\ \A t \in Tasks \ created : Saved(t) = 0
  /\ \A t \in created : context[t].cr3 = TaskRoot[t]
  /\ OwnAddressSpace

(* There are six registers, each at a place of its own.                    *)
LEMMA RegisterPlaces ==
  /\ SAVED_REGS = 6 /\ DOMAIN Pushes = 1 .. 6
  /\ \A i \in 1 .. 6 : Pushes[i] \in Registers
  /\ \A r \in Registers : Place(r) \in 1 .. 6 /\ Pushes[Place(r)] = r
<1>1. SAVED_REGS = 6 /\ DOMAIN Pushes = 1 .. 6
  BY DEF SAVED_REGS, Pushes
<1>2. Registers = {Pushes[i] : i \in 1 .. 6}
  BY <1>1 DEF Registers, ToSet
<1>3. ASSUME NEW r \in Registers PROVE Place(r) \in 1 .. 6 /\ Pushes[Place(r)] = r
  <2>1. \E i \in DOMAIN Pushes : Pushes[i] = r
    BY <1>1, <1>2
  <2>. QED  BY <1>1, <2>1 DEF Place
<1>. QED
  BY <1>1, <1>2, <1>3

LEMMA TaskFacts ==
  ASSUME NEW t \in Tasks
  PROVE  /\ Top[t] \in Nat /\ Top[t] > StackWords /\ StackWords \in Nat /\ StackWords > 6
         /\ Stack(t) \subseteq Addresses
         /\ \A u \in Tasks : u # t => Stack(t) \cap Stack(u) = {}
  BY StackAssumption, RegisterPlaces DEF Addresses

(* What a switch pushes: a place to go on at and the registers.            *)
FrameOf(place, R) == <<place>> \o [i \in 1 .. SAVED_REGS |-> R[Pushes[i]]]

(* What is pushed from sp down is read there, and nothing else changes.    *)
LEMMA PushFacts ==
  ASSUME NEW sp \in Int, NEW place, NEW R,
         R = [r \in Registers |-> R[r]],
         sp - 7 .. sp - 1 \subseteq DOMAIN stacks,
         NEW mem, mem = AfterPush(sp, FrameOf(place, R))
  PROVE  /\ DOMAIN mem = DOMAIN stacks
         /\ PopRegs(mem, sp - 7) = R
         /\ mem[sp - 1] = place
         /\ \A a \in DOMAIN stacks : a \notin sp - 7 .. sp - 1 => mem[a] = stacks[a]
<1>. DEFINE saved == [i \in 1 .. SAVED_REGS |-> R[Pushes[i]]]
            frame == <<place>> \o saved
<1>1. SAVED_REGS = 6
  BY RegisterPlaces
<1>2. Len(frame) = 7 /\ frame[1] = place /\ \A i \in 1 .. 6 : frame[i + 1] = R[Pushes[i]]
  <2>. DEFINE S == {place} \cup {R[Pushes[i]] : i \in 1 .. 6}
  <2>1. saved \in Seq(S) /\ Len(saved) = 6 /\ \A i \in 1 .. 6 : saved[i] = R[Pushes[i]]
    BY <1>1
  <2>2. <<place>> \in Seq(S) /\ Len(<<place>>) = 1 /\ <<place>>[1] = place
    OBVIOUS
  <2>. DEFINE first == <<place>>
  <2>. HIDE DEF S, saved, first
  <2>3. /\ Len(first \o saved) = 7
        /\ \A i \in 1 .. 7 : (first \o saved)[i] = IF i <= 1 THEN first[i] ELSE saved[i - 1]
    <3>1. first \in Seq(S) /\ Len(first) = 1
      BY <2>2 DEF first
    <3>2. /\ Len(first \o saved) = Len(first) + Len(saved)
          /\ \A i \in 1 .. Len(first) + Len(saved) :
               (first \o saved)[i] = IF i <= Len(first) THEN first[i] ELSE saved[i - Len(first)]
      BY <2>1, <3>1, ConcatProperties
    <3>3. Len(first) + Len(saved) = 7
      BY <2>1, <3>1
    <3>4. ASSUME NEW i \in 1 .. 7
          PROVE  (first \o saved)[i] = IF i <= 1 THEN first[i] ELSE saved[i - 1]
      BY ONLY <3>1, <3>2, <3>3, <3>4
    <3>. QED  BY ONLY <3>2, <3>3, <3>4
  <2>4. frame = first \o saved
    BY DEF first
  <2>5. ASSUME NEW i \in 1 .. 6 PROVE (first \o saved)[i + 1] = R[Pushes[i]]
    <3>1. i + 1 \in 1 .. 7 /\ ~(i + 1 <= 1) /\ (i + 1) - 1 = i
      OBVIOUS
    <3>. QED  BY <2>1, <2>3, <3>1
  <2>6. (first \o saved)[1] = place
    BY <2>2, <2>3 DEF first
  <2>. HIDE DEF frame
  <2>. QED  BY <2>3, <2>4, <2>5, <2>6
<1>3. mem = [a \in DOMAIN stacks |-> IF a \in sp - 7 .. sp - 1 THEN frame[sp - a] ELSE stacks[a]]
  <2>1. mem = AfterPush(sp, frame)
    BY DEF FrameOf
  <2>. HIDE DEF frame
  <2>. QED  BY <1>2, <2>1 DEF AfterPush
<1>. HIDE DEF frame
<1>4. ASSUME NEW r \in Registers PROVE mem[sp - 7 + SAVED_REGS - Place(r)] = R[r]
  <2>1. Place(r) \in 1 .. 6 /\ Pushes[Place(r)] = r
    BY RegisterPlaces
  <2>. DEFINE a == sp - 7 + SAVED_REGS - Place(r)
  <2>2. a \in sp - 7 .. sp - 1 /\ sp - a = Place(r) + 1
    BY <1>1, <2>1
  <2>. HIDE DEF a
  <2>3. mem[a] = frame[Place(r) + 1]
    BY <1>3, <2>2
  <2>. QED  BY <1>2, <2>1, <2>3 DEF a
<1>5. PopRegs(mem, sp - 7) = R
  BY <1>4 DEF PopRegs
<1>6. mem[sp - 1] = place
  <2>1. sp - 1 \in sp - 7 .. sp - 1 /\ sp - (sp - 1) = 1
    OBVIOUS
  <2>. QED  BY <1>2, <1>3, <2>1
<1>. QED
  BY <1>3, <1>5, <1>6

(* What a suspended task's stack says of it.                               *)
Frozen(mem, sp, top) ==
  [regs |-> PopRegs(mem, sp), rip |-> mem[sp + SAVED_REGS],
   calls |-> Words(mem, sp + SAVED_REGS + 1, top - (sp + SAVED_REGS + 1))]

(* It says the same as long as its words are the same.                     *)
LEMMA FrozenSame ==
  ASSUME NEW mem1, NEW mem2, NEW sp \in Int, NEW top \in Int, sp + 7 <= top,
         \A a \in sp .. top - 1 : mem1[a] = mem2[a]
  PROVE  Frozen(mem1, sp, top) = Frozen(mem2, sp, top)
<1>1. SAVED_REGS = 6 /\ \A r \in Registers : Place(r) \in 1 .. 6
  BY RegisterPlaces
<1>2. PopRegs(mem1, sp) = PopRegs(mem2, sp)
  <2>1. \A r \in Registers : sp + SAVED_REGS - Place(r) \in sp .. top - 1
    BY <1>1
  <2>. QED  BY <2>1 DEF PopRegs
<1>3. mem1[sp + SAVED_REGS] = mem2[sp + SAVED_REGS]
  <2>1. sp + SAVED_REGS \in sp .. top - 1
    BY <1>1
  <2>. QED  BY <2>1
<1>4. Words(mem1, sp + SAVED_REGS + 1, top - (sp + SAVED_REGS + 1))
        = Words(mem2, sp + SAVED_REGS + 1, top - (sp + SAVED_REGS + 1))
  <2>. DEFINE n == top - (sp + SAVED_REGS + 1)
  <2>1. \A i \in 1 .. n : sp + SAVED_REGS + 1 + i - 1 \in sp .. top - 1
    BY <1>1
  <2>. QED  BY <2>1 DEF Words
<1>. QED
  BY <1>2, <1>3, <1>4 DEF Frozen

(* A suspended task's words are on its stack.                              *)
LEMMA SuspendedFacts ==
  ASSUME SwitchInv, NEW t \in created, t # current
  PROVE  /\ t \in Tasks /\ Saved(t) \in Int /\ Saved(t) # 0 /\ Top[t] \in Int
         /\ Saved(t) + 7 <= Top[t]
         /\ Saved(t) .. Top[t] - 1 \subseteq Stack(t)
         /\ Suspended(t) = Frozen(stacks, Saved(t), Top[t])
<1>1. t \in Tasks /\ Saved(t) \in SuspendedRange(t)
  BY DEF SwitchInv
<1>. QED
  BY <1>1, TaskFacts, RegisterPlaces DEF SuspendedRange, Stack, Suspended, Frozen

(* The running task has room below for a switch.                           *)
LEMMA RunningFacts ==
  ASSUME SwitchInv
  PROVE  /\ current \in Tasks /\ rsp \in Int /\ Top[current] \in Int /\ rsp <= Top[current]
         /\ rsp - 7 \in SuspendedRange(current)
         /\ rsp - 7 .. Top[current] - 1 \subseteq Stack(current)
         /\ rsp - 7 .. rsp - 1 \subseteq Addresses
<1>1. current \in Tasks /\ rsp \in RunningRange(current)
  BY DEF SwitchInv
<1>. QED
  BY <1>1, TaskFacts, RegisterPlaces DEF RunningRange, SuspendedRange, Stack, Addresses

(* What a switch does, in terms of frozen stacks.                          *)
LEMMA SwitchFacts ==
  ASSUME SwitchInv, NEW next \in Tasks, SwitchTo(next)
  PROVE  LET sp == IF next = current THEN rsp - 7 ELSE Saved(next)
         IN  /\ next \in created
             /\ DOMAIN stacks' = Addresses
             /\ \A a \in Addresses : a \notin rsp - 7 .. rsp - 1 => stacks'[a] = stacks[a]
             /\ Frozen(stacks', rsp - 7, Top[current]) = Running
             /\ context' = [context EXCEPT ![current].rsp = rsp - 7]
             /\ regs' = PopRegs(stacks', sp) /\ rip' = stacks'[sp + 6] /\ rsp' = sp + 7
             /\ cr3' = TaskRoot[next] /\ current' = next /\ created' = created
<1>. DEFINE frame == FrameOf(rip, regs)
            saved == rsp - (SAVED_REGS + 1)
            sp == IF next = current THEN rsp - 7 ELSE Saved(next)
<1>1. SAVED_REGS = 6
  BY RegisterPlaces
<1>2. next \in created
  BY DEF SwitchInv, SwitchTo, Saved
<1>4. rsp \in Int /\ rsp - 7 .. rsp - 1 \subseteq DOMAIN stacks /\ DOMAIN stacks = Addresses
  BY RunningFacts DEF SwitchInv
<1>3. /\ stacks' = AfterPush(rsp, frame)
      /\ context' = [context EXCEPT ![current].rsp = rsp - 7]
      /\ regs' = PopRegs(stacks', sp) /\ rip' = stacks'[sp + 6] /\ rsp' = sp + 7
      /\ cr3' = context[next].cr3 /\ current' = next /\ created' = created
  <2>1. saved = rsp - 7 /\ sp = IF next = current THEN saved ELSE context[next].rsp
    BY <1>1, <1>4 DEF Saved
  <2>2. /\ stacks' = AfterPush(rsp, frame)
        /\ context' = [context EXCEPT ![current].rsp = saved]
        /\ cr3' = context[next].cr3 /\ current' = next /\ created' = created
    BY DEF SwitchTo, FrameOf
  <2>3. /\ regs' = PopRegs(stacks', sp) /\ rip' = stacks'[sp + SAVED_REGS]
        /\ rsp' = sp + SAVED_REGS + 1
    BY <2>1 DEF SwitchTo
  <2>4. sp \in Int
    BY <1>2, <1>4, TaskFacts DEF SwitchInv, Saved
  <2>. HIDE DEF sp, saved, frame
  <2>. QED  BY <1>1, <2>1, <2>2, <2>3, <2>4
<1>5. regs = [r \in Registers |-> regs[r]]
  BY DEF SwitchInv
<1>. HIDE DEF sp
<1>6. /\ DOMAIN stacks' = Addresses
      /\ PopRegs(stacks', rsp - 7) = regs /\ stacks'[rsp - 1] = rip
      /\ \A a \in Addresses : a \notin rsp - 7 .. rsp - 1 => stacks'[a] = stacks[a]
  BY <1>3, <1>4, <1>5, PushFacts
<1>7. Frozen(stacks', rsp - 7, Top[current]) = Running
  <2>1. rsp - 7 + SAVED_REGS = rsp - 1 /\ rsp - 7 + SAVED_REGS + 1 = rsp
    BY <1>1, <1>4
  <2>. DEFINE n == Top[current] - rsp
  <2>2. \A i \in 1 .. n : rsp + i - 1 \in Addresses /\ rsp + i - 1 \notin rsp - 7 .. rsp - 1
    BY RunningFacts, TaskFacts
  <2>3. Words(stacks', rsp, n) = Words(stacks, rsp, n)
    BY <1>6, <2>2 DEF Words
  <2>. QED  BY <1>6, <2>1, <2>3 DEF Frozen, Running
<1>8. cr3' = TaskRoot[next]
  BY <1>2, <1>3 DEF SwitchInv
<1>. QED
  BY <1>2, <1>3, <1>6, <1>7, <1>8 DEF sp

(***************************************************************************)
(* The invariant.                                                          *)
(***************************************************************************)

LEMMA InitSwitch == BootCr3 = TaskRoot[Boot] /\ SwitchInit => SwitchInv
<1>. SUFFICES ASSUME BootCr3 = TaskRoot[Boot], SwitchInit PROVE SwitchInv
  OBVIOUS
<1>1. Boot \in Tasks
  BY StackAssumption
<1>2. rsp \in RunningRange(current)
  BY <1>1, TaskFacts, RegisterPlaces DEF SwitchInit, RunningRange
<1>. QED
  BY <1>1, <1>2 DEF SwitchInit, SwitchInv, Addresses, Spaces, Zeros, Saved, OwnAddressSpace

LEMMA CreateStep ==
  ASSUME SwitchInv, NEW t \in Tasks, InitKernelTask(t)
  PROVE  /\ SwitchInv'
         /\ \A a \in Addresses : a \notin Stack(t) => stacks'[a] = stacks[a]
         /\ Suspended(t)' = [regs |-> Zeros, rip |-> Entry[t], calls |-> <<>>]
<1>1. SAVED_REGS = 6
  BY RegisterPlaces
<1>2. t \notin created /\ t # current
  BY DEF InitKernelTask, SwitchInv
<1>3. Top[t] - 7 .. Top[t] - 1 \subseteq Stack(t) /\ Top[t] \in Int /\ Stack(t) \subseteq Addresses
  BY TaskFacts DEF Stack
<1>4. [i \in 1 .. SAVED_REGS |-> 0] = [i \in 1 .. SAVED_REGS |-> Zeros[Pushes[i]]]
  BY <1>1, RegisterPlaces DEF Zeros
<1>5. /\ DOMAIN stacks' = Addresses
      /\ PopRegs(stacks', Top[t] - 7) = Zeros /\ stacks'[Top[t] - 1] = Entry[t]
      /\ \A a \in Addresses : a \notin Top[t] - 7 .. Top[t] - 1 => stacks'[a] = stacks[a]
  <2>1. stacks' = AfterPush(Top[t], FrameOf(Entry[t], Zeros)) /\ DOMAIN stacks = Addresses
    BY <1>4 DEF InitKernelTask, SwitchInv, FrameOf
  <2>2. Zeros = [r \in Registers |-> Zeros[r]]
    BY DEF Zeros
  <2>3. Top[t] - 7 .. Top[t] - 1 \subseteq DOMAIN stacks
    BY <1>3, <2>1
  <2>. QED  BY <1>3, <2>1, <2>2, <2>3, PushFacts
<1>6. /\ context' = [context EXCEPT ![t] = [rsp |-> Top[t] - 7, cr3 |-> TaskRoot[t]]]
      /\ created' = created \cup {t} /\ UNCHANGED cpu /\ current' = current
  BY <1>1 DEF InitKernelTask
<1>7. /\ context' \in [Tasks -> [rsp : Int, cr3 : Spaces]]
      /\ context'[t] = [rsp |-> Top[t] - 7, cr3 |-> TaskRoot[t]]
      /\ \A u \in Tasks \ {t} : context'[u] = context[u]
  BY <1>3, <1>6 DEF SwitchInv, Spaces
<1>8. Saved(t)' = Top[t] - 7 /\ \A u \in Tasks \ {t} : context'[u].rsp = Saved(u)
  BY <1>7 DEF Saved
<1>9. \A u \in created' \ {current} : Saved(u)' \in SuspendedRange(u)
  <2>1. Top[t] - 7 \in SuspendedRange(t)
    BY <1>1, TaskFacts DEF SuspendedRange
  <2>. QED  BY <1>6, <1>7, <1>8, <2>1 DEF SwitchInv, Saved
<1>10. SwitchInv'
  BY <1>2, <1>5, <1>6, <1>7, <1>8, <1>9 DEF SwitchInv, cpu, OwnAddressSpace, RunningRange, SuspendedRange, Saved
<1>11. Suspended(t)' = [regs |-> Zeros, rip |-> Entry[t], calls |-> <<>>]
  <2>1. Suspended(t)' = [regs |-> PopRegs(stacks', Top[t] - 7), rip |-> stacks'[Top[t] - 1],
                         calls |-> Words(stacks', Top[t], 0)]
    <3>1. Top[t] - 7 + SAVED_REGS = Top[t] - 1 /\ Top[t] - 7 + SAVED_REGS + 1 = Top[t]
          /\ Top[t] - (Top[t] - 7 + SAVED_REGS + 1) = 0
      BY <1>1, <1>3
    <3>2. Saved(t)' = Top[t] - 7
      BY <1>8
    <3>. QED  BY <3>1, <3>2 DEF Suspended, PopRegs, Words
  <2>2. Words(stacks', Top[t], 0) = <<>>
    BY DEF Words
  <2>. QED  BY <1>5, <2>1, <2>2
<1>. QED
  BY <1>3, <1>5, <1>10, <1>11

(* The running task leaves everything but its own stack and processor alone. *)
LEMMA RunStep ==
  ASSUME SwitchInv, (\E a \in Activities : Compute(a) \/ Call(a)) \/ Return
  PROVE  /\ SwitchInv'
         /\ UNCHANGED <<context, created, current, cr3>>
         /\ \A a \in Addresses : a \notin Stack(current) => stacks'[a] = stacks[a]
<1>1. /\ current \in Tasks /\ rsp \in Int /\ Top[current] \in Int /\ rsp <= Top[current]
      /\ rsp - 1 \in Stack(current)
  <2>1. rsp - 1 \in rsp - 7 .. Top[current] - 1
    BY RunningFacts
  <2>. QED  BY <2>1, RunningFacts
<1>2. UNCHANGED <<context, created, current, cr3>>
  BY DEF Compute, Call, Return
<1>3. ASSUME DOMAIN stacks' = Addresses, regs' = [r \in Registers |-> regs'[r]],
             rsp' \in RunningRange(current)
      PROVE  SwitchInv'
  BY <1>2, <1>3 DEF SwitchInv, OwnAddressSpace, RunningRange, SuspendedRange, Saved
<1>4. ASSUME NEW a \in Activities, Compute(a)
      PROVE  SwitchInv' /\ stacks' = stacks
  <2>1. regs' = [r \in Registers |-> regs'[r]]
    BY <1>4, StackAssumption DEF Compute
  <2>. QED  BY <1>3, <1>4, <2>1 DEF Compute, SwitchInv
<1>5. ASSUME NEW a \in Activities, Call(a)
      PROVE  SwitchInv' /\ \A b \in Addresses : b # rsp - 1 => stacks'[b] = stacks[b]
  <2>1. Len(<<rip>>) = 1
    OBVIOUS
  <2>2. stacks' = AfterPush(rsp, <<rip>>) /\ rsp' = rsp - 1 /\ regs' = regs
        /\ rsp - 1 >= Top[current] - (StackWords - SAVED_REGS - 1)
    BY <1>5 DEF Call
  <2>3. DOMAIN stacks' = Addresses /\ \A b \in Addresses : b \notin rsp - 1 .. rsp - 1 => stacks'[b] = stacks[b]
    BY <2>1, <2>2 DEF AfterPush, SwitchInv
  <2>4. rsp' \in RunningRange(current)
    BY <1>1, <2>2, TaskFacts, RegisterPlaces DEF RunningRange
  <2>5. regs' = [r \in Registers |-> regs'[r]]
    BY <2>2 DEF SwitchInv
  <2>6. \A b \in Addresses : b # rsp - 1 => b \notin rsp - 1 .. rsp - 1
    BY <1>1
  <2>. QED  BY <1>3, <2>3, <2>4, <2>5, <2>6
<1>6. CASE Return
  <2>1. stacks' = stacks /\ regs' = regs /\ rsp' = rsp + 1 /\ rsp < Top[current]
    BY <1>6 DEF Return
  <2>2. rsp' \in RunningRange(current)
    BY <1>1, <2>1, TaskFacts, RegisterPlaces DEF RunningRange, SwitchInv
  <2>3. SwitchInv'
    BY <1>3, <2>1, <2>2 DEF SwitchInv
  <2>. QED  BY <1>2, <2>1, <2>3
<1>. QED
  BY <1>1, <1>2, <1>4, <1>5, <1>6

LEMMA SwitchStep ==
  ASSUME SwitchInv, NEW next \in Tasks, SwitchTo(next)
  PROVE  SwitchInv'
<1>. DEFINE sp == IF next = current THEN rsp - 7 ELSE Saved(next)
<1>1. /\ next \in created /\ DOMAIN stacks' = Addresses
      /\ context' = [context EXCEPT ![current].rsp = rsp - 7]
      /\ regs' = PopRegs(stacks', sp) /\ rsp' = sp + 7
      /\ cr3' = TaskRoot[next] /\ current' = next /\ created' = created
  BY SwitchFacts
<1>2. /\ current \in Tasks /\ current \in created /\ rsp - 7 \in SuspendedRange(current) /\ rsp - 7 \in Int
  BY RunningFacts DEF SwitchInv
<1>3. /\ context' \in [Tasks -> [rsp : Int, cr3 : Spaces]]
      /\ context'[current].rsp = rsp - 7
      /\ \A t \in Tasks : context'[t].cr3 = context[t].cr3
      /\ \A t \in Tasks \ {current} : context'[t].rsp = context[t].rsp
  BY <1>1, <1>2 DEF SwitchInv
<1>4. sp \in SuspendedRange(next)
  BY <1>1, <1>2 DEF SwitchInv
<1>5. rsp' \in RunningRange(next)
  BY <1>1, <1>4, TaskFacts, RegisterPlaces DEF RunningRange, SuspendedRange
<1>6. regs' = [r \in Registers |-> regs'[r]]
  BY <1>1 DEF PopRegs
<1>7. \A t \in created' \ {next} : context'[t].rsp \in SuspendedRange(t)
  BY <1>1, <1>2, <1>3 DEF SwitchInv, Saved
<1>8. \A t \in Tasks \ created' : context'[t].rsp = 0
  BY <1>1, <1>2, <1>3 DEF SwitchInv, Saved
<1>9. \A t \in created' : context'[t].cr3 = TaskRoot[t]
  BY <1>1, <1>3 DEF SwitchInv
<1>10. created' \subseteq Tasks
  BY <1>1 DEF SwitchInv
<1>. HIDE DEF sp
<1>. QED
  BY <1>1, <1>3, <1>5, <1>6, <1>7, <1>8, <1>9, <1>10
     DEF SwitchInv, OwnAddressSpace, RunningRange, SuspendedRange, Saved

LEMMA NextSwitch == SwitchInv /\ [SwitchNext]_switchVars => SwitchInv'
<1>. SUFFICES ASSUME SwitchInv, [SwitchNext]_switchVars PROVE SwitchInv'
  OBVIOUS
<1>1. CASE UNCHANGED switchVars
  BY <1>1 DEF SwitchInv, switchVars, cpu, OwnAddressSpace, RunningRange, SuspendedRange, Saved
<1>. QED
  BY <1>1, CreateStep, RunStep, SwitchStep DEF SwitchNext

LEMMA SwitchInvariance == BootCr3 = TaskRoot[Boot] /\ SwitchSpec => []SwitchInv
  BY InitSwitch, NextSwitch, PTL DEF SwitchSpec

(***************************************************************************)
(* Context switches implement coroutines.                                  *)
(***************************************************************************)

Doing(t) == IF t = current THEN Running ELSE Suspended(t)

LEMMA ThreadsInit == BootCr3 = TaskRoot[Boot] /\ SwitchInit => Threads!Init
<1>. SUFFICES ASSUME BootCr3 = TaskRoot[Boot], SwitchInit PROVE Threads!Init
  OBVIOUS
<1>1. Boot \in Tasks
  BY StackAssumption
<1>2. Top[current] - rsp = 0
  BY <1>1, TaskFacts DEF SwitchInit
<1>3. Running = [regs |-> Zeros, rip |-> Entry[Boot], calls |-> <<>>]
  <2>1. Words(stacks, rsp, 0) = <<>>
    BY DEF Words
  <2>. QED  BY <1>2, <2>1 DEF SwitchInit, Running
<1>. QED
  BY <1>1, <1>3 DEF SwitchInit, Threads!Init

(* A suspended task's stack is its own.                                    *)
LEMMA SuspendedSame ==
  ASSUME SwitchInv, NEW t \in created, t # current, Saved(t)' = Saved(t),
         \A a \in Stack(t) : stacks'[a] = stacks[a]
  PROVE  Suspended(t)' = Suspended(t)
<1>1. /\ Saved(t) \in Int /\ Top[t] \in Int /\ Saved(t) + 7 <= Top[t]
      /\ \A a \in Saved(t) .. Top[t] - 1 : stacks'[a] = stacks[a]
      /\ Suspended(t) = Frozen(stacks, Saved(t), Top[t])
  BY SuspendedFacts
<1>2. Frozen(stacks', Saved(t), Top[t]) = Frozen(stacks, Saved(t), Top[t])
  BY <1>1, FrozenSame
<1>3. Suspended(t)' = Frozen(stacks', Saved(t)', Top[t])
  BY DEF Suspended, Frozen, PopRegs, Words
<1>. QED
  BY <1>1, <1>2, <1>3

LEMMA CreateRefines ==
  ASSUME SwitchInv, NEW t \in Tasks, InitKernelTask(t)
  PROVE  Threads!Create(t)
<1>1. /\ t \notin created /\ created' = created \cup {t} /\ UNCHANGED <<current, cpu>>
      /\ current \in created /\ created \subseteq Tasks
  BY DEF InitKernelTask, SwitchInv
<1>2. ASSUME NEW u \in created PROVE Doing(u)' = Doing(u)
  <2>1. \A a \in Stack(u) : stacks'[a] = stacks[a]
    BY <1>1, CreateStep, TaskFacts
  <2>2. CASE u = current
    <3>1. \A i \in 1 .. Top[current] - rsp : rsp + i - 1 \in Stack(current)
      BY RunningFacts
    <3>2. Words(stacks', rsp, Top[current] - rsp) = Words(stacks, rsp, Top[current] - rsp)
      BY <2>1, <2>2, <3>1 DEF Words
    <3>3. Running' = [regs |-> regs, rip |-> rip, calls |-> Words(stacks', rsp, Top[current] - rsp)]
      BY <1>1 DEF Running, Words, cpu
    <3>. QED  BY <1>1, <2>2, <3>2, <3>3 DEF Doing, Running
  <2>3. CASE u # current
    <3>1. Saved(u)' = Saved(u)
      BY <1>1 DEF InitKernelTask, Saved, SwitchInv
    <3>2. Suspended(u)' = Suspended(u)
      BY <2>1, <2>3, <3>1, SuspendedSame
    <3>. QED  BY <1>1, <2>3, <3>2 DEF Doing
  <2>. QED  BY <2>2, <2>3
<1>3. Doing(t)' = [regs |-> Zeros, rip |-> Entry[t], calls |-> <<>>]
  BY <1>1, CreateStep DEF Doing
<1>. QED
  BY <1>1, <1>2, <1>3 DEF Threads!Create, Doing, cpu

LEMMA RunRefines ==
  ASSUME SwitchInv, (\E a \in Activities : Compute(a) \/ Call(a)) \/ Return
  PROVE  Threads!Run
<1>1. /\ UNCHANGED <<context, created, current, cr3>>
      /\ \A a \in Addresses : a \notin Stack(current) => stacks'[a] = stacks[a]
      /\ current \in created /\ created \subseteq Tasks
  BY RunStep DEF SwitchInv
<1>2. ASSUME NEW t \in created \ {current} PROVE Suspended(t)' = Suspended(t)
  <2>1. \A a \in Stack(t) : stacks'[a] = stacks[a]
    BY <1>1, TaskFacts
  <2>2. Saved(t)' = Saved(t)
    BY <1>1 DEF Saved
  <2>. QED  BY <2>1, <2>2, SuspendedSame
<1>. QED
  BY <1>1, <1>2 DEF Threads!Run

LEMMA SwitchRefines ==
  ASSUME SwitchInv, NEW next \in Tasks, SwitchTo(next)
  PROVE  Threads!Yield(next)
<1>. DEFINE sp == IF next = current THEN rsp - 7 ELSE Saved(next)
<1>1. /\ next \in created
      /\ \A a \in Addresses : a \notin rsp - 7 .. rsp - 1 => stacks'[a] = stacks[a]
      /\ Frozen(stacks', rsp - 7, Top[current]) = Running
      /\ context' = [context EXCEPT ![current].rsp = rsp - 7]
      /\ regs' = PopRegs(stacks', sp) /\ rip' = stacks'[sp + 6] /\ rsp' = sp + 7
      /\ cr3' = TaskRoot[next] /\ current' = next /\ created' = created
  BY SwitchFacts
<1>2. /\ current \in Tasks /\ rsp - 7 .. rsp - 1 \subseteq Stack(current)
      /\ current \in created /\ created \subseteq Tasks /\ rsp \in Int /\ rsp <= Top[current] /\ Top[current] \in Int
  BY RunningFacts DEF SwitchInv
<1>3. context'[current].rsp = rsp - 7 /\ \A t \in Tasks \ {current} : context'[t].rsp = Saved(t)
  BY <1>1, <1>2 DEF SwitchInv, Saved
<1>4. ASSUME NEW t \in created PROVE Frozen(stacks', context'[t].rsp, Top[t]) = Doing(t)
  <2>1. CASE t = current
    BY <1>1, <1>3, <2>1 DEF Doing
  <2>2. CASE t # current
    <3>1. \A a \in Stack(t) : stacks'[a] = stacks[a]
      BY <1>1, <1>2, <2>2, TaskFacts
    <3>2. /\ Saved(t) \in Int /\ Top[t] \in Int /\ Saved(t) + 7 <= Top[t]
          /\ \A a \in Saved(t) .. Top[t] - 1 : stacks'[a] = stacks[a]
          /\ Suspended(t) = Frozen(stacks, Saved(t), Top[t])
      BY <2>2, <3>1, SuspendedFacts
    <3>3. Frozen(stacks', Saved(t), Top[t]) = Frozen(stacks, Saved(t), Top[t])
      BY <3>2, FrozenSame
    <3>4. context'[t].rsp = Saved(t)
      BY <1>2, <1>3, <2>2
    <3>. QED  BY <2>2, <3>2, <3>3, <3>4 DEF Doing
  <2>. QED  BY <2>1, <2>2
<1>5. Running' = Frozen(stacks', sp, Top[next])
  <2>1. SAVED_REGS = 6
    BY RegisterPlaces
  <2>2. Running' = [regs |-> regs', rip |-> rip', calls |-> Words(stacks', rsp', Top[next] - rsp')]
    BY <1>1 DEF Running, Words
  <2>3. sp \in Int
    BY <1>1, <1>2, SuspendedFacts
  <2>. HIDE DEF sp
  <2>4. sp + SAVED_REGS = sp + 6 /\ sp + SAVED_REGS + 1 = sp + 7
    BY <2>1, <2>3
  <2>. QED  BY <1>1, <2>2, <2>4 DEF Frozen
<1>6. sp = context'[next].rsp
  BY <1>1, <1>2, <1>3 DEF Saved
<1>. HIDE DEF sp
<1>7. ASSUME NEW t \in created PROVE Doing(t)' = Doing(t)
  <2>1. CASE t = next
    BY <1>1, <1>4, <1>5, <1>6, <2>1 DEF Doing
  <2>2. CASE t # next
    <3>1. Suspended(t)' = Frozen(stacks', context'[t].rsp, Top[t])
      BY DEF Suspended, Frozen, PopRegs, Words, Saved
    <3>. QED  BY <1>1, <1>4, <2>2, <3>1 DEF Doing
  <2>. QED  BY <2>1, <2>2
<1>. QED
  BY <1>1, <1>7 DEF Threads!Yield, Doing

LEMMA ThreadsNext == SwitchInv /\ [SwitchNext]_switchVars => [Threads!Next]_(Threads!vars)
<1>. SUFFICES ASSUME SwitchInv, [SwitchNext]_switchVars PROVE [Threads!Next]_(Threads!vars)
  OBVIOUS
<1>1. CASE UNCHANGED switchVars
  BY <1>1 DEF Threads!vars, switchVars, cpu, Running, Suspended, Saved, PopRegs, Words
<1>. QED
  BY <1>1, CreateRefines, RunRefines, SwitchRefines DEF SwitchNext, Threads!Next

(* Whatever the tasks do and however deep they yield, each resumes with    *)
(* its registers, its place, its unfinished calls and its address space    *)
(* (context.rs:51-122).                                                    *)
THEOREM CoroutinesImplemented == BootCr3 = TaskRoot[Boot] /\ SwitchSpec => ImplementsCoroutines
  BY ThreadsInit, ThreadsNext, SwitchInvariance, PTL DEF SwitchSpec, ImplementsCoroutines, Threads!Spec
================================================================================
