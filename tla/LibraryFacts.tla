----------------------------- MODULE LibraryFacts -----------------------------
(***************************************************************************)
(* Facts about integer division, and about adding an element to a sequence *)
(* and taking one out, that the proofs about several components rest on.   *)
(***************************************************************************)
EXTENDS Integers, Sequences, SequencesExt, Vec, SequenceTheorems, WellFoundedInduction, TLAPS

(* Division with remainder. *)
LEMMA DivMod ==
  ASSUME NEW P \in Nat \ {0}, NEW x \in Int
  PROVE  /\ x \div P \in Int
         /\ x % P \in 0 .. P - 1
         /\ x = P * (x \div P) + (x % P)
OBVIOUS

(* A multiple of P plus less than P is below the next multiple. *)
LEMMA MultipleBelow ==
  ASSUME NEW P \in Nat \ {0}, NEW a \in Int, NEW b \in Int, NEW s \in 0 .. P - 1,
         P * b <= P * a + s
  PROVE  b <= a
<1>1. SUFFICES ASSUME a + 1 <= b PROVE FALSE
  OBVIOUS
<1>2. P * (a + 1) <= P * b
  BY <1>1
<1>3. P * (a + 1) = P * a + P
  OBVIOUS
<1>. QED
  BY <1>2, <1>3

(* Multiples grow with their factor. *)
LEMMA MultipleMonotone ==
  ASSUME NEW P \in Nat \ {0}, NEW a \in Int, NEW b \in Int, a <= b
  PROVE  P * a <= P * b
OBVIOUS

(* Quotient and remainder are unique. *)
LEMMA DivModUnique ==
  ASSUME NEW P \in Nat \ {0}, NEW a \in Int, NEW s \in 0 .. P - 1
  PROVE  /\ (P * a + s) \div P = a
         /\ (P * a + s) % P = s
<1>. DEFINE x == P * a + s
            q == x \div P
            t == x % P
<1>1. x \in Int /\ q \in Int /\ t \in 0 .. P - 1 /\ x = P * q + t
  BY DivMod
<1>2. q <= a
  <2>1. P * q <= P * a + s
    BY <1>1
  <2>. QED  BY <1>1, <2>1, MultipleBelow
<1>3. a <= q
  <2>1. P * a <= P * q + t
    BY <1>1
  <2>. QED  BY <1>1, <2>1, MultipleBelow
<1>4. q = a
  BY <1>1, <1>2, <1>3
<1>. QED
  BY <1>1, <1>4

(* The places of a sequence after its i-th element has been taken out.     *)
LEMMA RemoveAtPlaces ==
  ASSUME NEW S, NEW s \in Seq(S), NEW i \in DOMAIN s
  PROVE  /\ RemoveAt(s, i) \in Seq(S)
         /\ Len(RemoveAt(s, i)) = Len(s) - 1
         /\ \A k \in 1 .. Len(s) - 1 :
              RemoveAt(s, i)[k] = IF k < i THEN s[k] ELSE s[k + 1]
<1>. DEFINE n == Len(s)
            a == SubSeq(s, 1, i - 1)
            b == SubSeq(s, i + 1, n)
            t == RemoveAt(s, i)
<1>1. n \in Nat /\ DOMAIN s = 1 .. n /\ i \in 1 .. n
  BY LenProperties
<1>2. a \in Seq(S) /\ Len(a) = i - 1 /\ \A k \in 1 .. i - 1 : a[k] = s[k]
  BY <1>1, SubSeqProperties
<1>3. b \in Seq(S) /\ Len(b) = n - i /\ \A k \in 1 .. n - i : b[k] = s[i + k]
  BY <1>1, SubSeqProperties
<1>4. t \in Seq(S) /\ Len(t) = n - 1 /\ \A k \in 1 .. n - 1 : t[k] = IF k < i THEN s[k] ELSE s[k + 1]
  <2>1. t = a \o b
    BY DEF RemoveAt
  <2>. HIDE DEF a, b, t
  <2>2. /\ t \in Seq(S) /\ Len(t) = Len(a) + Len(b)
        /\ \A k \in 1 .. Len(a) + Len(b) : t[k] = IF k <= Len(a) THEN a[k] ELSE b[k - Len(a)]
    BY <1>2, <1>3, <2>1, ConcatProperties
  <2>. HIDE DEF n
  <2>3. Len(t) = n - 1
    BY <1>1, <1>2, <1>3, <2>2
  <2>4. ASSUME NEW k \in 1 .. n - 1 PROVE t[k] = IF k < i THEN s[k] ELSE s[k + 1]
    <3>1. CASE k < i
      BY <1>1, <1>2, <1>3, <2>2, <3>1
    <3>2. CASE ~(k < i)
      <4>1. k - (i - 1) \in 1 .. n - i /\ i + (k - (i - 1)) = k + 1
        BY <1>1, <3>2
      <4>2. t[k] = b[k - (i - 1)]
        BY <1>1, <1>2, <1>3, <2>2, <3>2
      <4>3. b[k - (i - 1)] = s[i + (k - (i - 1))]
        BY <1>3, <4>1
      <4>. QED  BY <3>2, <4>1, <4>2, <4>3
    <3>. QED  BY <3>1, <3>2
  <2>. QED  BY <2>2, <2>3, <2>4
<1>. QED
  BY <1>4

(* A new element at the end of a sequence.                                 *)
LEMMA AppendNew ==
  ASSUME NEW S, NEW s \in Seq(S), NEW e \in S
  PROVE  /\ Append(s, e) \in Seq(S)
         /\ ToSet(Append(s, e)) = ToSet(s) \cup {e}
         /\ IsInjective(s) /\ e \notin ToSet(s) => IsInjective(Append(s, e))
<1>. DEFINE t == Append(s, e)
<1>1. /\ t \in Seq(S) /\ Len(s) \in Nat /\ DOMAIN s = 1 .. Len(s) /\ DOMAIN t = 1 .. Len(s) + 1
      /\ t[Len(s) + 1] = e /\ \A i \in 1 .. Len(s) : t[i] = s[i]
  BY AppendProperties, LenProperties
<1>. HIDE DEF t
<1>2. ToSet(t) = ToSet(s) \cup {e}
  BY <1>1 DEF ToSet
<1>3. IsInjective(s) /\ e \notin ToSet(s) => IsInjective(t)
  BY <1>1 DEF IsInjective, ToSet
<1>. QED
  BY <1>1, <1>2, <1>3 DEF t

(* A set of natural numbers has a least element.                           *)
LEMMA SmallestOf ==
  ASSUME NEW S, S \subseteq Nat, S # {}
  PROVE  \E n \in S : \A m \in S : n <= m
<1>1. \E x \in S : \A y \in S : ~(<<y, x>> \in OpToRel(<, Nat))
  BY WFMin, NatLessThanWellFounded
<1>2. PICK x \in S : \A y \in S : ~(<<y, x>> \in OpToRel(<, Nat))
  BY <1>1
<1>3. \A y \in S : ~(y < x)
  BY <1>2 DEF OpToRel
<1>. QED
  BY <1>3

(* Sums.  total is the running sum of g over 1 .. n.                       *)
RunningSum(total, g, n) ==
  total = [i \in 0 .. n |-> IF i = 0 THEN 0 ELSE total[i - 1] + g[i]]

LEMMA RunningSumExists ==
  ASSUME NEW n \in Nat, NEW g
  PROVE  \E total : RunningSum(total, g, n)
<1>. DEFINE Upto(k) == \E f : RunningSum(f, g, k)
            S == {k \in 0 .. n : ~Upto(k)}
<1>1. SUFFICES ASSUME S # {} PROVE FALSE
  OBVIOUS
<1>2. PICK k \in S : \A m \in S : k <= m
  <2>1. S \subseteq Nat
    OBVIOUS
  <2>. HIDE DEF S
  <2>. QED  BY <1>1, <2>1, SmallestOf
<1>3. k # 0
  <2>1. RunningSum([i \in 0 .. 0 |-> 0], g, 0)
    BY DEF RunningSum
  <2>. QED  BY <1>2, <2>1
<1>4. Upto(k - 1)
  BY <1>2, <1>3
<1>5. PICK f : RunningSum(f, g, k - 1)
  BY <1>4
<1>. DEFINE h == [i \in 0 .. k |-> IF i < k THEN f[i] ELSE f[k - 1] + g[k]]
<1>6. k \in Nat /\ f = [i \in 0 .. k - 1 |-> IF i = 0 THEN 0 ELSE f[i - 1] + g[i]]
  BY <1>2, <1>5 DEF RunningSum
<1>7. ASSUME NEW i \in 0 .. k PROVE h[i] = IF i = 0 THEN 0 ELSE h[i - 1] + g[i]
  <2>1. CASE i = k
    BY <1>3, <1>6, <2>1
  <2>2. CASE i < k
    <3>1. f[i] = IF i = 0 THEN 0 ELSE f[i - 1] + g[i]
      BY <1>6, <2>2
    <3>2. h[i] = f[i] /\ (i # 0 => h[i - 1] = f[i - 1])
      BY <1>6, <2>2
    <3>. QED  BY <3>1, <3>2
  <2>. QED  BY <1>6, <2>1, <2>2
<1>8. RunningSum(h, g, k)
  <2>1. h = [i \in 0 .. k |-> h[i]]
    OBVIOUS
  <2>. HIDE DEF h
  <2>. QED  BY <1>7, <2>1 DEF RunningSum
<1>. QED
  BY <1>2, <1>8

LEMMA RunningSumIsNat ==
  ASSUME NEW n \in Nat, NEW g \in [1 .. n -> Nat], NEW f, RunningSum(f, g, n)
  PROVE  \A i \in 0 .. n : f[i] \in Nat
<1>. DEFINE S == {i \in 0 .. n : f[i] \notin Nat}
<1>1. SUFFICES ASSUME S # {} PROVE FALSE
  OBVIOUS
<1>2. PICK k \in S : \A m \in S : k <= m
  <2>1. S \subseteq Nat
    OBVIOUS
  <2>. HIDE DEF S
  <2>. QED  BY <1>1, <2>1, SmallestOf
<1>3. f[k] = IF k = 0 THEN 0 ELSE f[k - 1] + g[k]
  BY <1>2 DEF RunningSum
<1>4. k # 0
  BY <1>2, <1>3
<1>5. f[k - 1] \in Nat
  BY <1>2, <1>4
<1>. QED
  BY <1>2, <1>3, <1>4, <1>5

LEMMA RunningSumOfZeros ==
  ASSUME NEW n \in Nat, NEW g, NEW f, RunningSum(f, g, n), \A i \in 1 .. n : g[i] = 0
  PROVE  f[n] = 0
<1>. DEFINE S == {i \in 0 .. n : f[i] # 0}
<1>1. SUFFICES ASSUME S # {} PROVE FALSE
  OBVIOUS
<1>2. PICK k \in S : \A m \in S : k <= m
  <2>1. S \subseteq Nat
    OBVIOUS
  <2>. HIDE DEF S
  <2>. QED  BY <1>1, <2>1, SmallestOf
<1>3. f[k] = IF k = 0 THEN 0 ELSE f[k - 1] + g[k]
  BY <1>2 DEF RunningSum
<1>4. k # 0 => k - 1 \in 0 .. n /\ k - 1 \notin S
  BY <1>2
<1>. QED
  BY <1>2, <1>3, <1>4

(* The sum changes by as much as the one term that does.                   *)
DifferAt(g, h, n, at) ==
  /\ g \in [1 .. n -> Nat] /\ h \in [1 .. n -> Nat] /\ at \in 1 .. n
  /\ \A i \in (1 .. n) \ {at} : h[i] = g[i]

LEMMA RunningSumChanged ==
  ASSUME NEW n \in Nat, NEW g, NEW h, NEW at, NEW f, NEW e,
         DifferAt(g, h, n, at), RunningSum(f, g, n), RunningSum(e, h, n)
  PROVE  e[n] = f[n] + (h[at] - g[at])
<1>. USE DEF DifferAt
<1>. DEFINE d == h[at] - g[at]
<1>0. d \in Int /\ \A i \in 1 .. n : h[i] = g[i] + (IF i = at THEN d ELSE 0)
  <2>1. ASSUME NEW i \in 1 .. n PROVE h[i] \in Nat /\ g[i] \in Nat
    OBVIOUS
  <2>. QED  BY <2>1
<1>. SUFFICES e[n] = f[n] + d
  OBVIOUS
<1>. HIDE DEF d
<1>. DEFINE S == {i \in 0 .. n : e[i] # f[i] + (IF i >= at THEN d ELSE 0)}
<1>1. SUFFICES ASSUME S # {} PROVE FALSE
  <2>1. n \in 0 .. n /\ n >= at
    OBVIOUS
  <2>2. n \notin S => e[n] = f[n] + d
    BY <2>1
  <2>. QED  BY <2>2
<1>2. PICK k \in S : \A m \in S : k <= m
  <2>1. S \subseteq Nat
    OBVIOUS
  <2>. HIDE DEF S
  <2>. QED  BY <1>1, <2>1, SmallestOf
<1>3. /\ f[k] = IF k = 0 THEN 0 ELSE f[k - 1] + g[k]
      /\ e[k] = IF k = 0 THEN 0 ELSE e[k - 1] + h[k]
  BY <1>2 DEF RunningSum
<1>4. k # 0
  BY <1>2, <1>3
<1>5. e[k - 1] = f[k - 1] + (IF k - 1 >= at THEN d ELSE 0)
  BY <1>2, <1>4
<1>6. f[k - 1] \in Nat /\ e[k - 1] \in Nat
  <2>1. k - 1 \in 0 .. n
    BY <1>2, <1>4
  <2>2. (\A i \in 0 .. n : f[i] \in Nat) /\ (\A i \in 0 .. n : e[i] \in Nat)
    BY RunningSumIsNat
  <2>. HIDE DEF S
  <2>. QED  BY <2>1, <2>2
<1>7. g[k] \in Nat /\ h[k] = g[k] + (IF k = at THEN d ELSE 0)
  BY <1>0, <1>2, <1>4
<1>8. e[k] # f[k] + (IF k >= at THEN d ELSE 0) /\ k \in Nat
  BY <1>2
<1>. HIDE DEF S
<1>. QED
  BY <1>0, <1>3, <1>4, <1>5, <1>6, <1>7, <1>8

(* One number more.                                                        *)
LEMMA RunningSumExtended ==
  ASSUME NEW g, NEW h, NEW f, NEW e, NEW n \in Nat,
         RunningSum(f, g, n), RunningSum(e, h, n + 1), \A i \in 1 .. n : h[i] = g[i]
  PROVE  e[n + 1] = f[n] + h[n + 1]
<1>1. \A i \in 0 .. n : f[i] = IF i = 0 THEN 0 ELSE f[i - 1] + g[i]
  BY DEF RunningSum
<1>2. \A i \in 0 .. n + 1 : e[i] = IF i = 0 THEN 0 ELSE e[i - 1] + h[i]
  BY DEF RunningSum
<1>. DEFINE Bad == {i \in 0 .. n : f[i] # e[i]}
<1>3. Bad = {}
  <2>1. SUFFICES ASSUME Bad # {} PROVE FALSE
    OBVIOUS
  <2>2. PICK k \in Bad : \A j \in Bad : k <= j
    <3>1. Bad \subseteq Nat
      OBVIOUS
    <3>. HIDE DEF Bad
    <3>. QED  BY <2>1, <3>1, SmallestOf
  <2>3. k \in 1 .. n /\ k \in 0 .. n + 1
    BY <1>1, <1>2
  <2>4. f[k - 1] = e[k - 1]
    BY <2>2, <2>3
  <2>5. f[k] = e[k]
    BY <1>1, <1>2, <2>3, <2>4
  <2>. QED  BY <2>2, <2>5
<1>4. f[n] = e[n]
  BY <1>3
<1>. QED
  BY <1>2, <1>4


(* The sequences that the loop of Without goes through, up to the n-th.    *)
Kept(f, s, D, i) ==
  IF i = 0 THEN <<>> ELSE IF s[i] \in D THEN f[i - 1] ELSE Append(f[i - 1], s[i])
KeptUpto(f, s, D, n) == f = [i \in 0 .. n |-> Kept(f, s, D, i)]

LEMMA KeptExists ==
  ASSUME NEW s, NEW D, NEW n \in Nat
  PROVE  \E f : KeptUpto(f, s, D, n)
<1>. DEFINE S == {k \in 0 .. n : ~\E f : KeptUpto(f, s, D, k)}
<1>1. SUFFICES ASSUME S # {} PROVE FALSE
  OBVIOUS
<1>2. PICK k \in S : \A m \in S : k <= m
  <2>1. S \subseteq Nat
    OBVIOUS
  <2>. HIDE DEF S
  <2>. QED  BY <1>1, <2>1, SmallestOf
<1>3. k \in 0 .. n /\ ~\E f : KeptUpto(f, s, D, k)
  OBVIOUS
<1>4. k # 0
  <2>. DEFINE f == [i \in 0 .. 0 |-> <<>>]
  <2>1. KeptUpto(f, s, D, 0)
    BY DEF KeptUpto, Kept
  <2>. QED  BY <1>3, <2>1
<1>5. k - 1 \in 0 .. n /\ k - 1 \notin S
  BY <1>2, <1>3, <1>4
<1>6. PICK f : KeptUpto(f, s, D, k - 1)
  BY <1>5
<1>. HIDE DEF S
<1>. DEFINE h == [i \in 0 .. k |-> IF i < k THEN f[i] ELSE Kept(f, s, D, k)]
<1>7. ASSUME NEW i \in 0 .. k PROVE h[i] = Kept(h, s, D, i)
  <2>1. CASE i = k
    <3>1. h[k] = Kept(f, s, D, k) /\ h[k - 1] = f[k - 1]
      BY <1>3, <1>4
    <3>. HIDE DEF h
    <3>. QED  BY <1>4, <2>1, <3>1 DEF Kept
  <2>2. CASE i < k
    <3>1. i \in 0 .. k - 1
      BY <1>3, <2>2
    <3>2. f[i] = Kept(f, s, D, i)
      BY <1>6, <3>1 DEF KeptUpto
    <3>3. h[i] = f[i] /\ (i # 0 => h[i - 1] = f[i - 1])
      BY <1>3, <2>2
    <3>. HIDE DEF h
    <3>. QED  BY <3>2, <3>3 DEF Kept
  <2>. QED  BY <1>3, <2>1, <2>2
<1>8. KeptUpto(h, s, D, k)
  <2>1. h = [i \in 0 .. k |-> h[i]]
    OBVIOUS
  <2>. HIDE DEF h
  <2>. QED  BY <1>7, <2>1 DEF KeptUpto
<1>. QED
  BY <1>3, <1>8

(* Without is the last of them.                                            *)
LEMMA WithoutKept ==
  ASSUME NEW s, NEW D, Len(s) \in Nat
  PROVE  \E f : KeptUpto(f, s, D, Len(s)) /\ Without(s, D) = f[Len(s)]
<1>. DEFINE kept == CHOOSE f : KeptUpto(f, s, D, Len(s))
<1>1. KeptUpto(kept, s, D, Len(s))
  BY KeptExists
<1>2. Without(s, D) = kept[Len(s)]
  BY DEF Without, KeptUpto, Kept
<1>. HIDE DEF kept
<1>. QED
  BY <1>1, <1>2

LEMMA KeptFacts ==
  ASSUME NEW s, NEW D, NEW f, NEW n \in Nat, KeptUpto(f, s, D, n)
  PROVE  /\ f[0] = <<>>
         /\ \A i \in 1 .. n : f[i] = IF s[i] \in D THEN f[i - 1] ELSE Append(f[i - 1], s[i])
<1>1. \A i \in 0 .. n : f[i] = Kept(f, s, D, i)
  BY DEF KeptUpto
<1>. QED
  BY <1>1 DEF Kept

(* What is left is typed, and holds the elements that are not dropped.     *)
LEMMA KeptElements ==
  ASSUME NEW S, NEW D, NEW f, NEW s \in Seq(S), KeptUpto(f, s, D, Len(s))
  PROVE  \A i \in 0 .. Len(s) :
           /\ f[i] \in Seq(S)
           /\ ToSet(f[i]) = {s[j] : j \in 1 .. i} \ D
           /\ IsInjective(s) => IsInjective(f[i])
<1>. DEFINE Good(i) == /\ f[i] \in Seq(S)
                       /\ ToSet(f[i]) = {s[j] : j \in 1 .. i} \ D
                       /\ IsInjective(s) => IsInjective(f[i])
            Bad == {i \in 0 .. Len(s) : ~Good(i)}
<1>1. SUFFICES ASSUME Bad # {} PROVE FALSE
  OBVIOUS
<1>2. PICK k \in Bad : \A m \in Bad : k <= m
  <2>1. Bad \subseteq Nat
    OBVIOUS
  <2>. HIDE DEF Bad
  <2>. QED  BY <1>1, <2>1, SmallestOf
<1>3. k \in 0 .. Len(s) /\ ~Good(k) /\ Len(s) \in Nat /\ DOMAIN s = 1 .. Len(s)
  BY LenProperties
<1>4. f[0] = <<>> /\ \A i \in 1 .. Len(s) : f[i] = IF s[i] \in D THEN f[i - 1] ELSE Append(f[i - 1], s[i])
  BY <1>3, KeptFacts
<1>5. k # 0
  <2>1. ToSet(<<>>) = {} /\ IsInjective(<<>>) /\ <<>> \in Seq(S)
    BY DEF ToSet, IsInjective
  <2>2. {s[j] : j \in 1 .. 0} = {}
    OBVIOUS
  <2>3. Good(0)
    BY <1>4, <2>1, <2>2
  <2>. HIDE DEF Good
  <2>. QED  BY <1>3, <2>3
<1>6. k \in 1 .. Len(s) /\ k - 1 \in 0 .. Len(s) /\ k - 1 \notin Bad
  <2>. HIDE DEF Good
  <2>. QED  BY <1>2, <1>3, <1>5
<1>7. Good(k - 1)
  <2>. HIDE DEF Good
  <2>. QED  BY <1>6
<1>. DEFINE Before == {s[j] : j \in 1 .. k - 1}
<1>8. {s[j] : j \in 1 .. k} = Before \cup {s[k]} /\ s[k] \in S
  <2>1. 1 .. k = 1 .. k - 1 \cup {k}
    BY <1>6
  <2>. QED  BY <1>3, <1>6, <2>1
<1>9. CASE s[k] \in D
  <2>1. Good(k)
    BY <1>4, <1>6, <1>7, <1>8, <1>9
  <2>. HIDE DEF Good
  <2>. QED  BY <1>3, <2>1
<1>10. CASE s[k] \notin D
  <2>1. f[k] = Append(f[k - 1], s[k])
    BY <1>4, <1>6, <1>10
  <2>2. /\ f[k] \in Seq(S) /\ ToSet(f[k]) = ToSet(f[k - 1]) \cup {s[k]}
        /\ IsInjective(f[k - 1]) /\ s[k] \notin ToSet(f[k - 1]) => IsInjective(f[k])
    <3>. DEFINE before == f[k - 1]
                last == s[k]
    <3>1. before \in Seq(S) /\ last \in S /\ f[k] = Append(before, last)
      BY <1>7, <1>8, <2>1
    <3>. HIDE DEF Bad, Before, before, last
    <3>2. /\ f[k] \in Seq(S) /\ ToSet(f[k]) = ToSet(before) \cup {last}
          /\ IsInjective(before) /\ last \notin ToSet(before) => IsInjective(f[k])
      BY <3>1, AppendNew
    <3>. QED  BY <3>2 DEF before, last
  <2>3. IsInjective(s) => s[k] \notin Before
    BY <1>3, <1>6 DEF IsInjective
  <2>4. ToSet(f[k]) = {s[j] : j \in 1 .. k} \ D
    BY <1>7, <1>8, <1>10, <2>2
  <2>5. IsInjective(s) => IsInjective(f[k])
    BY <1>7, <2>2, <2>3
  <2>. HIDE DEF Bad, Before
  <2>. QED  BY <1>3, <2>2, <2>4, <2>5
<1>. QED
  BY <1>9, <1>10

LEMMA WithoutFacts ==
  ASSUME NEW S, NEW D, NEW s \in Seq(S)
  PROVE  /\ Without(s, D) \in Seq(S)
         /\ ToSet(Without(s, D)) = ToSet(s) \ D
         /\ IsInjective(s) => IsInjective(Without(s, D))
<1>1. Len(s) \in Nat /\ Len(s) \in 0 .. Len(s) /\ ToSet(s) = {s[j] : j \in 1 .. Len(s)}
  BY LenProperties DEF ToSet
<1>2. PICK f : KeptUpto(f, s, D, Len(s)) /\ Without(s, D) = f[Len(s)]
  BY <1>1, WithoutKept
<1>3. \A i \in 0 .. Len(s) :
        /\ f[i] \in Seq(S)
        /\ ToSet(f[i]) = {s[j] : j \in 1 .. i} \ D
        /\ IsInjective(s) => IsInjective(f[i])
  BY <1>2, KeptElements
<1>. QED
  BY <1>1, <1>2, <1>3

(* The loop over two sequences that begin alike.                           *)
LEMMA KeptAlike ==
  ASSUME NEW s, NEW t, NEW D, NEW n \in Nat, NEW m \in Nat, NEW f, NEW g,
         KeptUpto(f, s, D, n), KeptUpto(g, t, D, m), n <= m, \A i \in 1 .. n : s[i] = t[i]
  PROVE  f[n] = g[n]
<1>. DEFINE Bad == {i \in 0 .. n : f[i] # g[i]}
<1>1. SUFFICES ASSUME Bad # {} PROVE FALSE
  OBVIOUS
<1>2. PICK k \in Bad : \A j \in Bad : k <= j
  <2>1. Bad \subseteq Nat
    OBVIOUS
  <2>. HIDE DEF Bad
  <2>. QED  BY <1>1, <2>1, SmallestOf
<1>3. f[0] = <<>> /\ \A i \in 1 .. n : f[i] = IF s[i] \in D THEN f[i - 1] ELSE Append(f[i - 1], s[i])
  BY KeptFacts
<1>4. g[0] = <<>> /\ \A i \in 1 .. m : g[i] = IF t[i] \in D THEN g[i - 1] ELSE Append(g[i - 1], t[i])
  BY KeptFacts
<1>5. k \in 1 .. n /\ k \in 1 .. m
  BY <1>3, <1>4
<1>6. f[k - 1] = g[k - 1]
  BY <1>2, <1>5
<1>. QED
  BY <1>3, <1>4, <1>5, <1>6

LEMMA WithoutEmpty ==
  ASSUME NEW D
  PROVE  Without(<<>>, D) = <<>>
<1>1. Len(<<>>) = 0
  OBVIOUS
<1>2. PICK f : KeptUpto(f, <<>>, D, 0) /\ Without(<<>>, D) = f[0]
  BY <1>1, WithoutKept
<1>. QED
  BY <1>2, KeptFacts

LEMMA WithoutAppend ==
  ASSUME NEW S, NEW D, NEW s \in Seq(S), NEW e \in S
  PROVE  Without(Append(s, e), D) = IF e \in D THEN Without(s, D) ELSE Append(Without(s, D), e)
<1>. DEFINE n == Len(s)
            t == Append(s, e)
<1>1. /\ n \in Nat /\ Len(t) = n + 1 /\ t[n + 1] = e
      /\ \A i \in 1 .. n : s[i] = t[i]
  BY AppendProperties, LenProperties
<1>. HIDE DEF n, t
<1>2. PICK f : KeptUpto(f, s, D, n) /\ Without(s, D) = f[n]
  BY <1>1, WithoutKept DEF n
<1>3. PICK g : KeptUpto(g, t, D, n + 1) /\ Without(t, D) = g[n + 1]
  BY <1>1, WithoutKept
<1>4. f[n] = g[n]
  <2>1. n + 1 \in Nat /\ n <= n + 1
    BY <1>1
  <2>. QED  BY <1>1, <1>2, <1>3, <2>1, KeptAlike
<1>5. g[n + 1] = IF t[n + 1] \in D THEN g[n] ELSE Append(g[n], t[n + 1])
  <2>1. n + 1 \in 1 .. n + 1 /\ (n + 1) - 1 = n /\ n + 1 \in Nat
    BY <1>1
  <2>2. \A i \in 1 .. n + 1 : g[i] = IF t[i] \in D THEN g[i - 1] ELSE Append(g[i - 1], t[i])
    BY <1>3, <2>1, KeptFacts
  <2>. QED  BY <2>1, <2>2
<1>. QED
  BY <1>1, <1>2, <1>3, <1>4, <1>5 DEF t

(* What is left depends on the elements there are alone.                   *)
LEMMA WithoutAlike ==
  ASSUME NEW s, NEW D, NEW E, Len(s) \in Nat, \A i \in 1 .. Len(s) : s[i] \in D <=> s[i] \in E
  PROVE  Without(s, D) = Without(s, E)
<1>. DEFINE n == Len(s)
<1>1. PICK f : KeptUpto(f, s, D, n) /\ Without(s, D) = f[n]
  BY WithoutKept
<1>2. PICK g : KeptUpto(g, s, E, n) /\ Without(s, E) = g[n]
  BY WithoutKept
<1>. HIDE DEF n
<1>3. f[0] = <<>> /\ \A i \in 1 .. n : f[i] = IF s[i] \in D THEN f[i - 1] ELSE Append(f[i - 1], s[i])
  BY <1>1, KeptFacts DEF n
<1>4. g[0] = <<>> /\ \A i \in 1 .. n : g[i] = IF s[i] \in E THEN g[i - 1] ELSE Append(g[i - 1], s[i])
  BY <1>2, KeptFacts DEF n
<1>. DEFINE Bad == {i \in 0 .. n : f[i] # g[i]}
<1>5. Bad = {}
  <2>1. SUFFICES ASSUME Bad # {} PROVE FALSE
    OBVIOUS
  <2>2. PICK k \in Bad : \A j \in Bad : k <= j
    <3>1. Bad \subseteq Nat
      OBVIOUS
    <3>. HIDE DEF Bad
    <3>. QED  BY <2>1, <3>1, SmallestOf
  <2>3. k \in 1 .. n /\ n \in Nat
    BY <1>3, <1>4 DEF n
  <2>4. f[k - 1] = g[k - 1]
    BY <2>2, <2>3
  <2>5. s[k] \in D <=> s[k] \in E
    BY <2>3 DEF n
  <2>6. f[k] = g[k]
    BY <1>3, <1>4, <2>3, <2>4, <2>5
  <2>. QED  BY <2>2, <2>6
<1>. QED
  BY <1>1, <1>2, <1>5 DEF n

(* Dropping twice is dropping both.                                        *)
LEMMA WithoutTwice ==
  ASSUME NEW S, NEW D, NEW E, NEW s \in Seq(S)
  PROVE  Without(Without(s, D), E) = Without(s, D \cup E)
<1>. DEFINE n == Len(s)
            U == D \cup E
<1>1. n \in Nat /\ DOMAIN s = 1 .. n
  BY LenProperties
<1>2. PICK f : KeptUpto(f, s, D, n) /\ Without(s, D) = f[n]
  BY <1>1, WithoutKept
<1>3. PICK g : KeptUpto(g, s, U, n) /\ Without(s, U) = g[n]
  BY <1>1, WithoutKept
<1>4. f[0] = <<>> /\ \A i \in 1 .. n : f[i] = IF s[i] \in D THEN f[i - 1] ELSE Append(f[i - 1], s[i])
  BY <1>1, <1>2, KeptFacts
<1>5. g[0] = <<>> /\ \A i \in 1 .. n : g[i] = IF s[i] \in U THEN g[i - 1] ELSE Append(g[i - 1], s[i])
  BY <1>1, <1>3, KeptFacts
<1>6. \A i \in 0 .. n : f[i] \in Seq(S)
  BY <1>2, KeptElements
<1>. DEFINE Bad == {i \in 0 .. n : Without(f[i], E) # g[i]}
<1>7. Bad = {}
  <2>1. SUFFICES ASSUME Bad # {} PROVE FALSE
    OBVIOUS
  <2>. HIDE DEF n, U
  <2>2. PICK k \in Bad : \A j \in Bad : k <= j
    <3>1. Bad \subseteq Nat
      BY <1>1
    <3>. HIDE DEF Bad
    <3>. QED  BY <2>1, <3>1, SmallestOf
  <2>3. k # 0
    BY <1>4, <1>5, WithoutEmpty
  <2>4. k \in 1 .. n /\ k - 1 \in 0 .. n /\ s[k] \in S
    BY <1>1, <2>3
  <2>5. Without(f[k - 1], E) = g[k - 1]
    BY <1>1, <2>2, <2>4
  <2>6. f[k] = IF s[k] \in D THEN f[k - 1] ELSE Append(f[k - 1], s[k])
    BY <1>4, <2>4
  <2>7. Without(Append(f[k - 1], s[k]), E)
          = IF s[k] \in E THEN Without(f[k - 1], E) ELSE Append(Without(f[k - 1], E), s[k])
    <3>. DEFINE before == f[k - 1]
                last == s[k]
    <3>1. before \in Seq(S) /\ last \in S
      BY <1>6, <2>4
    <3>. HIDE DEF Bad, before, last
    <3>2. Without(Append(before, last), E)
            = IF last \in E THEN Without(before, E) ELSE Append(Without(before, E), last)
      BY <3>1, WithoutAppend
    <3>. QED  BY <3>2 DEF before, last
  <2>8. g[k] = IF s[k] \in U THEN g[k - 1] ELSE Append(g[k - 1], s[k])
    BY <1>5, <2>4
  <2>9. Without(f[k], E) = g[k]
    BY <2>5, <2>6, <2>7, <2>8 DEF U
  <2>. QED  BY <2>9
<1>. QED
  <2>1. n \in 0 .. n
    BY <1>1
  <2>2. Without(f[n], E) = g[n]
    BY <1>7, <2>1
  <2>. QED  BY <1>2, <1>3, <2>2

===============================================================================
