--------------------------- MODULE FileSystemProofs ---------------------------
(***************************************************************************)
(* Proofs about a volume: replaying any part of the journal a crash leaves *)
(* applies the transactions it holds a commit of, and the tree conserves   *)
(* references.                                                             *)
(***************************************************************************)
EXTENDS FileSystem, LibraryFacts

(***************************************************************************)
(* Replay, an entry at a time.                                             *)
(***************************************************************************)

Fresh == [current |-> 0, pending |-> <<>>, applied |-> <<>>, count |-> 0]
(* The replay of the first n entries.                                      *)
Turn(after, log, n) == IF n = 0 THEN Fresh ELSE J!ReplayEntry(after[n - 1], log[n])
ReplayUpto(after, log, n) == after = [i \in 0 .. n |-> Turn(after, log, i)]

LEMMA ReplayExists ==
  ASSUME NEW log, NEW n \in Nat
  PROVE  \E f : ReplayUpto(f, log, n)
<1>. DEFINE S == {k \in 0 .. n : ~\E f : ReplayUpto(f, log, k)}
<1>1. SUFFICES ASSUME S # {} PROVE FALSE
  OBVIOUS
<1>2. PICK k \in S : \A m \in S : k <= m
  <2>1. S \subseteq Nat
    OBVIOUS
  <2>. HIDE DEF S
  <2>. QED  BY <1>1, <2>1, SmallestOf
<1>3. k \in 0 .. n /\ ~\E f : ReplayUpto(f, log, k)
  OBVIOUS
<1>4. k # 0
  <2>. DEFINE f == [l \in 0 .. 0 |-> Fresh]
  <2>1. ReplayUpto(f, log, 0)
    BY DEF ReplayUpto, Turn
  <2>. QED  BY <1>3, <2>1
<1>5. k - 1 \in 0 .. n /\ k - 1 \notin S
  BY <1>2, <1>3, <1>4
<1>6. PICK f : ReplayUpto(f, log, k - 1)
  BY <1>5
<1>. HIDE DEF S
<1>. DEFINE h == [l \in 0 .. k |-> IF l < k THEN f[l] ELSE Turn(f, log, k)]
<1>7. ASSUME NEW l \in 0 .. k PROVE h[l] = Turn(h, log, l)
  <2>1. CASE l = k
    <3>1. h[k] = Turn(f, log, k) /\ h[k - 1] = f[k - 1]
      BY <1>3, <1>4
    <3>. HIDE DEF h
    <3>. QED  BY <1>4, <2>1, <3>1 DEF Turn
  <2>2. CASE l < k
    <3>1. l \in 0 .. k - 1
      BY <1>3, <2>2
    <3>2. f[l] = Turn(f, log, l)
      BY <1>6, <3>1 DEF ReplayUpto
    <3>3. h[l] = f[l] /\ (l # 0 => h[l - 1] = f[l - 1])
      BY <1>3, <2>2
    <3>. HIDE DEF h
    <3>. QED  BY <3>2, <3>3 DEF Turn
  <2>. QED  BY <1>3, <2>1, <2>2
<1>8. ReplayUpto(h, log, k)
  <2>1. h = [l \in 0 .. k |-> h[l]]
    OBVIOUS
  <2>. HIDE DEF h
  <2>. QED  BY <1>7, <2>1 DEF ReplayUpto
<1>. QED
  BY <1>3, <1>8

LEMMA ReplayIs ==
  ASSUME NEW log, Len(log) \in Nat
  PROVE  \E f : ReplayUpto(f, log, Len(log)) /\ J!Replay(log) = f[Len(log)]
<1>. DEFINE after == CHOOSE f : ReplayUpto(f, log, Len(log))
<1>1. ReplayUpto(after, log, Len(log))
  BY ReplayExists
<1>2. J!Replay(log) = after[Len(log)]
  BY DEF J!Replay, ReplayUpto, Turn, Fresh
<1>. HIDE DEF after
<1>. QED
  BY <1>1, <1>2

LEMMA ReplayTurns ==
  ASSUME NEW log, NEW f, NEW n \in Nat, ReplayUpto(f, log, n)
  PROVE  /\ f[0] = Fresh
         /\ \A i \in 1 .. n : f[i] = J!ReplayEntry(f[i - 1], log[i])
<1>1. \A i \in 0 .. n : f[i] = Turn(f, log, i)
  BY DEF ReplayUpto
<1>2. f[0] = Fresh
  BY <1>1 DEF Turn
<1>3. ASSUME NEW i \in 1 .. n PROVE f[i] = J!ReplayEntry(f[i - 1], log[i])
  BY <1>1 DEF Turn
<1>. QED
  BY <1>2, <1>3

(* An empty journal, and one entry more.                                   *)
LEMMA ReplayEmpty == J!Replay(<<>>) = Fresh
<1>1. Len(<<>>) = 0
  OBVIOUS
<1>2. PICK f : ReplayUpto(f, <<>>, 0) /\ J!Replay(<<>>) = f[0]
  BY <1>1, ReplayIs
<1>. QED
  BY <1>2, ReplayTurns

LEMMA ReplayAppended ==
  ASSUME NEW S, NEW log \in Seq(S), NEW e \in S
  PROVE  J!Replay(Append(log, e)) = J!ReplayEntry(J!Replay(log), e)
<1>. DEFINE n == Len(log)
            log2 == Append(log, e)
<1>1. /\ n \in Nat /\ Len(log2) = n + 1 /\ log2[n + 1] = e
      /\ \A i \in 1 .. n : log2[i] = log[i]
  BY AppendProperties, LenProperties
<1>. HIDE DEF n, log2
<1>2. PICK f : ReplayUpto(f, log, n) /\ J!Replay(log) = f[n]
  BY <1>1, ReplayIs DEF n
<1>3. PICK g : ReplayUpto(g, log2, n + 1) /\ J!Replay(log2) = g[n + 1]
  BY <1>1, ReplayIs
<1>4. f[0] = Fresh /\ \A i \in 1 .. n : f[i] = J!ReplayEntry(f[i - 1], log[i])
  BY <1>1, <1>2, ReplayTurns
<1>5. g[0] = Fresh /\ \A i \in 1 .. n + 1 : g[i] = J!ReplayEntry(g[i - 1], log2[i])
  <2>1. n + 1 \in Nat
    BY <1>1
  <2>. QED  BY <1>3, <2>1, ReplayTurns
<1>. DEFINE Bad == {i \in 0 .. n : f[i] # g[i]}
<1>6. Bad = {}
  <2>1. SUFFICES ASSUME Bad # {} PROVE FALSE
    OBVIOUS
  <2>2. PICK k \in Bad : \A j \in Bad : k <= j
    <3>1. Bad \subseteq Nat
      BY <1>1
    <3>. HIDE DEF Bad
    <3>. QED  BY <2>1, <3>1, SmallestOf
  <2>3. k \in 1 .. n /\ k \in 1 .. n + 1
    BY <1>1, <1>4, <1>5
  <2>4. f[k - 1] = g[k - 1]
    BY <1>1, <2>2, <2>3
  <2>5. f[k] = g[k]
    BY <1>1, <1>4, <1>5, <2>3, <2>4
  <2>. QED  BY <2>2, <2>5
<1>7. f[n] = g[n] /\ (n + 1) - 1 = n /\ n + 1 \in 1 .. n + 1
  BY <1>1, <1>6
<1>8. g[n + 1] = J!ReplayEntry(g[n], e)
  BY <1>1, <1>5, <1>7
<1>. QED
  BY <1>2, <1>3, <1>7, <1>8 DEF log2

LEMMA SameWithout ==
  ASSUME NEW s, NEW D
  PROVE  J!Without(s, D) = Without(s, D)
BY DEF J!Without, Without

(***************************************************************************)
(* One more entry in the journal.                                          *)
(***************************************************************************)

EntrySet == [seq : Nat, op : {"Begin", "Op", "Commit"}, target : Targets \cup {0}]
ReplayState == [current : Nat, pending : Seq(EntrySet), applied : Seq(EntrySet), count : Nat]

(* The entries replay would not apply if transaction c were committed.     *)
HiddenBut(log, c) ==
  {log[i] : i \in {j \in DOMAIN log :
                     \/ log[j].op = "Commit"
                     \/ ~J!Committed(log, log[j].seq) /\ log[j].seq # c}}

(* What replay has applied is exactly what is committed, and it holds back *)
(* exactly the entries of the one transaction it takes to be open.         *)
Exact(log) ==
  /\ J!Replay(log).applied = Without(log, J!Hidden(log))
  /\ J!Replay(log).count = Len(Without(log, J!NoCommit(log)))
HoldsBack(log) ==
  J!Replay(log).current # 0 =>
    /\ ~J!Committed(log, J!Replay(log).current)
    /\ J!Replay(log).applied \o J!Replay(log).pending
         = Without(log, HiddenBut(log, J!Replay(log).current))
GoodReplay(log) == J!Replay(log) \in ReplayState /\ Exact(log) /\ HoldsBack(log)

LEMMA HiddenMembers ==
  ASSUME NEW log, NEW c, NEW i \in DOMAIN log
  PROVE  /\ log[i] \in J!Hidden(log)
              <=> log[i].op = "Commit" \/ ~J!Committed(log, log[i].seq)
         /\ log[i] \in HiddenBut(log, c)
              <=> log[i].op = "Commit" \/ (~J!Committed(log, log[i].seq) /\ log[i].seq # c)
         /\ log[i] \in J!NoCommit(log) <=> log[i].op # "Commit"
<1>1. log[i] \in J!Hidden(log) <=> log[i].op = "Commit" \/ ~J!Committed(log, log[i].seq)
  BY DEF J!Hidden
<1>2. log[i] \in HiddenBut(log, c)
        <=> log[i].op = "Commit" \/ (~J!Committed(log, log[i].seq) /\ log[i].seq # c)
  BY DEF HiddenBut
<1>3. log[i] \in J!NoCommit(log) <=> log[i].op # "Commit"
  BY DEF J!NoCommit
<1>. QED
  BY <1>1, <1>2, <1>3

(* The entries of a journal with one more.                                 *)
LEMMA EntryAppended ==
  ASSUME NEW S, NEW log \in Seq(S), NEW e \in S
  PROVE  /\ Append(log, e) \in Seq(S) /\ Len(log) \in Nat
         /\ DOMAIN log = 1 .. Len(log) /\ DOMAIN Append(log, e) = 1 .. Len(log) + 1
         /\ Append(log, e)[Len(log) + 1] = e
         /\ \A i \in 1 .. Len(log) : Append(log, e)[i] = log[i] /\ log[i] \in S
         /\ \A s : J!Committed(Append(log, e), s)
                     <=> J!Committed(log, s) \/ (e.op = "Commit" /\ e.seq = s)
<1>1. /\ Append(log, e) \in Seq(S) /\ Len(log) \in Nat
      /\ DOMAIN log = 1 .. Len(log) /\ DOMAIN Append(log, e) = 1 .. Len(log) + 1
      /\ Append(log, e)[Len(log) + 1] = e
      /\ \A i \in 1 .. Len(log) : Append(log, e)[i] = log[i] /\ log[i] \in S
  BY AppendProperties, LenProperties
<1>. DEFINE log2 == Append(log, e)
<1>. HIDE DEF log2
<1>2. ASSUME NEW s
      PROVE  J!Committed(log2, s) <=> J!Committed(log, s) \/ (e.op = "Commit" /\ e.seq = s)
  BY <1>1 DEF J!Committed, log2
<1>. QED
  BY <1>1, <1>2 DEF log2

(* What is left of a journal with one more entry.                          *)
HideAlike(log, D, E) == \A i \in 1 .. Len(log) : log[i] \in E <=> log[i] \in D

LEMMA LeftOf ==
  ASSUME NEW S, NEW D, NEW E, NEW log \in Seq(S), NEW e \in S, HideAlike(log, D, E)
  PROVE  Without(Append(log, e), E) = IF e \in E THEN Without(log, D) ELSE Append(Without(log, D), e)
<1>1. Without(log, E) = Without(log, D)
  <2>1. Len(log) \in Nat /\ \A i \in 1 .. Len(log) : log[i] \in D <=> log[i] \in E
    BY LenProperties DEF HideAlike
  <2>. HIDE DEF HideAlike
  <2>. QED  BY <2>1, WithoutAlike
<1>. QED
  BY <1>1, WithoutAppend

LEMMA CountAppended ==
  ASSUME NEW log \in Seq(EntrySet), NEW e \in EntrySet
  PROVE  Len(Without(Append(log, e), J!NoCommit(Append(log, e)))) =
           IF e.op = "Commit" THEN Len(Without(log, J!NoCommit(log))) + 1
           ELSE Len(Without(log, J!NoCommit(log)))
<1>. DEFINE log2 == Append(log, e)
            n == Len(log)
<1>1. /\ n \in Nat /\ DOMAIN log = 1 .. n /\ DOMAIN log2 = 1 .. n + 1 /\ log2[n + 1] = e
      /\ \A i \in 1 .. n : log2[i] = log[i]
  BY EntryAppended
<1>. HIDE DEF log2, n
<1>2. HideAlike(log, J!NoCommit(log), J!NoCommit(log2))
  <2>1. SUFFICES ASSUME NEW i \in 1 .. n
                 PROVE  log[i] \in J!NoCommit(log2) <=> log[i] \in J!NoCommit(log)
    BY DEF HideAlike, n
  <2>2. i \in DOMAIN log /\ i \in DOMAIN log2 /\ log2[i] = log[i]
    BY <1>1
  <2>. QED  BY <2>2, HiddenMembers
<1>3. e \in J!NoCommit(log2) <=> e.op # "Commit"
  <2>1. n + 1 \in DOMAIN log2
    BY <1>1
  <2>. QED  BY <1>1, <2>1, HiddenMembers
<1>4. Without(log2, J!NoCommit(log2)) =
        IF e \in J!NoCommit(log2) THEN Without(log, J!NoCommit(log))
        ELSE Append(Without(log, J!NoCommit(log)), e)
  BY <1>2, LeftOf DEF log2
<1>5. Without(log, J!NoCommit(log)) \in Seq(EntrySet)
  BY WithoutFacts
<1>6. Len(Append(Without(log, J!NoCommit(log)), e)) = Len(Without(log, J!NoCommit(log))) + 1
  BY <1>5, AppendProperties
<1>. QED
  BY <1>3, <1>4, <1>6 DEF log2

(* An entry that commits nothing: what a part of the journal hides stays   *)
(* hidden, and the new entry is hidden unless its transaction is c.        *)
SameIn(log, c, d) == \A i \in 1 .. Len(log) : log[i].seq = c <=> log[i].seq = d

LEMMA LeftWithEntry ==
  ASSUME NEW c, NEW d, NEW log \in Seq(EntrySet), NEW e \in EntrySet,
         e.op # "Commit", ~J!Committed(log, e.seq), SameIn(log, c, d)
  PROVE  /\ Without(Append(log, e), J!Hidden(Append(log, e))) = Without(log, J!Hidden(log))
         /\ Without(Append(log, e), HiddenBut(Append(log, e), c)) =
              IF e.seq = c THEN Append(Without(log, HiddenBut(log, d)), e)
              ELSE Without(log, HiddenBut(log, d))
<1>. DEFINE log2 == Append(log, e)
            n == Len(log)
<1>1. /\ n \in Nat /\ DOMAIN log = 1 .. n /\ DOMAIN log2 = 1 .. n + 1 /\ log2[n + 1] = e
      /\ \A i \in 1 .. n : log2[i] = log[i]
      /\ \A s : J!Committed(log2, s) <=> J!Committed(log, s) \/ (e.op = "Commit" /\ e.seq = s)
  BY EntryAppended
<1>2. \A i \in 1 .. n : log[i].seq = c <=> log[i].seq = d
  BY DEF SameIn
<1>. HIDE DEF log2, n
<1>3. HideAlike(log, J!Hidden(log), J!Hidden(log2))
  <2>1. SUFFICES ASSUME NEW i \in 1 .. n PROVE log[i] \in J!Hidden(log2) <=> log[i] \in J!Hidden(log)
    BY DEF HideAlike, n
  <2>2. i \in DOMAIN log /\ i \in DOMAIN log2 /\ log2[i] = log[i]
    BY <1>1
  <2>3. log[i] \in J!Hidden(log) <=> log[i].op = "Commit" \/ ~J!Committed(log, log[i].seq)
    BY <2>2, HiddenMembers
  <2>4. log2[i] \in J!Hidden(log2) <=> log2[i].op = "Commit" \/ ~J!Committed(log2, log2[i].seq)
    BY <2>2, HiddenMembers
  <2>. QED  BY <1>1, <2>2, <2>3, <2>4
<1>4. HideAlike(log, HiddenBut(log, d), HiddenBut(log2, c))
  <2>1. SUFFICES ASSUME NEW i \in 1 .. n
                 PROVE  log[i] \in HiddenBut(log2, c) <=> log[i] \in HiddenBut(log, d)
    BY DEF HideAlike, n
  <2>2. i \in DOMAIN log /\ i \in DOMAIN log2 /\ log2[i] = log[i]
    BY <1>1
  <2>3. log[i] \in HiddenBut(log, d)
          <=> log[i].op = "Commit" \/ (~J!Committed(log, log[i].seq) /\ log[i].seq # d)
    BY <2>2, HiddenMembers
  <2>4. log2[i] \in HiddenBut(log2, c)
          <=> log2[i].op = "Commit" \/ (~J!Committed(log2, log2[i].seq) /\ log2[i].seq # c)
    BY <2>2, HiddenMembers
  <2>. QED  BY <1>1, <1>2, <2>2, <2>3, <2>4
<1>5. e \in J!Hidden(log2) /\ (e \in HiddenBut(log2, c) <=> e.seq # c)
  <2>1. n + 1 \in DOMAIN log2
    BY <1>1
  <2>. QED  BY <1>1, <2>1, HiddenMembers
<1>6. Without(log2, J!Hidden(log2)) =
        IF e \in J!Hidden(log2) THEN Without(log, J!Hidden(log)) ELSE Append(Without(log, J!Hidden(log)), e)
  BY <1>3, LeftOf DEF log2
<1>7. Without(log2, HiddenBut(log2, c)) =
        IF e \in HiddenBut(log2, c) THEN Without(log, HiddenBut(log, d))
        ELSE Append(Without(log, HiddenBut(log, d)), e)
  BY <1>4, LeftOf DEF log2
<1>. QED
  BY <1>5, <1>6, <1>7 DEF log2

LEMMA ReplayStates ==
  ASSUME NEW r \in ReplayState, NEW c \in Nat, NEW p \in Seq(EntrySet)
  PROVE  /\ [r EXCEPT !.current = c, !.pending = p] \in ReplayState
         /\ [r EXCEPT !.pending = p] \in ReplayState
         /\ [r EXCEPT !.applied = p, !.count = @ + 1, !.current = 0] \in ReplayState
<1>. DEFINE Q == Seq(EntrySet)
<1>1. r \in [current : Nat, pending : Q, applied : Q, count : Nat] /\ p \in Q
  BY DEF ReplayState
<1>. HIDE DEF Q
<1>2. /\ [r EXCEPT !.current = c, !.pending = p]
           \in [current : Nat, pending : Q, applied : Q, count : Nat]
      /\ [r EXCEPT !.pending = p] \in [current : Nat, pending : Q, applied : Q, count : Nat]
  BY <1>1
<1>3. [r EXCEPT !.applied = p, !.count = @ + 1, !.current = 0]
        \in [current : Nat, pending : Q, applied : Q, count : Nat]
  <2>. DEFINE m == r.count + 1
  <2>1. m \in Nat /\ 0 \in Nat
    BY <1>1
  <2>2. [r EXCEPT !.applied = p, !.count = @ + 1, !.current = 0]
          = [r EXCEPT !.applied = p, !.count = m, !.current = 0]
    OBVIOUS
  <2>. HIDE DEF m
  <2>3. [r EXCEPT !.applied = p, !.count = m, !.current = 0]
          \in [current : Nat, pending : Q, applied : Q, count : Nat]
    BY <1>1, <2>1
  <2>. QED  BY <2>2, <2>3
<1>. QED
  BY <1>2, <1>3 DEF Q, ReplayState

LEMMA OneEntry ==
  ASSUME NEW S, NEW e \in S
  PROVE  <<e>> \in Seq(S)
OBVIOUS

LEMMA BeginReplay ==
  ASSUME NEW log \in Seq(EntrySet), NEW e \in EntrySet, GoodReplay(log),
         e.op = "Begin", e.seq # 0, \A i \in 1 .. Len(log) : log[i].seq # e.seq
  PROVE  GoodReplay(Append(log, e)) /\ J!Replay(Append(log, e)).current = e.seq
<1>. DEFINE log2 == Append(log, e)
            r == J!Replay(log)
            r2 == J!Replay(log2)
            c == e.seq
<1>1. r2 = J!ReplayEntry(r, e)
  BY ReplayAppended
<1>2. r \in ReplayState
  BY DEF GoodReplay
<1>3. ~J!Committed(log, c) /\ ~J!Committed(log2, c) /\ e.op # "Commit"
  <2>1. ~J!Committed(log, c)
    BY LenProperties DEF J!Committed
  <2>. QED  BY <2>1, EntryAppended
<1>0. \A i \in 1 .. Len(log) : i \in DOMAIN log /\ log[i].seq \in Nat
  <2>1. \A i \in 1 .. Len(log) : i \in DOMAIN log /\ log[i] \in EntrySet
    BY EntryAppended
  <2>. QED  BY <2>1 DEF EntrySet
<1>4. SameIn(log, c, -1)
  BY <1>0 DEF SameIn
<1>. HIDE DEF r, r2, log2, c
<1>5. r2 = [r EXCEPT !.current = e.seq, !.pending = <<e>>]
  BY <1>1 DEF J!ReplayEntry
<1>6. /\ r2.current = c /\ r2.pending = <<e>> /\ r2.applied = r.applied /\ r2.count = r.count
      /\ r2 \in ReplayState
  <2>1. c \in Nat
    BY DEF EntrySet, c
  <2>2. <<e>> \in Seq(EntrySet)
    BY OneEntry
  <2>3. r2 \in ReplayState
    BY <1>2, <1>5, <2>1, <2>2, ReplayStates DEF c
  <2>. QED  BY <1>2, <1>5, <2>3 DEF ReplayState, c
<1>7. /\ Without(log2, J!Hidden(log2)) = Without(log, J!Hidden(log))
      /\ Without(log2, HiddenBut(log2, c)) = Append(Without(log, HiddenBut(log, -1)), e)
  BY <1>3, <1>4, LeftWithEntry DEF log2, c
<1>8. Without(log, HiddenBut(log, -1)) = Without(log, J!Hidden(log))
  <2>1. \A i \in 1 .. Len(log) : log[i] \in HiddenBut(log, -1) <=> log[i] \in J!Hidden(log)
    <3>1. SUFFICES ASSUME NEW i \in 1 .. Len(log)
                   PROVE  log[i] \in HiddenBut(log, -1) <=> log[i] \in J!Hidden(log)
      OBVIOUS
    <3>2. i \in DOMAIN log /\ log[i].seq # -1
      BY <1>0
    <3>. QED  BY <3>2, HiddenMembers
  <2>. QED  BY <2>1, WithoutAlike, LenProperties
<1>9. r.applied = Without(log, J!Hidden(log)) /\ r.count = Len(Without(log, J!NoCommit(log)))
  BY DEF GoodReplay, Exact, r
<1>10. r.applied \o <<e>> = Append(r.applied, e)
  BY <1>2, AppendIsConcat DEF ReplayState
<1>11. Len(Without(log2, J!NoCommit(log2))) = Len(Without(log, J!NoCommit(log)))
  BY <1>3, CountAppended DEF log2
<1>12. Exact(log2)
  BY <1>6, <1>7, <1>9, <1>11 DEF Exact, r2
<1>13. HoldsBack(log2)
  BY <1>3, <1>6, <1>7, <1>8, <1>9, <1>10 DEF HoldsBack, r2
<1>. QED
  BY <1>6, <1>12, <1>13 DEF GoodReplay, r2, log2, c

LEMMA OpReplay ==
  ASSUME NEW log \in Seq(EntrySet), NEW e \in EntrySet, GoodReplay(log),
         e.op = "Op", e.seq # 0, J!Replay(log).current = e.seq
  PROVE  GoodReplay(Append(log, e)) /\ J!Replay(Append(log, e)).current = e.seq
<1>. DEFINE log2 == Append(log, e)
            r == J!Replay(log)
            r2 == J!Replay(log2)
            c == e.seq
<1>1. r2 = J!ReplayEntry(r, e)
  BY ReplayAppended
<1>2. r \in ReplayState /\ r.current = c /\ c # 0
  BY DEF GoodReplay
<1>3. ~J!Committed(log, c) /\ e.op # "Commit" /\ r.applied \o r.pending = Without(log, HiddenBut(log, c))
  BY <1>2 DEF GoodReplay, HoldsBack
<1>4. ~J!Committed(log2, c)
  BY <1>3, EntryAppended
<1>. HIDE DEF r, r2, log2, c
<1>5. r2 = [r EXCEPT !.pending = Append(@, e)]
  BY <1>1, <1>2 DEF J!ReplayEntry
<1>6. /\ r2.current = c /\ r2.pending = Append(r.pending, e) /\ r2.applied = r.applied
      /\ r2.count = r.count /\ r2 \in ReplayState
  <2>1. Append(r.pending, e) \in Seq(EntrySet)
    BY <1>2, AppendProperties DEF ReplayState
  <2>2. r2 \in ReplayState
    BY <1>2, <1>5, <2>1, ReplayStates
  <2>. QED  BY <1>2, <1>5, <2>2 DEF ReplayState
<1>7. /\ Without(log2, J!Hidden(log2)) = Without(log, J!Hidden(log))
      /\ Without(log2, HiddenBut(log2, c)) = Append(Without(log, HiddenBut(log, c)), e)
  <2>1. SameIn(log, c, c)
    BY DEF SameIn
  <2>. QED  BY <1>3, <2>1, LeftWithEntry DEF log2, c
<1>8. r.applied = Without(log, J!Hidden(log)) /\ r.count = Len(Without(log, J!NoCommit(log)))
  BY DEF GoodReplay, Exact, r
<1>9. r.applied \o Append(r.pending, e) = Append(r.applied \o r.pending, e)
  <2>. DEFINE a == r.applied
              p == r.pending
  <2>1. a \in Seq(EntrySet) /\ p \in Seq(EntrySet) /\ <<e>> \in Seq(EntrySet)
    BY <1>2 DEF ReplayState
  <2>. HIDE DEF a, p
  <2>2. Append(p, e) = p \o <<e>> /\ (a \o p) \o <<e>> = a \o (p \o <<e>>)
    BY <2>1, AppendIsConcat, ConcatAssociative
  <2>3. Append(a \o p, e) = (a \o p) \o <<e>>
    <3>1. a \o p \in Seq(EntrySet)
      BY <2>1, ConcatProperties
    <3>. QED  BY <3>1, AppendIsConcat
  <2>. QED  BY <2>2, <2>3 DEF a, p
<1>10. Len(Without(log2, J!NoCommit(log2))) = Len(Without(log, J!NoCommit(log)))
  BY <1>3, CountAppended DEF log2
<1>11. Exact(log2)
  BY <1>6, <1>7, <1>8, <1>10 DEF Exact, r2
<1>12. HoldsBack(log2)
  BY <1>3, <1>4, <1>6, <1>7, <1>9 DEF HoldsBack, r2
<1>. QED
  BY <1>6, <1>11, <1>12 DEF GoodReplay, r2, log2, c

LEMMA CommitReplay ==
  ASSUME NEW log \in Seq(EntrySet), NEW e \in EntrySet, GoodReplay(log),
         e.op = "Commit", e.seq # 0, J!Replay(log).current = e.seq
  PROVE  GoodReplay(Append(log, e))
<1>. DEFINE log2 == Append(log, e)
            r == J!Replay(log)
            r2 == J!Replay(log2)
            c == e.seq
            n == Len(log)
<1>1. r2 = J!ReplayEntry(r, e)
  BY ReplayAppended
<1>2. r \in ReplayState /\ r.current = c /\ c # 0
  BY DEF GoodReplay
<1>3. r.applied \o r.pending = Without(log, HiddenBut(log, c))
  BY <1>2 DEF GoodReplay, HoldsBack
<1>4. /\ n \in Nat /\ DOMAIN log = 1 .. n /\ DOMAIN log2 = 1 .. n + 1 /\ log2[n + 1] = e
      /\ \A i \in 1 .. n : log2[i] = log[i]
      /\ \A s : J!Committed(log2, s) <=> J!Committed(log, s) \/ (e.op = "Commit" /\ e.seq = s)
  BY EntryAppended
<1>. HIDE DEF r, r2, log2, c, n
<1>5. r2 = [r EXCEPT !.applied = @ \o r.pending, !.count = @ + 1, !.current = 0]
  BY <1>1, <1>2 DEF J!ReplayEntry, c
<1>6. r.applied \o r.pending \in Seq(EntrySet)
  BY <1>2, ConcatProperties DEF ReplayState
<1>7. /\ r2.current = 0 /\ r2.applied = r.applied \o r.pending /\ r2.count = r.count + 1
      /\ r2 \in ReplayState
  <2>1. r2 \in ReplayState
    BY <1>2, <1>5, <1>6, ReplayStates
  <2>. QED  BY <1>2, <1>5, <2>1 DEF ReplayState
<1>8. Without(log2, J!Hidden(log2)) = Without(log, HiddenBut(log, c))
  <2>1. HideAlike(log, HiddenBut(log, c), J!Hidden(log2))
    <3>1. SUFFICES ASSUME NEW i \in 1 .. n
                   PROVE  log[i] \in J!Hidden(log2) <=> log[i] \in HiddenBut(log, c)
      BY DEF HideAlike, n
    <3>2. i \in DOMAIN log /\ i \in DOMAIN log2 /\ log2[i] = log[i]
      BY <1>4
    <3>3. log[i] \in HiddenBut(log, c)
            <=> log[i].op = "Commit" \/ (~J!Committed(log, log[i].seq) /\ log[i].seq # c)
      BY <3>2, HiddenMembers
    <3>4. log2[i] \in J!Hidden(log2) <=> log2[i].op = "Commit" \/ ~J!Committed(log2, log2[i].seq)
      BY <3>2, HiddenMembers
    <3>. QED  BY <1>4, <3>2, <3>3, <3>4 DEF c
  <2>2. e \in J!Hidden(log2)
    <3>1. n + 1 \in DOMAIN log2
      BY <1>4
    <3>. QED  BY <1>4, <3>1, HiddenMembers
  <2>3. Without(log2, J!Hidden(log2)) =
          IF e \in J!Hidden(log2) THEN Without(log, HiddenBut(log, c))
          ELSE Append(Without(log, HiddenBut(log, c)), e)
    BY <2>1, LeftOf DEF log2
  <2>. QED  BY <2>2, <2>3
<1>9. Len(Without(log2, J!NoCommit(log2))) = r.count + 1
  <2>1. Len(Without(log2, J!NoCommit(log2))) = Len(Without(log, J!NoCommit(log))) + 1
    BY CountAppended DEF log2
  <2>2. r.count = Len(Without(log, J!NoCommit(log)))
    BY DEF GoodReplay, Exact, r
  <2>. QED  BY <2>1, <2>2
<1>10. Exact(log2)
  BY <1>3, <1>7, <1>8, <1>9 DEF Exact, r2
<1>11. HoldsBack(log2)
  BY <1>7 DEF HoldsBack, r2
<1>. QED
  BY <1>7, <1>10, <1>11 DEF GoodReplay, r2, log2

(***************************************************************************)
(* The journal.                                                            *)
(***************************************************************************)

SurvivorsExact == \A n \in 0 .. Len(entries) : Exact(SubSeq(entries, 1, n))

JournalInv ==
  /\ entries \in Seq(EntrySet)
  /\ next_seq \in Nat \ {0}
  /\ \A i \in 1 .. Len(entries) : entries[i].seq < next_seq
  /\ txn \in [Writers -> 0 .. next_seq - 1]
  /\ GoodReplay(entries)
  /\ SurvivorsExact
  /\ \A w \in Writers : txn[w] # 0 => J!Replay(entries).current = txn[w]

LEMMA PrefixAppended ==
  ASSUME NEW S, NEW s \in Seq(S), NEW e \in S
  PROVE  /\ \A n \in 0 .. Len(s) : SubSeq(Append(s, e), 1, n) = SubSeq(s, 1, n)
         /\ SubSeq(Append(s, e), 1, Len(s) + 1) = Append(s, e)
         /\ Len(Append(s, e)) = Len(s) + 1 /\ Len(s) \in Nat
<1>. DEFINE t == Append(s, e)
            m == Len(s)
<1>1. /\ t \in Seq(S) /\ Len(t) = m + 1 /\ m \in Nat
      /\ \A i \in 1 .. m : t[i] = s[i]
  BY AppendProperties, LenProperties
<1>. HIDE DEF t, m
<1>2. ASSUME NEW n \in 0 .. m PROVE SubSeq(t, 1, n) = SubSeq(s, 1, n)
  <2>1. SubSeq(t, 1, n) = [i \in 1 .. n |-> t[i]] /\ SubSeq(s, 1, n) = [i \in 1 .. n |-> s[i]]
    BY <1>1 DEF m
  <2>2. \A i \in 1 .. n : t[i] = s[i]
    BY <1>1
  <2>. QED  BY <2>1, <2>2
<1>3. SubSeq(t, 1, m + 1) = t
  BY <1>1, SubSeqFull
<1>. QED
  BY <1>1, <1>2, <1>3 DEF t, m

LEMMA SurvivorsAppended ==
  ASSUME NEW e \in EntrySet, JournalInv, entries' = Append(entries, e), GoodReplay(entries')
  PROVE  SurvivorsExact'
<1>1. /\ \A n \in 0 .. Len(entries) : SubSeq(entries', 1, n) = SubSeq(entries, 1, n)
      /\ SubSeq(entries', 1, Len(entries) + 1) = entries'
      /\ Len(entries') = Len(entries) + 1 /\ Len(entries) \in Nat
  BY PrefixAppended DEF JournalInv
<1>2. ASSUME NEW n \in 0 .. Len(entries') PROVE Exact(SubSeq(entries', 1, n))
  <2>1. CASE n \in 0 .. Len(entries)
    BY <1>1, <2>1 DEF JournalInv, SurvivorsExact
  <2>2. CASE n = Len(entries) + 1
    BY <1>1, <2>2 DEF GoodReplay
  <2>. QED  BY <1>1, <2>1, <2>2
<1>. QED
  BY <1>2 DEF SurvivorsExact

(* One more entry: the part of the invariant about the sequence.           *)
LEMMA EntryWritten ==
  ASSUME NEW e \in EntrySet, JournalInv, entries' = Append(entries, e), GoodReplay(entries'),
         next_seq' \in Nat, next_seq <= next_seq', e.seq < next_seq'
  PROVE  /\ entries' \in Seq(EntrySet) /\ next_seq' \in Nat \ {0}
         /\ \A i \in 1 .. Len(entries') : entries'[i].seq < next_seq'
         /\ SurvivorsExact'
<1>1. /\ entries' \in Seq(EntrySet) /\ Len(entries') = Len(entries) + 1 /\ Len(entries) \in Nat
      /\ entries'[Len(entries) + 1] = e
      /\ \A i \in 1 .. Len(entries) : entries'[i] = entries[i] /\ entries[i] \in EntrySet
  BY EntryAppended, PrefixAppended DEF JournalInv
<1>2. ASSUME NEW i \in 1 .. Len(entries') PROVE entries'[i].seq < next_seq'
  <2>1. CASE i \in 1 .. Len(entries)
    <3>1. entries[i].seq \in Nat /\ entries[i].seq < next_seq /\ next_seq \in Nat
      BY <1>1, <2>1 DEF EntrySet, JournalInv
    <3>. QED  BY <1>1, <2>1, <3>1
  <2>2. CASE i = Len(entries) + 1
    BY <1>1, <2>2
  <2>. QED  BY <1>1, <2>1, <2>2
<1>3. SurvivorsExact'
  BY SurvivorsAppended
<1>. QED
  BY <1>1, <1>2, <1>3 DEF JournalInv

LEMMA BeginStep ==
  ASSUME NEW w \in Writers, JournalInv, J!Begin(w)
  PROVE  JournalInv'
<1>. DEFINE e == J!Entry(next_seq, "Begin", 0)
<1>1. /\ entries' = Append(entries, e) /\ next_seq' = next_seq + 1
      /\ txn' = [txn EXCEPT ![w] = next_seq]
      /\ next_seq \in Nat \ {0} /\ txn \in [Writers -> 0 .. next_seq - 1]
  BY DEF J!Begin, J!Push, J!NoTarget, JournalInv
<1>2. e \in EntrySet /\ e.op = "Begin" /\ e.seq = next_seq
  BY <1>1 DEF J!Entry, EntrySet
<1>. HIDE DEF e
<1>3. \A i \in 1 .. Len(entries) : entries[i].seq # e.seq
  <2>1. SUFFICES ASSUME NEW i \in 1 .. Len(entries) PROVE entries[i].seq # e.seq
    OBVIOUS
  <2>2. entries[i] \in EntrySet
    BY <1>2, EntryAppended DEF JournalInv
  <2>3. entries[i].seq \in Nat /\ entries[i].seq < next_seq
    BY <2>2 DEF EntrySet, JournalInv
  <2>. QED  BY <1>1, <1>2, <2>3
<1>4. GoodReplay(entries') /\ J!Replay(entries').current = next_seq
  BY <1>1, <1>2, <1>3, BeginReplay DEF JournalInv
<1>5. /\ entries' \in Seq(EntrySet) /\ next_seq' \in Nat \ {0}
      /\ \A i \in 1 .. Len(entries') : entries'[i].seq < next_seq'
      /\ SurvivorsExact'
  <2>1. next_seq' \in Nat /\ next_seq <= next_seq' /\ e.seq < next_seq'
    BY <1>1, <1>2
  <2>. QED  BY <1>1, <1>2, <1>4, <2>1, EntryWritten
<1>6. txn' \in [Writers -> 0 .. next_seq' - 1]
  BY <1>1
<1>7. \A v \in Writers : txn'[v] = next_seq
  BY <1>1, FileSystemAssumption
<1>. QED
  BY <1>4, <1>5, <1>6, <1>7 DEF JournalInv

LEMMA AppendOpStep ==
  ASSUME NEW w \in Writers, NEW target \in Targets, JournalInv, J!AppendOp(w, target)
  PROVE  JournalInv'
<1>. DEFINE e == J!Entry(txn[w], "Op", target)
<1>1. /\ entries' = Append(entries, e) /\ UNCHANGED <<next_seq, txn>>
      /\ next_seq \in Nat \ {0} /\ txn \in [Writers -> 0 .. next_seq - 1]
      /\ txn[w] # 0 /\ txn[w] \in Nat /\ txn[w] < next_seq
      /\ J!Replay(entries).current = txn[w]
  BY DEF J!AppendOp, J!Push, JournalInv
<1>2. e \in EntrySet /\ e.op = "Op" /\ e.seq = txn[w]
  BY <1>1 DEF J!Entry, EntrySet
<1>. HIDE DEF e
<1>3. GoodReplay(entries') /\ J!Replay(entries').current = txn[w]
  BY <1>1, <1>2, OpReplay DEF JournalInv
<1>4. /\ entries' \in Seq(EntrySet) /\ next_seq' \in Nat \ {0}
      /\ \A i \in 1 .. Len(entries') : entries'[i].seq < next_seq'
      /\ SurvivorsExact'
  <2>1. next_seq' \in Nat /\ next_seq <= next_seq' /\ e.seq < next_seq'
    BY <1>1, <1>2
  <2>. QED  BY <1>1, <1>2, <1>3, <2>1, EntryWritten
<1>5. \A v \in Writers : txn'[v] = txn[w]
  BY <1>1, FileSystemAssumption
<1>. QED
  BY <1>1, <1>3, <1>4, <1>5 DEF JournalInv

LEMMA CommitStep ==
  ASSUME NEW w \in Writers, JournalInv, J!Commit(w)
  PROVE  JournalInv'
<1>. DEFINE e == J!Entry(txn[w], "Commit", 0)
<1>1. /\ entries' = Append(entries, e) /\ next_seq' = next_seq /\ txn' = [txn EXCEPT ![w] = 0]
      /\ next_seq \in Nat \ {0} /\ txn \in [Writers -> 0 .. next_seq - 1]
      /\ txn[w] # 0 /\ txn[w] \in Nat /\ txn[w] < next_seq
      /\ J!Replay(entries).current = txn[w]
  BY DEF J!Commit, J!Push, J!NoTarget, JournalInv
<1>2. e \in EntrySet /\ e.op = "Commit" /\ e.seq = txn[w]
  BY <1>1 DEF J!Entry, EntrySet
<1>. HIDE DEF e
<1>3. GoodReplay(entries')
  BY <1>1, <1>2, CommitReplay DEF JournalInv
<1>4. /\ entries' \in Seq(EntrySet) /\ next_seq' \in Nat \ {0}
      /\ \A i \in 1 .. Len(entries') : entries'[i].seq < next_seq'
      /\ SurvivorsExact'
  <2>1. next_seq' \in Nat /\ next_seq <= next_seq' /\ e.seq < next_seq'
    BY <1>1, <1>2
  <2>. QED  BY <1>1, <1>2, <1>3, <2>1, EntryWritten
<1>5. \A v \in Writers : txn'[v] = 0
  BY <1>1, FileSystemAssumption
<1>. QED
  BY <1>1, <1>3, <1>4, <1>5 DEF JournalInv

LEMMA AbandonStep ==
  ASSUME NEW w \in Writers, JournalInv, J!Abandon(w)
  PROVE  JournalInv'
<1>1. /\ UNCHANGED <<entries, next_seq>> /\ txn' = [txn EXCEPT ![w] = 0]
      /\ next_seq \in Nat \ {0} /\ txn \in [Writers -> 0 .. next_seq - 1]
  BY DEF J!Abandon, JournalInv
<1>2. \A v \in Writers : txn'[v] = 0
  BY <1>1, FileSystemAssumption
<1>. QED
  BY <1>1, <1>2 DEF JournalInv, SurvivorsExact

LEMMA InitJournal ==
  J!Init => JournalInv
<1>. SUFFICES ASSUME J!Init PROVE JournalInv
  OBVIOUS
<1>1. entries = <<>> /\ next_seq = 1 /\ txn = [w \in Writers |-> 0]
  BY DEF J!Init
<1>2. /\ entries \in Seq(EntrySet) /\ Len(entries) = 0
      /\ J!Replay(entries) = Fresh
  BY <1>1, ReplayEmpty
<1>3. \A D : Without(entries, D) = <<>>
  BY <1>1, WithoutEmpty
<1>4. Exact(entries) /\ HoldsBack(entries)
  BY <1>2, <1>3 DEF Exact, HoldsBack, Fresh
<1>5. J!Replay(entries) \in ReplayState
  BY <1>2 DEF Fresh, ReplayState
<1>6. SurvivorsExact
  <2>1. \A n \in 0 .. Len(entries) : SubSeq(entries, 1, n) = entries
    BY <1>1, <1>2
  <2>. QED  BY <1>4, <2>1 DEF SurvivorsExact
<1>. QED
  BY <1>1, <1>2, <1>4, <1>5, <1>6 DEF JournalInv, GoodReplay

(***************************************************************************)
(* The tree.                                                               *)
(***************************************************************************)

NodeSet == [id : Nat, data : Data \cup {Empty}, refcount : Nat, checksum : Data \cup {Empty}]

TreeInv ==
  /\ nodes \in Seq(NodeSet) /\ nodes # <<>>
  /\ next_id \in Nat /\ snapshot_count \in Nat
  /\ root = 0 /\ nodes[1].id = 0
  /\ C!References(nodes) = 1 + snapshot_count
  /\ \A i \in 1 .. Len(nodes) : nodes[i].checksum = nodes[i].data

(* References is a sum.                                                    *)
Counts(list) == [i \in 1 .. Len(list) |-> list[i].refcount]
Summed(list) ==
  /\ Len(list) \in Nat
  /\ Counts(list) \in [1 .. Len(list) -> Nat]
  /\ \E f : RunningSum(f, Counts(list), Len(list)) /\ C!References(list) = f[Len(list)]

LEMMA ReferencesSum ==
  ASSUME NEW list \in Seq(NodeSet)
  PROVE  Summed(list)
<1>. DEFINE n == Len(list)
            Upto(f) == f = [i \in 0 .. n |-> IF i = 0 THEN 0 ELSE f[i - 1] + list[i].refcount]
            upTo == CHOOSE f : Upto(f)
<1>1. /\ n \in Nat /\ \A i \in 1 .. n : list[i] \in NodeSet
  BY LenProperties, ElementOfSeq
<1>2. \A i \in 1 .. n : list[i].refcount \in Nat
  BY <1>1 DEF NodeSet
<1>3. Counts(list) \in [1 .. n -> Nat] /\ \A i \in 1 .. n : Counts(list)[i] = list[i].refcount
  BY <1>2 DEF Counts
<1>4. C!References(list) = upTo[n]
  BY DEF C!References
<1>. HIDE DEF n
<1>5. ASSUME NEW f PROVE RunningSum(f, Counts(list), n) <=> Upto(f)
  <2>1. \A i \in 0 .. n : i = 0 \/ Counts(list)[i] = list[i].refcount
    BY <1>1, <1>3
  <2>2. [i \in 0 .. n |-> IF i = 0 THEN 0 ELSE f[i - 1] + Counts(list)[i]]
          = [i \in 0 .. n |-> IF i = 0 THEN 0 ELSE f[i - 1] + list[i].refcount]
    BY <2>1
  <2>. QED  BY <2>2 DEF RunningSum
<1>6. \E f : Upto(f)
  <2>1. \E f : RunningSum(f, Counts(list), n)
    BY <1>1, RunningSumExists
  <2>. HIDE DEF Upto
  <2>. QED  BY <1>5, <2>1
<1>7. Upto(upTo)
  <2>. HIDE DEF Upto
  <2>. QED  BY <1>6
<1>. HIDE DEF Upto, upTo
<1>8. RunningSum(upTo, Counts(list), n)
  BY <1>5, <1>7
<1>. QED
  BY <1>1, <1>3, <1>4, <1>8 DEF Summed, n

(* One node's references change, or a node is added.                       *)
LEMMA ReferencesChanged ==
  ASSUME NEW list \in Seq(NodeSet), NEW list2 \in Seq(NodeSet), NEW i \in 1 .. Len(list),
         Len(list2) = Len(list), \A j \in (1 .. Len(list)) \ {i} : list2[j].refcount = list[j].refcount
  PROVE  C!References(list2) = C!References(list) + (list2[i].refcount - list[i].refcount)
<1>. DEFINE n == Len(list)
            g == Counts(list)
            h == Counts(list2)
<1>1. PICK f : RunningSum(f, g, n) /\ C!References(list) = f[n]
  BY ReferencesSum DEF Summed
<1>2. PICK e : RunningSum(e, h, n) /\ C!References(list2) = e[n]
  BY ReferencesSum DEF Summed
<1>3. /\ n \in Nat /\ g \in [1 .. n -> Nat] /\ h \in [1 .. n -> Nat]
      /\ \A j \in 1 .. n : g[j] = list[j].refcount /\ h[j] = list2[j].refcount
  BY ReferencesSum DEF Summed, Counts
<1>4. \A j \in (1 .. n) \ {i} : list2[j].refcount = list[j].refcount
  OBVIOUS
<1>5. i \in 1 .. n
  OBVIOUS
<1>. HIDE DEF n, g, h
<1>6. DifferAt(g, h, n, i)
  BY <1>3, <1>4, <1>5 DEF DifferAt
<1>7. e[n] = f[n] + (h[i] - g[i])
  BY <1>1, <1>2, <1>3, <1>6, RunningSumChanged
<1>. QED
  BY <1>1, <1>2, <1>3, <1>5, <1>7

LEMMA ReferencesAppended ==
  ASSUME NEW list \in Seq(NodeSet), NEW node \in NodeSet
  PROVE  C!References(Append(list, node)) = C!References(list) + node.refcount
<1>. DEFINE n == Len(list)
            list2 == Append(list, node)
            g == Counts(list)
            h == Counts(list2)
<1>1. /\ list2 \in Seq(NodeSet) /\ n \in Nat /\ Len(list2) = n + 1 /\ list2[n + 1] = node
      /\ \A i \in 1 .. n : list2[i] = list[i]
  BY AppendProperties, LenProperties
<1>. HIDE DEF list2
<1>2. PICK f : RunningSum(f, g, n) /\ C!References(list) = f[n]
  BY ReferencesSum DEF Summed
<1>3. PICK e : RunningSum(e, h, n + 1) /\ C!References(list2) = e[n + 1]
  BY <1>1, ReferencesSum DEF Summed
<1>4. /\ \A i \in 1 .. n : g[i] = list[i].refcount
      /\ \A i \in 1 .. n + 1 : h[i] = list2[i].refcount
  BY <1>1 DEF Counts
<1>. HIDE DEF n, g, h
<1>5. \A i \in 1 .. n : h[i] = g[i]
  BY <1>1, <1>4
<1>6. e[n + 1] = f[n] + h[n + 1]
  BY <1>1, <1>2, <1>3, <1>5, RunningSumExtended
<1>7. h[n + 1] = node.refcount
  BY <1>1, <1>4
<1>. QED
  BY <1>2, <1>3, <1>6, <1>7 DEF list2

(* A node found has the id looked for; one that is there is found.         *)
LEMMA Found ==
  ASSUME NEW id, Len(nodes) \in Nat
  PROVE  /\ C!At(id) = 0 \/ (C!At(id) \in 1 .. Len(nodes) /\ nodes[C!At(id)].id = id)
         /\ (\E i \in 1 .. Len(nodes) : nodes[i].id = id) => C!At(id) # 0
<1>. DEFINE I == {i \in 1 .. Len(nodes) : nodes[i].id = id}
<1>1. C!At(id) = IF I # {} THEN C!Min(I) ELSE 0
  BY DEF C!At, C!SelectInSeq
<1>2. ASSUME I # {} PROVE C!Min(I) \in I
  <2>1. I \subseteq Nat
    OBVIOUS
  <2>. HIDE DEF I
  <2>2. \E x \in I : \A y \in I : x <= y
    BY <1>2, <2>1, SmallestOf
  <2>. QED  BY <2>2 DEF C!Min
<1>. QED
  BY <1>1, <1>2

LEMMA InitTree ==
  C!Init => TreeInv
<1>. SUFFICES ASSUME C!Init PROVE TreeInv
  OBVIOUS
<1>. DEFINE leaf == C!NewLeaf(0, Empty)
<1>1. /\ nodes = <<leaf>> /\ root = 0 /\ next_id = 1 /\ snapshot_count = 0
  BY DEF C!Init
<1>2. leaf \in NodeSet /\ leaf.id = 0 /\ leaf.refcount = 1 /\ leaf.checksum = leaf.data
  BY DEF C!NewLeaf, NodeSet
<1>. HIDE DEF leaf
<1>3. nodes \in Seq(NodeSet) /\ nodes # <<>> /\ Len(nodes) = 1 /\ nodes[1] = leaf
  BY <1>1, <1>2
<1>4. C!References(nodes) = 1
  <2>1. C!References(<<>>) = 0
    <3>1. <<>> \in Seq(NodeSet) /\ Len(<<>>) = 0
      OBVIOUS
    <3>2. PICK f : RunningSum(f, Counts(<<>>), 0) /\ C!References(<<>>) = f[0]
      BY <3>1, ReferencesSum DEF Summed
    <3>. QED  BY <3>2 DEF RunningSum
  <2>2. <<>> \in Seq(NodeSet) /\ nodes = Append(<<>>, leaf)
    BY <1>1
  <2>3. C!References(Append(<<>>, leaf)) = C!References(<<>>) + leaf.refcount
    BY <1>2, <2>2, ReferencesAppended
  <2>. QED  BY <1>2, <2>1, <2>2, <2>3
<1>. QED
  BY <1>1, <1>2, <1>3, <1>4 DEF TreeInv

(* A node of the tree replaced by another with the same id.                *)
Replaced(list, i, node) ==
  /\ list \in Seq(NodeSet) /\ Len(list) = Len(nodes) /\ Len(nodes) \in Nat /\ 1 \in 1 .. Len(nodes)
  /\ \A j \in 1 .. Len(nodes) : list[j] = IF j = i THEN node ELSE nodes[j]
  /\ list[1].id = 0
  /\ C!References(list) = C!References(nodes) + (node.refcount - nodes[i].refcount)

LEMMA NodeReplaced ==
  ASSUME NEW i \in 1 .. Len(nodes), NEW node \in NodeSet, TreeInv, node.id = nodes[i].id
  PROVE  Replaced([nodes EXCEPT ![i] = node], i, node)
<1>. DEFINE list == [nodes EXCEPT ![i] = node]
<1>1. nodes \in Seq(NodeSet) /\ nodes[1].id = 0 /\ nodes # <<>>
  BY DEF TreeInv
<1>2. /\ list \in Seq(NodeSet) /\ Len(list) = Len(nodes) /\ Len(nodes) \in Nat
      /\ \A j \in 1 .. Len(nodes) : list[j] = IF j = i THEN node ELSE nodes[j]
  BY <1>1, ExceptSeq, LenProperties
<1>. HIDE DEF list
<1>3. 1 \in 1 .. Len(nodes) /\ list[1].id = 0
  BY <1>1, <1>2
<1>4. C!References(list) = C!References(nodes) + (list[i].refcount - nodes[i].refcount)
  <2>1. \A j \in (1 .. Len(nodes)) \ {i} : list[j].refcount = nodes[j].refcount
    BY <1>2
  <2>. QED  BY <1>1, <1>2, <2>1, ReferencesChanged
<1>5. list[i] = node
  BY <1>2
<1>. QED
  BY <1>2, <1>3, <1>4, <1>5 DEF list, Replaced

(* The nodes there are, typed.                                             *)
LEMMA NodeTypes ==
  ASSUME NEW i \in 1 .. Len(nodes), TreeInv
  PROVE  /\ nodes[i] \in NodeSet
         /\ nodes[i].id \in Nat /\ nodes[i].refcount \in Nat
         /\ nodes[i].checksum = nodes[i].data /\ nodes[i].data \in Data \cup {Empty}
         /\ \A r \in Nat : [nodes[i] EXCEPT !.refcount = r] \in NodeSet
         /\ \A d \in Data : [nodes[i] EXCEPT !.data = d, !.checksum = d] \in NodeSet
<1>1. nodes[i] \in NodeSet /\ nodes[i].checksum = nodes[i].data
  BY ElementOfSeq DEF TreeInv
<1>. QED
  BY <1>1 DEF NodeSet

LEMMA SnapshotStep ==
  ASSUME TreeInv, C!Snapshot
  PROVE  TreeInv'
<1>. DEFINE i == C!At(root)
<1>1. i \in 1 .. Len(nodes)
  <2>1. nodes \in Seq(NodeSet) /\ nodes # <<>> /\ nodes[1].id = root /\ Len(nodes) \in Nat
    BY LenProperties DEF TreeInv
  <2>2. 1 \in 1 .. Len(nodes)
    BY <2>1
  <2>. QED  BY <2>1, <2>2, Found
<1>. DEFINE r == nodes[i].refcount + 1
            node == [nodes[i] EXCEPT !.refcount = r]
<1>2. /\ nodes' = [nodes EXCEPT ![i].refcount = @ + 1]
      /\ UNCHANGED <<root, next_id>> /\ snapshot_count' = snapshot_count + 1
  BY <1>1 DEF C!Snapshot
<1>. HIDE DEF i
<1>3. nodes[i] \in NodeSet /\ r \in Nat /\ node \in NodeSet
  <2>1. nodes[i] \in NodeSet /\ nodes[i].refcount \in Nat
    BY <1>1, NodeTypes
  <2>2. r \in Nat
    BY <2>1
  <2>. HIDE DEF r
  <2>. QED  BY <1>1, <2>1, <2>2, NodeTypes
<1>4. nodes' = [nodes EXCEPT ![i] = node]
  BY <1>2
<1>5. node.id = nodes[i].id /\ node.refcount = nodes[i].refcount + 1
      /\ node.checksum = node.data
  BY <1>1, <1>3, NodeTypes DEF NodeSet
<1>6. nodes[i].refcount \in Nat
  BY <1>1, NodeTypes
<1>. HIDE DEF r, node
<1>7. /\ nodes' \in Seq(NodeSet) /\ Len(nodes') = Len(nodes) /\ Len(nodes) \in Nat /\ 1 \in 1 .. Len(nodes)
      /\ \A j \in 1 .. Len(nodes) : nodes'[j] = IF j = i THEN node ELSE nodes[j]
      /\ nodes'[1].id = 0
      /\ C!References(nodes') = C!References(nodes) + (node.refcount - nodes[i].refcount)
  <2>1. Replaced([nodes EXCEPT ![i] = node], i, node)
    BY <1>1, <1>3, <1>5, NodeReplaced
  <2>. QED  BY <1>4, <2>1 DEF Replaced
<1>8. C!References(nodes') = 1 + snapshot_count'
  BY <1>2, <1>5, <1>6, <1>7 DEF TreeInv
<1>9. \A j \in 1 .. Len(nodes') : nodes'[j].checksum = nodes'[j].data
  BY <1>5, <1>7 DEF TreeInv
<1>10. nodes' # <<>>
  BY <1>7
<1>. QED
  BY <1>2, <1>7, <1>8, <1>9, <1>10 DEF TreeInv

LEMMA CloneStep ==
  ASSUME NEW i \in 1 .. Len(nodes), NEW data \in Data, TreeInv, nodes[i].refcount > 1,
         nodes' = Append([nodes EXCEPT ![i].refcount = @ - 1], C!NewLeaf(next_id, data)),
         next_id' = next_id + 1, UNCHANGED <<root, snapshot_count>>
  PROVE  TreeInv'
<1>. DEFINE r == nodes[i].refcount - 1
            node == [nodes[i] EXCEPT !.refcount = r]
            list == [nodes EXCEPT ![i] = node]
            leaf == C!NewLeaf(next_id, data)
<1>1. nodes[i] \in NodeSet /\ nodes[i].refcount \in Nat /\ r \in Nat /\ node \in NodeSet
  <2>1. nodes[i] \in NodeSet /\ nodes[i].refcount \in Nat
    BY NodeTypes
  <2>2. r \in Nat
    BY <2>1
  <2>. HIDE DEF r
  <2>. QED  BY <2>1, <2>2, NodeTypes
<1>2. nodes' = Append(list, leaf)
  OBVIOUS
<1>3. node.id = nodes[i].id /\ node.refcount = nodes[i].refcount - 1 /\ node.checksum = node.data
  BY <1>1, NodeTypes DEF NodeSet
<1>4. leaf \in NodeSet /\ leaf.refcount = 1 /\ leaf.checksum = leaf.data
  BY DEF C!NewLeaf, NodeSet, TreeInv
<1>. HIDE DEF r, node, leaf
<1>5. /\ list \in Seq(NodeSet) /\ Len(list) = Len(nodes) /\ Len(nodes) \in Nat /\ 1 \in 1 .. Len(nodes)
      /\ \A j \in 1 .. Len(nodes) : list[j] = IF j = i THEN node ELSE nodes[j]
      /\ list[1].id = 0
      /\ C!References(list) = C!References(nodes) + (node.refcount - nodes[i].refcount)
  <2>1. Replaced([nodes EXCEPT ![i] = node], i, node)
    BY <1>1, <1>3, NodeReplaced
  <2>. QED  BY <2>1 DEF Replaced
<1>. HIDE DEF list
<1>6. /\ nodes' \in Seq(NodeSet) /\ Len(nodes') = Len(nodes) + 1 /\ nodes'[Len(nodes) + 1] = leaf
      /\ \A j \in 1 .. Len(nodes) : nodes'[j] = list[j]
  <2>1. /\ Append(list, leaf) \in Seq(NodeSet) /\ Len(Append(list, leaf)) = Len(list) + 1
        /\ Append(list, leaf)[Len(list) + 1] = leaf
        /\ \A j \in 1 .. Len(list) : Append(list, leaf)[j] = list[j]
    BY <1>4, <1>5, AppendProperties
  <2>. QED  BY <1>2, <1>5, <2>1
<1>7. C!References(nodes') = C!References(list) + leaf.refcount
  BY <1>2, <1>4, <1>5, ReferencesAppended
<1>8. C!References(nodes) = 1 + snapshot_count /\ snapshot_count \in Nat
  BY DEF TreeInv
<1>9. C!References(nodes') = 1 + snapshot_count
  BY <1>1, <1>3, <1>4, <1>5, <1>7, <1>8
<1>10. ASSUME NEW j \in 1 .. Len(nodes') PROVE nodes'[j].checksum = nodes'[j].data
  <2>1. CASE j \in 1 .. Len(nodes)
    BY <1>3, <1>5, <1>6, <2>1 DEF TreeInv
  <2>2. CASE j = Len(nodes) + 1
    BY <1>4, <1>6, <2>2
  <2>. QED  BY <1>5, <1>6, <2>1, <2>2
<1>11. nodes'[1].id = 0 /\ nodes' # <<>>
  <2>1. nodes'[1] = list[1] /\ Len(nodes') # 0
    BY <1>5, <1>6
  <2>. QED  BY <1>5, <2>1
<1>. QED
  BY <1>6, <1>9, <1>10, <1>11 DEF TreeInv

LEMMA OverwriteStep ==
  ASSUME NEW i \in 1 .. Len(nodes), NEW data \in Data, TreeInv,
         nodes' = [nodes EXCEPT ![i].data = data, ![i].checksum = data],
         UNCHANGED <<root, snapshot_count, next_id>>
  PROVE  TreeInv'
<1>. DEFINE node == [nodes[i] EXCEPT !.data = data, !.checksum = data]
<1>1. nodes[i] \in NodeSet /\ nodes[i].refcount \in Nat /\ node \in NodeSet
  BY NodeTypes
<1>2. nodes' = [nodes EXCEPT ![i] = node]
  BY LenProperties DEF TreeInv
<1>3. node.id = nodes[i].id /\ node.refcount = nodes[i].refcount /\ node.checksum = node.data
  BY <1>1 DEF NodeSet
<1>. HIDE DEF node
<1>4. /\ nodes' \in Seq(NodeSet) /\ Len(nodes') = Len(nodes) /\ Len(nodes) \in Nat /\ 1 \in 1 .. Len(nodes)
      /\ \A j \in 1 .. Len(nodes) : nodes'[j] = IF j = i THEN node ELSE nodes[j]
      /\ nodes'[1].id = 0
      /\ C!References(nodes') = C!References(nodes) + (node.refcount - nodes[i].refcount)
  <2>1. Replaced([nodes EXCEPT ![i] = node], i, node)
    BY <1>1, <1>3, NodeReplaced
  <2>. QED  BY <1>2, <2>1 DEF Replaced
<1>5. C!References(nodes') = 1 + snapshot_count'
  BY <1>1, <1>3, <1>4 DEF TreeInv
<1>6. \A j \in 1 .. Len(nodes') : nodes'[j].checksum = nodes'[j].data
  BY <1>3, <1>4 DEF TreeInv
<1>7. nodes' # <<>>
  BY <1>4
<1>. QED
  BY <1>4, <1>5, <1>6, <1>7 DEF TreeInv

LEMMA WriteStep ==
  ASSUME NEW id, NEW data \in Data, TreeInv, C!Write(id, data)
  PROVE  TreeInv'
<1>. DEFINE i == C!At(id)
<1>1. i \in 1 .. Len(nodes)
  <2>1. Len(nodes) \in Nat /\ i # 0
    BY LenProperties DEF TreeInv, C!Write
  <2>. QED  BY <2>1, Found
<1>2. UNCHANGED <<root, snapshot_count>>
  BY DEF C!Write
<1>3. CASE nodes[i].refcount > 1
  <2>1. /\ nodes' = Append([nodes EXCEPT ![i].refcount = @ - 1], C!NewLeaf(next_id, data))
        /\ next_id' = next_id + 1
    BY <1>3 DEF C!Write
  <2>. HIDE DEF i
  <2>. QED  BY <1>1, <1>2, <1>3, <2>1, CloneStep
<1>4. CASE ~(nodes[i].refcount > 1)
  <2>1. /\ nodes' = [nodes EXCEPT ![i].data = data, ![i].checksum = data]
        /\ UNCHANGED next_id
    BY <1>4 DEF C!Write
  <2>. HIDE DEF i
  <2>. QED  BY <1>1, <1>2, <2>1, OverwriteStep
<1>. QED
  BY <1>3, <1>4

(***************************************************************************)
(* The volume.                                                             *)
(***************************************************************************)

FileSystemInv == JournalInv /\ TreeInv

(* Every step of the volume keeps the invariant: a call is on the journal  *)
(* or on the tree.                                                         *)
THEOREM FileSystemInvariant == Spec => []FileSystemInv
<1>1. Init => FileSystemInv
  BY InitJournal, InitTree DEF Init, FileSystemInv
<1>2. FileSystemInv /\ [Next]_vars => FileSystemInv'
  <2>. SUFFICES ASSUME JournalInv, TreeInv, [Next]_vars PROVE JournalInv' /\ TreeInv'
    BY DEF FileSystemInv
  <2>1. UNCHANGED journalVars => JournalInv'
    BY DEF journalVars, JournalInv, SurvivorsExact
  <2>2. UNCHANGED treeVars => TreeInv'
    BY DEF treeVars, TreeInv
  <2>3. CASE J!Next /\ UNCHANGED treeVars
    <3>1. JournalInv'
      BY <2>3, BeginStep, AppendOpStep, CommitStep, AbandonStep DEF J!Next
    <3>. QED  BY <2>2, <2>3, <3>1
  <2>4. CASE C!Next /\ UNCHANGED journalVars
    <3>1. TreeInv'
      BY <2>4, SnapshotStep, WriteStep DEF C!Next
    <3>. QED  BY <2>1, <2>4, <3>1
  <2>5. CASE UNCHANGED vars
    <3>1. UNCHANGED journalVars /\ UNCHANGED treeVars
      BY <2>5 DEF vars
    <3>. QED  BY <2>1, <2>2, <3>1
  <2>. QED  BY <2>3, <2>4, <2>5 DEF Next
<1>. QED
  BY <1>1, <1>2, PTL DEF Spec

(* Recovery: whatever part of the journal a crash leaves, replay() applies *)
(* the transactions committed in it, in order, and nothing else.           *)
THEOREM ReplayCorrect == Spec => []ReplayExact
<1>1. FileSystemInv => ReplayExact
  <2>. SUFFICES ASSUME SurvivorsExact PROVE ReplayExact
    BY DEF FileSystemInv, JournalInv
  <2>1. ASSUME NEW log \in J!Survivors
        PROVE  /\ J!Replay(log).applied = J!Without(log, J!Hidden(log))
               /\ J!Replay(log).count = Len(J!Without(log, J!NoCommit(log)))
    <3>1. Exact(log)
      BY DEF J!Survivors, SurvivorsExact
    <3>. QED  BY <3>1, SameWithout DEF Exact
  <2>. QED  BY <2>1 DEF ReplayExact, J!ReplayExact
<1>. QED
  BY <1>1, FileSystemInvariant, PTL

(* However snapshots and writes follow each other, the nodes' reference    *)
(* counts add up to one for the tree and one for each snapshot, and every  *)
(* node passes verify().                                                   *)
THEOREM ReferencesCorrect == Spec => []RefcountsConserved
<1>1. FileSystemInv => RefcountsConserved
  <2>. SUFFICES ASSUME TreeInv PROVE RefcountsConserved
    BY DEF FileSystemInv
  <2>1. DOMAIN nodes = 1 .. Len(nodes)
    BY LenProperties DEF TreeInv
  <2>. QED  BY <2>1 DEF TreeInv, RefcountsConserved, C!RefcountsConserved
<1>. QED
  BY <1>1, FileSystemInvariant, PTL
===============================================================================
