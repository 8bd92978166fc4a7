------------------------------ MODULE ThreadProofs ------------------------------
(***************************************************************************)
(* Proofs about threads: whom the scheduler lets run (Scheduler.tla),      *)
(* whose they are and what their processes may do (Tasks.tla).  The        *)
(* current thread always has a slice and pick_next passes over nobody; the *)
(* lists of threads agree, and a token is what it was granted for: for any *)
(* number of threads, levels, processes, callers and capabilities.         *)
(***************************************************************************)
EXTENDS Scheduler, Tasks, LibraryFacts, FiniteSetTheorems

(* Constants, in the shape the provers use. *)
LEMMA AttrTyped ==
  ASSUME NEW t \in Threads
  PROVE  /\ Attr[t].policy \in Policies
         /\ Attr[t].priority \in -20 .. 20
         /\ Attr[t].rt \in 0 .. 255
         /\ Attr[t].deadline \in Nat \cup {None}
         /\ Attr[t].vruntime \in Nat
         /\ Attr[t].state \in {"Ready", "Blocked"}
BY SchedulerAssumption

(* A queued thread has one place in the Vec. *)
LEMMA PositionFacts ==
  ASSUME queue \in Seq(Threads), NEW t \in Queued
  PROVE  /\ t \in Threads
         /\ Position(t) \in Nat
         /\ queue[Position(t)] = t
<1>1. DOMAIN queue \subseteq Nat /\ \A i \in DOMAIN queue : queue[i] \in Threads
  BY LenProperties, ElementOfSeq
<1>2. PICK i \in DOMAIN queue : queue[i] = t
  BY DEF Queued, ToSet
<1>3. Position(t) \in DOMAIN queue /\ queue[Position(t)] = t
  BY <1>2 DEF Position
<1>. QED
  BY <1>1, <1>3

(* Of some queued threads one has the smallest key, and stands before the  *)
(* others with that key: the one a loop of pick_next ends with.            *)
LEMMA BestExists ==
  ASSUME queue \in Seq(Threads), NEW S, S \subseteq Queued, S # {}, NEW key \in [S -> Nat]
  PROVE  \E t \in S : \A u \in S \ {t} :
           key[t] <= key[u] /\ (Position(u) < Position(t) => key[t] < key[u])
<1>. DEFINE Keys == {key[t] : t \in S}
<1>1. Keys \subseteq Nat /\ Keys # {}
  OBVIOUS
<1>2. PICK k \in Keys : \A j \in Keys : k <= j
  <2>. HIDE DEF Keys
  <2>. QED  BY <1>1, SmallestOf
<1>. DEFINE Places == {Position(t) : t \in {u \in S : key[u] = k}}
<1>3. Places \subseteq Nat /\ Places # {}
  BY <1>2, PositionFacts
<1>4. PICK p \in Places : \A q \in Places : p <= q
  <2>. HIDE DEF Places
  <2>. QED  BY <1>3, SmallestOf
<1>5. PICK t \in S : key[t] = k /\ Position(t) = p
  BY <1>4
<1>6. ASSUME NEW u \in S \ {t}
      PROVE  key[t] <= key[u] /\ (Position(u) < Position(t) => key[t] < key[u])
  <2>1. k <= key[u] /\ key[u] \in Nat /\ k \in Nat
    BY <1>2
  <2>2. Position(u) \in Nat /\ Position(t) \in Nat
    BY PositionFacts
  <2>3. key[u] = k => p <= Position(u)
    BY <1>4
  <2>. QED  BY <1>5, <2>1, <2>2, <2>3
<1>. QED
  BY <1>6

(* The loops of pick_next, one lemma each: the candidate they end with is  *)
(* one they looked at, and none they looked at is better.                  *)
LEMMA FirstDueFacts ==
  ASSUME TypeOK, WithDeadline # {}
  PROVE  /\ FirstDue \in WithDeadline
         /\ \A u \in WithDeadline : ~(Attr[u].deadline < Attr[FirstDue].deadline)
<1>. DEFINE S == WithDeadline
            key == [t \in S |-> Attr[t].deadline]
<1>0. /\ queue \in Seq(Threads)
      /\ S \subseteq Queued /\ S # {}
      /\ \A t \in S : Attr[t].deadline \in Nat
  BY PositionFacts, AttrTyped DEF WithDeadline, Ready, TypeOK
<1>. HIDE DEF S
<1>1. PICK t \in S : \A u \in S \ {t} :
        key[t] <= key[u] /\ (Position(u) < Position(t) => key[t] < key[u])
  <2>1. key \in [S -> Nat]
    BY <1>0
  <2>. HIDE DEF key
  <2>. QED  BY <1>0, <2>1, BestExists
<1>2. \A u \in S \ {t} : ~SoonerDeadline(u, t)
                         /\ (Position(u) < Position(t) => SoonerDeadline(t, u))
  BY <1>0, <1>1 DEF SoonerDeadline
<1>3. FirstDue \in S /\ \A u \in S \ {FirstDue} : ~SoonerDeadline(u, FirstDue)
  BY <1>2 DEF FirstDue, First, S
<1>. QED
  BY <1>0, <1>3 DEF SoonerDeadline, S

LEMMA HigherRtIsMore ==
  ASSUME NEW a, NEW b, Attr[a].rt \in 0 .. 255, Attr[b].rt \in 0 .. 255
  PROVE  HigherRt(a, b) <=> Attr[b].rt < Attr[a].rt
BY DEF HigherRt

LEMMA FirstRealtimeFacts ==
  ASSUME TypeOK, Ready("Realtime") # {}
  PROVE  /\ FirstRealtime \in Ready("Realtime")
         /\ \A u \in Ready("Realtime") : ~(Attr[u].rt > Attr[FirstRealtime].rt)
<1>. DEFINE S == Ready("Realtime")
            key == [t \in S |-> 255 - Attr[t].rt]
<1>0. /\ queue \in Seq(Threads)
      /\ S \subseteq Queued /\ S # {}
      /\ \A t \in S : Attr[t].rt \in 0 .. 255
  BY PositionFacts, AttrTyped DEF Ready, TypeOK
<1>. HIDE DEF S
<1>1. PICK t \in S : \A u \in S \ {t} :
        key[t] <= key[u] /\ (Position(u) < Position(t) => key[t] < key[u])
  <2>1. ASSUME NEW t \in S PROVE 255 - Attr[t].rt \in Nat
    <3>1. Attr[t].rt \in 0 .. 255
      BY <1>0
    <3>. QED  BY <3>1
  <2>2. key \in [S -> Nat]
    BY <2>1
  <2>. HIDE DEF key
  <2>. QED  BY <1>0, <2>2, BestExists
<1>2. ASSUME NEW u \in S \ {t}
      PROVE  ~HigherRt(u, t) /\ (Position(u) < Position(t) => HigherRt(t, u))
  <2>1. Attr[u].rt \in 0 .. 255 /\ Attr[t].rt \in 0 .. 255
    BY <1>0
  <2>2. /\ 255 - Attr[t].rt <= 255 - Attr[u].rt
        /\ Position(u) < Position(t) => 255 - Attr[t].rt < 255 - Attr[u].rt
    BY <1>1
  <2>3. /\ ~(Attr[t].rt < Attr[u].rt)
        /\ Position(u) < Position(t) => Attr[u].rt < Attr[t].rt
    <3>1. Attr[u].rt \in Int /\ Attr[t].rt \in Int
      BY <2>1
    <3>. QED  BY <2>2, <3>1
  <2>4. /\ HigherRt(u, t) <=> Attr[t].rt < Attr[u].rt
        /\ HigherRt(t, u) <=> Attr[u].rt < Attr[t].rt
    BY <2>1, HigherRtIsMore
  <2>. QED  BY <2>3, <2>4
<1>3. FirstRealtime \in S /\ \A u \in S \ {FirstRealtime} : ~HigherRt(u, FirstRealtime)
  BY <1>2 DEF FirstRealtime, First, S
<1>. QED
  <2>1. ASSUME NEW u \in S PROVE ~(Attr[u].rt > Attr[FirstRealtime].rt)
    <3>1. CASE u = FirstRealtime
      <4>1. Attr[u].rt \in 0 .. 255
        BY <1>0
      <4>. QED  BY <4>1, <3>1
    <3>2. CASE u # FirstRealtime
      BY <1>3, <3>2 DEF HigherRt
    <3>. QED  BY <3>1, <3>2
  <2>. QED  BY <1>3, <2>1 DEF S

(* The priority of the MLFQ comparison is within the range of Priority.    *)
LEMMA EffectiveTyped ==
  ASSUME NEW t \in Threads, priority \in [Threads -> -20 .. 20]
  PROVE  Effective(t) \in -20 .. 20
BY DEF Effective, Clamp

(* Level first and then priority, as one number. *)
LEMMA LevelFirst ==
  ASSUME NEW m \in Int, NEW n \in Int, NEW x \in -20 .. 20, NEW y \in -20 .. 20
  PROVE  41 * m + (20 - x) < 41 * n + (20 - y) <=> m < n \/ (m = n /\ y < x)
<1>1. CASE m < n
  <2>1. 41 * m + 41 <= 41 * n
    BY <1>1
  <2>. QED  BY <1>1, <2>1
<1>2. CASE m = n
  BY <1>2
<1>3. CASE n < m
  <2>1. 41 * n + 41 <= 41 * m
    BY <1>3
  <2>. QED  BY <1>3, <2>1
<1>. QED
  BY <1>1, <1>2, <1>3

LEMMA HigherMlfqIsMore ==
  ASSUME NEW a, NEW b, level[a] \in Nat, level[b] \in Nat,
         Effective(a) \in -20 .. 20, Effective(b) \in -20 .. 20
  PROVE  HigherMlfq(a, b)
           <=> level[a] < level[b] \/ (level[a] = level[b] /\ Effective(b) < Effective(a))
BY DEF HigherMlfq

LEMMA FirstMlfqFacts ==
  ASSUME TypeOK, Ready("Mlfq") # {}
  PROVE  /\ FirstMlfq \in Ready("Mlfq")
         /\ \A u \in Ready("Mlfq") : ~HigherMlfq(u, FirstMlfq)
<1>. DEFINE S == Ready("Mlfq")
            eff == [t \in S |-> Effective(t)]
            key == [t \in S |-> 41 * level[t] + (20 - eff[t])]
<1>0. /\ queue \in Seq(Threads)
      /\ S \subseteq Queued /\ S # {}
  BY DEF Ready, TypeOK
<1>a. \A t \in S : level[t] \in Nat /\ Effective(t) \in -20 .. 20
  BY PositionFacts, EffectiveTyped, SchedulerAssumption DEF Ready, TypeOK
<1>b. \A t \in S : level[t] \in Nat /\ eff[t] \in -20 .. 20 /\ eff[t] = Effective(t)
  BY <1>a
<1>. HIDE DEF S, eff
<1>1. PICK t \in S : \A u \in S \ {t} :
        key[t] <= key[u] /\ (Position(u) < Position(t) => key[t] < key[u])
  <2>1. key \in [S -> Nat]
    BY <1>b
  <2>. HIDE DEF key
  <2>. QED  BY <1>0, <2>1, BestExists
<1>2. ASSUME NEW u \in S, NEW v \in S PROVE key[u] < key[v] <=> HigherMlfq(u, v)
  <2>1. /\ key[u] = 41 * level[u] + (20 - eff[u]) /\ eff[u] = Effective(u)
        /\ key[v] = 41 * level[v] + (20 - eff[v]) /\ eff[v] = Effective(v)
        /\ level[u] \in Nat /\ level[v] \in Nat
        /\ eff[u] \in -20 .. 20 /\ eff[v] \in -20 .. 20
    BY <1>b
  <2>. HIDE DEF key
  <2>2. key[u] < key[v] <=> level[u] < level[v] \/ (level[u] = level[v] /\ eff[v] < eff[u])
    <3>. DEFINE x == eff[u]
                y == eff[v]
    <3>1. key[u] < key[v] <=> 41 * level[u] + (20 - x) < 41 * level[v] + (20 - y)
      BY <2>1
    <3>2. x \in -20 .. 20 /\ y \in -20 .. 20 /\ level[u] \in Int /\ level[v] \in Int
      BY <2>1
    <3>. HIDE DEF x, y
    <3>3. 41 * level[u] + (20 - x) < 41 * level[v] + (20 - y)
            <=> level[u] < level[v] \/ (level[u] = level[v] /\ y < x)
      BY <3>2, LevelFirst
    <3>. QED  BY <3>1, <3>3 DEF x, y
  <2>3. HigherMlfq(u, v)
          <=> level[u] < level[v] \/ (level[u] = level[v] /\ eff[v] < eff[u])
    BY <2>1, HigherMlfqIsMore
  <2>. QED  BY <2>2, <2>3
<1>3. \A u \in S : key[u] \in Nat
  BY <1>b
<1>. HIDE DEF key
<1>4. \A u \in S \ {t} : ~HigherMlfq(u, t) /\ (Position(u) < Position(t) => HigherMlfq(t, u))
  BY <1>1, <1>2, <1>3
<1>5. FirstMlfq \in S /\ \A u \in S \ {FirstMlfq} : ~HigherMlfq(u, FirstMlfq)
  BY <1>4 DEF FirstMlfq, First, S
<1>6. ~HigherMlfq(FirstMlfq, FirstMlfq)
  BY <1>2, <1>3, <1>5
<1>. QED
  BY <1>5, <1>6 DEF S

LEMMA FirstCfsFacts ==
  ASSUME TypeOK, Ready("Cfs") # {}
  PROVE  /\ FirstCfs \in Ready("Cfs")
         /\ \A u \in Ready("Cfs") : ~(Attr[u].vruntime < Attr[FirstCfs].vruntime)
<1>. DEFINE S == Ready("Cfs")
            key == [t \in S |-> Attr[t].vruntime]
<1>0. /\ queue \in Seq(Threads)
      /\ S \subseteq Queued /\ S # {}
      /\ \A t \in S : Attr[t].vruntime \in Nat
  BY PositionFacts, AttrTyped DEF Ready, TypeOK
<1>. HIDE DEF S
<1>1. PICK t \in S : \A u \in S \ {t} :
        key[t] <= key[u] /\ (Position(u) < Position(t) => key[t] < key[u])
  <2>1. key \in [S -> Nat]
    BY <1>0
  <2>. HIDE DEF key
  <2>. QED  BY <1>0, <2>1, BestExists
<1>2. \A u \in S \ {t} : ~LowerVruntime(u, t)
                         /\ (Position(u) < Position(t) => LowerVruntime(t, u))
  BY <1>0, <1>1 DEF LowerVruntime
<1>3. FirstCfs \in S /\ \A u \in S \ {FirstCfs} : ~LowerVruntime(u, FirstCfs)
  BY <1>2 DEF FirstCfs, First, S
<1>. QED
  BY <1>0, <1>3 DEF LowerVruntime, S

(* What pick_next decides: nobody only when nobody is ready, and otherwise *)
(* a ready thread that no ready thread outranks.                           *)
Unsurpassed(t) ==
  /\ t \in Queued /\ state[t] = "Ready"
  /\ \A u \in Queued : state[u] = "Ready" => ~Outranks(u, t)

LEMMA ReadyIsOfAPolicy ==
  ASSUME TypeOK, NEW u \in Queued, state[u] = "Ready"
  PROVE  /\ u \in Threads /\ u # None
         /\ u \in Ready("Realtime") \cup Ready("Mlfq") \cup Ready("Cfs")
         /\ Urgent(u) => u \in WithDeadline
BY PositionFacts, AttrTyped, SchedulerAssumption
   DEF TypeOK, Policies, Ready, Urgent, WithDeadline

LEMMA ChoiceUnsurpassed ==
  ASSUME TypeOK
  PROVE  IF Choice = None THEN \A u \in Queued : state[u] # "Ready" ELSE Unsurpassed(Choice)
<1>0. \A u \in Queued : u \in Threads /\ u # None
  BY PositionFacts, SchedulerAssumption DEF TypeOK
<1>1. CASE DeadlineImminent
  <2>1. Choice = FirstDue /\ WithDeadline # {} /\ FirstDue \in WithDeadline
    BY <1>1, FirstDueFacts DEF Choice, DeadlineImminent
  <2>2. FirstDue \in Queued /\ state[FirstDue] = "Ready" /\ Urgent(FirstDue)
    BY <1>1, <2>1 DEF DeadlineImminent, WithDeadline, Ready, Urgent
  <2>3. \A u \in Queued : state[u] = "Ready" => ~Outranks(u, FirstDue)
    <3>1. SUFFICES ASSUME NEW u \in Queued, state[u] = "Ready", Outranks(u, FirstDue)
                   PROVE  FALSE
      OBVIOUS
    <3>2. Urgent(u) /\ Attr[u].deadline < Attr[FirstDue].deadline
      BY <2>2, <3>1 DEF Outranks, Class, Urgent
    <3>3. u \in WithDeadline
      BY <3>1, <3>2, ReadyIsOfAPolicy
    <3>. QED  BY <2>1, <3>2, <3>3, FirstDueFacts
  <2>. QED  BY <1>0, <2>1, <2>2, <2>3 DEF Unsurpassed
<1>2. ASSUME ~DeadlineImminent, NEW u \in Queued, state[u] = "Ready" PROVE ~Urgent(u)
  <2>1. SUFFICES ASSUME Urgent(u) PROVE FALSE
    OBVIOUS
  <2>2. u \in WithDeadline
    BY <1>2, <2>1, ReadyIsOfAPolicy
  <2>3. FirstDue \in WithDeadline /\ ~(Attr[u].deadline < Attr[FirstDue].deadline)
    BY <2>2, FirstDueFacts
  <2>4. Attr[u].deadline \in Nat /\ Attr[FirstDue].deadline \in Nat /\ now \in Nat
    BY <2>2, <2>3, <1>0, AttrTyped, SchedulerAssumption DEF WithDeadline, Ready, TypeOK
  <2>5. ~(Attr[FirstDue].deadline <= now + 1)
    BY <1>2, <2>2 DEF DeadlineImminent
  <2>. QED  BY <2>1, <2>3, <2>4, <2>5 DEF Urgent
<1>3. CASE ~DeadlineImminent /\ Ready("Realtime") # {}
  <2>1. Choice = FirstRealtime /\ FirstRealtime \in Ready("Realtime")
    BY <1>3, FirstRealtimeFacts DEF Choice
  <2>2. /\ FirstRealtime \in Queued /\ state[FirstRealtime] = "Ready"
        /\ Class(FirstRealtime) = 1
    BY <2>1 DEF Ready, Class
  <2>3. \A u \in Queued : state[u] = "Ready" => ~Outranks(u, FirstRealtime)
    <3>1. SUFFICES ASSUME NEW u \in Queued, state[u] = "Ready", Outranks(u, FirstRealtime)
                   PROVE  FALSE
      OBVIOUS
    <3>2. ~Urgent(u) /\ Class(u) \in 1 .. 3 /\ (Class(u) = 1 => u \in Ready("Realtime"))
      BY <1>2, <1>3, <3>1, ReadyIsOfAPolicy DEF Class, Ready
    <3>3. Class(u) = 1 /\ Attr[u].rt > Attr[FirstRealtime].rt
      BY <2>2, <3>1, <3>2 DEF Outranks
    <3>. QED  BY <1>3, <3>2, <3>3, FirstRealtimeFacts
  <2>. QED  BY <1>0, <2>1, <2>2, <2>3 DEF Unsurpassed
<1>4. CASE ~DeadlineImminent /\ Ready("Realtime") = {} /\ Ready("Mlfq") # {}
  <2>1. Choice = FirstMlfq /\ FirstMlfq \in Ready("Mlfq")
    BY <1>4, FirstMlfqFacts DEF Choice
  <2>2. FirstMlfq \in Queued /\ state[FirstMlfq] = "Ready" /\ Class(FirstMlfq) = 2
    BY <2>1 DEF Ready, Class
  <2>3. \A u \in Queued : state[u] = "Ready" => ~Outranks(u, FirstMlfq)
    <3>1. SUFFICES ASSUME NEW u \in Queued, state[u] = "Ready", Outranks(u, FirstMlfq)
                   PROVE  FALSE
      OBVIOUS
    <3>2. ~Urgent(u) /\ Class(u) \in 2 .. 3 /\ (Class(u) = 2 => u \in Ready("Mlfq"))
      BY <1>2, <1>4, <3>1, ReadyIsOfAPolicy DEF Class, Ready
    <3>3. Class(u) = 2 /\ HigherMlfq(u, FirstMlfq)
      BY <2>2, <3>1, <3>2 DEF Outranks
    <3>. QED  BY <1>4, <3>2, <3>3, FirstMlfqFacts
  <2>. QED  BY <1>0, <2>1, <2>2, <2>3 DEF Unsurpassed
<1>5. CASE /\ ~DeadlineImminent /\ Ready("Realtime") = {} /\ Ready("Mlfq") = {}
           /\ Ready("Cfs") # {}
  <2>1. Choice = FirstCfs /\ FirstCfs \in Ready("Cfs")
    BY <1>5, FirstCfsFacts DEF Choice
  <2>2. FirstCfs \in Queued /\ state[FirstCfs] = "Ready" /\ Class(FirstCfs) = 3
    BY <2>1 DEF Ready, Class
  <2>3. \A u \in Queued : state[u] = "Ready" => ~Outranks(u, FirstCfs)
    <3>1. SUFFICES ASSUME NEW u \in Queued, state[u] = "Ready", Outranks(u, FirstCfs)
                   PROVE  FALSE
      OBVIOUS
    <3>2. ~Urgent(u) /\ Class(u) = 3 /\ u \in Ready("Cfs")
      BY <1>2, <1>5, <3>1, ReadyIsOfAPolicy DEF Class, Ready
    <3>3. Attr[u].vruntime < Attr[FirstCfs].vruntime
      BY <2>2, <3>1, <3>2 DEF Outranks
    <3>. QED  BY <1>5, <3>2, <3>3, FirstCfsFacts
  <2>. QED  BY <1>0, <2>1, <2>2, <2>3 DEF Unsurpassed
<1>6. CASE /\ ~DeadlineImminent /\ Ready("Realtime") = {} /\ Ready("Mlfq") = {}
           /\ Ready("Cfs") = {}
  <2>1. Choice = None
    BY <1>6 DEF Choice
  <2>. QED  BY <1>6, <2>1, ReadyIsOfAPolicy
<1>. QED
  BY <1>1, <1>3, <1>4, <1>5, <1>6

------------------------------------------------------------------------------

(* The current thread is one of the queue.                                 *)
CurrentQueued == current # None => current \in Queued

IInv == TypeOK /\ CurrentQueued

LEMMA InitIInv == Init => IInv
<1>. SUFFICES ASSUME Init PROVE IInv
  OBVIOUS
<1>1. queue \in Seq(Threads) /\ IsInjective(queue) /\ Queued = {}
  BY DEF Init, Queued, ToSet, IsInjective
<1>2. level \in [Threads -> 0 .. MlfqLevels - 1]
  BY SchedulerAssumption DEF Init
<1>3. priority \in [Threads -> -20 .. 20] /\ state \in [Threads -> {"Ready", "Blocked"}]
  BY AttrTyped DEF Init
<1>4. /\ quantum_used \in [Threads -> Nat]
      /\ current = None /\ gaming_mode \in BOOLEAN /\ foreground_game = None
  BY <1>1 DEF Init
<1>5. now \in 0 .. MaxTime
  BY SchedulerAssumption DEF Init
<1>. QED
  BY <1>1, <1>2, <1>3, <1>4, <1>5 DEF IInv, TypeOK, CurrentQueued

(* Actions that leave the queue alone. *)
LEMMA YieldKeepsIInv ==
  ASSUME IInv, NEW t \in Threads, YieldThread(t)
  PROVE  IInv'
<1>. USE DEF IInv, TypeOK, CurrentQueued
<1>1. level' \in [Threads -> 0 .. MlfqLevels - 1]
  <2>1. CASE t \in Queued /\ Attr[t].policy = "Mlfq" /\ level[t] < MlfqLevels - 1
    <3>1. level' = [level EXCEPT ![t] = level[t] + 1]
      BY <2>1 DEF YieldThread
    <3>2. level[t] + 1 \in 0 .. MlfqLevels - 1
      BY <2>1, SchedulerAssumption
    <3>. QED  BY <3>1, <3>2
  <2>2. CASE ~(t \in Queued /\ Attr[t].policy = "Mlfq" /\ level[t] < MlfqLevels - 1)
    <3>1. level' = level
      BY <2>2 DEF YieldThread
    <3>. QED  BY <3>1
  <2>. QED  BY <2>1, <2>2
<1>2. state' \in [Threads -> {"Ready", "Blocked"}] /\ quantum_used' \in [Threads -> Nat]
  <2>1. state' = [state EXCEPT ![t] = "Ready"] \/ state' = state
    BY DEF YieldThread
  <2>2. quantum_used' = [quantum_used EXCEPT ![t] = 0] \/ quantum_used' = quantum_used
    BY DEF YieldThread
  <2>. HIDE DEF IInv, TypeOK, CurrentQueued
  <2>0. state \in [Threads -> {"Ready", "Blocked"}] /\ quantum_used \in [Threads -> Nat]
    BY DEF IInv, TypeOK
  <2>3. state' \in [Threads -> {"Ready", "Blocked"}]
    BY <2>0, <2>1
  <2>4. quantum_used' \in [Threads -> Nat]
    BY <2>0, <2>2
  <2>. QED  BY <2>3, <2>4
<1>3. /\ queue' = queue /\ priority' = priority
      /\ UNCHANGED modeVars /\ now' = now
      /\ current' = IF current = t THEN None ELSE current
  BY DEF YieldThread
<1>4. Queued' = Queued
  BY <1>3 DEF Queued
<1>. QED
  BY <1>1, <1>2, <1>3, <1>4 DEF modeVars

LEMMA NextKeepsIInv == IInv /\ [Next]_vars => IInv'
<1>. SUFFICES ASSUME IInv, [Next]_vars PROVE IInv'
  OBVIOUS
<1>. USE DEF IInv
<1>0. \A t \in Queued : t \in Threads
  BY PositionFacts DEF TypeOK
<1>1. ASSUME NEW t \in Threads, AddThread(t) PROVE IInv'
  <2>1. /\ queue' \in Seq(Threads)
        /\ Queued' = Queued \cup {t}
        /\ IsInjective(queue')
    BY <1>1, AppendNew DEF AddThread, TypeOK, Queued
  <2>2. level' \in [Threads -> 0 .. MlfqLevels - 1]
    BY <1>1, SchedulerAssumption DEF AddThread, TypeOK
  <2>3. /\ priority' \in [Threads -> -20 .. 20]
        /\ state' \in [Threads -> {"Ready", "Blocked"}]
        /\ quantum_used' \in [Threads -> Nat]
    BY <1>1, AttrTyped DEF AddThread, TypeOK
  <2>. QED
    BY <1>1, <2>1, <2>2, <2>3 DEF AddThread, TypeOK, CurrentQueued, modeVars
<1>2. ASSUME NEW t \in Queued, RemoveThread(t) PROVE IInv'
  <2>1. /\ queue' \in Seq(Threads)
        /\ Queued' = Queued \ {t}
        /\ IsInjective(queue')
    BY <1>2, WithoutFacts DEF RemoveThread, TypeOK, Queued
  <2>. QED
    BY <1>2, <2>1 DEF RemoveThread, TypeOK, CurrentQueued, modeVars
<1>3. ASSUME NEW enabled \in BOOLEAN, NEW p \in Pids \cup {None}, SetGamingMode(enabled, p)
      PROVE  IInv'
  BY <1>3 DEF SetGamingMode, TypeOK, CurrentQueued, threadVars, Queued
<1>4. CASE PickNext
  <2>1. Choice = None \/ Choice \in Queued
    BY ChoiceUnsurpassed DEF Unsurpassed
  <2>2. current' = Choice /\ Queued' = Queued
    BY <1>4 DEF PickNext, threadVars, Queued
  <2>. QED
    BY <1>0, <1>4, <2>1, <2>2
    DEF PickNext, TypeOK, CurrentQueued, threadVars, modeVars
<1>5. ASSUME NEW t \in Queued, YieldThread(t) PROVE IInv'
  BY <1>0, <1>5, YieldKeepsIInv
<1>6. CASE Preempt
  BY <1>6, YieldKeepsIInv DEF Preempt, TypeOK
<1>7. ASSUME NEW t \in Queued, OnFrameComplete(t) PROVE IInv'
  <2>1. level' \in [Threads -> 0 .. MlfqLevels - 1] /\ priority' \in [Threads -> -20 .. 20]
    <3>1. 0 \in 0 .. MlfqLevels - 1 /\ 20 \in -20 .. 20
      BY SchedulerAssumption
    <3>2. level' = [level EXCEPT ![t] = 0] /\ priority' = [priority EXCEPT ![t] = 20]
      BY <1>7 DEF OnFrameComplete
    <3>. QED  BY <3>1, <3>2 DEF TypeOK
  <2>. QED
    BY <1>7, <2>1 DEF OnFrameComplete, TypeOK, CurrentQueued, modeVars, Queued
<1>8. CASE Advance
  <2>1. now' \in 0 .. MaxTime
    BY <1>8, SchedulerAssumption DEF Advance, TypeOK
  <2>. QED
    BY <1>8, <2>1 DEF Advance, TypeOK, CurrentQueued, threadVars, modeVars, Queued
<1>9. CASE UNCHANGED vars
  BY <1>9 DEF vars, TypeOK, CurrentQueued, threadVars, modeVars, Queued
<1>. QED
  BY <1>1, <1>2, <1>3, <1>4, <1>5, <1>6, <1>7, <1>8, <1>9 DEF Next

(* The invariant of all the theorems below. *)
LEMMA Invariance == Spec => []IInv
BY InitIInv, NextKeepsIInv, PTL DEF Spec

(* The variables keep their types: a thread is queued once however it is   *)
(* added and removed, levels stay below MLFQ_LEVELS whatever yields and    *)
(* frame completions come, and pick_next answers a queued thread or none.  *)
THEOREM TypeCorrect == Spec => []TypeOK
<1>1. IInv => TypeOK
  BY DEF IInv
<1>. QED
  BY <1>1, Invariance, PTL

------------------------------------------------------------------------------

LEMMA ReadyIsCounted ==
  ASSUME TypeOK, NEW p
  PROVE  Cardinality(Ready(p)) \in Nat
<1>1. Len(queue) \in Nat /\ DOMAIN queue = 1 .. Len(queue)
  BY LenProperties DEF TypeOK
<1>2. queue \in [1 .. Len(queue) -> Queued] /\ Queued = {queue[i] : i \in 1 .. Len(queue)}
  BY <1>1 DEF TypeOK, Queued, ToSet
<1>3. IsFiniteSet(Queued)
  <2>1. queue \in Surjection(1 .. Len(queue), Queued)
    BY <1>2 DEF Surjection
  <2>2. IsFiniteSet(1 .. Len(queue))
    BY <1>1, FS_Interval
  <2>. QED  BY <2>1, <2>2, FS_Surjection
<1>4. Ready(p) \subseteq Queued
  BY DEF Ready
<1>. QED
  BY <1>3, <1>4, FS_Subset, FS_CardinalityType

LEMMA SliceOfCurrent == IInv => CurrentHasSlice
<1>. SUFFICES ASSUME IInv, current # None PROVE CurrentQuantum # 0
  BY DEF CurrentHasSlice
<1>. USE DEF IInv
<1>0. current \in Queued /\ current \in Threads /\ Attr[current].policy \in Policies
  BY AttrTyped DEF CurrentQueued, TypeOK
<1>1. CASE Attr[current].policy = "Realtime"
  BY <1>0, <1>1, SchedulerAssumption DEF CurrentQuantum
<1>2. CASE Attr[current].policy = "Mlfq"
  <2>1. CurrentQuantum = BaseQuantum * 2^level[current]
    BY <1>0, <1>2 DEF CurrentQuantum
  <2>2. 2^level[current] \in Nat \ {0}
    <3>1. level[current] \in 0 .. MlfqLevels
      BY <1>0, SchedulerAssumption DEF TypeOK
    <3>. QED  BY <3>1, SchedulerAssumption
  <2>. QED  BY <2>1, <2>2 DEF BaseQuantum
<1>3. CASE Attr[current].policy = "Cfs"
  <2>. DEFINE n == Cardinality(Ready("Cfs"))
              m == IF n = 0 THEN 1 ELSE n
              slice == CfsTargetLatency \div m
  <2>1. CurrentQuantum = IF slice < CfsMinGranularity THEN CfsMinGranularity ELSE slice
    BY <1>0, <1>3 DEF CurrentQuantum
  <2>2. m \in Nat \ {0}
    BY ReadyIsCounted
  <2>. HIDE DEF m
  <2>3. slice \in Int
    BY <2>2, DivMod DEF CfsTargetLatency
  <2>. QED  BY <2>1, <2>3 DEF CfsMinGranularity
<1>. QED
  BY <1>0, <1>1, <1>2, <1>3 DEF Policies

(* The current thread always has a slice: current_quantum_ns never answers *)
(* 0 for it, as it would if a thread could leave the queue and stay        *)
(* current.                                                                *)
THEOREM SliceHolds == Spec => []CurrentHasSlice
BY SliceOfCurrent, Invariance, PTL

(* pick_next answers a ready thread that no ready thread outranks in the   *)
(* order its comment gives, whatever the queue holds, and answers none     *)
(* only when no thread is ready.                                           *)
THEOREM NobodyPassedOver == Spec => NeverPassedOver
<1>1. IInv /\ [Next]_vars => [PassesNobodyOver]_vars
  <2>. SUFFICES ASSUME IInv PROVE PassesNobodyOver
    OBVIOUS
  <2>. SUFFICES ASSUME PickNext
       PROVE IF current' = None THEN \A u \in Queued : state[u] # "Ready"
             ELSE \A u \in Queued : state[u] = "Ready" => ~Outranks(u, current')
    BY DEF PassesNobodyOver
  <2>1. current' = Choice
    BY DEF PickNext
  <2>2. IF Choice = None THEN \A u \in Queued : state[u] # "Ready" ELSE Unsurpassed(Choice)
    BY ChoiceUnsurpassed DEF IInv
  <2>. QED  BY <2>1, <2>2 DEF Unsurpassed
<1>. QED
  BY <1>1, Invariance, PTL DEF Spec, NeverPassedOver
-------------------------------------------------------------------------------
(***************************************************************************)
(* The security manager: the tokens of processes.                          *)
(***************************************************************************)

Grant == [token : Nat \ {0}, pid : ProcessIds, cap : Caps]

TokenTypes ==
  /\ issued \in Seq(Grant)
  /\ next_token \in Nat \ {0}
  /\ grants \in [Callers -> Grant \cup {NoGrant}]
  /\ handed_out \subseteq Grant
  /\ revoked \subseteq Nat

Granting(c) == grants[c] # NoGrant

(* A token is in one grant at most, of those a caller is about to issue    *)
(* and those that have returned, and below the counter.                    *)
TokensOnce ==
  /\ \A g \in handed_out : g.token < next_token
  /\ \A g, h \in handed_out : g.token = h.token => g = h
  /\ \A c \in Callers : Granting(c) =>
       /\ grants[c].token < next_token
       /\ \A g \in handed_out : g.token # grants[c].token
       /\ grants[c].token \notin revoked
  /\ \A c, d \in Callers : Granting(c) /\ Granting(d) /\ c # d => grants[c].token # grants[d].token
  /\ \A token \in revoked : token < next_token

(* The table holds the grants that have returned and were not revoked,     *)
(* each once.                                                              *)
IssuedExact ==
  /\ ToSet(issued) = {g \in handed_out : g.token \notin revoked}
  /\ IsInjective(issued)

TokensInv == TokenTypes /\ TokensOnce /\ IssuedExact

(***************************************************************************)
(* Sequences without repetition.                                           *)
(***************************************************************************)

(* The element at one place taken out.                                     *)
LEMMA RemoveOne ==
  ASSUME NEW S, NEW s \in Seq(S), NEW i \in DOMAIN s, IsInjective(s)
  PROVE  /\ RemoveAt(s, i) \in Seq(S)
         /\ ToSet(RemoveAt(s, i)) = ToSet(s) \ {s[i]}
         /\ IsInjective(RemoveAt(s, i))
<1>. DEFINE n == Len(s)
            t == RemoveAt(s, i)
<1>1. n \in Nat /\ DOMAIN s = 1 .. n /\ i \in 1 .. n
  BY LenProperties
<1>4. t \in Seq(S) /\ Len(t) = n - 1 /\ \A k \in 1 .. n - 1 : t[k] = IF k < i THEN s[k] ELSE s[k + 1]
  BY RemoveAtPlaces
<1>. HIDE DEF t, n
<1>5. DOMAIN t = 1 .. n - 1
  BY <1>4, LenProperties
<1>. DEFINE From(m) == IF m < i THEN m ELSE m + 1
<1>6. \A m \in 1 .. n - 1 : From(m) \in 1 .. n /\ From(m) # i /\ t[m] = s[From(m)]
  BY <1>1, <1>4
<1>7. \A k \in 1 .. n : k # i => \E m \in 1 .. n - 1 : From(m) = k
  <2>1. SUFFICES ASSUME NEW k \in 1 .. n, k # i PROVE \E m \in 1 .. n - 1 : From(m) = k
    OBVIOUS
  <2>2. CASE k < i
    <3>1. k \in 1 .. n - 1 /\ From(k) = k
      BY <1>1, <2>2
    <3>. QED  BY <3>1
  <2>3. CASE k > i
    <3>1. k - 1 \in 1 .. n - 1 /\ From(k - 1) = k
      BY <1>1, <2>3
    <3>. QED  BY <3>1
  <2>. QED  BY <1>1, <2>1, <2>2, <2>3
<1>8. \A l, m \in 1 .. n - 1 : From(l) = From(m) => l = m
  BY <1>1
<1>. HIDE DEF From
<1>9. ToSet(t) = ToSet(s) \ {s[i]}
  <2>1. \A k \in 1 .. n : k # i => s[k] # s[i]
    BY <1>1 DEF IsInjective
  <2>2. ASSUME NEW x \in ToSet(t) PROVE x \in ToSet(s) \ {s[i]}
    BY <1>1, <1>5, <1>6, <2>1, <2>2 DEF ToSet
  <2>3. ASSUME NEW x \in ToSet(s), x # s[i] PROVE x \in ToSet(t)
    <3>1. PICK k \in 1 .. n : x = s[k] /\ k # i
      BY <1>1, <2>3 DEF ToSet
    <3>2. PICK m \in 1 .. n - 1 : From(m) = k
      BY <1>7, <3>1
    <3>. QED  BY <1>5, <1>6, <3>1, <3>2 DEF ToSet
  <2>. QED  BY <2>2, <2>3
<1>10. IsInjective(t)
  BY <1>1, <1>5, <1>6, <1>8 DEF IsInjective
<1>. QED
  BY <1>4, <1>9, <1>10 DEF t

(***************************************************************************)
(* Grants and revocations.                                                 *)
(***************************************************************************)

LEMMA InitTokens == TasksInit => TokensInv
<1>. SUFFICES ASSUME TasksInit PROVE TokensInv
  OBVIOUS
<1>1. ToSet(<<>>) = {} /\ IsInjective(<<>>)
  BY DEF ToSet, IsInjective
<1>. QED
  BY <1>1 DEF TasksInit, TokensInv, TokenTypes, TokensOnce, IssuedExact, Granting

LEMMA NotNone == \A g \in Grant : g # NoGrant
  BY DEF Grant, NoGrant

LEMMA TakeTokenStep ==
  ASSUME TokensInv, NEW c \in Callers, NEW pid \in ProcessIds, NEW cap \in Caps, TakeToken(c, pid, cap)
  PROVE  TokensInv'
<1>. DEFINE g == [token |-> next_token, pid |-> pid, cap |-> cap]
<1>1. /\ grants' = [grants EXCEPT ![c] = g] /\ next_token' = next_token + 1
      /\ UNCHANGED <<issued, handed_out, revoked>>
  BY DEF TakeToken
<1>2. g \in Grant /\ g.token = next_token /\ next_token \in Nat
  BY DEF Grant, TokensInv, TokenTypes
<1>. HIDE DEF g
<1>3. TokenTypes'
  BY <1>1, <1>2 DEF TokensInv, TokenTypes
<1>4. grants'[c] = g /\ \A d \in Callers \ {c} : grants'[d] = grants[d]
  BY <1>1 DEF TokensInv, TokenTypes
<1>5. \A h \in handed_out : h.token \in Nat
  BY DEF TokensInv, TokenTypes, Grant
<1>6. \A d \in Callers : Granting(d) => grants[d].token \in Nat
  BY DEF TokensInv, TokenTypes, Grant, Granting
<1>7. TokensOnce'
  <2>1. \A h \in handed_out : h.token < next_token /\ h.token < next_token'
    BY <1>1, <1>2, <1>5 DEF TokensInv, TokensOnce
  <2>2. \A token \in revoked : token < next_token /\ token < next_token'
    BY <1>1, <1>2 DEF TokensInv, TokenTypes, TokensOnce
  <2>3. \A d \in Callers \ {c} : (Granting(d))' = Granting(d)
    BY <1>4 DEF Granting
  <2>4. ASSUME NEW d \in Callers, (Granting(d))'
        PROVE  /\ grants'[d].token < next_token'
               /\ \A h \in handed_out : h.token # grants'[d].token
               /\ grants'[d].token \notin revoked
    <3>1. CASE d = c
      BY <1>1, <1>2, <1>4, <2>1, <2>2, <3>1
    <3>2. CASE d # c
      BY <1>1, <1>2, <1>4, <1>6, <2>3, <2>4, <3>2 DEF TokensInv, TokensOnce
    <3>. QED  BY <3>1, <3>2
  <2>5. ASSUME NEW d \in Callers, NEW e \in Callers, (Granting(d))', (Granting(e))', d # e
        PROVE  grants'[d].token # grants'[e].token
    <3>1. \A b \in Callers : Granting(b) => grants[b].token < next_token
      BY DEF TokensInv, TokensOnce
    <3>. QED  BY <1>2, <1>4, <1>6, <2>3, <2>5, <3>1 DEF TokensInv, TokensOnce
  <2>. QED  BY <1>1, <2>1, <2>2, <2>4, <2>5 DEF TokensInv, TokensOnce
<1>8. IssuedExact'
  BY <1>1 DEF TokensInv, IssuedExact
<1>. QED
  BY <1>3, <1>7, <1>8 DEF TokensInv

LEMMA IssueStep ==
  ASSUME TokensInv, NEW c \in Callers, Issue(c)
  PROVE  TokensInv'
<1>. DEFINE g == grants[c]
<1>1. /\ Granting(c) /\ g \in Grant
      /\ issued' = Append(issued, g) /\ handed_out' = handed_out \cup {g}
      /\ grants' = [grants EXCEPT ![c] = NoGrant]
      /\ UNCHANGED <<next_token, revoked>>
  BY DEF Issue, Granting, TokensInv, TokenTypes
<1>2. g \notin handed_out /\ g.token \notin revoked
  BY <1>1 DEF TokensInv, TokensOnce
<1>3. g \notin ToSet(issued)
  BY <1>2 DEF TokensInv, IssuedExact
<1>. HIDE DEF g
<1>4. /\ issued' \in Seq(Grant) /\ IsInjective(issued')
      /\ ToSet(issued') = ToSet(issued) \cup {g}
  BY <1>1, <1>3, AppendNew DEF TokensInv, TokenTypes, IssuedExact
<1>5. TokenTypes'
  BY <1>1, <1>4 DEF TokensInv, TokenTypes
<1>6. IssuedExact'
  BY <1>1, <1>2, <1>4 DEF TokensInv, IssuedExact
<1>7. ~(Granting(c))' /\ \A d \in Callers \ {c} : grants'[d] = grants[d]
  BY <1>1 DEF TokensInv, TokenTypes, Granting
<1>8. TokensOnce'
  BY <1>1, <1>7 DEF TokensInv, TokensOnce, Granting, g
<1>. QED
  BY <1>5, <1>6, <1>8 DEF TokensInv

LEMMA RevokeStep ==
  ASSUME TokensInv, NEW g \in handed_out, Revoke(g.token)
  PROVE  TokensInv'
<1>. DEFINE at == {i \in DOMAIN issued : issued[i].token = g.token}
<1>1. /\ issued' = IF at = {} THEN issued
                   ELSE RemoveAt(issued, CHOOSE i \in at : \A j \in at : i <= j)
      /\ revoked' = revoked \cup {g.token}
      /\ UNCHANGED <<next_token, grants, handed_out>>
  BY DEF Revoke
<1>2. TokensOnce' /\ revoked' \subseteq Nat
  <2>1. g.token \in Nat
    BY DEF TokensInv, TokenTypes, Grant
  <2>2. TokensOnce'
    BY <1>1 DEF TokensInv, TokensOnce, Granting
  <2>. QED  BY <1>1, <2>1, <2>2 DEF TokensInv, TokenTypes
<1>3. \A i \in DOMAIN issued : issued[i] \in handed_out /\ issued[i].token \notin revoked
  BY DEF TokensInv, IssuedExact, ToSet
<1>4. \A i \in DOMAIN issued : i \in at <=> issued[i] = g
  BY <1>3 DEF TokensInv, TokensOnce
<1>5. CASE at = {}
  <2>1. g \notin ToSet(issued)
    BY <1>4, <1>5 DEF ToSet
  <2>2. ToSet(issued) = {h \in handed_out : h.token \notin revoked'}
    BY <1>1, <2>1 DEF TokensInv, IssuedExact, TokensOnce
  <2>3. IssuedExact'
    BY <1>1, <1>5, <2>2 DEF TokensInv, IssuedExact
  <2>. QED  BY <1>1, <1>2, <1>5, <2>3 DEF TokensInv, TokenTypes
<1>6. CASE at # {}
  <2>1. PICK i \in DOMAIN issued : issued[i] = g
    BY <1>4, <1>6
  <2>2. at = {i}
    BY <1>4, <2>1 DEF TokensInv, IssuedExact, IsInjective
  <2>3. i \in Nat
    BY <2>1, LenProperties DEF TokensInv, TokenTypes
  <2>. HIDE DEF at
  <2>4. (CHOOSE k \in at : \A j \in at : k <= j) = i
    BY <2>2, <2>3
  <2>5. issued' = RemoveAt(issued, i)
    BY <1>1, <1>6, <2>4
  <2>6. /\ issued' \in Seq(Grant) /\ IsInjective(issued')
        /\ ToSet(issued') = ToSet(issued) \ {g}
    BY <2>1, <2>5, RemoveOne DEF TokensInv, TokenTypes, IssuedExact
  <2>7. IssuedExact'
    BY <1>1, <2>6 DEF TokensInv, IssuedExact, TokensOnce
  <2>. QED  BY <1>1, <1>2, <2>6, <2>7 DEF TokensInv, TokenTypes
<1>. QED
  BY <1>5, <1>6

LEMMA NextTokens == TokensInv /\ [TasksNext]_taskVars => TokensInv'
<1>. SUFFICES ASSUME TokensInv, [TasksNext]_taskVars PROVE TokensInv'
  OBVIOUS
<1>1. ASSUME UNCHANGED security PROVE TokensInv'
  BY <1>1 DEF security, TokensInv, TokenTypes, TokensOnce, IssuedExact, Granting
<1>2. CASE Spawn \/ \E pid \in ProcessIds : SpawnThread(pid) \/ End(pid, "Killed") \/ End(pid, "Exited")
  BY <1>1, <1>2 DEF Spawn, SpawnThread, End
<1>3. CASE UNCHANGED taskVars
  BY <1>1, <1>3 DEF taskVars, table, security
<1>. QED
  BY <1>2, <1>3, TakeTokenStep, IssueStep, RevokeStep DEF TasksNext

LEMMA TokensHold == TasksSpec => []TokensInv
  BY InitTokens, NextTokens, PTL DEF TasksSpec

(* What check and verify_token answer is what was granted and not revoked. *)
LEMMA AnswersExact ==
  ASSUME TokensInv
  PROVE  TokensExact
<1>1. \A i \in DOMAIN issued : issued[i] \in handed_out /\ issued[i].token \notin revoked
  BY DEF TokensInv, IssuedExact, ToSet
<1>2. \A g \in handed_out : g.token \notin revoked => \E i \in DOMAIN issued : issued[i] = g
  BY DEF TokensInv, IssuedExact, ToSet
<1>3. ASSUME NEW g \in handed_out, NEW pid \in ProcessIds, NEW cap \in Caps
      PROVE  Verifies(g.token, pid, cap) <=> pid = g.pid /\ cap = g.cap /\ g.token \notin revoked
  <2>. DEFINE at == {i \in DOMAIN issued : issued[i].token = g.token /\ issued[i].pid = pid}
              first == CHOOSE i \in at : \A j \in at : i <= j
  <2>1. Verifies(g.token, pid, cap) <=> at # {} /\ issued[first].cap = cap
    BY DEF Verifies
  <2>2. \A i \in at : issued[i] = g
    BY <1>1 DEF TokensInv, TokensOnce
  <2>3. CASE at = {}
    BY <1>2, <2>1, <2>3
  <2>4. CASE at # {}
    <3>1. PICK i \in at : issued[i] = g
      BY <2>2, <2>4
    <3>2. at = {i} /\ i \in Nat
      BY <2>2, <3>1, LenProperties DEF TokensInv, IssuedExact, IsInjective, TokenTypes
    <3>3. pid = g.pid /\ g.token \notin revoked
      BY <1>1, <3>1
    <3>. HIDE DEF at
    <3>4. first = i
      BY <3>2
    <3>. QED  BY <2>1, <2>4, <3>1, <3>3, <3>4
  <2>. QED  BY <2>3, <2>4
<1>4. ASSUME NEW pid \in ProcessIds, NEW cap \in Caps
      PROVE  Check(pid, cap) <=> \E g \in handed_out : g.pid = pid /\ g.cap = cap /\ g.token \notin revoked
  BY <1>1, <1>2 DEF Check
<1>. QED
  BY <1>3, <1>4 DEF TokensExact

(* A token that a grant has returned is valid for its process and its      *)
(* capability until it is revoked, and then never again, whatever other    *)
(* callers grant and revoke between taking a number and storing it         *)
(* (security.rs:96-137).                                                   *)
THEOREM TokensCorrect == TasksSpec => []TokensExact
<1>1. TokensInv => TokensExact
  BY AnswersExact
<1>. QED
  BY <1>1, TokensHold, PTL

-------------------------------------------------------------------------------
(***************************************************************************)
(* Processes and their threads.                                            *)
(***************************************************************************)

Process == [pid : ProcessIds, state : {"Runnable", "Killed", "Exited"}, threads : Seq(Nat)]

(* Numbers are given out in order, and a process stands at its number.     *)
Numbered ==
  /\ next_pid \in 1 .. MaxPid + 1 /\ next_tid \in 1 .. MaxTid + 1
  /\ processes \in Seq(Process) /\ Len(processes) = next_pid - 1
  /\ \A i \in 1 .. next_pid - 1 : processes[i].pid = i
  /\ threads \in Seq(Thread)
  /\ \A t \in ToSet(threads) : t.tid < next_tid
  /\ born \in [ProcessIds -> 0 .. next_tid] /\ ended \in [ProcessIds -> 0 .. next_tid]

(* What ThreadsAgree says, by the number of the process.                   *)
ListsAgree ==
  \A i \in 1 .. next_pid - 1 :
    processes[i].state = "Runnable" => processes[i].threads = Tids(Without(threads, NotOf(i, born[i])))
NoneLeft == \A t \in ToSet(threads) : t.tid >= ended[t.pid]

Table == Numbered /\ ListsAgree /\ NoneLeft

LEMMA TidsFacts ==
  ASSUME NEW s \in Seq(Thread)
  PROVE  /\ Tids(s) \in Seq(Nat)
         /\ Len(Tids(s)) = Len(s)
         /\ \A i \in 1 .. Len(s) : Tids(s)[i] = s[i].tid
<1>0. \A e \in Thread : e.tid \in Nat
  BY DEF Thread
<1>1. Len(s) \in Nat /\ DOMAIN s = 1 .. Len(s) /\ \A i \in 1 .. Len(s) : s[i].tid \in Nat
  BY <1>0, LenProperties
<1>2. Tids(s) \in [1 .. Len(s) -> Nat] /\ \A i \in 1 .. Len(s) : Tids(s)[i] = s[i].tid
  BY <1>1 DEF Tids
<1>3. Tids(s) \in Seq(Nat)
  BY <1>1, <1>2, SeqDef
<1>. QED
  BY <1>1, <1>2, <1>3, LenProperties

LEMMA TidsAppend ==
  ASSUME NEW s \in Seq(Thread), NEW e \in Thread
  PROVE  Tids(Append(s, e)) = Append(Tids(s), e.tid)
<1>. DEFINE t == Append(s, e)
            n == Len(s)
            l == Tids(s)
            r == Tids(t)
            a == Append(l, e.tid)
<1>1. e.tid \in Nat
  BY DEF Thread
<1>2. /\ n \in Nat /\ t \in Seq(Thread) /\ Len(t) = n + 1 /\ t[n + 1] = e
      /\ \A i \in 1 .. n : t[i] = s[i]
  BY AppendProperties, LenProperties
<1>3. /\ l \in Seq(Nat) /\ Len(l) = n /\ \A i \in 1 .. n : l[i] = s[i].tid
  BY TidsFacts
<1>4. /\ r \in Seq(Nat) /\ Len(r) = n + 1 /\ \A i \in 1 .. n + 1 : r[i] = t[i].tid
  <2>. HIDE DEF t
  <2>. QED  BY <1>2, TidsFacts
<1>. HIDE DEF l, r, t, n
<1>5. /\ a \in Seq(Nat) /\ Len(a) = n + 1 /\ a[n + 1] = e.tid
      /\ \A i \in 1 .. n : a[i] = l[i]
  BY <1>1, <1>3, AppendProperties
<1>. HIDE DEF a
<1>6. \A i \in 1 .. n + 1 : r[i] = a[i]
  <2>1. SUFFICES ASSUME NEW i \in 1 .. n + 1 PROVE r[i] = a[i]
    OBVIOUS
  <2>2. CASE i = n + 1
    BY <1>2, <1>4, <1>5, <2>2
  <2>3. CASE i \in 1 .. n
    BY <1>2, <1>3, <1>4, <1>5, <2>3
  <2>. QED  BY <1>2, <2>2, <2>3
<1>7. r = a
  BY <1>4, <1>5, <1>6, SeqEqual
<1>. QED
  BY <1>7 DEF r, a, l, t

(* The threads of a process, when a thread of it or of another is made.    *)
LEMMA OwnAppended ==
  ASSUME NEW s \in Seq(Thread), NEW e \in Thread, NEW i, NEW first
  PROVE  Tids(Without(Append(s, e), NotOf(i, first)))
           = IF e.pid # i \/ e.tid < first THEN Tids(Without(s, NotOf(i, first)))
             ELSE Append(Tids(Without(s, NotOf(i, first))), e.tid)
<1>. DEFINE D == NotOf(i, first)
            own == Without(s, D)
<1>1. own \in Seq(Thread)
  BY WithoutFacts
<1>2. e \in D <=> e.pid # i \/ e.tid < first
  BY DEF NotOf
<1>. HIDE DEF D
<1>3. Without(Append(s, e), D) = IF e \in D THEN own ELSE Append(own, e)
  BY WithoutAppend
<1>. HIDE DEF own
<1>4. Tids(Append(own, e)) = Append(Tids(own), e.tid)
  BY <1>1, TidsAppend
<1>5. Tids(Without(Append(s, e), D)) = IF e \in D THEN Tids(own) ELSE Append(Tids(own), e.tid)
  BY <1>3, <1>4
<1>. QED
  BY <1>2, <1>5 DEF own, D

(* And when the threads of another process go.                             *)
LEMMA OwnRetained ==
  ASSUME NEW pid, NEW i, NEW first, i # pid, threads \in Seq(Thread)
  PROVE  Without(Retained(pid), NotOf(i, first)) = Without(threads, NotOf(i, first))
<1>. DEFINE D == {t \in Thread : t.pid = pid}
<1>1. D \cup NotOf(i, first) = NotOf(i, first)
  BY DEF NotOf
<1>. QED
  BY <1>1, WithoutTwice DEF Retained

(***************************************************************************)
(* The steps of the table.                                                 *)
(***************************************************************************)

LEMMA InitTable == TasksInit => Table
<1>. SUFFICES ASSUME TasksInit PROVE Table
  OBVIOUS
<1>1. processes \in Seq(Process) /\ threads \in Seq(Thread) /\ ToSet(threads) = {}
  BY DEF TasksInit, ToSet
<1>2. /\ next_pid \in 1 .. MaxPid + 1 /\ next_tid \in 1 .. MaxTid + 1
      /\ born \in [ProcessIds -> 0 .. next_tid] /\ ended \in [ProcessIds -> 0 .. next_tid]
  BY BoundsAssumption DEF TasksInit
<1>. QED
  BY <1>1, <1>2 DEF TasksInit, Table, Numbered, ListsAgree, NoneLeft

LEMMA ThreadsTyped ==
  ASSUME Numbered, NEW t \in ToSet(threads)
  PROVE  t \in Thread /\ t.tid \in Nat /\ t.pid \in ProcessIds /\ t.tid < next_tid
<1>1. t \in Thread
  BY LenProperties DEF Numbered, ToSet
<1>. QED
  BY <1>1 DEF Thread, Numbered

(* What numbers are used as.                                               *)
LEMMA NumbersTyped ==
  ASSUME Numbered
  PROVE  /\ next_pid \in Nat /\ next_tid \in Nat /\ DOMAIN processes = 1 .. next_pid - 1
         /\ 1 .. next_pid - 1 \subseteq ProcessIds
         /\ \A i \in ProcessIds : born[i] \in Nat /\ born[i] <= next_tid
         /\ \A i \in ProcessIds : ended[i] \in Nat /\ ended[i] <= next_tid
<1>1. next_pid \in Nat /\ next_tid \in Nat /\ next_pid - 1 <= MaxPid
  BY BoundsAssumption DEF Numbered
<1>2. DOMAIN processes = 1 .. next_pid - 1
  BY <1>1, LenProperties DEF Numbered
<1>3. 1 .. next_pid - 1 \subseteq ProcessIds
  BY <1>1, BoundsAssumption DEF ProcessIds
<1>4. \A i \in ProcessIds : born[i] \in 0 .. next_tid /\ ended[i] \in 0 .. next_tid
  BY DEF Numbered
<1>. QED
  BY <1>1, <1>2, <1>3, <1>4

LEMMA SpawnTable ==
  ASSUME Table, Spawn
  PROVE  Table'
<1>. DEFINE n == next_pid
            p == [pid |-> n, state |-> "Runnable", threads |-> <<>>]
<1>1. /\ processes' = Append(processes, p) /\ next_pid' = n + 1
      /\ born' = [born EXCEPT ![n] = next_tid]
      /\ threads' = threads /\ next_tid' = next_tid /\ ended' = ended
  BY DEF Spawn, security
<1>2. /\ n \in 1 .. MaxPid /\ next_pid' \in 1 .. MaxPid + 1
      /\ n \in Nat /\ next_pid' - 1 = n
  BY <1>1, BoundsAssumption DEF Spawn, Table, Numbered
<1>3. p \in Process /\ p.pid = n /\ p.state = "Runnable" /\ p.threads = <<>>
  BY <1>2 DEF Process, ProcessIds
<1>. HIDE DEF p
<1>4. /\ processes' \in Seq(Process) /\ Len(processes') = n
      /\ processes'[n] = p /\ \A i \in 1 .. n - 1 : processes'[i] = processes[i]
  BY <1>1, <1>2, <1>3, AppendProperties DEF Table, Numbered
<1>5. /\ born' \in [ProcessIds -> 0 .. next_tid] /\ born'[n] = next_tid
      /\ \A i \in 1 .. n - 1 : born'[i] = born[i]
  <2>1. born \in [ProcessIds -> 0 .. next_tid] /\ next_tid \in 0 .. next_tid /\ n \in ProcessIds
    BY <1>2, NumbersTyped DEF Table, Numbered, ProcessIds
  <2>2. 1 .. n - 1 \subseteq ProcessIds
    BY NumbersTyped DEF Table
  <2>. QED  BY <1>1, <2>1, <2>2
<1>6. Numbered'
  BY <1>1, <1>2, <1>3, <1>4, <1>5 DEF Table, Numbered
<1>7. ListsAgree'
  <2>1. Tids(Without(threads, NotOf(n, next_tid))) = <<>>
    <3>. DEFINE own == Without(threads, NotOf(n, next_tid))
    <3>1. own \in Seq(Thread) /\ ToSet(own) = ToSet(threads) \ NotOf(n, next_tid)
      BY WithoutFacts DEF Table, Numbered
    <3>2. ToSet(threads) \ NotOf(n, next_tid) = {}
      BY ThreadsTyped DEF NotOf, Table
    <3>. HIDE DEF own
    <3>3. Len(own) = 0
      BY <3>1, <3>2, LenProperties DEF ToSet
    <3>4. Tids(own) \in Seq(Nat) /\ Len(Tids(own)) = 0
      BY <3>1, <3>3, TidsFacts
    <3>. QED  BY <3>4, EmptySeq DEF own
  <2>2. ASSUME NEW i \in 1 .. n, processes'[i].state = "Runnable"
        PROVE  processes'[i].threads = Tids(Without(threads, NotOf(i, born'[i])))
    BY <1>2, <1>3, <1>4, <1>5, <2>1, <2>2 DEF Table, ListsAgree
  <2>. QED  BY <1>1, <1>2, <2>2 DEF ListsAgree
<1>8. NoneLeft'
  BY <1>1 DEF Table, NoneLeft
<1>. QED
  BY <1>6, <1>7, <1>8 DEF Table

(* One process changes, and keeps its number.                              *)
Changed(pid, q) ==
  processes' = [i \in DOMAIN processes |-> IF processes[i].pid = pid THEN q ELSE processes[i]]

LEMMA ChangedFacts ==
  ASSUME Numbered, NEW pid \in 1 .. next_pid - 1, NEW q \in Process, q.pid = pid, Changed(pid, q)
  PROVE  /\ processes' \in Seq(Process) /\ Len(processes') = next_pid - 1
         /\ processes'[pid] = q
         /\ \A i \in 1 .. next_pid - 1 :
              processes'[i].pid = i /\ (i # pid => processes'[i] = processes[i])
<1>. DEFINE n == next_pid - 1
<1>1. n \in Nat /\ DOMAIN processes = 1 .. n /\ \A i \in 1 .. n : processes[i] \in Process
  BY LenProperties, BoundsAssumption DEF Numbered
<1>2. \A i \in 1 .. n : processes'[i] = IF i = pid THEN q ELSE processes[i]
  BY <1>1 DEF Changed, Numbered
<1>3. processes' \in [1 .. n -> Process]
  BY <1>1, <1>2 DEF Changed
<1>4. processes' \in Seq(Process) /\ Len(processes') = n
  BY <1>1, <1>3, SeqDef, LenProperties
<1>. QED
  BY <1>2, <1>4 DEF Numbered

(* The processes after an end: all but the ended one are as they were.     *)
LEMMA EndProcesses ==
  ASSUME Numbered, NEW pid \in ProcessIds, NEW st \in {"Killed", "Exited"}, End(pid, st)
  PROVE  /\ processes' \in Seq(Process) /\ Len(processes') = next_pid - 1
         /\ \A i \in 1 .. next_pid - 1 :
              /\ processes'[i].pid = i
              /\ processes'[i].state = "Runnable" => i # pid /\ processes'[i] = processes[i]
<1>. DEFINE n == next_pid - 1
            q == [processes[pid] EXCEPT !.state = st]
<1>1. processes' = [i \in DOMAIN processes |->
                      IF processes[i].pid = pid THEN [processes[i] EXCEPT !.state = st]
                      ELSE processes[i]]
  BY DEF End, WithProcess
<1>2. DOMAIN processes = 1 .. n /\ \A i \in 1 .. n : processes[i] \in Process /\ processes[i].pid = i
  BY NumbersTyped, LenProperties DEF Numbered
<1>3. CASE pid \in 1 .. n
  <2>1. q \in Process /\ q.pid = pid /\ q.state = st
    BY <1>2, <1>3 DEF Process
  <2>2. Changed(pid, q)
    BY <1>1, <1>2, <1>3 DEF Changed
  <2>. HIDE DEF q
  <2>. QED  BY <1>3, <2>1, <2>2, ChangedFacts
<1>4. CASE pid \notin 1 .. n
  <2>1. processes' = processes
    <3>1. \A i \in 1 .. n : processes[i].pid # pid
      BY <1>2, <1>4
    <3>2. processes = [i \in DOMAIN processes |-> processes[i]]
      BY DEF Numbered
    <3>. QED  BY <1>1, <1>2, <3>1, <3>2
  <2>. QED  BY <1>2, <1>4, <2>1 DEF Numbered
<1>. QED
  BY <1>3, <1>4

LEMMA EndTable ==
  ASSUME Table, NEW pid \in ProcessIds, NEW st \in {"Killed", "Exited"}, End(pid, st)
  PROVE  Table'
<1>. DEFINE n == next_pid - 1
<1>1. /\ threads' = Retained(pid) /\ ended' = [ended EXCEPT ![pid] = next_tid]
      /\ next_pid' = next_pid /\ next_tid' = next_tid /\ born' = born
  BY DEF End
<1>2. /\ threads' \in Seq(Thread)
      /\ ToSet(threads') = {t \in ToSet(threads) : t.pid # pid}
  <2>1. ToSet(threads) \subseteq Thread
    BY DEF ToSet, Table, Numbered
  <2>. QED  BY <1>1, <2>1, WithoutFacts DEF Retained, Table, Numbered
<1>3. ended' \in [ProcessIds -> 0 .. next_tid] /\ \A i \in ProcessIds \ {pid} : ended'[i] = ended[i]
  <2>1. next_tid \in 0 .. next_tid
    BY NumbersTyped DEF Table
  <2>. QED  BY <1>1, <2>1 DEF Table, Numbered
<1>4. Numbered'
  BY <1>1, <1>2, <1>3, EndProcesses DEF Table, Numbered
<1>5. ListsAgree'
  <2>1. ASSUME NEW i \in 1 .. n, processes'[i].state = "Runnable"
        PROVE  processes'[i].threads = Tids(Without(threads', NotOf(i, born[i])))
    <3>1. i # pid /\ processes'[i] = processes[i]
      BY <2>1, EndProcesses DEF Table
    <3>2. Without(threads', NotOf(i, born[i])) = Without(threads, NotOf(i, born[i]))
      BY <1>1, <3>1, OwnRetained DEF Table, Numbered
    <3>. QED  BY <2>1, <3>1, <3>2 DEF Table, ListsAgree
  <2>. QED  BY <1>1, <2>1 DEF ListsAgree
<1>6. NoneLeft'
  BY <1>2, <1>3, ThreadsTyped DEF Table, NoneLeft
<1>. QED
  BY <1>4, <1>5, <1>6 DEF Table

(* The processes after a thread was made: its own, if there is one, lists  *)
(* it.                                                                     *)
LEMMA SpawnThreadProcesses ==
  ASSUME Numbered, NEW pid \in ProcessIds, SpawnThread(pid)
  PROVE  /\ processes' \in Seq(Process) /\ Len(processes') = next_pid - 1
         /\ \A i \in 1 .. next_pid - 1 :
              /\ processes'[i].pid = i /\ processes'[i].state = processes[i].state
              /\ processes'[i].threads = IF i = pid THEN Append(processes[i].threads, next_tid)
                                         ELSE processes[i].threads
<1>. DEFINE n == next_pid - 1
            q == [processes[pid] EXCEPT !.threads = Append(processes[pid].threads, next_tid)]
<1>1. processes' = [i \in DOMAIN processes |->
                      IF processes[i].pid = pid
                      THEN [processes[i] EXCEPT !.threads = Append(processes[i].threads, next_tid)]
                      ELSE processes[i]]
  BY DEF SpawnThread, WithProcess
<1>2. DOMAIN processes = 1 .. n /\ \A i \in 1 .. n : processes[i] \in Process /\ processes[i].pid = i
  BY NumbersTyped, LenProperties DEF Numbered
<1>3. CASE pid \in 1 .. n
  <2>1. Append(processes[pid].threads, next_tid) \in Seq(Nat)
    <3>1. processes[pid].threads \in Seq(Nat)
      BY <1>2, <1>3 DEF Process
    <3>. QED  BY <3>1, NumbersTyped, AppendProperties
  <2>2. /\ q \in Process /\ q.pid = pid /\ q.state = processes[pid].state
        /\ q.threads = Append(processes[pid].threads, next_tid)
    BY <1>2, <1>3, <2>1 DEF Process
  <2>3. Changed(pid, q)
    BY <1>1, <1>2, <1>3 DEF Changed
  <2>. HIDE DEF q
  <2>. QED  BY <1>3, <2>2, <2>3, ChangedFacts
<1>4. CASE pid \notin 1 .. n
  <2>1. processes' = processes
    <3>1. \A i \in 1 .. n : processes[i].pid # pid
      BY <1>2, <1>4
    <3>2. processes = [i \in DOMAIN processes |-> processes[i]]
      BY DEF Numbered
    <3>. QED  BY <1>1, <1>2, <3>1, <3>2
  <2>. QED  BY <1>2, <1>4, <2>1 DEF Numbered
<1>. QED
  BY <1>3, <1>4

LEMMA SpawnThreadTable ==
  ASSUME Table, NEW pid \in ProcessIds, SpawnThread(pid)
  PROVE  Table'
<1>. DEFINE n == next_pid - 1
            e == [tid |-> next_tid, pid |-> pid]
<1>1. /\ threads' = Append(threads, e) /\ next_tid' = next_tid + 1
      /\ next_pid' = next_pid /\ born' = born /\ ended' = ended
  BY DEF SpawnThread
<1>2. next_tid \in 1 .. MaxTid /\ next_tid' \in 1 .. MaxTid + 1
  BY BoundsAssumption, <1>1 DEF SpawnThread, Table, Numbered
<1>3. e \in Thread /\ e.tid = next_tid /\ e.pid = pid /\ next_tid \in Nat
  BY <1>2 DEF Thread
<1>. HIDE DEF e
<1>4. threads' \in Seq(Thread) /\ ToSet(threads') = ToSet(threads) \cup {e}
  BY <1>1, <1>3, AppendNew DEF Table, Numbered
<1>5. Numbered'
  <2>1. \A t \in ToSet(threads') : t.tid < next_tid + 1
    BY <1>3, <1>4, ThreadsTyped DEF Table
  <2>2. born \in [ProcessIds -> 0 .. next_tid + 1] /\ ended \in [ProcessIds -> 0 .. next_tid + 1]
    <3>1. 0 .. next_tid \subseteq 0 .. next_tid + 1
      BY <1>3
    <3>. QED  BY <3>1 DEF Table, Numbered
  <2>. QED  BY <1>1, <1>2, <1>4, <2>1, <2>2, SpawnThreadProcesses DEF Table, Numbered
<1>6. ListsAgree'
  <2>1. ASSUME NEW i \in 1 .. n, processes'[i].state = "Runnable"
        PROVE  processes'[i].threads = Tids(Without(threads', NotOf(i, born[i])))
    <3>1. processes[i].threads = Tids(Without(threads, NotOf(i, born[i])))
      BY <2>1, SpawnThreadProcesses DEF Table, ListsAgree
    <3>2. ~(next_tid < born[i])
      BY NumbersTyped DEF Table
    <3>3. Tids(Without(threads', NotOf(i, born[i])))
            = IF pid # i THEN Tids(Without(threads, NotOf(i, born[i])))
              ELSE Append(Tids(Without(threads, NotOf(i, born[i]))), next_tid)
      <4>1. \A s \in Seq(Thread), f \in {born[i]} :
              Tids(Without(Append(s, e), NotOf(i, f)))
                = IF e.pid # i \/ e.tid < f THEN Tids(Without(s, NotOf(i, f)))
                  ELSE Append(Tids(Without(s, NotOf(i, f))), e.tid)
        BY <1>3, OwnAppended
      <4>2. threads \in Seq(Thread)
        BY DEF Table, Numbered
      <4>. QED  BY <1>1, <1>3, <3>2, <4>1, <4>2
    <3>. QED  BY <3>1, <3>3, SpawnThreadProcesses DEF Table
  <2>. QED  BY <1>1, <2>1 DEF ListsAgree
<1>7. NoneLeft'
  <2>1. e.tid >= ended[e.pid]
    BY <1>3, NumbersTyped DEF Table
  <2>. QED  BY <1>1, <1>4, <2>1 DEF Table, NoneLeft
<1>. QED
  BY <1>5, <1>6, <1>7 DEF Table

LEMMA NextTable == Table /\ [TasksNext]_taskVars => Table'
<1>. SUFFICES ASSUME Table, [TasksNext]_taskVars PROVE Table'
  OBVIOUS
<1>1. ASSUME UNCHANGED table PROVE Table'
  BY <1>1 DEF table, Table, Numbered, ListsAgree, NoneLeft
<1>2. CASE UNCHANGED taskVars
  BY <1>1, <1>2 DEF taskVars
<1>3. ASSUME NEW c \in Callers, Issue(c) \/ \E pid \in ProcessIds, cap \in Caps : TakeToken(c, pid, cap)
      PROVE  Table'
  BY <1>1, <1>3 DEF Issue, TakeToken
<1>4. ASSUME NEW g \in handed_out, Revoke(g.token) PROVE Table'
  BY <1>1, <1>4 DEF Revoke
<1>. QED
  BY <1>2, <1>3, <1>4, SpawnTable, SpawnThreadTable, EndTable DEF TasksNext

LEMMA TableHolds == TasksSpec => []Table
  BY InitTable, NextTable, PTL DEF TasksSpec

LEMMA TableAgrees == Table => ThreadsAgree
<1>. SUFFICES ASSUME Table PROVE ThreadsAgree
  OBVIOUS
<1>1. \A i \in DOMAIN processes :
        processes[i].state = "Runnable"
          => processes[i].threads
               = Tids(Without(threads, NotOf(processes[i].pid, born[processes[i].pid])))
  BY NumbersTyped DEF Table, Numbered, ListsAgree
<1>2. \A i \in DOMAIN threads : threads[i].tid >= ended[threads[i].pid]
  BY DEF Table, NoneLeft, ToSet
<1>. QED
  BY <1>1, <1>2 DEF ThreadsAgree

(* The list of threads a living process keeps is what the table holds of   *)
(* it since its spawn, in the order they were made, whatever other         *)
(* processes were made and ended meanwhile and whatever was made of        *)
(* processes not yet there; and no thread outlives the end of its process: *)
(* what the table holds of it was made afterwards (process.rs:111-148).    *)
THEOREM ThreadsCorrect == TasksSpec => []ThreadsAgree
BY TableHolds, TableAgrees, PTL
=================================================================================
