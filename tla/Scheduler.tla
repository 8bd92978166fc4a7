------------------------------ MODULE Scheduler ------------------------------
(***************************************************************************)
(* The kernel scheduler (zerox-kernel/src/scheduler.rs): one run queue for *)
(* real-time, MLFQ and CFS threads.  Every call is made under the KERNEL   *)
(* mutex and is one step.                                                  *)
(*                                                                         *)
(* What a caller fixes when it adds a thread (policy, base priority, real- *)
(* time priority, frame deadline, vruntime, game role) is the constant     *)
(* Attr; what the scheduler writes is a variable.  vruntime is constant    *)
(* too: no code advances it.                                               *)
(***************************************************************************)
EXTENDS Integers, Sequences, FiniteSets, SequencesExt, Vec

CONSTANTS
  Threads,     (* Places for threads, which hold one after the other: one  *)
               (* that left may be followed by a new one like it.          *)
  Attr,        (* Threads -> [policy, priority, rt, deadline, vruntime, state, game, pid] *)
  MlfqLevels,  (* MLFQ_LEVELS                                              *)
  None,        (* Rust's Option::None                                      *)
  MaxTime      (* Bound: the clock stops here, in milliseconds.            *)

Policies == {"Realtime", "Mlfq", "Cfs"}
Pids == {Attr[t].pid : t \in Threads}

ASSUME SchedulerAssumption ==
  /\ MlfqLevels \in Nat \ {0} /\ MaxTime \in Nat
  (* Powers of two, which the provers know nothing of. *)
  /\ \A k \in 0 .. MlfqLevels : 2^k \in Nat \ {0}
  /\ None \notin Threads /\ None \notin Int
  /\ \A t \in Threads :
       /\ Attr[t].policy \in Policies
       /\ Attr[t].priority \in -20 .. 20
       /\ Attr[t].rt \in 0 .. 255
       /\ Attr[t].deadline \in Nat \cup {None}
       /\ Attr[t].vruntime \in Nat
       /\ Attr[t].state \in {"Ready", "Blocked"}
       /\ Attr[t].game \in BOOLEAN  (* is_game_render, _physics or _audio *)

VARIABLES
  queue,            (* Scheduler.threads, in Vec order.                    *)
  state,            (* thread -> ThreadState                               *)
  level,            (* thread -> mlfq_level                                *)
  priority,         (* thread -> priority                                  *)
  quantum_used,     (* thread -> quantum_used                              *)
  current,
  gaming_mode,
  foreground_game,
  now               (* What read_time_ns() answers, in milliseconds.       *)

threadVars == <<queue, state, level, priority, quantum_used>>
modeVars == <<gaming_mode, foreground_game>>
vars == <<threadVars, current, modeVars, now>>

Queued == ToSet(queue)

Init ==
  /\ queue = <<>>
  /\ state = [t \in Threads |-> Attr[t].state]
  /\ level = [t \in Threads |-> 0]
  /\ priority = [t \in Threads |-> Attr[t].priority]
  /\ quantum_used = [t \in Threads |-> 0]
  /\ current = None
  /\ gaming_mode = FALSE
  /\ foreground_game = None
  /\ now = 0

Clamp(p) == IF p > 20 THEN 20 ELSE IF p < -20 THEN -20 ELSE p

(* Priority in the MLFQ comparison: gaming mode looks at the thread's role. *)
Effective(t) ==
  IF ~gaming_mode THEN priority[t]
  ELSE IF Attr[t].game THEN Clamp(priority[t] + 20)
  ELSE Clamp(priority[t] - 10)

Ready(p) == {t \in Queued : state[t] = "Ready" /\ Attr[t].policy = p}

Position(t) == CHOOSE i \in DOMAIN queue : queue[i] = t

(* The loops of pick_next replace their candidate only by a better one:    *)
(* the first of the best threads in the Vec wins.                          *)
First(S, Better(_, _)) ==
  CHOOSE t \in S : \A u \in S \ {t} : ~Better(u, t) /\ (Position(u) < Position(t) => Better(t, u))

SoonerDeadline(t, u) == Attr[t].deadline < Attr[u].deadline
HigherRt(t, u) == Attr[t].rt > Attr[u].rt
HigherMlfq(t, u) ==
  level[t] < level[u] \/ (level[t] = level[u] /\ Effective(t) > Effective(u))
LowerVruntime(t, u) == Attr[t].vruntime < Attr[u].vruntime

(* The threads the first loop of pick_next looks at.                       *)
WithDeadline == {t \in Ready("Realtime") : Attr[t].deadline # None}

(* The candidates the four loops of pick_next end with.                    *)
FirstDue == First(WithDeadline, SoonerDeadline)
FirstRealtime == First(Ready("Realtime"), HigherRt)
FirstMlfq == First(Ready("Mlfq"), HigherMlfq)
FirstCfs == First(Ready("Cfs"), LowerVruntime)

(* Mutant of DeadlineImminent: the millisecond of slack is forgotten. *)
DeadlinePassed == WithDeadline # {} /\ Attr[FirstDue].deadline <= now

(* The first deadline is due within a millisecond.                         *)
DeadlineImminent == WithDeadline # {} /\ Attr[FirstDue].deadline <= now + 1

Choice ==
  IF DeadlineImminent THEN FirstDue
  ELSE IF Ready("Realtime") # {} THEN FirstRealtime
  ELSE IF Ready("Mlfq") # {} THEN FirstMlfq
  ELSE IF Ready("Cfs") # {} THEN FirstCfs
  ELSE None

------------------------------------------------------------------------------

AddThread(t) ==
  /\ t \notin Queued
  /\ queue' = Append(queue, t)
  /\ state' = [state EXCEPT ![t] = Attr[t].state]
  /\ level' = [level EXCEPT ![t] = 0]
  /\ priority' = [priority EXCEPT ![t] = Attr[t].priority]
  /\ quantum_used' = [quantum_used EXCEPT ![t] = 0]
  /\ UNCHANGED <<current, modeVars, now>>

(* Mutant of RemoveThread: current is left alone. *)
RemoveFromQueueOnly(t) ==
  /\ queue' = Without(queue, {t})
  /\ UNCHANGED <<state, level, priority, quantum_used, current, modeVars, now>>

RemoveThread(t) ==
  /\ queue' = Without(queue, {t})
  /\ current' = IF current = t THEN None ELSE current
  /\ UNCHANGED <<state, level, priority, quantum_used, modeVars, now>>

SetGamingMode(enabled, pid) ==
  /\ gaming_mode' = enabled
  /\ foreground_game' = pid
  /\ UNCHANGED <<threadVars, current, now>>

(* pick_next does not mark the thread Running: it stays Ready. *)
PickNext ==
  /\ current' = Choice
  /\ UNCHANGED <<threadVars, modeVars, now>>

(* Mutant of YieldThread: the thread does not decay. *)
YieldWithoutDecay(t) ==
  /\ IF t \in Queued
     THEN /\ state' = [state EXCEPT ![t] = "Ready"]
          /\ quantum_used' = [quantum_used EXCEPT ![t] = 0]
     ELSE UNCHANGED <<state, quantum_used>>
  /\ current' = IF current = t THEN None ELSE current
  /\ UNCHANGED <<queue, level, priority, modeVars, now>>

YieldThread(t) ==
  /\ IF t \in Queued
     THEN /\ state' = [state EXCEPT ![t] = "Ready"]
          /\ level' = IF Attr[t].policy = "Mlfq" /\ level[t] < MlfqLevels - 1
                      THEN [level EXCEPT ![t] = @ + 1] ELSE level
          /\ quantum_used' = [quantum_used EXCEPT ![t] = 0]
     ELSE UNCHANGED <<state, level, quantum_used>>
  /\ current' = IF current = t THEN None ELSE current
  /\ UNCHANGED <<queue, priority, modeVars, now>>

Preempt == current # None /\ YieldThread(current)

(* Whenever the GPU has completed a frame, as often as it likes.           *)
OnFrameComplete(t) ==
  /\ IF t \in Queued
     THEN /\ level' = [level EXCEPT ![t] = 0]
          /\ priority' = [priority EXCEPT ![t] = 20]
     ELSE UNCHANGED <<level, priority>>
  /\ UNCHANGED <<queue, state, quantum_used, current, modeVars, now>>

Advance ==
  /\ now < MaxTime
  /\ now' = now + 1
  /\ UNCHANGED <<threadVars, current, modeVars>>

(* The dispatcher: pick a thread when none runs, run it until its quantum  *)
(* expires.                                                                *)
Dispatch == (current = None /\ PickNext) \/ Preempt

Next ==
  \/ \E t \in Threads : AddThread(t)
  \/ \E t \in Queued : RemoveThread(t)
  \/ SetGamingMode(FALSE, None)
  \/ \E p \in Pids : SetGamingMode(TRUE, p)
  \/ PickNext
  \/ \E t \in Queued : YieldThread(t)
  \/ Preempt
  \/ \E t \in Queued : OnFrameComplete(t)
  \/ Advance

Spec == Init /\ [][Next]_vars

(* The dispatcher keeps running; nobody is obliged to add, remove or       *)
(* promote threads, and the clock may stand still.                         *)
FairSpec == Spec /\ WF_vars(Dispatch)

------------------------------------------------------------------------------

(* current_quantum_ns, in microseconds; None stands for u64::MAX.          *)
BaseQuantum == 1000
CfsTargetLatency == 6000
CfsMinGranularity == 750

CurrentQuantum ==
  IF current \notin Queued THEN 0
  ELSE CASE Attr[current].policy = "Realtime" -> None
         [] Attr[current].policy = "Mlfq" -> BaseQuantum * 2^level[current]
         [] OTHER -> LET n == Cardinality(Ready("Cfs"))
                         slice == CfsTargetLatency \div (IF n = 0 THEN 1 ELSE n)
                     IN IF slice < CfsMinGranularity THEN CfsMinGranularity ELSE slice

(* The variables have their types: no thread is queued twice, levels stay  *)
(* below MLFQ_LEVELS and priorities within -20 .. 20.                      *)
TypeOK ==
  /\ queue \in Seq(Threads) /\ IsInjective(queue)
  /\ state \in [Threads -> {"Ready", "Blocked"}]
  /\ level \in [Threads -> 0 .. MlfqLevels - 1]
  /\ priority \in [Threads -> -20 .. 20]
  /\ quantum_used \in [Threads -> Nat]
  /\ current \in Threads \cup {None}
  /\ gaming_mode \in BOOLEAN
  /\ foreground_game \in Pids \cup {None}
  /\ now \in 0 .. MaxTime

(* The current thread is always one of the queue, however removal, yield   *)
(* and repeated picks interleave, so it gets a slice: current_quantum_ns   *)
(* never answers 0 while a thread runs (scheduler.rs:262-264).             *)
CurrentHasSlice == current # None => CurrentQuantum # 0

(* u comes before t by the order pick_next's doc gives (scheduler.rs:176). *)
Urgent(t) == Attr[t].policy = "Realtime" /\ Attr[t].deadline # None
             /\ Attr[t].deadline <= now + 1
Class(t) == CASE Attr[t].policy = "Realtime" -> 1
              [] Attr[t].policy = "Mlfq" -> 2
              [] Attr[t].policy = "Cfs" -> 3
Outranks(u, t) ==
  \/ Urgent(u) /\ ~Urgent(t)
  \/ Urgent(u) /\ Urgent(t) /\ Attr[u].deadline < Attr[t].deadline
  \/ ~Urgent(t) /\ Class(u) < Class(t)
  \/ ~Urgent(t) /\ Class(u) = 1 /\ Class(t) = 1 /\ Attr[u].rt > Attr[t].rt
  \/ Class(u) = 2 /\ Class(t) = 2 /\ HigherMlfq(u, t)
  \/ Class(u) = 3 /\ Class(t) = 3 /\ Attr[u].vruntime < Attr[t].vruntime

(* pick_next never passes over a ready thread that outranks the one it     *)
(* picks, and picks none only when none is ready.                          *)
PassesNobodyOver ==
  PickNext => IF current' = None THEN \A u \in Queued : state[u] # "Ready"
              ELSE \A u \in Queued : state[u] = "Ready" => ~Outranks(u, current')
NeverPassedOver == [][PassesNobodyOver]_vars

(* An MLFQ thread above the bottom level runs, unless it leaves, sinks to  *)
(* the bottom or real-time threads are ready, provided that from some time *)
(* on no other thread is added or promoted: what is ahead of it decays.    *)
(* While frames go on completing, the render thread is set ahead of it     *)
(* again before each pick and it may wait for ever (scheduler.rs:302-305). *)
NoneSetAhead(t) ==
  \A u \in Threads \ {t} : u \in Queued' => u \in Queued /\ level'[u] >= level[u]
AboveBottomRuns ==
  \A t \in {u \in Threads : Attr[u].policy = "Mlfq"} :
    <>[][NoneSetAhead(t)]_vars =>
      ((t \in Ready("Mlfq") /\ level[t] < MlfqLevels - 1)
         ~> (current = t \/ t \notin Queued \/ level[t] = MlfqLevels - 1 \/ Ready("Realtime") # {}))
==============================================================================
