------------------------------- MODULE IpcProofs -------------------------------
(***************************************************************************)
(* Proofs about Ipc.tla, for any number of callers, any payloads and       *)
(* capacities and any bounds.                                              *)
(***************************************************************************)
EXTENDS Ipc, LibraryFacts, SequenceTheorems, TLAPS

Messages == {NewMessage(p) : p \in Payloads}

Places == {"idle", "push_fast", "push_shm", "sending", "receiving",
           "stats_shm", "stats_sent", "stats_received"}

(* What a caller keeps: an id, or the statistics read so far.              *)
StatsRecord == [fast : Nat, shm : Nat, sent : Nat, received : Nat]
Local == [id : Nat, stats : StatsRecord]

Types ==
  /\ fast_channels \in Seq(Ids) /\ shm_channels \in Seq(Ids)
  /\ capacity \in [Ids -> Nat]
  /\ buffer \in [Ids -> Seq(Messages)]
  /\ next_channel_id \in 1 .. MaxChannels + 1
  /\ messages_sent \in Nat /\ messages_received \in Nat
  /\ pc \in [Callers -> Places]
  /\ local \in [Callers -> Local]

Taken == ToSet(fast_channels) \cup ToSet(shm_channels)
Issued == 1 .. next_channel_id - 1
Pushing(c) == pc[c] \in {"push_fast", "push_shm"}

(* An id that was taken and not yet pushed is in no table and in nobody    *)
(* else's hands.                                                           *)
IdsInHand ==
  /\ Taken \subseteq Issued
  /\ \A c \in Callers : Pushing(c) => local[c].id \in Issued /\ local[c].id \notin Taken
  /\ \A c, d \in Callers : Pushing(c) /\ Pushing(d) /\ c # d => local[c].id # local[d].id

IInv == Types /\ IdsInHand /\ UniqueIds

(***************************************************************************)
(* Ids.                                                                    *)
(***************************************************************************)

LEMMA InitIInv == Init => IInv
<1>. SUFFICES ASSUME Init PROVE IInv
  OBVIOUS
<1>1. Types
  <2>1. local \in [Callers -> Local]
    BY DEF Init, NoStats, Local, StatsRecord
  <2>. QED  BY <2>1, IpcAssumption DEF Init, Types, Ids, Places
<1>2. ToSet(<<>>) = {} /\ IsInjective(<<>>)
  BY DEF ToSet, IsInjective
<1>3. IdsInHand /\ UniqueIds
  BY <1>2 DEF Init, IdsInHand, UniqueIds, Taken, Pushing
<1>. QED
  BY <1>1, <1>3 DEF IInv

(* What the steps write to local.                                          *)
LEMMA IdTyped ==
  ASSUME NEW loc \in [Callers -> Local], NEW c \in Callers, NEW n \in Nat,
         NEW new, new = [loc EXCEPT ![c].id = n]
  PROVE  /\ new \in [Callers -> Local] /\ new[c].id = n
         /\ \A d \in Callers : new[d].stats = loc[d].stats
         /\ \A d \in Callers \ {c} : new[d] = loc[d]
<1>1. [loc[c] EXCEPT !.id = n] \in Local
  BY DEF Local
<1>2. new = [loc EXCEPT ![c] = [loc[c] EXCEPT !.id = n]]
  OBVIOUS
<1>3. loc[c].stats = [loc[c] EXCEPT !.id = n].stats /\ [loc[c] EXCEPT !.id = n].id = n
  BY DEF Local
<1>. QED
  BY <1>1, <1>2, <1>3

LEMMA StatsTyped ==
  ASSUME NEW loc \in [Callers -> Local], NEW c \in Callers, NEW s \in StatsRecord,
         NEW new, new = [loc EXCEPT ![c].stats = s]
  PROVE  /\ new \in [Callers -> Local] /\ new[c].stats = s
         /\ \A d \in Callers : new[d].id = loc[d].id
         /\ \A d \in Callers \ {c} : new[d] = loc[d]
<1>1. [loc[c] EXCEPT !.stats = s] \in Local
  BY DEF Local
<1>2. new = [loc EXCEPT ![c] = [loc[c] EXCEPT !.stats = s]]
  OBVIOUS
<1>3. loc[c].id = [loc[c] EXCEPT !.stats = s].id /\ [loc[c] EXCEPT !.stats = s].stats = s
  BY DEF Local
<1>. QED
  BY <1>1, <1>2, <1>3

(* Taking an id: it is below the counter from now on, and nobody else's.   *)
LEMMA TakeIdStep ==
  ASSUME IInv, NEW c \in Callers, NEW to \in {"push_fast", "push_shm"}, TakeId(c, to)
  PROVE  IInv'
<1>. USE DEF IInv, Types
<1>1. /\ pc' = [pc EXCEPT ![c] = to] /\ local' = [local EXCEPT ![c].id = next_channel_id]
      /\ next_channel_id' = next_channel_id + 1 /\ next_channel_id <= MaxChannels
      /\ UNCHANGED <<fast_channels, shm_channels, capacity, buffer, messages_sent, messages_received>>
  BY DEF TakeId, Goto, tables, channelVars, counters
<1>2. Types'
  <2>1. next_channel_id' \in 1 .. MaxChannels + 1 /\ next_channel_id \in Nat
    <3>1. next_channel_id \in 1 .. MaxChannels + 1 /\ MaxChannels \in Nat
      BY IpcAssumption
    <3>. HIDE DEF Types, IInv
    <3>. QED  BY <1>1, <3>1
  <2>2. pc' \in [Callers -> Places]
    BY <1>1 DEF Places
  <2>3. local' \in [Callers -> Local]
    BY <1>1, <2>1, IdTyped
  <2>. HIDE DEF Local
  <2>. QED  BY <1>1, <2>1, <2>2, <2>3
<1>3. Taken' = Taken /\ UniqueIds' /\ Issued' = Issued \cup {next_channel_id} /\ next_channel_id \notin Issued
  BY <1>1, SMTT(60) DEF Taken, UniqueIds, Issued
<1>4. /\ local'[c].id = next_channel_id
      /\ \A d \in Callers \ {c} : local'[d] = local[d] /\ (Pushing(d))' = Pushing(d)
  BY <1>1 DEF Pushing
<1>5. IdsInHand'
  <2>1. Taken' \subseteq Issued'
    BY <1>3 DEF IdsInHand
  <2>2. ASSUME NEW d \in Callers, (Pushing(d))' PROVE local'[d].id \in Issued' /\ local'[d].id \notin Taken'
    BY <1>3, <1>4, <2>2 DEF IdsInHand
  <2>3. ASSUME NEW d \in Callers, NEW e \in Callers, (Pushing(d))', (Pushing(e))', d # e
        PROVE  local'[d].id # local'[e].id
    BY <1>3, <1>4, <2>3 DEF IdsInHand
  <2>. QED  BY <2>1, <2>2, <2>3 DEF IdsInHand
<1>. QED
  BY <1>2, <1>3, <1>5

(* Pushing an id: it moves from its caller's hands to one of the tables.   *)
LEMMA PushStep ==
  ASSUME IInv, NEW c \in Callers, Pushing(c),
         Taken' = Taken \cup {local[c].id},
         pc' = [pc EXCEPT ![c] = "idle"], local' = [local EXCEPT ![c].id = 0],
         next_channel_id' = next_channel_id
  PROVE  IdsInHand'
<1>1. /\ ~(Pushing(c))' /\ Issued' = Issued
      /\ \A d \in Callers \ {c} : local'[d] = local[d] /\ (Pushing(d))' = Pushing(d)
  BY DEF Pushing, IInv, Types, Issued
<1>2. local[c].id \in Issued /\ \A d \in Callers \ {c} : Pushing(d) => local[d].id # local[c].id
  BY DEF IInv, IdsInHand
<1>. QED
  BY <1>1, <1>2 DEF IInv, IdsInHand

LEMMA PushFastStep ==
  ASSUME IInv, NEW c \in Callers, PushFast(c)
  PROVE  IInv' /\ local[c].id \in Ids /\ local[c].id \notin Taken
               /\ ToSet(fast_channels') = ToSet(fast_channels) \cup {local[c].id}
<1>. USE DEF IInv, Types
<1>1. Pushing(c)
  BY DEF PushFast, Goto, Pushing
<1>2. local[c].id \in Ids /\ local[c].id \notin Taken
  BY <1>1, IpcAssumption DEF IdsInHand, Issued, Ids
<1>3. /\ fast_channels' \in Seq(Ids)
      /\ ToSet(fast_channels') = ToSet(fast_channels) \cup {local[c].id}
      /\ IsInjective(fast_channels')
  BY <1>2, AppendNew DEF PushFast, UniqueIds, Taken
<1>4. Types'
  <2>1. capacity' \in [Ids -> Nat]
    BY IpcAssumption DEF PushFast
  <2>2. local' \in [Callers -> Local]
    BY IdTyped DEF PushFast
  <2>3. pc' \in [Callers -> Places]
    BY DEF PushFast, Goto, Places
  <2>. QED  BY <1>3, <2>1, <2>2, <2>3 DEF PushFast, channelVars, counters
<1>5. Taken' = Taken \cup {local[c].id}
  BY <1>3 DEF Taken, PushFast
<1>6. IdsInHand'
  BY <1>1, <1>5, PushStep DEF PushFast, Goto
<1>7. UniqueIds'
  BY <1>2, <1>3 DEF UniqueIds, PushFast, Taken
<1>. QED
  BY <1>2, <1>3, <1>4, <1>6, <1>7

LEMMA PushShmStep ==
  ASSUME IInv, NEW c \in Callers, PushShm(c)
  PROVE  IInv'
<1>. USE DEF IInv, Types
<1>1. Pushing(c)
  BY DEF PushShm, Goto, Pushing
<1>2. local[c].id \in Ids /\ local[c].id \notin Taken
  BY <1>1, IpcAssumption DEF IdsInHand, Issued, Ids
<1>3. /\ shm_channels' \in Seq(Ids)
      /\ ToSet(shm_channels') = ToSet(shm_channels) \cup {local[c].id}
      /\ IsInjective(shm_channels')
  BY <1>2, AppendNew DEF PushShm, UniqueIds, Taken
<1>4. Types'
  <2>1. local' \in [Callers -> Local]
    BY IdTyped DEF PushShm
  <2>2. pc' \in [Callers -> Places]
    BY DEF PushShm, Goto, Places
  <2>. QED  BY <1>3, <2>1, <2>2 DEF PushShm, channelVars, counters
<1>5. Taken' = Taken \cup {local[c].id}
  BY <1>3 DEF Taken, PushShm
<1>6. IdsInHand'
  BY <1>1, <1>5, PushStep DEF PushShm, Goto
<1>7. UniqueIds'
  BY <1>2, <1>3 DEF UniqueIds, PushShm, Taken
<1>. QED
  BY <1>4, <1>6, <1>7

(* A step of a call that creates nothing.                                  *)
LEMMA OtherStep ==
  ASSUME IInv, NEW c \in Callers, NEW from \in Places \ {"push_fast", "push_shm"},
         NEW to \in Places \ {"push_fast", "push_shm"}, Goto(c, from, to),
         UNCHANGED <<fast_channels, shm_channels, next_channel_id>>,
         \A d \in Callers : local'[d].id = local[d].id
  PROVE  IdsInHand' /\ UniqueIds'
<1>1. \A d \in Callers : (Pushing(d))' = Pushing(d)
  BY DEF Pushing, Goto, IInv, Types
<1>. QED
  BY <1>1 DEF IInv, IdsInHand, UniqueIds, Taken, Issued

(* What stats() writes to local, one field at a time.                      *)
LEMMA StatsFastLocal ==
  ASSUME Types, NEW c \in Callers, StatsFast(c)
  PROVE  /\ local' \in [Callers -> Local] /\ \A d \in Callers : local'[d].id = local[d].id
         /\ local'[c].stats.fast = Len(fast_channels)
         /\ \A d \in Callers \ {c} : local'[d] = local[d]
<1>1. Len(fast_channels) \in Nat /\ local \in [Callers -> Local]
  BY LenProperties DEF Types
<1>. DEFINE s == [NoStats EXCEPT !.fast = Len(fast_channels)]
<1>2. s \in StatsRecord /\ s.fast = Len(fast_channels)
  BY <1>1 DEF NoStats, StatsRecord
<1>3. local' = [local EXCEPT ![c].stats = s]
  BY DEF StatsFast
<1>. QED
  BY <1>1, <1>2, <1>3, StatsTyped

LEMMA StatsShmLocal ==
  ASSUME Types, NEW c \in Callers, StatsShm(c)
  PROVE  /\ local' \in [Callers -> Local] /\ \A d \in Callers : local'[d].id = local[d].id
         /\ local'[c].stats.shm = Len(shm_channels)
         /\ local'[c].stats.fast = local[c].stats.fast
         /\ \A d \in Callers \ {c} : local'[d] = local[d]
<1>1. Len(shm_channels) \in Nat /\ local \in [Callers -> Local] /\ local[c].stats \in StatsRecord
  BY LenProperties DEF Types, Local
<1>. DEFINE s == [local[c].stats EXCEPT !.shm = Len(shm_channels)]
<1>2. s \in StatsRecord /\ s.shm = Len(shm_channels) /\ s.fast = local[c].stats.fast
  BY <1>1 DEF StatsRecord
<1>3. local' = [local EXCEPT ![c].stats = s]
  BY DEF StatsShm
<1>. QED
  BY <1>1, <1>2, <1>3, StatsTyped

LEMMA StatsSentLocal ==
  ASSUME Types, NEW c \in Callers, StatsSent(c)
  PROVE  /\ local' \in [Callers -> Local] /\ \A d \in Callers : local'[d].id = local[d].id
         /\ local'[c].stats.sent = messages_sent
         /\ local'[c].stats.fast = local[c].stats.fast /\ local'[c].stats.shm = local[c].stats.shm
         /\ \A d \in Callers \ {c} : local'[d] = local[d]
<1>1. messages_sent \in Nat /\ local \in [Callers -> Local] /\ local[c].stats \in StatsRecord
  BY LenProperties DEF Types, Local
<1>. DEFINE s == [local[c].stats EXCEPT !.sent = messages_sent]
<1>2. s \in StatsRecord /\ s.sent = messages_sent /\ s.fast = local[c].stats.fast /\ s.shm = local[c].stats.shm
  BY <1>1 DEF StatsRecord
<1>3. local' = [local EXCEPT ![c].stats = s]
  BY DEF StatsSent
<1>. QED
  BY <1>1, <1>2, <1>3, StatsTyped

LEMMA StatsReceivedLocal ==
  ASSUME Types, NEW c \in Callers, StatsReceived(c)
  PROVE  /\ local' \in [Callers -> Local] /\ \A d \in Callers : local'[d].id = local[d].id
         /\ local'[c].stats.received = messages_received
         /\ local'[c].stats.fast = local[c].stats.fast /\ local'[c].stats.shm = local[c].stats.shm
         /\ local'[c].stats.sent = local[c].stats.sent
         /\ \A d \in Callers \ {c} : local'[d] = local[d]
<1>1. messages_received \in Nat /\ local \in [Callers -> Local] /\ local[c].stats \in StatsRecord
  BY LenProperties DEF Types, Local
<1>. DEFINE s == [local[c].stats EXCEPT !.received = messages_received]
<1>2. s \in StatsRecord /\ s.received = messages_received /\ s.fast = local[c].stats.fast /\ s.shm = local[c].stats.shm /\ s.sent = local[c].stats.sent
  BY <1>1 DEF StatsRecord
<1>3. local' = [local EXCEPT ![c].stats = s]
  BY DEF StatsReceived
<1>. QED
  BY <1>1, <1>2, <1>3, StatsTyped

LEMMA NextIInv == IInv /\ [Next]_vars => IInv'
<1>. SUFFICES ASSUME IInv, [Next]_vars PROVE IInv'
  OBVIOUS
<1>. USE DEF Places
<1>0. Types
  BY DEF IInv
<1>1. ASSUME NEW c \in Callers, NEW id \in Ids, NEW msg \in Messages, SendFast(c, id, msg) PROVE IInv'
  <2>1. buffer' \in [Ids -> Seq(Messages)]
    BY <1>0, <1>1, AppendProperties DEF SendFast, Types
  <2>2. Types'
    BY <1>0, <1>1, <2>1 DEF SendFast, Types, Goto, tables, counters
  <2>. QED  BY <1>1, <2>2, OtherStep DEF SendFast, tables, IInv
<1>2. ASSUME NEW c \in Callers, SendCounted(c) PROVE IInv'
  <2>1. Types'
    BY <1>0, <1>2 DEF SendCounted, Types, Goto, tables, channelVars
  <2>. QED  BY <1>2, <2>1, OtherStep DEF SendCounted, tables, IInv
<1>3. ASSUME NEW c \in Callers, NEW id \in Ids, RecvFast(c, id) PROVE IInv'
  <2>1. buffer' \in [Ids -> Seq(Messages)]
    BY <1>0, <1>3, HeadTailProperties DEF RecvFast, Types
  <2>2. Types'
    BY <1>0, <1>3, <2>1 DEF RecvFast, Types, Goto, tables, counters
  <2>. QED  BY <1>3, <2>2, OtherStep DEF RecvFast, tables, IInv
<1>4. ASSUME NEW c \in Callers, RecvCounted(c) PROVE IInv'
  <2>1. Types'
    BY <1>0, <1>4 DEF RecvCounted, Types, Goto, tables, channelVars
  <2>. QED  BY <1>4, <2>1, OtherStep DEF RecvCounted, tables, IInv
<1>5. ASSUME NEW c \in Callers, StatsFast(c) PROVE IInv'
  <2>1. local' \in [Callers -> Local] /\ \A d \in Callers : local'[d].id = local[d].id
    BY <1>0, <1>5, StatsFastLocal
  <2>2. pc' \in [Callers -> Places]
    BY <1>0, <1>5 DEF StatsFast, Goto, Types
  <2>3. Types'
    BY <1>0, <1>5, <2>1, <2>2 DEF StatsFast, Types, tables, channelVars, counters
  <2>. QED  BY <1>5, <2>1, <2>3, OtherStep DEF StatsFast, tables, IInv
<1>6. ASSUME NEW c \in Callers, StatsShm(c) PROVE IInv'
  <2>1. local' \in [Callers -> Local] /\ \A d \in Callers : local'[d].id = local[d].id
    BY <1>0, <1>6, StatsShmLocal
  <2>2. pc' \in [Callers -> Places]
    BY <1>0, <1>6 DEF StatsShm, Goto, Types
  <2>3. Types'
    BY <1>0, <1>6, <2>1, <2>2 DEF StatsShm, Types, tables, channelVars, counters
  <2>. QED  BY <1>6, <2>1, <2>3, OtherStep DEF StatsShm, tables, IInv
<1>7. ASSUME NEW c \in Callers, StatsSent(c) PROVE IInv'
  <2>1. local' \in [Callers -> Local] /\ \A d \in Callers : local'[d].id = local[d].id
    BY <1>0, <1>7, StatsSentLocal
  <2>2. pc' \in [Callers -> Places]
    BY <1>0, <1>7 DEF StatsSent, Goto, Types
  <2>3. Types'
    BY <1>0, <1>7, <2>1, <2>2 DEF StatsSent, Types, tables, channelVars, counters
  <2>. QED  BY <1>7, <2>1, <2>3, OtherStep DEF StatsSent, tables, IInv
<1>8. ASSUME NEW c \in Callers, StatsReceived(c) PROVE IInv'
  <2>1. local' \in [Callers -> Local] /\ \A d \in Callers : local'[d].id = local[d].id
    BY <1>0, <1>8, StatsReceivedLocal
  <2>2. pc' \in [Callers -> Places]
    BY <1>0, <1>8 DEF StatsReceived, Goto, Types
  <2>3. Types'
    BY <1>0, <1>8, <2>1, <2>2 DEF StatsReceived, Types, tables, channelVars, counters
  <2>. QED  BY <1>8, <2>1, <2>3, OtherStep DEF StatsReceived, tables, IInv
<1>9. CASE UNCHANGED vars
  <2>1. /\ UNCHANGED <<fast_channels, shm_channels, capacity, buffer, next_channel_id>>
        /\ UNCHANGED <<messages_sent, messages_received, pc, local>>
    BY <1>9 DEF vars, tables, channelVars, counters
  <2>. QED  BY <2>1 DEF IInv, Types, IdsInHand, UniqueIds, Taken, Issued, Pushing
<1>10. \A p \in Payloads : NewMessage(p) \in Messages
  BY DEF Messages
<1>. QED
  BY <1>1, <1>2, <1>3, <1>4, <1>5, <1>6, <1>7, <1>8, <1>9, <1>10,
     TakeIdStep, PushFastStep, PushShmStep DEF Next, Stats

LEMMA Invariance == Spec => []IInv
  BY InitIInv, NextIInv, PTL DEF Spec

(* No two channels get one id, however many callers take ids before the    *)
(* lock and push them after it in another order (ipc.rs:134-146).          *)
THEOREM IdsUnique == Spec => []UniqueIds
<1>1. IInv => UniqueIds
  BY DEF IInv
<1>. QED
  BY <1>1, Invariance, PTL

(***************************************************************************)
(* A snapshot is one the core was in.                                      *)
(***************************************************************************)

HoldsFast == {"sending", "receiving", "stats_shm", "stats_sent", "stats_received"}
HoldsShm == {"stats_sent", "stats_received"}

(* Each lock has one holder at most, and the program counters tell whom.   *)
Locked ==
  /\ \A c \in Callers : (fast_lock = c) <=> (pc[c] \in HoldsFast)
  /\ \A c \in Callers : (shm_lock = c) <=> (pc[c] \in HoldsShm)

(* What lies in the buffers is what was sent and not received, but for the *)
(* one message that its sender or receiver has still to count.             *)
Uncounted(where) == IF \E c \in Callers : pc[c] = where THEN 1 ELSE 0
Balanced ==
  messages_sent + Uncounted("sending") = messages_received + Uncounted("receiving") + Queued

(* What stats() has read so far is still so.                               *)
Read(c) ==
  /\ pc[c] \in {"stats_shm", "stats_sent", "stats_received"}
       => local[c].stats.fast = Len(fast_channels)
  /\ pc[c] \in {"stats_sent", "stats_received"} => local[c].stats.shm = Len(shm_channels)
  /\ pc[c] = "stats_received" => local[c].stats.sent = messages_sent

Snapshots == Locked /\ Balanced /\ \A c \in Callers : Read(c)

(* Queued is the sum of the buffers' lengths.                              *)
Lengths == [i \in Ids |-> Len(buffer[i])]

Summed ==
  /\ Lengths \in [1 .. MaxChannels -> Nat] /\ Queued \in Nat
  /\ \E total : RunningSum(total, Lengths, MaxChannels) /\ Queued = total[MaxChannels]

LEMMA QueuedSum == Types => Summed
<1>. SUFFICES ASSUME Types PROVE Summed
  OBVIOUS
<1>. DEFINE Upto == CHOOSE upTo : upTo = [i \in 0 .. MaxChannels |->
                                            IF i = 0 THEN 0 ELSE upTo[i - 1] + Len(buffer[i])]
<1>1. MaxChannels \in Nat /\ Ids = 1 .. MaxChannels
  BY IpcAssumption DEF Ids
<1>2. Lengths \in [1 .. MaxChannels -> Nat]
  BY <1>1, LenProperties DEF Lengths, Types
<1>3. ASSUME NEW f, RunningSum(f, Lengths, MaxChannels)
      PROVE  f = [i \in 0 .. MaxChannels |-> IF i = 0 THEN 0 ELSE f[i - 1] + Len(buffer[i])]
  <2>1. f = [i \in 0 .. MaxChannels |-> IF i = 0 THEN 0 ELSE f[i - 1] + Lengths[i]]
    BY <1>3 DEF RunningSum
  <2>2. \A i \in 0 .. MaxChannels : i = 0 \/ Lengths[i] = Len(buffer[i])
    BY <1>1 DEF Lengths
  <2>. QED  BY <2>1, <2>2
<1>4. Upto = [i \in 0 .. MaxChannels |-> IF i = 0 THEN 0 ELSE Upto[i - 1] + Len(buffer[i])]
  <2>1. \E f : RunningSum(f, Lengths, MaxChannels)
    BY <1>1, RunningSumExists
  <2>2. \E f : f = [i \in 0 .. MaxChannels |-> IF i = 0 THEN 0 ELSE f[i - 1] + Len(buffer[i])]
    BY <1>3, <2>1
  <2>. QED  BY <2>2
<1>5. Queued = Upto[MaxChannels]
  BY DEF Queued
<1>. HIDE DEF Upto
<1>6. RunningSum(Upto, Lengths, MaxChannels)
  <2>1. \A i \in 0 .. MaxChannels : i = 0 \/ Lengths[i] = Len(buffer[i])
    BY <1>1 DEF Lengths
  <2>. QED  BY <1>4, <2>1 DEF RunningSum
<1>7. Queued \in Nat
  BY <1>1, <1>2, <1>5, <1>6, RunningSumIsNat
<1>. QED
  BY <1>2, <1>5, <1>6, <1>7 DEF Summed

LEMMA QueuedSumNext == Types' => Summed'
  BY QueuedSum, PTL

(* One message more or less in one buffer.                                 *)
LEMMA QueuedChanged ==
  ASSUME NEW id \in Ids, Types, Types', \A i \in Ids \ {id} : buffer'[i] = buffer[i]
  PROVE  Queued' = Queued + (Len(buffer'[id]) - Len(buffer[id]))
<1>1. MaxChannels \in Nat /\ Ids = 1 .. MaxChannels
  BY IpcAssumption DEF Ids
<1>2. Lengths \in [1 .. MaxChannels -> Nat] /\ Lengths' \in [1 .. MaxChannels -> Nat]
  BY QueuedSum, QueuedSumNext DEF Summed
<1>3. PICK f : RunningSum(f, Lengths, MaxChannels) /\ Queued = f[MaxChannels]
  BY QueuedSum DEF Summed
<1>4. PICK e : RunningSum(e, Lengths', MaxChannels) /\ Queued' = e[MaxChannels]
  BY QueuedSumNext DEF Summed
<1>5. ASSUME NEW i \in Ids PROVE Lengths[i] = Len(buffer[i]) /\ Lengths'[i] = Len(buffer'[i])
  BY DEF Lengths
<1>6. \A i \in (1 .. MaxChannels) \ {id} : Lengths'[i] = Lengths[i]
  BY <1>1, <1>5
<1>7. e[MaxChannels] = f[MaxChannels] + (Lengths'[id] - Lengths[id])
  <2>1. DifferAt(Lengths, Lengths', MaxChannels, id)
    BY <1>1, <1>2, <1>6 DEF DifferAt
  <2>. QED  BY <1>1, <1>3, <1>4, <2>1, RunningSumChanged
<1>. QED
  BY <1>3, <1>4, <1>5, <1>7

LEMMA Nobodys == \A c \in Callers : c # Nobody
  BY IpcAssumption

HolderCounted ==
  /\ \A c \in Callers, v, w \in HoldsFast :
       pc[c] = w => Uncounted(v) = IF v = w THEN 1 ELSE 0
  /\ fast_lock = Nobody => \A w \in HoldsFast : Uncounted(w) = 0

LEMMA HoldersCounted == Locked => HolderCounted
<1>. SUFFICES ASSUME Locked PROVE HolderCounted
  OBVIOUS
<1>1. ASSUME NEW c \in Callers, NEW v \in HoldsFast, NEW w \in HoldsFast, pc[c] = w
      PROVE  Uncounted(v) = IF v = w THEN 1 ELSE 0
  <2>1. \A d \in Callers : pc[d] \in HoldsFast => d = c
    BY <1>1 DEF Locked
  <2>2. (\E d \in Callers : pc[d] = v) <=> v = w
    BY <1>1, <2>1
  <2>. QED  BY <2>2 DEF Uncounted
<1>2. ASSUME fast_lock = Nobody, NEW w \in HoldsFast PROVE Uncounted(w) = 0
  BY <1>2, Nobodys DEF Locked, Uncounted
<1>. QED
  BY <1>1, <1>2 DEF HolderCounted

LEMMA HoldersCountedNext == Locked' => HolderCounted'
  BY HoldersCounted, PTL

LEMMA SnapshotsInit == Init => Snapshots
<1>. SUFFICES ASSUME Init PROVE Snapshots
  OBVIOUS
<1>1. Locked
  BY Nobodys DEF Init, Locked, HoldsFast, HoldsShm
<1>2. Queued = 0
  <2>1. Types
    BY InitIInv DEF IInv
  <2>2. MaxChannels \in Nat /\ Ids = 1 .. MaxChannels
    BY IpcAssumption DEF Ids
  <2>3. PICK f : RunningSum(f, Lengths, MaxChannels) /\ Queued = f[MaxChannels]
    BY <2>1, QueuedSum DEF Summed
  <2>4. \A i \in Ids : Lengths[i] = 0
    BY DEF Init, Lengths
  <2>5. f[MaxChannels] = 0
    BY <2>2, <2>3, <2>4, RunningSumOfZeros
  <2>. QED  BY <2>3, <2>5
<1>3. Balanced
  BY <1>2 DEF Init, Balanced, Uncounted
<1>. QED
  BY <1>1, <1>3 DEF Init, Snapshots, Read

LEMMA SnapshotsNext == IInv /\ IInv' /\ Snapshots /\ [Next]_vars => Snapshots'
<1>. SUFFICES ASSUME IInv, IInv', Snapshots, [Next]_vars PROVE Snapshots'
  OBVIOUS
<1>0. Types /\ Types' /\ Locked /\ Balanced /\ \A c \in Callers : Read(c)
  BY DEF IInv, Snapshots
<1>1. ASSUME NEW c \in Callers, NEW to \in {"push_fast", "push_shm"}, TakeId(c, to) PROVE Snapshots'
  <2>1. Locked'
    BY <1>0, <1>1, Nobodys DEF TakeId, Locked, Types, Goto, HoldsFast, HoldsShm, locks
  <2>2. Balanced'
    <3>1. \A w \in {"sending", "receiving"} : Uncounted(w)' = Uncounted(w)
      BY <1>0, <1>1 DEF TakeId, Uncounted, Goto, Types
    <3>2. Queued' = Queued
      BY <1>1 DEF TakeId, Queued, channelVars
    <3>. QED  BY <1>0, <1>1, <3>1, <3>2 DEF TakeId, Balanced, counters
  <2>3. \A d \in Callers : Read(d)'
    <3>1. ASSUME NEW d \in Callers PROVE local'[d].stats = local[d].stats
      BY <1>0, <1>1, IpcAssumption, IdTyped DEF TakeId, Types
    <3>. QED  BY <1>0, <1>1, <3>1 DEF TakeId, Read, Goto, Types, tables, counters
  <2>. QED  BY <2>1, <2>2, <2>3 DEF Snapshots
<1>2. ASSUME NEW c \in Callers, PushFast(c) PROVE Snapshots'
  <2>1. Locked'
    BY <1>0, <1>2, Nobodys DEF PushFast, Locked, Types, Goto, HoldsFast, HoldsShm, locks
  <2>2. Balanced'
    <3>1. \A w \in {"sending", "receiving"} : Uncounted(w)' = Uncounted(w)
      BY <1>0, <1>2 DEF PushFast, Uncounted, Goto, Types
    <3>2. Queued' = Queued
      BY <1>2 DEF PushFast, Queued, channelVars
    <3>. QED  BY <1>0, <1>2, <3>1, <3>2 DEF PushFast, Balanced, counters
  <2>3. \A d \in Callers : Read(d)'
    <3>1. ASSUME NEW d \in Callers PROVE local'[d].stats = local[d].stats
      BY <1>0, <1>2, IdTyped DEF PushFast, Types
    <3>2. \A d \in Callers : pc'[d] \notin HoldsFast
      BY <1>0, <1>2, Nobodys DEF PushFast, Goto, Types, Locked, HoldsFast
    <3>. QED  BY <3>2 DEF Read, HoldsFast
  <2>. QED  BY <2>1, <2>2, <2>3 DEF Snapshots
<1>3. ASSUME NEW c \in Callers, PushShm(c) PROVE Snapshots'
  <2>1. Locked'
    BY <1>0, <1>3, Nobodys DEF PushShm, Locked, Types, Goto, HoldsFast, HoldsShm, locks
  <2>2. Balanced'
    <3>1. \A w \in {"sending", "receiving"} : Uncounted(w)' = Uncounted(w)
      BY <1>0, <1>3 DEF PushShm, Uncounted, Goto, Types
    <3>2. Queued' = Queued
      BY <1>3 DEF PushShm, Queued, channelVars
    <3>. QED  BY <1>0, <1>3, <3>1, <3>2 DEF PushShm, Balanced, counters
  <2>3. \A d \in Callers : Read(d)'
    <3>1. ASSUME NEW d \in Callers PROVE local'[d].stats = local[d].stats
      BY <1>0, <1>3, IdTyped DEF PushShm, Types
    <3>2. \A d \in Callers : pc'[d] \notin HoldsShm
      BY <1>0, <1>3, Nobodys DEF PushShm, Goto, Types, Locked, HoldsShm
    <3>. QED  BY <1>0, <1>3, <3>1, <3>2 DEF PushShm, Read, HoldsShm, Goto, Types, counters
  <2>. QED  BY <2>1, <2>2, <2>3 DEF Snapshots
<1>4. ASSUME NEW c \in Callers, NEW id \in Ids, NEW msg \in Messages, SendFast(c, id, msg) PROVE Snapshots'
  <2>1. Locked'
    BY <1>0, <1>4, Nobodys DEF SendFast, Locked, Types, Goto, HoldsFast, HoldsShm, locks
  <2>2. Balanced'
    <3>1. Uncounted("sending") = 0 /\ Uncounted("receiving") = 0
      BY <1>0, <1>4, HoldersCounted DEF SendFast, HolderCounted, HoldsFast
    <3>2. Uncounted("sending")' = 1 /\ Uncounted("receiving")' = 0
      <4>1. pc'[c] = "sending"
        BY <1>0, <1>4 DEF SendFast, Goto, Types
      <4>. QED  BY <2>1, <4>1, HoldersCountedNext DEF HolderCounted, HoldsFast
    <3>3. Queued' = Queued + 1
      <4>1. Len(buffer'[id]) = Len(buffer[id]) + 1 /\ \A i \in Ids \ {id} : buffer'[i] = buffer[i]
        BY <1>0, <1>4, AppendProperties, HeadTailProperties DEF SendFast, Types
      <4>2. Queued' = Queued + (Len(buffer'[id]) - Len(buffer[id]))
        BY <1>0, <4>1, QueuedChanged
      <4>3. Queued \in Nat /\ Len(buffer[id]) \in Nat
        BY <1>0, QueuedSum, LenProperties DEF Summed, Types
      <4>. QED  BY <4>1, <4>2, <4>3
    <3>4. Queued \in Nat /\ messages_sent \in Nat /\ messages_received \in Nat
      BY <1>0, QueuedSum DEF Summed, Types
    <3>5. UNCHANGED <<messages_sent, messages_received>>
      BY <1>4 DEF SendFast, counters
    <3>. QED  BY <1>0, <3>1, <3>2, <3>3, <3>4, <3>5 DEF Balanced
  <2>3. \A d \in Callers : Read(d)'
    <3>1. \A d \in Callers \ {c} : pc'[d] \notin HoldsFast
      BY <1>0, <1>4, Nobodys DEF SendFast, Goto, Types, Locked, HoldsFast
    <3>2. pc'[c] \notin {"stats_shm", "stats_sent", "stats_received"}
      BY <1>0, <1>4 DEF SendFast, Goto, Types
    <3>. QED  BY <3>1, <3>2 DEF Read, HoldsFast
  <2>. QED  BY <2>1, <2>2, <2>3 DEF Snapshots
<1>5. ASSUME NEW c \in Callers, SendCounted(c) PROVE Snapshots'
  <2>1. Locked'
    BY <1>0, <1>5, Nobodys DEF SendCounted, Locked, Types, Goto, HoldsFast, HoldsShm, locks
  <2>2. Balanced'
    <3>1. Uncounted("sending") = 1 /\ Uncounted("receiving") = 0
      BY <1>0, <1>5, HoldersCounted DEF SendCounted, Goto, HolderCounted, HoldsFast
    <3>2. Uncounted("sending")' = 0 /\ Uncounted("receiving")' = 0
      BY <1>5, <2>1, HoldersCountedNext DEF SendCounted, HolderCounted, HoldsFast
    <3>3. Queued' = Queued /\ Queued \in Nat
      BY <1>0, <1>5, QueuedSum DEF SendCounted, Queued, channelVars, Summed
    <3>. QED  BY <1>0, <1>5, <3>1, <3>2, <3>3 DEF SendCounted, Balanced, Types
  <2>3. \A d \in Callers : Read(d)'
    <3>1. \A d \in Callers \ {c} : pc'[d] \notin HoldsFast
      BY <1>0, <1>5, Nobodys DEF SendCounted, Goto, Types, Locked, HoldsFast
    <3>2. pc'[c] \notin {"stats_shm", "stats_sent", "stats_received"}
      BY <1>0, <1>5 DEF SendCounted, Goto, Types
    <3>. QED  BY <3>1, <3>2 DEF Read, HoldsFast
  <2>. QED  BY <2>1, <2>2, <2>3 DEF Snapshots
<1>6. ASSUME NEW c \in Callers, NEW id \in Ids, RecvFast(c, id) PROVE Snapshots'
  <2>1. Locked'
    BY <1>0, <1>6, Nobodys DEF RecvFast, Locked, Types, Goto, HoldsFast, HoldsShm, locks
  <2>2. Balanced'
    <3>1. Uncounted("sending") = 0 /\ Uncounted("receiving") = 0
      BY <1>0, <1>6, HoldersCounted DEF RecvFast, HolderCounted, HoldsFast
    <3>2. Uncounted("receiving")' = 1 /\ Uncounted("sending")' = 0
      <4>1. pc'[c] = "receiving"
        BY <1>0, <1>6 DEF RecvFast, Goto, Types
      <4>. QED  BY <2>1, <4>1, HoldersCountedNext DEF HolderCounted, HoldsFast
    <3>3. Queued' = Queued + (-1)
      <4>1. Len(buffer'[id]) = Len(buffer[id]) + (-1) /\ \A i \in Ids \ {id} : buffer'[i] = buffer[i]
        BY <1>0, <1>6, AppendProperties, HeadTailProperties DEF RecvFast, Types
      <4>2. Queued' = Queued + (Len(buffer'[id]) - Len(buffer[id]))
        BY <1>0, <4>1, QueuedChanged
      <4>3. Queued \in Nat /\ Len(buffer[id]) \in Nat
        BY <1>0, QueuedSum, LenProperties DEF Summed, Types
      <4>. QED  BY <4>1, <4>2, <4>3
    <3>4. Queued \in Nat /\ messages_sent \in Nat /\ messages_received \in Nat
      BY <1>0, QueuedSum DEF Summed, Types
    <3>5. UNCHANGED <<messages_sent, messages_received>>
      BY <1>6 DEF RecvFast, counters
    <3>. QED  BY <1>0, <3>1, <3>2, <3>3, <3>4, <3>5 DEF Balanced
  <2>3. \A d \in Callers : Read(d)'
    <3>1. \A d \in Callers \ {c} : pc'[d] \notin HoldsFast
      BY <1>0, <1>6, Nobodys DEF RecvFast, Goto, Types, Locked, HoldsFast
    <3>2. pc'[c] \notin {"stats_shm", "stats_sent", "stats_received"}
      BY <1>0, <1>6 DEF RecvFast, Goto, Types
    <3>. QED  BY <3>1, <3>2 DEF Read, HoldsFast
  <2>. QED  BY <2>1, <2>2, <2>3 DEF Snapshots
<1>7. ASSUME NEW c \in Callers, RecvCounted(c) PROVE Snapshots'
  <2>1. Locked'
    BY <1>0, <1>7, Nobodys DEF RecvCounted, Locked, Types, Goto, HoldsFast, HoldsShm, locks
  <2>2. Balanced'
    <3>1. Uncounted("receiving") = 1 /\ Uncounted("sending") = 0
      BY <1>0, <1>7, HoldersCounted DEF RecvCounted, Goto, HolderCounted, HoldsFast
    <3>2. Uncounted("sending")' = 0 /\ Uncounted("receiving")' = 0
      BY <1>7, <2>1, HoldersCountedNext DEF RecvCounted, HolderCounted, HoldsFast
    <3>3. Queued' = Queued /\ Queued \in Nat
      BY <1>0, <1>7, QueuedSum DEF RecvCounted, Queued, channelVars, Summed
    <3>. QED  BY <1>0, <1>7, <3>1, <3>2, <3>3 DEF RecvCounted, Balanced, Types
  <2>3. \A d \in Callers : Read(d)'
    <3>1. \A d \in Callers \ {c} : pc'[d] \notin HoldsFast
      BY <1>0, <1>7, Nobodys DEF RecvCounted, Goto, Types, Locked, HoldsFast
    <3>2. pc'[c] \notin {"stats_shm", "stats_sent", "stats_received"}
      BY <1>0, <1>7 DEF RecvCounted, Goto, Types
    <3>. QED  BY <3>1, <3>2 DEF Read, HoldsFast
  <2>. QED  BY <2>1, <2>2, <2>3 DEF Snapshots
<1>8. ASSUME NEW c \in Callers, StatsFast(c) PROVE Snapshots'
  <2>1. Locked'
    BY <1>0, <1>8, Nobodys DEF StatsFast, Locked, Types, Goto, HoldsFast, HoldsShm, locks
  <2>2. Balanced'
    <3>1. \A w \in {"sending", "receiving"} : Uncounted(w)' = Uncounted(w)
      BY <1>0, <1>8 DEF StatsFast, Uncounted, Goto, Types
    <3>2. Queued' = Queued
      BY <1>8 DEF StatsFast, Queued, channelVars
    <3>. QED  BY <1>0, <1>8, <3>1, <3>2 DEF StatsFast, Balanced, counters
  <2>3. \A d \in Callers : Read(d)'
    <3>1. /\ \A d \in Callers \ {c} : local'[d] = local[d] /\ pc'[d] = pc[d]
          /\ UNCHANGED <<fast_channels, shm_channels, messages_sent>>
      BY <1>0, <1>8, StatsFastLocal DEF StatsFast, Goto, Types, tables, counters
    <3>2. Read(c)'
      BY <1>0, <1>8, StatsFastLocal DEF StatsFast, Goto, Types, Read, tables, counters
    <3>. QED  BY <1>0, <3>1, <3>2 DEF Read
  <2>. QED  BY <2>1, <2>2, <2>3 DEF Snapshots
<1>9. ASSUME NEW c \in Callers, StatsShm(c) PROVE Snapshots'
  <2>1. Locked'
    BY <1>0, <1>9, Nobodys DEF StatsShm, Locked, Types, Goto, HoldsFast, HoldsShm, locks
  <2>2. Balanced'
    <3>1. \A w \in {"sending", "receiving"} : Uncounted(w)' = Uncounted(w)
      BY <1>0, <1>9 DEF StatsShm, Uncounted, Goto, Types
    <3>2. Queued' = Queued
      BY <1>9 DEF StatsShm, Queued, channelVars
    <3>. QED  BY <1>0, <1>9, <3>1, <3>2 DEF StatsShm, Balanced, counters
  <2>3. \A d \in Callers : Read(d)'
    <3>1. /\ \A d \in Callers \ {c} : local'[d] = local[d] /\ pc'[d] = pc[d]
          /\ UNCHANGED <<fast_channels, shm_channels, messages_sent>>
      BY <1>0, <1>9, StatsShmLocal DEF StatsShm, Goto, Types, tables, counters
    <3>2. Read(c)'
      BY <1>0, <1>9, StatsShmLocal DEF StatsShm, Goto, Types, Read, tables, counters
    <3>. QED  BY <1>0, <3>1, <3>2 DEF Read
  <2>. QED  BY <2>1, <2>2, <2>3 DEF Snapshots
<1>10. ASSUME NEW c \in Callers, StatsSent(c) PROVE Snapshots'
  <2>1. Locked'
    BY <1>0, <1>10, Nobodys DEF StatsSent, Locked, Types, Goto, HoldsFast, HoldsShm, locks
  <2>2. Balanced'
    <3>1. \A w \in {"sending", "receiving"} : Uncounted(w)' = Uncounted(w)
      BY <1>0, <1>10 DEF StatsSent, Uncounted, Goto, Types
    <3>2. Queued' = Queued
      BY <1>10 DEF StatsSent, Queued, channelVars
    <3>. QED  BY <1>0, <1>10, <3>1, <3>2 DEF StatsSent, Balanced, counters
  <2>3. \A d \in Callers : Read(d)'
    <3>1. /\ \A d \in Callers \ {c} : local'[d] = local[d] /\ pc'[d] = pc[d]
          /\ UNCHANGED <<fast_channels, shm_channels, messages_sent>>
      BY <1>0, <1>10, StatsSentLocal DEF StatsSent, Goto, Types, tables, counters
    <3>2. Read(c)'
      BY <1>0, <1>10, StatsSentLocal DEF StatsSent, Goto, Types, Read, tables, counters
    <3>. QED  BY <1>0, <3>1, <3>2 DEF Read
  <2>. QED  BY <2>1, <2>2, <2>3 DEF Snapshots
<1>11. ASSUME NEW c \in Callers, StatsReceived(c) PROVE Snapshots'
  <2>1. Locked'
    BY <1>0, <1>11, Nobodys DEF StatsReceived, Locked, Types, Goto, HoldsFast, HoldsShm, locks
  <2>2. Balanced'
    <3>1. \A w \in {"sending", "receiving"} : Uncounted(w)' = Uncounted(w)
      BY <1>0, <1>11 DEF StatsReceived, Uncounted, Goto, Types
    <3>2. Queued' = Queued
      BY <1>11 DEF StatsReceived, Queued, channelVars
    <3>. QED  BY <1>0, <1>11, <3>1, <3>2 DEF StatsReceived, Balanced, counters
  <2>3. \A d \in Callers : Read(d)'
    <3>1. /\ \A d \in Callers \ {c} : local'[d] = local[d] /\ pc'[d] = pc[d]
          /\ UNCHANGED <<fast_channels, shm_channels, messages_sent>>
      BY <1>0, <1>11, StatsReceivedLocal DEF StatsReceived, Goto, Types, tables, counters
    <3>2. Read(c)'
      BY <1>0, <1>11, StatsReceivedLocal DEF StatsReceived, Goto, Types, Read, tables, counters
    <3>. QED  BY <1>0, <3>1, <3>2 DEF Read
  <2>. QED  BY <2>1, <2>2, <2>3 DEF Snapshots
<1>12. CASE UNCHANGED vars
  <2>1. /\ UNCHANGED <<fast_channels, shm_channels, buffer, fast_lock, shm_lock>>
        /\ UNCHANGED <<messages_sent, messages_received, pc, local>>
    BY <1>12 DEF vars, tables, channelVars, counters, locks
  <2>2. Queued' = Queued
    BY <2>1 DEF Queued
  <2>. QED  BY <1>0, <2>1, <2>2 DEF Snapshots, Locked, Balanced, Uncounted, Read
<1>13. \A p \in Payloads : NewMessage(p) \in Messages
  BY DEF Messages
<1>. QED
  BY <1>1, <1>2, <1>3, <1>4, <1>5, <1>6, <1>7, <1>8, <1>9, <1>10, <1>11, <1>12, <1>13 DEF Next, Stats

LEMMA SnapshotsHold == Spec => [](IInv /\ Snapshots)
<1>1. Init => IInv /\ Snapshots
  BY InitIInv, SnapshotsInit
<1>2. IInv /\ Snapshots /\ [Next]_vars => IInv' /\ Snapshots'
  BY NextIInv, SnapshotsNext
<1>. QED
  BY <1>1, <1>2, PTL DEF Spec

(* stats() answers a state the core was in: what was sent and not received *)
(* lay in the buffers, and all of it is still so when the call returns,    *)
(* for the guards of its temporaries last as long (ipc.rs:173-181).        *)
THEOREM StatsAreASnapshot == Spec => StatsConsistent
<1>1. ASSUME IInv, Snapshots, NEW c \in Callers, StatsReceived(c)
      PROVE  /\ local'[c].stats.sent = local'[c].stats.received + Queued
             /\ local'[c].stats.fast = Len(fast_channels)
             /\ local'[c].stats.shm = Len(shm_channels)
  <2>1. Types /\ Locked /\ Balanced /\ Read(c) /\ pc[c] = "stats_received"
    BY <1>1 DEF IInv, Snapshots, StatsReceived, Goto
  <2>2. /\ local[c].stats.sent = messages_sent
        /\ local[c].stats.fast = Len(fast_channels) /\ local[c].stats.shm = Len(shm_channels)
    BY <2>1 DEF Read
  <2>3. /\ local'[c].stats.received = messages_received
        /\ local'[c].stats.sent = local[c].stats.sent
        /\ local'[c].stats.fast = local[c].stats.fast /\ local'[c].stats.shm = local[c].stats.shm
    BY <1>1, <2>1, StatsReceivedLocal
  <2>4. Uncounted("sending") = 0 /\ Uncounted("receiving") = 0
    BY <2>1, HoldersCounted DEF HolderCounted, HoldsFast
  <2>5. messages_sent = messages_received + Queued
    <3>1. Queued \in Nat /\ messages_sent \in Nat /\ messages_received \in Nat
      BY <2>1, QueuedSum DEF Summed, Types
    <3>. QED  BY <2>1, <2>4, <3>1 DEF Balanced
  <2>. QED  BY <2>2, <2>3, <2>5
<1>2. IInv /\ Snapshots => AnswerConsistent
  BY <1>1 DEF AnswerConsistent
<1>. QED
  BY <1>2, SnapshotsHold, PTL DEF StatsConsistent

(***************************************************************************)
(* The core implements message channels.                                   *)
(***************************************************************************)

LEMMA ChannelsInit == Init => Channels!Init
  BY DEF Init, Channels!Init, ToSet

LEMMA ChannelsNext == IInv /\ [Next]_vars => [Channels!Next]_(Channels!vars)
<1>. DEFINE bound == [i \in ToSet(fast_channels) |-> capacity[i]]
<1>. SUFFICES ASSUME IInv, [Next]_vars PROVE [Channels!Next]_(Channels!vars)
  OBVIOUS
<1>0. Types /\ DOMAIN bound = ToSet(fast_channels)
  BY DEF IInv
<1>1. ASSUME NEW c \in Callers, PushFast(c) PROVE Channels!Next
  <2>. DEFINE n == local[c].id
  <2>1. n \in Ids /\ n \notin ToSet(fast_channels) /\ ToSet(fast_channels') = ToSet(fast_channels) \cup {n}
    BY <1>1, PushFastStep DEF Taken
  <2>2. PICK cap \in Capacities : capacity' = [capacity EXCEPT ![n] = cap]
    BY <1>1 DEF PushFast
  <2>3. bound' = [m \in ToSet(fast_channels) \cup {n} |-> IF m = n THEN cap ELSE bound[m]]
    <3>1. ToSet(fast_channels) \subseteq Ids
      BY <1>0 DEF Types, ToSet
    <3>. QED  BY <1>0, <2>1, <2>2, <3>1 DEF Types
  <2>4. buffer' = buffer
    BY <1>1 DEF PushFast, channelVars
  <2>5. Channels!Open(n, cap)
    BY <2>1, <2>3, <2>4 DEF Channels!Open
  <2>. QED  BY <2>1, <2>2, <2>5 DEF Channels!Next
<1>2. ASSUME NEW c \in Callers, NEW id \in Ids, NEW msg \in Messages, SendFast(c, id, msg) PROVE Channels!Next
  <2>1. id \in ToSet(fast_channels)
    BY <1>0, <1>2, LenProperties DEF SendFast, Contains, ToSet, Types
  <2>2. bound' = bound
    BY <1>2 DEF SendFast, tables
  <2>3. Len(buffer[id]) < bound[id] /\ buffer' = [buffer EXCEPT ![id] = Append(@, msg)]
    BY <1>2, <2>1 DEF SendFast
  <2>4. Channels!Put(id, msg)
    BY <2>2, <2>3 DEF Channels!Put
  <2>. QED  BY <1>0, <2>1, <2>4 DEF Channels!Next, Messages
<1>3. ASSUME NEW c \in Callers, NEW id \in Ids, RecvFast(c, id) PROVE Channels!Next
  <2>1. id \in ToSet(fast_channels)
    BY <1>0, <1>3, LenProperties DEF RecvFast, Contains, ToSet, Types
  <2>2. bound' = bound
    BY <1>3 DEF RecvFast, tables
  <2>3. Channels!Get(id)
    BY <1>3, <2>2 DEF Channels!Get, RecvFast
  <2>. QED  BY <1>0, <2>1, <2>3 DEF Channels!Next
<1>4. ASSUME UNCHANGED <<fast_channels, capacity, buffer>> PROVE UNCHANGED Channels!vars
  BY <1>4 DEF Channels!vars
<1>5. \A p \in Payloads : NewMessage(p) \in Messages
  BY DEF Messages
<1>6. ASSUME NEW c \in Callers,
             \/ \E to \in {"push_fast", "push_shm"} : TakeId(c, to)
             \/ PushShm(c) \/ SendCounted(c) \/ RecvCounted(c) \/ Stats(c)
      PROVE  UNCHANGED <<fast_channels, capacity, buffer>>
  BY <1>6 DEF TakeId, PushShm, SendCounted, RecvCounted, Stats, StatsFast, StatsShm, StatsSent,
              StatsReceived, tables, channelVars
<1>7. CASE UNCHANGED vars
  BY <1>4, <1>7 DEF vars, tables, channelVars
<1>. QED
  BY <1>1, <1>2, <1>3, <1>4, <1>5, <1>6, <1>7 DEF Next

(* Every behaviour of the core, at the grain of its locks, is one of       *)
(* bounded queues under names of their own: what is sent is received once, *)
(* in order, and a full channel refuses (ipc.rs:67-91, 149-171).           *)
THEOREM Implementation == Spec => ImplementsChannels
  BY ChannelsInit, ChannelsNext, Invariance, PTL DEF Spec, ImplementsChannels, Channels!Spec
===============================================================================
