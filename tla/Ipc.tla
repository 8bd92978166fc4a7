--------------------------------- MODULE Ipc ---------------------------------
(***************************************************************************)
(* The IPC core (zerox-kernel/src/ipc.rs): fast-message channels, shared-  *)
(* memory channels and the statistics over them.                           *)
(*                                                                         *)
(* IpcCore takes &self and does its own locking, so several callers may be *)
(* inside it at once; a step here is what one caller does between two      *)
(* points where another can see the difference.  Today's callers also hold *)
(* the KERNEL mutex: their behaviours are among these.  The mutex inside   *)
(* FastChannel is only ever taken under that of fast_channels.             *)
(***************************************************************************)
EXTENDS Naturals, Sequences, FiniteSets, SequencesExt, FiniteSetsExt

CONSTANTS
  Callers,
  Payloads,    (* What clients want to send: sequences of bytes.           *)
  FastMsgMax,  (* FAST_MSG_MAX                                             *)
  Capacities,
  MaxChannels, (* Bound: channels created in a behaviour.                  *)
  MaxSends,    (* Bound: messages accepted in a behaviour.                 *)
  Nobody       (* The holder of a free lock.                               *)

ASSUME IpcAssumption ==
  /\ Capacities \subseteq Nat
  /\ {FastMsgMax, MaxChannels, MaxSends} \subseteq Nat
  /\ Nobody \notin Callers

VARIABLES
  fast_channels,     (* The ids in the Vec.                                *)
  shm_channels,
  capacity,          (* id -> FastChannel.capacity                         *)
  buffer,            (* id -> FastChannel.buffer                           *)
  sent, received,    (* id -> FastChannel.sent and .received               *)
  next_channel_id,
  messages_sent, messages_received,
  fast_lock, shm_lock,
  pc,                (* caller -> where it is in its call                  *)
  local              (* caller -> the id, or the IpcStats, it computes     *)

tables == <<fast_channels, shm_channels, capacity>>
channelVars == <<buffer, sent, received>>
counters == <<messages_sent, messages_received>>
locks == <<fast_lock, shm_lock>>
vars == <<tables, channelVars, next_channel_id, counters, locks, pc, local>>

Ids == 1 .. MaxChannels
NoStats == [fast |-> 0, shm |-> 0, sent |-> 0, received |-> 0]

(* FastMessage::new: what does not fit is cut off. *)
NewMessage(payload) ==
  SubSeq(payload, 1, IF Len(payload) < FastMsgMax THEN Len(payload) ELSE FastMsgMax)

Init ==
  /\ fast_channels = <<>> /\ shm_channels = <<>>
  /\ capacity = [i \in Ids |-> 0]
  /\ buffer = [i \in Ids |-> <<>>]
  /\ sent = [i \in Ids |-> 0] /\ received = [i \in Ids |-> 0]
  /\ next_channel_id = 1
  /\ messages_sent = 0 /\ messages_received = 0
  /\ fast_lock = Nobody /\ shm_lock = Nobody
  /\ pc = [c \in Callers |-> "idle"]
  /\ local = [c \in Callers |-> [id |-> 0, stats |-> NoStats]]

Goto(c, from, to) == pc[c] = from /\ pc' = [pc EXCEPT ![c] = to]

(* Mutant of TakeId: the id is read, and the counter is not advanced with it. *)
ReadId(c, to) ==
  /\ next_channel_id <= MaxChannels
  /\ Goto(c, "idle", to)
  /\ local' = [local EXCEPT ![c].id = next_channel_id]
  /\ UNCHANGED <<tables, channelVars, next_channel_id, counters, locks>>

(* create_fast_channel and create_shm_channel: an id first, the lock later. *)
TakeId(c, to) ==
  /\ next_channel_id <= MaxChannels
  /\ Goto(c, "idle", to)
  /\ local' = [local EXCEPT ![c].id = next_channel_id]
  /\ next_channel_id' = next_channel_id + 1
  /\ UNCHANGED <<tables, channelVars, counters, locks>>

PushFast(c) ==
  /\ Goto(c, "push_fast", "idle")
  /\ fast_lock = Nobody
  /\ fast_channels' = Append(fast_channels, local[c].id)
  /\ \E cap \in Capacities : capacity' = [capacity EXCEPT ![local[c].id] = cap]
  /\ local' = [local EXCEPT ![c].id = 0]
  /\ UNCHANGED <<shm_channels, channelVars, next_channel_id, counters, locks>>

PushShm(c) ==
  /\ Goto(c, "push_shm", "idle")
  /\ shm_lock = Nobody
  /\ shm_channels' = Append(shm_channels, local[c].id)
  /\ local' = [local EXCEPT ![c].id = 0]
  /\ UNCHANGED <<fast_channels, capacity, channelVars, next_channel_id, counters, locks>>

(* Mutant of SendFast: a full channel takes one more. *)
SendFastUnbounded(c, id, msg) ==
  /\ Goto(c, "idle", "sending")
  /\ fast_lock = Nobody
  /\ Contains(fast_channels, id)
  /\ Len(buffer[id]) <= capacity[id]
  /\ messages_sent < MaxSends
  /\ buffer' = [buffer EXCEPT ![id] = Append(@, msg)]
  /\ sent' = [sent EXCEPT ![id] = @ + 1]
  /\ fast_lock' = c
  /\ UNCHANGED <<tables, received, next_channel_id, counters, shm_lock, local>>

(* send_fast: find the channel under the lock, push, count, then count for *)
(* the whole core and unlock.  An unknown or full channel is an error that *)
(* changes nothing.                                                        *)
SendFast(c, id, msg) ==
  /\ Goto(c, "idle", "sending")
  /\ fast_lock = Nobody
  /\ Contains(fast_channels, id)
  /\ Len(buffer[id]) < capacity[id]
  /\ messages_sent < MaxSends
  /\ buffer' = [buffer EXCEPT ![id] = Append(@, msg)]
  /\ sent' = [sent EXCEPT ![id] = @ + 1]
  /\ fast_lock' = c
  /\ UNCHANGED <<tables, received, next_channel_id, counters, shm_lock, local>>

SendCounted(c) ==
  /\ Goto(c, "sending", "idle")
  /\ messages_sent' = messages_sent + 1
  /\ fast_lock' = Nobody
  /\ UNCHANGED <<tables, channelVars, next_channel_id, messages_received, shm_lock, local>>

(* recv_fast, likewise; it returns None when there is nothing. *)
RecvFast(c, id) ==
  /\ Goto(c, "idle", "receiving")
  /\ fast_lock = Nobody
  /\ Contains(fast_channels, id)
  /\ buffer[id] # <<>>
  /\ buffer' = [buffer EXCEPT ![id] = Tail(@)]
  /\ received' = [received EXCEPT ![id] = @ + 1]
  /\ fast_lock' = c
  /\ UNCHANGED <<tables, sent, next_channel_id, counters, shm_lock, local>>

RecvCounted(c) ==
  /\ Goto(c, "receiving", "idle")
  /\ messages_received' = messages_received + 1
  /\ fast_lock' = Nobody
  /\ UNCHANGED <<tables, channelVars, next_channel_id, messages_sent, shm_lock, local>>

(* stats: its two guards are temporaries of the returned struct, so each   *)
(* lock, once taken, is held until the last field has been read.           *)
StatsFast(c) ==
  /\ Goto(c, "idle", "stats_shm")
  /\ fast_lock = Nobody
  /\ fast_lock' = c
  /\ local' = [local EXCEPT ![c].stats = [NoStats EXCEPT !.fast = Len(fast_channels)]]
  /\ UNCHANGED <<tables, channelVars, next_channel_id, counters, shm_lock>>

(* Mutant of StatsShm: the first guard is dropped once its length is read. *)
StatsShmAlone(c) ==
  /\ Goto(c, "stats_shm", "stats_sent")
  /\ shm_lock = Nobody
  /\ shm_lock' = c
  /\ fast_lock' = Nobody
  /\ local' = [local EXCEPT ![c].stats.shm = Len(shm_channels)]
  /\ UNCHANGED <<tables, channelVars, next_channel_id, counters>>

StatsShm(c) ==
  /\ Goto(c, "stats_shm", "stats_sent")
  /\ shm_lock = Nobody
  /\ shm_lock' = c
  /\ local' = [local EXCEPT ![c].stats.shm = Len(shm_channels)]
  /\ UNCHANGED <<tables, channelVars, next_channel_id, counters, fast_lock>>

StatsSent(c) ==
  /\ Goto(c, "stats_sent", "stats_received")
  /\ local' = [local EXCEPT ![c].stats.sent = messages_sent]
  /\ UNCHANGED <<tables, channelVars, next_channel_id, counters, locks>>

StatsReceived(c) ==
  /\ Goto(c, "stats_received", "idle")
  /\ local' = [local EXCEPT ![c].stats.received = messages_received]
  /\ fast_lock' = Nobody
  /\ shm_lock' = Nobody
  /\ UNCHANGED <<tables, channelVars, next_channel_id, counters>>

Stats(c) == StatsFast(c) \/ StatsShm(c) \/ StatsSent(c) \/ StatsReceived(c)

Next ==
  \E c \in Callers :
    \/ TakeId(c, "push_fast") \/ PushFast(c)
    \/ TakeId(c, "push_shm") \/ PushShm(c)
    \/ \E id \in Ids, payload \in Payloads : SendFast(c, id, NewMessage(payload))
    \/ SendCounted(c)
    \/ \E id \in Ids : RecvFast(c, id)
    \/ RecvCounted(c)
    \/ Stats(c)

Spec == Init /\ [][Next]_vars

------------------------------------------------------------------------------

(* The variables have their types; a lock is held exactly while its holder *)
(* is between taking and releasing it.                                     *)
TypeOK ==
  /\ fast_channels \in Seq(Ids) /\ shm_channels \in Seq(Ids)
  /\ capacity \in [Ids -> Capacities \cup {0}]
  /\ \A i \in Ids : buffer[i] \in Seq({NewMessage(p) : p \in Payloads})
  /\ sent \in [Ids -> 0 .. MaxSends] /\ received \in [Ids -> 0 .. MaxSends]
  /\ next_channel_id \in 1 .. MaxChannels + 1
  /\ messages_sent \in 0 .. MaxSends /\ messages_received \in 0 .. MaxSends
  /\ \A c \in Callers :
       /\ fast_lock = c <=> pc[c] \in {"sending", "receiving", "stats_shm", "stats_sent",
                                       "stats_received"}
       /\ shm_lock = c <=> pc[c] \in {"stats_sent", "stats_received"}

(* No id names two channels, fast or shared-memory, although ids are taken *)
(* outside the locks and may be pushed in another order.                   *)
UniqueIds ==
  /\ IsInjective(fast_channels)
  /\ IsInjective(shm_channels)
  /\ ToSet(fast_channels) \cap ToSet(shm_channels) = {}

(* The messages in the buffers: those of ids 1 .. i, summed up.            *)
Queued ==
  LET upTo[i \in 0 .. MaxChannels] == IF i = 0 THEN 0 ELSE upTo[i - 1] + Len(buffer[i])
  IN  upTo[MaxChannels]

(* What a call of stats() answers.                                         *)
AnswerConsistent ==
  \A c \in Callers : StatsReceived(c) =>
    /\ local'[c].stats.sent = local'[c].stats.received + Queued
    /\ local'[c].stats.fast = Len(fast_channels)
    /\ local'[c].stats.shm = Len(shm_channels)

(* A snapshot of stats() is one the system was in: no more received than   *)
(* sent, the difference is what lay in the buffers, and it lies there      *)
(* still when the call returns.                                            *)
StatsConsistent == [][AnswerConsistent]_vars

(* Fast channels are bounded queues under names of their own: nothing is   *)
(* lost, duplicated or reordered, however senders, receivers, creators and *)
(* stats() interleave.                                                     *)
Channels == INSTANCE MessageChannels WITH
  Names    <- Ids,
  Messages <- {NewMessage(p) : p \in Payloads},
  bound    <- [i \in ToSet(fast_channels) |-> capacity[i]],
  content  <- buffer

ImplementsChannels == Channels!Spec
==============================================================================
