---------------------------------- MODULE Tasks ----------------------------------
(***************************************************************************)
(* The process table (crates/zerox-kernel/src/process.rs) and the security *)
(* manager (security.rs), whose grants name the processes of the table.    *)
(*                                                                         *)
(* The table is borrowed mutably, so that each of its operations is one    *)
(* step.  The security manager is shared: a grant takes its number and     *)
(* takes the lock in two steps, between which other callers act.  Names,   *)
(* times, stacks and what a capability is for are left out.                *)
(***************************************************************************)
EXTENDS Integers, Sequences, SequencesExt, Vec

CONSTANTS
  Callers,      \* of the security manager
  Caps,
  MaxPid,       \* bounds on next_pid, next_tid and next_token
  MaxTid,
  MaxToken

ASSUME BoundsAssumption == MaxPid \in Nat /\ MaxTid \in Nat /\ MaxToken \in Nat

VARIABLES
  processes, next_pid,
  threads, next_tid,
  born, ended,         \* of each process: the thread ids below it were taken before its
                       \* spawn, and before its last end; 0 if there was none
  issued, next_token,
  grants,              \* of each caller: what it is about to issue, or NoGrant
  handed_out,          \* every grant that has returned
  revoked              \* every token whose revocation has returned

table == <<processes, next_pid, threads, next_tid, born, ended>>
security == <<issued, next_token, grants, handed_out, revoked>>
taskVars == <<table, security>>

NoGrant == [token |-> 0]
ProcessIds == 1 .. MaxPid
Thread == [tid : 1 .. MaxTid, pid : ProcessIds]

TasksInit ==
  /\ processes = <<>> /\ next_pid = 1
  /\ threads = <<>> /\ next_tid = 1
  /\ born = [pid \in ProcessIds |-> 0] /\ ended = born
  /\ issued = <<>> /\ next_token = 1
  /\ grants = [c \in Callers |-> NoGrant]
  /\ handed_out = {} /\ revoked = {}

-------------------------------------------------------------------------------
(* Processes and threads *)

Spawn ==
  /\ next_pid <= MaxPid
  /\ processes' = Append(processes, [pid |-> next_pid, state |-> "Runnable", threads |-> <<>>])
  /\ born' = [born EXCEPT ![next_pid] = next_tid]
  /\ next_pid' = next_pid + 1
  /\ UNCHANGED <<threads, next_tid, ended, security>>

WithProcess(pid, Change(_)) ==
  [i \in DOMAIN processes |-> IF processes[i].pid = pid THEN Change(processes[i]) ELSE processes[i]]

\* A thread of a process that is dead, or that is not in the table, is made all the same.
SpawnThread(pid) ==
  /\ next_tid <= MaxTid
  /\ threads' = Append(threads, [tid |-> next_tid, pid |-> pid])
  /\ processes' = WithProcess(pid, LAMBDA p : [p EXCEPT !.threads = Append(@, next_tid)])
  /\ next_tid' = next_tid + 1
  /\ UNCHANGED <<next_pid, born, ended, security>>

\* Mutant of Retained: only the thread whose id was meant for the process goes.
RetainedButOne(pid) == Without(threads, {t \in Thread : t.tid = pid})

Retained(pid) == Without(threads, {t \in Thread : t.pid = pid})

\* `kill` and `exit`, of a process that is already dead or not in the table as well: its
\* threads go.  Its list of threads is left as it is, and so is what it was granted.
End(pid, state) ==
  /\ processes' = WithProcess(pid, LAMBDA p : [p EXCEPT !.state = state])
  /\ threads' = Retained(pid)
  /\ ended' = [ended EXCEPT ![pid] = next_tid]
  /\ UNCHANGED <<next_pid, next_tid, born, security>>

-------------------------------------------------------------------------------
(* Capabilities *)

\* `next_token.fetch_add(1)`: the first half of a grant, which does not ask whether there
\* is such a process.
TakeToken(c, pid, cap) ==
  /\ grants[c] = NoGrant /\ next_token <= MaxToken
  /\ grants' = [grants EXCEPT ![c] = [token |-> next_token, pid |-> pid, cap |-> cap]]
  /\ next_token' = next_token + 1
  /\ UNCHANGED <<table, issued, handed_out, revoked>>

\* `issued.lock().push(..)`, and the token is returned.
Issue(c) ==
  /\ grants[c] # NoGrant
  /\ issued' = Append(issued, grants[c])
  /\ handed_out' = handed_out \cup {grants[c]}
  /\ grants' = [grants EXCEPT ![c] = NoGrant]
  /\ UNCHANGED <<table, next_token, revoked>>

\* Mutant of Revoke: whatever is the same capability of the same process goes with it.
RevokeAlike(token) ==
  /\ LET same(g) == \E i \in DOMAIN issued : issued[i].token = token /\ g.pid = issued[i].pid /\ g.cap = issued[i].cap
     IN issued' = SelectSeq(issued, LAMBDA g : ~same(g))
  /\ revoked' = revoked \cup {token}
  /\ UNCHANGED <<table, next_token, grants, handed_out>>

\* A token is known only once it has been returned.
Revoke(token) ==
  /\ LET at == {i \in DOMAIN issued : issued[i].token = token}
     IN issued' = IF at = {} THEN issued ELSE RemoveAt(issued, CHOOSE i \in at : \A j \in at : i <= j)
  /\ revoked' = revoked \cup {token}
  /\ UNCHANGED <<table, next_token, grants, handed_out>>

\* What check and verify_token answer.
Check(pid, cap) == \E i \in DOMAIN issued : issued[i].pid = pid /\ issued[i].cap = cap
Verifies(token, pid, cap) ==
  LET at == {i \in DOMAIN issued : issued[i].token = token /\ issued[i].pid = pid}
  IN at # {} /\ issued[CHOOSE i \in at : \A j \in at : i <= j].cap = cap

-------------------------------------------------------------------------------
TasksNext ==
  \/ Spawn
  \/ \E pid \in ProcessIds : SpawnThread(pid)
  \/ \E pid \in ProcessIds, state \in {"Killed", "Exited"} : End(pid, state)
  \/ \E c \in Callers, pid \in ProcessIds, cap \in Caps : TakeToken(c, pid, cap)
  \/ \E c \in Callers : Issue(c)
  \/ \E g \in handed_out : Revoke(g.token)

TasksSpec == TasksInit /\ [][TasksNext]_taskVars

-------------------------------------------------------------------------------
\* The threads a living process lists are those the table holds of it that were made since
\* it was spawned, in the order they were made, whatever became of other processes, and
\* however often a number was used that no process had yet.  And no thread of the table was
\* made before the last end of its process, or of what was taken for one: kill and exit
\* leave none behind.
Tids(own) == [k \in DOMAIN own |-> own[k].tid]
NotOf(pid, first) == {t \in Thread : t.pid # pid \/ t.tid < first}
ThreadsAgree ==
  /\ \A i \in DOMAIN processes :
       LET p == processes[i]
       IN p.state = "Runnable" => p.threads = Tids(Without(threads, NotOf(p.pid, born[p.pid])))
  /\ \A i \in DOMAIN threads : threads[i].tid >= ended[threads[i].pid]

\* A token that a grant has returned is valid until it is revoked, of that process and for
\* that capability alone, and never again; and a process holds a capability as long as one
\* of the tokens it was granted for it stands, however many others were revoked.
TokensExact ==
  /\ \A g \in handed_out, pid \in ProcessIds, cap \in Caps :
       Verifies(g.token, pid, cap) <=> pid = g.pid /\ cap = g.cap /\ g.token \notin revoked
  /\ \A pid \in ProcessIds, cap \in Caps :
       Check(pid, cap) <=> \E g \in handed_out : g.pid = pid /\ g.cap = cap /\ g.token \notin revoked

-------------------------------------------------------------------------------
\* For TLC: callers are alike, and so are capabilities.
Alike == Permutations(Callers) \cup Permutations(Caps)
===============================================================================
