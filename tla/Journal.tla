-------------------------------- MODULE Journal --------------------------------
(***************************************************************************)
(* The file system's write-ahead journal (zerox-fs/src/journal.rs): the    *)
(* calls that fill it, and what replay() makes of the part of it that a    *)
(* crash leaves.                                                           *)
(*                                                                         *)
(* The six operations between Begin and Commit differ in nothing replay    *)
(* looks at and are one "Op" here; an entry's data is its target.          *)
(***************************************************************************)
EXTENDS Naturals, Sequences, Vec

CONSTANTS
  Writers,    (* Clients with a transaction of their own, or none open.    *)
  Targets,    (* Inodes and blocks operations are about.                   *)
  MaxEntries  (* Bound: entries written.                                   *)

VARIABLES
  entries,        (* Sequence of [seq, op, target].                        *)
  next_seq,
  committed_seq,
  txn             (* writer -> its open transaction, 0 for none            *)

vars == <<entries, next_seq, committed_seq, txn>>

NoTarget == 0  (* What begin and commit write as the target. *)

Entry(seq, op, target) == [seq |-> seq, op |-> op, target |-> target]

Push(e) == Len(entries) < MaxEntries /\ entries' = Append(entries, e)

Init ==
  /\ entries = <<>>
  /\ next_seq = 1
  /\ committed_seq = 0
  /\ txn = [w \in Writers |-> 0]

Begin(w) ==
  /\ txn[w] = 0
  /\ Push(Entry(next_seq, "Begin", NoTarget))
  /\ next_seq' = next_seq + 1
  /\ txn' = [txn EXCEPT ![w] = next_seq]
  /\ UNCHANGED committed_seq

AppendOp(w, target) ==
  /\ txn[w] # 0
  /\ Push(Entry(txn[w], "Op", target))
  /\ UNCHANGED <<next_seq, committed_seq, txn>>

Commit(w) ==
  /\ txn[w] # 0
  /\ Push(Entry(txn[w], "Commit", NoTarget))
  /\ committed_seq' = txn[w]
  /\ txn' = [txn EXCEPT ![w] = 0]
  /\ UNCHANGED next_seq

(* A writer gives up; nothing is written. *)
Abandon(w) ==
  /\ txn[w] # 0
  /\ txn' = [txn EXCEPT ![w] = 0]
  /\ UNCHANGED <<entries, next_seq, committed_seq>>

Next ==
  \E w \in Writers :
    Begin(w) \/ (\E target \in Targets : AppendOp(w, target)) \/ Commit(w) \/ Abandon(w)

Spec == Init /\ [][Next]_vars

------------------------------------------------------------------------------

(* Mutant of ReplayEntry: Begin does not clear the entries seen before. *)
ReplayKeeping(s, e) ==
  CASE e.op = "Begin" -> [s EXCEPT !.current = e.seq, !.pending = Append(@, e)]
    [] e.op = "Commit" ->
         IF s.current = e.seq
         THEN [s EXCEPT !.applied = @ \o s.pending, !.count = @ + 1, !.current = 0]
         ELSE s
    [] OTHER -> IF s.current # 0 THEN [s EXCEPT !.pending = Append(@, e)] ELSE s

(* One turn of replay's loop.  It remembers one transaction: current_txn   *)
(* (0 for None), the entries seen since its Begin, those applied so far.   *)
ReplayEntry(s, e) ==
  CASE e.op = "Begin" -> [s EXCEPT !.current = e.seq, !.pending = <<e>>]
    [] e.op = "Commit" ->
         IF s.current = e.seq
         THEN [s EXCEPT !.applied = @ \o s.pending, !.count = @ + 1, !.current = 0]
         ELSE s
    [] OTHER -> IF s.current # 0 THEN [s EXCEPT !.pending = Append(@, e)] ELSE s

Replay(log) ==
  LET after[n \in 0 .. Len(log)] ==
        IF n = 0 THEN [current |-> 0, pending |-> <<>>, applied |-> <<>>, count |-> 0]
        ELSE ReplayEntry(after[n - 1], log[n])
  IN  after[Len(log)]

(* What a crash may leave of the journal. *)
Survivors == {SubSeq(entries, 1, n) : n \in 0 .. Len(entries)}

Committed(log, seq) == \E i \in DOMAIN log : log[i].op = "Commit" /\ log[i].seq = seq

(* The entries of a log that are no commits of a transaction, and those    *)
(* that replay must not apply.                                             *)
NoCommit(log) == {log[i] : i \in {j \in DOMAIN log : log[j].op # "Commit"}}
Hidden(log) ==
  {log[i] : i \in {j \in DOMAIN log : log[j].op = "Commit" \/ ~Committed(log, log[j].seq)}}

(* The variables have their types. *)
TypeOK ==
  /\ entries \in Seq([seq : 1 .. next_seq - 1, op : {"Begin", "Op", "Commit"},
                      target : Targets \cup {NoTarget}])
  /\ committed_seq \in 0 .. next_seq - 1
  /\ txn \in [Writers -> 0 .. next_seq - 1]

(* Wherever the crash cuts the journal, replay applies exactly the entries *)
(* of the transactions committed by then, in the order they were written,  *)
(* and counts those transactions.                                          *)
ReplayExact ==
  \A log \in Survivors :
    /\ Replay(log).applied = Without(log, Hidden(log))
    /\ Replay(log).count = Len(Without(log, NoCommit(log)))

(* Until a transaction commits its operations are not visible              *)
(* (journal.rs:50): replay applies none of them.                           *)
UncommittedInvisible ==
  \A log \in Survivors :
    \A i \in DOMAIN Replay(log).applied : Committed(log, Replay(log).applied[i].seq)
===============================================================================
