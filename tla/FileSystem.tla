------------------------------ MODULE FileSystem ------------------------------
(***************************************************************************)
(* A zeroxfs volume (zerox-fs): its copy-on-write tree and its journal, as *)
(* filesystem_demo (zerox-sim/src/demo.rs) creates and uses them.  Nothing *)
(* in the code ties the two together: each call is on one of them.         *)
(***************************************************************************)
EXTENDS Naturals, Sequences

CONSTANTS
  Writers, Targets, MaxEntries,  (* See Journal.tla. *)
  Data, Empty, MaxSteps          (* See CowTree.tla. *)

(* filesystem_demo is one client: it opens a transaction at a time.  See   *)
(* JournalInterleaved.cfg for what two do.                                 *)
ASSUME FileSystemAssumption ==
  \A v, w \in Writers : v = w

VARIABLES
  entries, next_seq, committed_seq, txn,
  nodes, root, next_id, snapshot_count, snapshots, steps

journalVars == <<entries, next_seq, committed_seq, txn>>
treeVars == <<nodes, root, next_id, snapshot_count, snapshots, steps>>
vars == <<journalVars, treeVars>>

J == INSTANCE Journal
C == INSTANCE CowTree

Init == J!Init /\ C!Init

Next ==
  \/ J!Next /\ UNCHANGED treeVars
  \/ C!Next /\ UNCHANGED journalVars

Spec == Init /\ [][Next]_vars

------------------------------------------------------------------------------

(* Both parts have their types.                                            *)
TypeOK == J!TypeOK /\ C!TypeOK

(* Recovery: after a crash at any point replay applies exactly the         *)
(* transactions committed by then, in order.  See Journal.tla.             *)
ReplayExact == J!ReplayExact

(* No snapshot or write leaks or drops a reference.  See CowTree.tla.      *)
RefcountsConserved == C!RefcountsConserved
===============================================================================
