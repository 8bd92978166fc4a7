-------------------------------- MODULE CowTree --------------------------------
(***************************************************************************)
(* The file system's copy-on-write tree (zerox-fs/src/cow.rs).  Its nodes  *)
(* are the root leaf and the clones write() makes of it; keys, children    *)
(* and parent links are never set.  A node's checksum is represented by    *)
(* the data it was computed from.                                          *)
(***************************************************************************)
EXTENDS Naturals, Sequences, SequencesExt

CONSTANTS
  Data,       (* What leaves may hold.                                     *)
  Empty,      (* The data of a new tree's leaf.                            *)
  MaxSteps    (* Bound: snapshots and writes made.                         *)

VARIABLES
  nodes,           (* Sequence of [id, data, refcount, checksum], in Vec order. *)
  root,
  next_id,
  snapshot_count,
  snapshots,       (* What was snapshotted: [root, data at that moment].   *)
  steps

vars == <<nodes, root, next_id, snapshot_count, snapshots, steps>>

NewLeaf(id, data) == [id |-> id, data |-> data, refcount |-> 1, checksum |-> data]

Init ==
  /\ nodes = <<NewLeaf(0, Empty)>>
  /\ root = 0
  /\ next_id = 1
  /\ snapshot_count = 0
  /\ snapshots = {}
  /\ steps = 0

(* find(|n| n.id == id): the index of the first such node. *)
At(id) == SelectInSeq(nodes, LAMBDA n : n.id = id)

Step == steps < MaxSteps /\ steps' = steps + 1

Snapshot ==
  /\ Step
  /\ snapshot_count' = snapshot_count + 1
  /\ nodes' = IF At(root) = 0 THEN nodes ELSE [nodes EXCEPT ![At(root)].refcount = @ + 1]
  /\ snapshots' = snapshots \cup {[root |-> root, data |-> nodes[At(root)].data]}
  /\ UNCHANGED <<root, next_id>>

(* Mutant of Write: the clone keeps the id of the node it was made of. *)
WriteSameId(leaf_id, new_data) ==
  /\ Step
  /\ At(leaf_id) # 0
  /\ LET i == At(leaf_id)
     IN IF nodes[i].refcount > 1
        THEN nodes' = Append([nodes EXCEPT ![i].refcount = @ - 1], NewLeaf(leaf_id, new_data))
        ELSE nodes' = [nodes EXCEPT ![i].data = new_data, ![i].checksum = new_data]
  /\ UNCHANGED <<root, next_id, snapshot_count, snapshots>>

(* Mutant of Write: the node cloned keeps all its references. *)
WriteKeepingRefs(leaf_id, new_data) ==
  /\ Step
  /\ At(leaf_id) # 0
  /\ LET i == At(leaf_id)
     IN IF nodes[i].refcount > 1
        THEN nodes' = Append(nodes, NewLeaf(next_id, new_data)) /\ next_id' = next_id + 1
        ELSE /\ nodes' = [nodes EXCEPT ![i].data = new_data, ![i].checksum = new_data]
             /\ UNCHANGED next_id
  /\ UNCHANGED <<root, snapshot_count, snapshots>>

(* write(leaf_id, new_data): a shared node is cloned and keeps its data, a *)
(* node with one reference is overwritten.                                 *)
Write(leaf_id, new_data) ==
  /\ Step
  /\ At(leaf_id) # 0
  /\ LET i == At(leaf_id)
     IN IF nodes[i].refcount > 1
        THEN /\ nodes' = Append([nodes EXCEPT ![i].refcount = @ - 1], NewLeaf(next_id, new_data))
             /\ next_id' = next_id + 1
        ELSE /\ nodes' = [nodes EXCEPT ![i].data = new_data, ![i].checksum = new_data]
             /\ UNCHANGED next_id
  /\ UNCHANGED <<root, snapshot_count, snapshots>>

Next ==
  \/ Snapshot
  \/ \E id \in 0 .. next_id - 1, data \in Data : Write(id, data)

Spec == Init /\ [][Next]_vars

------------------------------------------------------------------------------

(* The variables have their types, and every node is found under its id.   *)
TypeOK ==
  /\ nodes \in Seq([id : 0 .. next_id - 1, data : Data, refcount : Nat \ {0}, checksum : Data])
  /\ \A i \in DOMAIN nodes : At(nodes[i].id) = i
  /\ root \in 0 .. next_id - 1
  /\ snapshots \subseteq [root : Nat, data : Data]

References(list) ==
  LET upTo[i \in 0 .. Len(list)] == IF i = 0 THEN 0 ELSE upTo[i - 1] + list[i].refcount
  IN  upTo[Len(list)]

(* References are conserved: each snapshot adds one, each clone takes one  *)
(* over from the node it was made of; and verify() holds.                  *)
RefcountsConserved ==
  /\ References(nodes) = 1 + snapshot_count
  /\ \A i \in DOMAIN nodes : nodes[i].checksum = nodes[i].data

(* A snapshot is a point-in-time copy (zerox-fs/src/lib.rs:7): its root    *)
(* goes on holding the data it held when the snapshot was taken.           *)
SnapshotImmutable ==
  \A s \in snapshots : nodes[At(s.root)].data = s.data
===============================================================================
