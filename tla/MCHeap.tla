-------------------------------- MODULE MCHeap --------------------------------
(* An aligned arena of three headers and a half, one that starts off         *)
(* alignment, and one that is too short once it is aligned; layouts below,   *)
(* at and above the header's size and alignment.                             *)
EXTENDS Heap

Region(start, size) == [start |-> start, size |-> size]
ConstArenas == {Region(4, 14), Region(21, 10), Region(33, 4)}
ConstLayouts == {[size |-> 1, align |-> 1], [size |-> 6, align |-> 2], [size |-> 4, align |-> 8]}
===============================================================================
