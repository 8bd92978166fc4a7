--------------------------------- MODULE Heap ---------------------------------
(***************************************************************************)
(* The kernel heap (zerox-kernel/src/heap.rs): a first-fit free list kept  *)
(* inside the free memory itself.  LockedHeap puts every call under one    *)
(* mutex, so a call is one step.  Addresses and sizes are in a unit of     *)
(* which MIN_ALIGN and MIN_BLOCK are small multiples.                      *)
(***************************************************************************)
EXTENDS Naturals, Sequences, FiniteSets, SequencesExt, FiniteSetsExt

CONSTANTS
  MinBlock,  (* MIN_BLOCK: what a FreeBlock header takes.                  *)
  MinAlign,  (* MIN_ALIGN                                                  *)
  Arenas,    (* The regions init() may be given: [start, size].            *)
  Layouts    (* The layouts clients ask for: [size, align].                *)

Span(b) == b.start .. b.start + b.size - 1

ASSUME HeapAssumption ==
  /\ MinAlign \in Nat \ {0} /\ MinBlock \in Nat \ {0} /\ MinBlock % MinAlign = 0
  /\ Arenas \subseteq [start : Nat, size : Nat]
  /\ \A a, b \in Arenas : a # b => Span(a) \cap Span(b) = {}
  /\ \A l \in Layouts : l.size \in Nat /\ l.align \in Nat \ {0}
  (* Layout's alignments and MIN_ALIGN are powers of two. *)
  /\ \A l \in Layouts : l.align % MinAlign = 0 \/ MinAlign % l.align = 0

VARIABLES
  free,       (* The free list from head.next on: a sequence of [start, size]. *)
  total,
  allocated,
  arenas,     (* The regions the heap was given.                           *)
  held        (* Blocks clients hold: [ptr, layout].                       *)

vars == <<free, total, allocated, arenas, held>>

Init ==
  /\ free = <<>>
  /\ total = 0
  /\ allocated = 0
  /\ arenas = {}
  /\ held = {}

AlignUp(addr, align) == ((addr + align - 1) \div align) * align

(* The free list with one more region, unless it cannot hold a header. *)
AddFreeRegion(list, addr, size) ==
  LET aligned == AlignUp(addr, MinAlign)
      adjust == aligned - addr
  IN IF size < adjust + MinBlock THEN list
     ELSE <<[start |-> aligned, size |-> size - adjust]>> \o list

InitHeap(a) ==
  /\ a \notin arenas
  /\ arenas' = arenas \cup {a}
  /\ free' = AddFreeRegion(free, a.start, a.size)
  /\ total' = total + a.size
  /\ UNCHANGED <<allocated, held>>

AtLeast(n, m) == IF n < m THEN m ELSE n

AdjustedAlign(layout) == AtLeast(layout.align, MinAlign)
AdjustedSize(layout) == AlignUp(AtLeast(layout.size, MinBlock), AdjustedAlign(layout))

AllocStart(region, layout) == AlignUp(region.start, AdjustedAlign(layout))
Fits(region, layout) ==
  AllocStart(region, layout) + AdjustedSize(layout) <= region.start + region.size

(* Mutant of Carve: the tail starts where the size asked for ends. *)
CarveTight(i, layout) ==
  LET region == free[i]
      alloc_end == AllocStart(region, layout) + layout.size
      tail == region.start + region.size - alloc_end
  IN IF tail >= MinBlock THEN AddFreeRegion(RemoveAt(free, i), alloc_end, tail)
     ELSE RemoveAt(free, i)

(* Mutant of Carve: the padding in front is dropped. *)
CarveDroppingPad(i, layout) ==
  LET region == free[i]
      alloc_end == AllocStart(region, layout) + AdjustedSize(layout)
      tail == region.start + region.size - alloc_end
  IN IF tail >= MinBlock THEN AddFreeRegion(RemoveAt(free, i), alloc_end, tail)
     ELSE RemoveAt(free, i)

(* The free list without its i-th region, and with what alloc_first_fit    *)
(* gives back of it: the padding in front and the tail, each if it can     *)
(* hold a header.                                                          *)
Carve(i, layout) ==
  LET region == free[i]
      alloc_start == AllocStart(region, layout)
      alloc_end == alloc_start + AdjustedSize(layout)
      front_pad == alloc_start - region.start
      tail == region.start + region.size - alloc_end
      rest == RemoveAt(free, i)
      padded == IF front_pad >= MinBlock
                THEN AddFreeRegion(rest, region.start, front_pad) ELSE rest
  IN IF tail >= MinBlock THEN AddFreeRegion(padded, alloc_end, tail) ELSE padded

(* alloc_first_fit, when it finds a region; a null pointer changes nothing. *)
AllocFirstFit(layout) ==
  \E i \in DOMAIN free :
    /\ Fits(free[i], layout)
    /\ \A j \in 1 .. i - 1 : ~Fits(free[j], layout)
    /\ free' = Carve(i, layout)
    /\ held' = held \cup {[ptr |-> AllocStart(free[i], layout), layout |-> layout]}
    /\ allocated' = allocated + AdjustedSize(layout)
    /\ UNCHANGED <<total, arenas>>

(* Mutant of Dealloc: the size asked for is subtracted, not the adjusted one. *)
DeallocRequested(b) ==
  /\ held' = held \ {b}
  /\ free' = AddFreeRegion(free, b.ptr, AdjustedSize(b.layout))
  /\ allocated' = allocated - b.layout.size
  /\ UNCHANGED <<total, arenas>>

Dealloc(b) ==
  /\ held' = held \ {b}
  /\ free' = AddFreeRegion(free, b.ptr, AdjustedSize(b.layout))
  /\ allocated' = allocated - AdjustedSize(b.layout)
  /\ UNCHANGED <<total, arenas>>

Next ==
  \/ \E a \in Arenas : InitHeap(a)
  \/ \E l \in Layouts : AllocFirstFit(l)
  \/ \E b \in held : Dealloc(b)

Spec == Init /\ [][Next]_vars

------------------------------------------------------------------------------

Extent(b) == b.ptr .. b.ptr + AdjustedSize(b.layout) - 1
FreeBytes == UNION {Span(free[i]) : i \in DOMAIN free}
HeldBytes == UNION {Extent(b) : b \in held}
ArenaBytes == UNION {Span(a) : a \in arenas}

(* The variables have their types, and every region of the list is aligned *)
(* for and large enough for the header written into it.                    *)
TypeOK ==
  /\ free \in Seq([start : Nat, size : Nat])
  /\ \A i \in DOMAIN free : free[i].start % MinAlign = 0 /\ free[i].size >= MinBlock
  /\ {total, allocated} \subseteq Nat
  /\ arenas \subseteq Arenas
  /\ held \subseteq [ptr : Nat, layout : Layouts]

(* No byte is in two blocks, free or held: neither a client's data nor a   *)
(* header is ever overwritten, and all of it lies inside the arenas.       *)
NoByteTwice ==
  /\ \A i, j \in DOMAIN free : i # j => Span(free[i]) \cap Span(free[j]) = {}
  /\ \A b, c \in held : b # c => Extent(b) \cap Extent(c) = {}
  /\ FreeBytes \cap HeldBytes = {}
  /\ FreeBytes \cup HeldBytes \subseteq ArenaBytes

(* allocated is the bytes in clients' hands, and each block is what its    *)
(* layout asked for (the contract of GlobalAlloc).                         *)
AllocatedExact ==
  /\ allocated = Cardinality(HeldBytes)
  /\ \A b \in held : b.ptr % b.layout.align = 0 /\ AdjustedSize(b.layout) >= b.layout.size

(* Memory is lost only in pieces too short for a header: an allocation     *)
(* drops less than one on each side of its block, freeing drops nothing.   *)
Loss ==
  LET lost == (FreeBytes \cup HeldBytes) \ (FreeBytes' \cup HeldBytes')
  IN /\ FreeBytes' \cup HeldBytes' \subseteq FreeBytes \cup HeldBytes
     /\ held' \subseteq held => lost = {}
     /\ \A b \in held' \ held :
          /\ Cardinality({x \in lost : x < b.ptr}) < MinBlock
          /\ Cardinality({x \in lost : x > b.ptr}) < MinBlock

LossBounded == [][arenas' = arenas => Loss]_vars
===============================================================================
