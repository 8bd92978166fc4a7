---------------------------- MODULE PageOwnership ----------------------------
(***************************************************************************)
(* What a physical page allocator promises its clients, with no word about *)
(* how free pages are organised: a page is either available or part of     *)
(* exactly one owned block; taking a block removes its pages from the      *)
(* available ones, returning it puts them back.                            *)
(*                                                                         *)
(* BuddyAllocator.tla is shown to implement this specification.            *)
(***************************************************************************)
EXTENDS Integers

CONSTANTS
  BlocksOf,  (* The sizes a client may ask for: a set of page counts.      *)
  Sources    (* The sets of pages that may be donated, pairwise disjoint.  *)

VARIABLES
  avail,     (* The pages nobody owns.                                     *)
  owned,     (* The blocks clients own, as sets of pages.                  *)
  donated    (* The elements of Sources handed to the allocator so far.    *)

vars == <<avail, owned, donated>>

Init ==
  /\ avail = {}
  /\ owned = {}
  /\ donated = {}

(* Firmware donates a source of pages, once. *)
Donate(s) ==
  /\ s \notin donated
  /\ donated' = donated \cup {s}
  /\ avail' = avail \cup s
  /\ UNCHANGED owned

(* A client is granted n contiguous available pages. *)
Take(p, n) ==
  /\ (p .. p + n - 1) \subseteq avail
  /\ avail' = avail \ (p .. p + n - 1)
  /\ owned' = owned \cup {p .. p + n - 1}
  /\ UNCHANGED donated

(* A client gives a block it owns back. *)
Return(b) ==
  /\ avail' = avail \cup b
  /\ owned' = owned \ {b}
  /\ UNCHANGED donated

Next ==
  \/ \E s \in Sources : Donate(s)
  \/ \E n \in BlocksOf : \E p \in avail : Take(p, n)
  \/ \E b \in owned : Return(b)

Spec == Init /\ [][Next]_vars
==============================================================================
