----------------------------- MODULE AddressSpace -----------------------------
(***************************************************************************)
(* What virtual memory promises: a page is unmapped, or it is mapped to    *)
(* one frame with the permissions it was mapped with.  A mapping appears   *)
(* and disappears as a whole, and no operation on a page touches another.  *)
(*                                                                         *)
(* PageTables.tla is shown to implement this specification.                *)
(***************************************************************************)
CONSTANTS
  Pages,
  Targets,     (* The frames pages may be mapped to.                       *)
  Permissions,
  BootMapping, (* What the loader has mapped.                              *)
  Large        (* The pages it has mapped as parts of huge pages.          *)

VARIABLE mapping  (* page -> {} or {[frame, flags]} *)

Map(page, target, flags) ==
  /\ mapping[page] = {}
  /\ mapping' = [mapping EXCEPT ![page] = {[frame |-> target, flags |-> flags]}]

(* A part of a huge page stays. *)
Unmap(page) ==
  /\ page \notin Large
  /\ mapping' = [mapping EXCEPT ![page] = {}]

Init == mapping = BootMapping

Next ==
  \E page \in Pages :
    \/ Unmap(page)
    \/ \E target \in Targets, flags \in Permissions : Map(page, target, flags)

Spec == Init /\ [][Next]_mapping
===============================================================================
