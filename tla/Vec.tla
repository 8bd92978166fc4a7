---------------------------------- MODULE Vec ----------------------------------
(***************************************************************************)
(* What the system uses of Rust's Vec and sequences have no operator for.  *)
(***************************************************************************)
EXTENDS Naturals, Sequences

(* vec.retain(..): the elements of drop go, the others stay in their order. *)
Without(vec, drop) ==
  LET kept[i \in 0 .. Len(vec)] ==
        IF i = 0 THEN <<>>
        ELSE IF vec[i] \in drop THEN kept[i - 1] ELSE Append(kept[i - 1], vec[i])
  IN  kept[Len(vec)]
================================================================================
