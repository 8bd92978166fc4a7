--------------------------- MODULE MessageChannels ---------------------------
(***************************************************************************)
(* What message passing promises its clients: channels are opened once,    *)
(* each under a name of its own, and each is a bounded queue, first in     *)
(* first out, that loses, duplicates and invents nothing.                  *)
(*                                                                         *)
(* Ipc.tla is shown to implement this specification.                       *)
(***************************************************************************)
EXTENDS Naturals, Sequences

CONSTANTS
  Names,      (* The names channels may get.                               *)
  Capacities,
  Messages

VARIABLES
  bound,    (* name -> its channel's capacity, for the channels opened so far. *)
  content   (* name -> the messages sent and not yet received.             *)

vars == <<bound, content>>

Init ==
  /\ bound = <<>>
  /\ content = [n \in Names |-> <<>>]

Open(n, capacity) ==
  /\ n \notin DOMAIN bound
  /\ bound' = [m \in DOMAIN bound \cup {n} |-> IF m = n THEN capacity ELSE bound[m]]
  /\ UNCHANGED content

Put(n, msg) ==
  /\ Len(content[n]) < bound[n]
  /\ content' = [content EXCEPT ![n] = Append(@, msg)]
  /\ UNCHANGED bound

Get(n) ==
  /\ content[n] # <<>>
  /\ content' = [content EXCEPT ![n] = Tail(@)]
  /\ UNCHANGED bound

Next ==
  \/ \E n \in Names, capacity \in Capacities : Open(n, capacity)
  \/ \E n \in DOMAIN bound, msg \in Messages : Put(n, msg)
  \/ \E n \in DOMAIN bound : Get(n)

Spec == Init /\ [][Next]_vars
==============================================================================
