------------------------------ MODULE Coroutines ------------------------------
(***************************************************************************)
(* What cooperative multitasking promises: every task has registers, a     *)
(* place in its code, unfinished calls and an address space of its own;    *)
(* only the running task changes its own, and giving the processor away    *)
(* changes nobody's.                                                       *)
(*                                                                         *)
(* ContextSwitch.tla is shown to implement this specification.             *)
(***************************************************************************)
CONSTANTS
  First,    (* The task that runs first.                                   *)
  Fresh,    (* task -> [regs, rip, calls] it starts with.                  *)
  RootOf    (* task -> its address space.                                  *)

VARIABLES
  live,     (* The tasks that exist.                                       *)
  running,
  activity, (* task -> [regs, rip, calls]                                  *)
  space     (* The address space in force.                                 *)

vars == <<live, running, activity, space>>

Init ==
  /\ live = {First}
  /\ running = First
  /\ activity = [t \in {First} |-> Fresh[t]]
  /\ space = RootOf[First]

Create(t) ==
  /\ t \notin live
  /\ live' = live \cup {t}
  /\ activity' = [u \in live' |-> IF u = t THEN Fresh[t] ELSE activity[u]]
  /\ UNCHANGED <<running, space>>

Run ==
  /\ \A t \in live \ {running} : activity'[t] = activity[t]
  /\ UNCHANGED <<live, running, space>>

Yield(t) ==
  /\ t \in live
  /\ running' = t
  /\ space' = RootOf[t]
  /\ UNCHANGED <<live, activity>>

Next ==
  \/ \E t \in DOMAIN Fresh : Create(t) \/ Yield(t)
  \/ Run

Spec == Init /\ [][Next]_vars
===============================================================================
