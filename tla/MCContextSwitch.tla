---------------------------- MODULE MCContextSwitch ----------------------------
(* The boot task and two kernel tasks, one with an address space of its own; *)
(* every register of an activity holds another value.                      *)
EXTENDS ContextSwitch, TLC

CONSTANTS boot, ta, tb

ConstTop == boot :> 20 @@ ta :> 40 @@ tb :> 60
ConstRoot == boot :> 900 @@ ta :> 900 @@ tb :> 901
ConstEntry == boot :> 100 @@ ta :> 101 @@ tb :> 102
Activity(n) == [regs |-> [r \in Registers |-> 10 * n + Place(r)],
                rip |-> 200 + n]
ConstActivities == {Activity(1)}
===============================================================================
