----------------------------- MODULE MCScheduler -----------------------------
(* Threads for the scheduler's runs. *)
EXTENDS Scheduler, TLC

CONSTANTS audio, render, physics, shell, backup

Thread(policy, base, rt, deadline, game, pid) ==
  [policy |-> policy, priority |-> base, rt |-> rt, deadline |-> deadline,
   vruntime |-> 0, state |-> "Ready", game |-> game, pid |-> pid]

(* The threads of the game in the simulator's demo, a shell that is added  *)
(* blocked, and a backup.                                                  *)
AllAttr ==
  audio   :> Thread("Realtime", 20, 90, None, TRUE, 1) @@
  render  :> Thread("Realtime", 20, 80, 2, TRUE, 1) @@
  physics :> Thread("Mlfq", 0, 0, None, TRUE, 1) @@
  shell   :> [Thread("Mlfq", 10, 0, None, FALSE, 1) EXCEPT !.state = "Blocked"] @@
  backup  :> Thread("Cfs", -10, 0, None, FALSE, 1)

MixedThreads == {audio, render, physics, shell, backup}
ConstAttr == [t \in Threads |-> AllAttr[t]]
==============================================================================
