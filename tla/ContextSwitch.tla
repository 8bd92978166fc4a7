----------------------------- MODULE ContextSwitch -----------------------------
(***************************************************************************)
(* Cooperative context switches (zerox-kernel/src/arch/x86_64/context.rs): *)
(* a task's registers and place live on its own kernel stack while it is   *)
(* suspended, its stack pointer and CR3 in its TaskContext.                *)
(*                                                                         *)
(* Stacks are measured in words of 8 bytes.  switch_to must be called with *)
(* interrupts disabled, so it is one step.                                 *)
(***************************************************************************)
EXTENDS Integers, Sequences, SequencesExt

CONSTANTS
  Tasks,
  Boot,       (* The task that is running when the kernel starts.          *)
  Top,        (* task -> stack_top                                         *)
  StackWords, (* The size of a stack.                                      *)
  Entry,      (* task -> its entry function; for Boot, where it starts.    *)
  TaskRoot,   (* task -> the address space root it is to run in.           *)
  BootCr3,    (* The cr3 field the boot task's context is made with.       *)
  Activities, (* What tasks leave in their registers, and where: [regs, rip]. *)
  Junk        (* Whatever an unused stack holds.                           *)

(* The callee-saved registers, in the order switch_to pushes them.         *)
Pushes == <<"rbp", "rbx", "r12", "r13", "r14", "r15">>
SAVED_REGS == Len(Pushes)
Registers == ToSet(Pushes)

Stack(t) == Top[t] - StackWords .. Top[t] - 1

ASSUME StackAssumption ==
  /\ Boot \in Tasks
  /\ StackWords \in Nat /\ StackWords > SAVED_REGS
  /\ \A t \in Tasks : Top[t] \in Nat /\ Top[t] > StackWords
  /\ \A t, u \in Tasks : t # u => Stack(t) \cap Stack(u) = {}
  /\ \A a \in Activities : a.regs = [r \in Registers |-> a.regs[r]]

VARIABLES
  stacks,     (* address -> word                                           *)
  context,    (* task -> TaskContext: [rsp, cr3]                           *)
  created,    (* The tasks that have a context switch_to may be given.     *)
  current,
  regs, rip, rsp, cr3

cpu == <<regs, rip, rsp, cr3>>
switchVars == <<stacks, context, created, current, cpu>>

Zeros == [r \in Registers |-> 0]

SwitchInit ==
  /\ stacks = [a \in UNION {Stack(t) : t \in Tasks} |-> Junk]
  /\ context = [t \in Tasks |-> [rsp |-> 0, cr3 |-> IF t = Boot THEN BootCr3 ELSE 0]]
  /\ created = {Boot}
  /\ current = Boot
  /\ regs = Zeros
  /\ rip = Entry[Boot]
  /\ rsp = Top[Boot]
  /\ cr3 = TaskRoot[Boot]

(* The stacks after words are pushed one after the other, the first at     *)
(* sp - 1.                                                                 *)
AfterPush(sp, words) ==
  [a \in DOMAIN stacks |-> IF a \in sp - Len(words) .. sp - 1 THEN words[sp - a] ELSE stacks[a]]

(* The words an uninterrupted run of pops finds from sp on. *)
Words(mem, sp, n) == [i \in 1 .. n |-> mem[sp + i - 1]]

(* init_kernel_task: a frame as switch_to would have left it. *)
InitKernelTask(t) ==
  /\ t \notin created
  /\ stacks' = AfterPush(Top[t], <<Entry[t]>> \o [i \in 1 .. SAVED_REGS |-> 0])
  /\ context' = [context EXCEPT ![t] = [rsp |-> Top[t] - (SAVED_REGS + 1), cr3 |-> TaskRoot[t]]]
  /\ created' = created \cup {t}
  /\ UNCHANGED <<current, cpu>>

(* The running task: computes, calls a function, returns from one.  Its    *)
(* entry function never returns.                                           *)
Compute(a) ==
  /\ regs' = a.regs
  /\ rip' = a.rip
  /\ UNCHANGED <<stacks, context, created, current, rsp, cr3>>

Call(a) ==
  /\ rsp - 1 >= Top[current] - (StackWords - SAVED_REGS - 1)
  /\ stacks' = AfterPush(rsp, <<rip>>)
  /\ rsp' = rsp - 1
  /\ rip' = a.rip
  /\ UNCHANGED <<context, created, current, regs, cr3>>

Return ==
  /\ rsp < Top[current]
  /\ rip' = stacks[rsp]
  /\ rsp' = rsp + 1
  /\ UNCHANGED <<stacks, context, created, current, regs, cr3>>

(* How many pushes it takes to get to r. *)
Place(r) == CHOOSE i \in DOMAIN Pushes : Pushes[i] = r

(* Mutant of PopRegs: the registers are popped in the order of the pushes. *)
PopSameOrder(mem, sp) == [r \in Registers |-> mem[sp + Place(r) - 1]]

(* The registers popped from sp on: the last pushed comes first. *)
PopRegs(mem, sp) ==
  [r \in Registers |-> mem[sp + SAVED_REGS - Place(r)]]

(* switch_to(prev, next), called by prev with its own context, for a next  *)
(* that init_kernel_task or an earlier switch_to has set up: the call      *)
(* pushes the return address, switch_to the registers; rsp is saved, the   *)
(* address space and the stack change, and the same comes off next's stack. *)
SwitchTo(next) ==
  /\ context[next].rsp # 0
  /\ LET saved == rsp - (SAVED_REGS + 1)
         mem == AfterPush(rsp, <<rip>> \o [i \in 1 .. SAVED_REGS |-> regs[Pushes[i]]])
         sp == IF next = current THEN saved ELSE context[next].rsp
     IN /\ stacks' = mem
        /\ context' = [context EXCEPT ![current].rsp = saved]
        /\ cr3' = context[next].cr3
        /\ regs' = PopRegs(mem, sp)
        /\ rip' = mem[sp + SAVED_REGS]
        /\ rsp' = sp + SAVED_REGS + 1
  /\ current' = next
  /\ UNCHANGED created

SwitchNext ==
  \/ \E t \in Tasks : InitKernelTask(t) \/ SwitchTo(t)
  \/ \E a \in Activities : Compute(a) \/ Call(a)
  \/ Return

SwitchSpec == SwitchInit /\ [][SwitchNext]_switchVars

------------------------------------------------------------------------------

Saved(t) == context[t].rsp

(* The variables have their types; every stack pointer, in the processor   *)
(* or saved, is inside its task's stack, and leaves room for a switch.     *)
SwitchTypeOK ==
  /\ created \subseteq Tasks /\ current \in created
  /\ rsp \in Top[current] - StackWords + SAVED_REGS + 1 .. Top[current]
  /\ \A t \in created \ {current} :
       Saved(t) \in Top[t] - StackWords .. Top[t] - (SAVED_REGS + 1)
  /\ regs \in [Registers -> Int]
  /\ rip \in Int /\ cr3 \in Int

(* Whatever task runs, it runs in its own address space.  For the boot     *)
(* task this says that its state is captured on its first outbound         *)
(* switch_to (context.rs:33-34): switched back to, it has its space again. *)
OwnAddressSpace == cr3 = TaskRoot[current]

(* Context switches implement coroutines: whatever the tasks do and        *)
(* whatever depth they yield at, each resumes with its registers, at its   *)
(* place, with its unfinished calls, in its address space.                 *)
Suspended(t) ==
  [regs  |-> PopRegs(stacks, Saved(t)),
   rip   |-> stacks[Saved(t) + SAVED_REGS],
   calls |-> Words(stacks, Saved(t) + SAVED_REGS + 1, Top[t] - (Saved(t) + SAVED_REGS + 1))]

Running ==
  [regs |-> regs, rip |-> rip, calls |-> Words(stacks, rsp, Top[current] - rsp)]

Threads == INSTANCE Coroutines WITH
  First    <- Boot,
  Fresh    <- [t \in Tasks |-> [regs |-> Zeros, rip |-> Entry[t], calls |-> <<>>]],
  RootOf   <- TaskRoot,
  live     <- created,
  running  <- current,
  activity <- [t \in created |-> IF t = current THEN Running ELSE Suspended(t)],
  space    <- cr3

ImplementsCoroutines == Threads!Spec
===============================================================================
