------------------------------ MODULE KernelEntry ------------------------------
(***************************************************************************)
(* How control enters and leaves the kernel: kmain's path from the boot    *)
(* loader to the halt loop (zeroxos-boot/src/main.rs), exceptions at any   *)
(* instruction of it (idt.rs), panics (panic.rs), system calls (syscall.rs) *)
(* and the serial console they report to (serial.rs).                      *)
(*                                                                         *)
(* One processor runs a list of instructions: those of the assembly stubs  *)
(* one by one, and of the Rust code those that take or give up a lock,     *)
(* write to the console, or load a table.  A word is a pair <<name, n>>,   *)
(* different for every register, so that a word in the wrong place shows.  *)
(* Flags are the sum of those of IF (1) and DF (2) that are set.           *)
(***************************************************************************)
EXTENDS DescriptorTables, FiniteSets, SequencesExt

CONSTANTS
  Vectors,    (* The exceptions that may come as the first, the second...   *)
  Numbers,    (* The system call numbers user code may use.                *)
  Lengths,    (* What it may pass as a length.                             *)
  Word        (* 2^64: a length from Word \div 2 on is negative as an i64. *)

ASSUME EntryAssumption ==
  /\ Vectors \in Seq(SUBSET Exceptions)
  /\ Numbers \subseteq Nat /\ Lengths \subseteq 0 .. Word - 1
  /\ Word \in Nat

General == <<"rax", "rbx", "rcx", "rdx", "rsi", "rdi", "rbp",
             "r8", "r9", "r10", "r11", "r12", "r13", "r14", "r15">>
Registers == ToSet(General) \cup {"rip", "cs", "rflags", "ss", "gs", "cr2"}

Locks == {"COM1", "KERNEL", "HEAP"}

VARIABLES
  regs,       (* register -> word; gs says whose base is in force          *)
  stack,      (* the words of the stack in use, the top one last           *)
  gdtr, idtr, tr, star,  (* the tables loaded                              *)
  locks,      (* the spin locks held                                       *)
  console,    (* the last text on the serial line                          *)
  mode,       (* kmain, panic, trap, syscall, user, halted or reset        *)
  code,       (* the instructions still to run                             *)
  faults,
  trap,       (* what the last exception found, as the processor knows it  *)
  caller      (* what user code had when it made its system call           *)

tables == <<gdtr, idtr, tr, star>>
vars == <<regs, stack, tables, locks, console, mode, code, faults, trap, caller>>

Place(x, s) == CHOOSE i \in DOMAIN s : s[i] = x

Do(op, arg) == <<[op |-> op, arg |-> arg]>>
-----------------------------------------------------------------------------
(* serial.rs: a log record and a report, byte after byte, under COM1's lock. *)

Locked(lock, body) == Do("lock", lock) \o body \o Do("unlock", lock)
Log == Locked("COM1", Do("print", <<"record", 0>>))
InitLogger == Locked("COM1", <<>>)

(* A heap allocation, as Vec::push makes one: LockedHeap::alloc.           *)
Alloc == Locked("HEAP", <<>>)

(* Mutant of Recover: the lock is taken without being reclaimed. *)
NoRecover(report) == Locked("COM1", report) \o Do("hlt", <<>>)

(* A handler that does not return: COM1 is reclaimed, whoever held it.     *)
Recover(report) == Do("force_unlock", "COM1") \o Locked("COM1", report) \o Do("hlt", <<>>)

(* on_panic *)
OnPanic == Recover(Do("print", <<"panic", 0>>) \o Do("add", <<"location", 0>>)
                   \o Do("add", <<"message", 0>>) \o Do("add", <<"halted", 0>>))

-----------------------------------------------------------------------------
(* main.rs *)

(* arch::init: IDT first, then GDT, segments and TSS, then system calls.   *)
ArchInit ==
  Do("lidt", "IDT") \o Do("lgdt", "GDT")
    \o Do("reload", <<KERNEL_CODE, KERNEL_DATA>>) \o Do("ltr", TSS_SELECTOR)
    \o Do("wrmsr", [sysret |-> STAR_SYSRET_BASE, syscall |-> STAR_SYSCALL_BASE])

(* Step 5: the usable regions go into the buddy allocator's lists.         *)
Regions(n) == Locked("KERNEL", FlattenSeq([i \in 1 .. n |-> Alloc]))

(* Step 7: boot() and the record after it run under KERNEL's lock: the     *)
(* guard lives as long as the match on the result.  Its error is never     *)
(* returned (memory.init() leaves no machine without pages).               *)
BootKernel ==
  Locked("KERNEL", Log \o Alloc \o Log \o Alloc \o Log \o Log)

Kmain(supported, regions, framebuffer) ==
  InitLogger \o
  IF ~supported THEN Log \o Do("hlt", <<>>)
  ELSE Log \o Alloc \o Regions(regions) \o Log \o ArchInit
       \o Log \o BootKernel
       \o (IF framebuffer THEN Log ELSE <<>>)
       \o Log \o Do("hlt", <<>>)

(* What the boot loader leaves: its own GDT, whose selector 8 is 16-bit    *)
(* code, and no IDT to speak of.                                           *)
LimineGdt ==
  [segments |-> <<NULL, {"present", "type", "exec"}, {"present", "type"},
                  {"present", "type", "exec", "db"}, {"present", "type", "db"},
                  {"present", "type", "exec", "long"}, {"present", "type"}>>,
   system   |-> <<>>]
LimineIdt == [v \in Exceptions |-> Missing]

(* The tables behind what lgdt and lidt were given. *)
KernelGdt == GdtNew(Address("TSS"))
Gdt == IF gdtr = "GDT" THEN KernelGdt ELSE LimineGdt
Idt == IF idtr = "IDT" THEN InstallExceptions ELSE LimineIdt

Init ==
  /\ regs = [r \in Registers |->
       CASE r = "cs" -> <<"cs", 40>> [] r = "ss" -> <<"ss", 48>> [] OTHER -> <<r, 0>>]
  /\ stack = <<<<"return", 0>>>>
  /\ gdtr = "limine" /\ idtr = "limine"
  /\ tr = <<>> /\ star = [sysret |-> 0, syscall |-> 0]
  /\ locks = {} /\ console = <<>>
  /\ mode = "kmain"
  /\ \E supported, framebuffer \in BOOLEAN, regions \in 0 .. 2 :
       code = Kmain(supported, regions, framebuffer)
  /\ faults = 0 /\ trap = <<>> /\ caller = <<>>

-----------------------------------------------------------------------------
(* The instructions. *)

At(op) == code # <<>> /\ code[1].op = op
Arg == code[1].arg
Advance == code' = Tail(code) /\ UNCHANGED <<mode, faults, trap, caller>>

(* A run of pushes or pops is one step: an exception between two of them    *)
(* finds what one before or after the run finds, on a stack of other depth. *)
Push ==
  /\ At("push")
  /\ stack' = stack \o [i \in DOMAIN Arg |-> regs[Arg[i]]] /\ Advance
  /\ UNCHANGED <<regs, tables, locks, console>>

PushWords ==
  /\ At("push_words") /\ stack' = stack \o Arg /\ Advance
  /\ UNCHANGED <<regs, tables, locks, console>>

Pop ==
  /\ At("pop")
  /\ regs' = [r \in Registers |->
       IF r \in ToSet(Arg) THEN stack[Len(stack) + 1 - Place(r, Arg)] ELSE regs[r]]
  /\ stack' = SubSeq(stack, 1, Len(stack) - Len(Arg)) /\ Advance
  /\ UNCHANGED <<tables, locks, console>>

(* add rsp, 8 *)
Drop ==
  /\ At("drop") /\ stack' = Front(stack) /\ Advance
  /\ UNCHANGED <<regs, tables, locks, console>>

(* A held lock is never given up to whoever spins for it here: on one      *)
(* processor its holder is below on the same stack.                        *)
Lock ==
  /\ At("lock") /\ Arg \notin locks /\ locks' = locks \cup {Arg} /\ Advance
  /\ UNCHANGED <<regs, stack, tables, console>>

Unlock ==
  /\ (At("unlock") \/ At("force_unlock")) /\ locks' = locks \ {Arg} /\ Advance
  /\ UNCHANGED <<regs, stack, tables, console>>

Write ==
  /\ \/ At("print") /\ console' = <<Arg>>
     \/ At("add") /\ console' = console \o Arg
  /\ Advance
  /\ UNCHANGED <<regs, stack, tables, locks>>

LoadIdt ==
  /\ At("lidt") /\ idtr' = Arg /\ Advance
  /\ UNCHANGED <<regs, stack, gdtr, tr, star, locks, console>>

LoadGdt ==
  /\ At("lgdt") /\ gdtr' = Arg /\ Advance
  /\ UNCHANGED <<regs, stack, idtr, tr, star, locks, console>>

(* reload_segments: the data selectors, then CS by a far return.           *)
ReloadSegments ==
  /\ At("reload")
  /\ regs' = [regs EXCEPT !["cs"] = <<"cs", Arg[1]>>, !["ss"] = <<"ss", Arg[2]>>]
  /\ Advance
  /\ UNCHANGED <<stack, tables, locks, console>>

LoadTss ==
  /\ At("ltr") /\ tr' = TssBase(Gdt, Arg) /\ Advance
  /\ UNCHANGED <<regs, stack, gdtr, idtr, star, locks, console>>

InitSyscalls ==
  /\ At("wrmsr") /\ star' = Arg /\ Advance
  /\ UNCHANGED <<regs, stack, gdtr, idtr, tr, locks, console>>

Swapgs ==
  /\ At("swapgs")
  /\ regs' = [regs EXCEPT !["gs"] = <<"gs", 1 - @[2]>>] /\ Advance
  /\ UNCHANGED <<stack, tables, locks, console>>

(* cli, and an interrupt gate, clear IF. *)
MaskIF(flags) == flags - (flags % 2)

(* halt(), and the end of both handlers: cli; hlt, for ever.               *)
Halt ==
  /\ At("hlt") /\ mode' = "halted" /\ code' = <<>>
  /\ regs' = [regs EXCEPT !["rflags"] = <<"rflags", MaskIF(@[2])>>]
  /\ UNCHANGED <<stack, tables, locks, console, faults, trap, caller>>

-----------------------------------------------------------------------------
(* idt.rs *)

(* The fields of a frame, from the top of the stack down.                  *)
Frame(fields) == [f \in ToSet(fields) |->
  stack[Len(stack) + 1 - Place(f, fields)]]

InterruptFrame ==
  <<"r15", "r14", "r13", "r12", "r11", "r10", "r9", "r8", "rbp", "rdi", "rsi", "rdx", "rcx",
    "rbx", "rax", "vector", "error_code", "rip", "cs", "rflags", "rsp", "ss">>

(* Mutant of ErrStubs: control protection (21) takes the other macro form. *)
ErrStubsOld == {8, 10, 11, 12, 13, 14, 17, 29, 30}

(* The stubs made with the err form of isr!. *)
ErrStubs == {8, 10, 11, 12, 13, 14, 17, 21, 29, 30}

IsrStub(v) ==
  Do("push_words", (IF v \in ErrStubs THEN <<>> ELSE <<<<"zero", 0>>>>) \o <<<<"vector", v>>>>)
    \o Do("push", General) \o Do("call", "isr_dispatch")

Line(fields, f) == Do("add", [i \in DOMAIN fields |-> f[fields[i]]])

(* isr_dispatch: it never returns, so that isr_common's second half is     *)
(* never reached.                                                          *)
IsrDispatch(f) ==
  Recover(Do("print", f.vector)
    \o Line(<<"error_code">>, f) \o Line(<<"rip", "cs", "rflags">>, f)
    \o Line(<<"rsp", "ss">>, f) \o Line(<<"rax", "rbx", "rcx", "rdx">>, f)
    \o Line(<<"rsi", "rdi", "rbp">>, f)
    \o (IF f.vector = <<"vector", 14>> THEN Do("add_cr2", <<>>) ELSE <<>>)
    \o Do("add", <<<<"halted", 0>>>>))

CallDispatch ==
  /\ At("call") /\ Arg = "isr_dispatch"
  /\ code' = IsrDispatch(Frame(InterruptFrame))
  /\ regs' = [regs EXCEPT !["rdi"] = <<"frame", 0>>]
  /\ UNCHANGED <<stack, tables, locks, console, mode, faults, trap, caller>>

WriteCr2 ==
  /\ At("add_cr2") /\ console' = Append(console, regs["cr2"]) /\ Advance
  /\ UNCHANGED <<regs, stack, tables, locks>>

-----------------------------------------------------------------------------
(* syscall.rs *)

SyscallFrame == <<"r9", "r8", "r10", "rdx", "rsi", "rdi", "nr", "rflags", "rip">>

SyscallPushes == <<"rcx", "r11", "rax", "rdi", "rsi", "rdx", "r10", "r8", "r9">>

(* Mutant of SyscallPops: r8 and r9 come back in the order they went.      *)
SyscallPopsSwapped == <<"r8", "r9", "r10", "rdx", "rsi", "rdi">>

SyscallPops == <<"r9", "r8", "r10", "rdx", "rsi", "rdi">>

SyscallEntry ==
  Do("swapgs", <<>>) \o Do("push", SyscallPushes) \o Do("call", "syscall_handler")
    \o Do("pop", SyscallPops) \o Do("drop", <<>>) \o Do("pop", <<"r11", "rcx">>)
    \o Do("swapgs", <<>>) \o Do("sysret", <<>>)

ENOSYS == -38
AsI64(n) == IF n < Word \div 2 THEN n ELSE n - Word

(* dispatch: exit and read answer 0, write the length it was given.        *)
Dispatch(nr, a2) ==
  CASE nr = 0 -> 0 [] nr = 1 -> AsI64(a2) [] nr = 2 -> 0 [] OTHER -> ENOSYS

(* The registers a Rust function called with the C convention may spend.   *)
Scratch == {"rcx", "rdx", "rsi", "rdi", "r8", "r9", "r10", "r11"}

CallSyscallHandler ==
  /\ At("call") /\ Arg = "syscall_handler"
  /\ LET f == Frame(SyscallFrame)
     IN regs' = [r \in Registers |->
          IF r = "rax" THEN <<"result", Dispatch(f.nr[2], f.rdx[2])>>
          ELSE IF r \in Scratch THEN <<"junk", 0>> ELSE regs[r]]
  /\ Advance
  /\ UNCHANGED <<stack, tables, locks, console>>

(* sysretq: the selectors come from STAR, with ring 3 in their low bits.   *)
Sysret ==
  /\ At("sysret")
  /\ regs' = [regs EXCEPT !["rip"] = regs["rcx"], !["rflags"] = regs["r11"],
                          !["cs"] = <<"cs", star.sysret + 16 + 3>>,
                          !["ss"] = <<"ss", star.sysret + 8 + 3>>]
  /\ mode' = "user" /\ code' = <<>>
  /\ UNCHANGED <<stack, tables, locks, console, faults, trap, caller>>

-----------------------------------------------------------------------------
(* What comes from outside: the processor's exceptions, and the user code  *)
(* there is no loader for yet.                                             *)

(* The exceptions with which the processor pushes an error code.           *)
CpuErrorCodes == {8, 21, 29, 30} \cup 10 .. 14 \cup {17}

(* Those that come without an instruction that fails: NMI, machine check.  *)
Asynchronous == {2, 18}

CurrentRing == regs["cs"][2] % 4

(* A gate can be gone through: its segment is kernel code and it has a     *)
(* stack, the one in use unless the gate or the ring asks for another.     *)
Deliverable(v, stackGood) ==
  LET gate == Idt[v]
      tss == tr = Address("TSS")
  IN /\ gate.present
     /\ IsCode64(Segment(Gdt, gate.selector)) /\ Ring(Segment(Gdt, gate.selector)) = 0
     /\ Offset(gate) = Address(<<"isr", v>>)
     /\ IF gate.ist # 0 THEN tss /\ TssNew.ist[gate.ist] # 0
        ELSE IF CurrentRing = 3 THEN tss /\ TssNew.rsp0 # 0 ELSE stackGood

(* The processor goes through the gate of vector d.                        *)
Deliver(d) ==
  /\ stack' = stack \o <<regs["ss"], <<"rsp", Len(stack)>>, regs["rflags"], regs["cs"], regs["rip"]>>
              \o (IF d \in CpuErrorCodes THEN <<<<"error", d>>>> ELSE <<>>)
  /\ code' = IsrStub(d)
  /\ mode' = "trap"
  /\ UNCHANGED <<tables, locks, console, caller>>

(* An exception the processor cannot deliver becomes a double fault (8),   *)
(* and a double fault it cannot deliver resets the machine.                *)
Fault(v, stackGood) ==
  /\ faults < Len(Vectors) /\ v \in Vectors[faults + 1] /\ mode # "reset"
  /\ mode = "halted" => v \in Asynchronous
  /\ faults' = faults + 1
  /\ LET d == IF Deliverable(v, stackGood) THEN v ELSE 8
         cr2 == IF v = 14 THEN <<"cr2", faults + 1>> ELSE regs["cr2"]
     IN /\ trap' = [cause |-> v, vector |-> d, regs |-> [regs EXCEPT !["cr2"] = cr2], rsp |-> Len(stack),
                    ready |-> star.syscall # 0 /\ CurrentRing = 0 /\ stackGood]
        /\ IF Deliverable(d, stackGood)
           THEN /\ Deliver(d)
                /\ regs' = [regs EXCEPT !["cs"] = <<"cs", Idt[d].selector>>, !["cr2"] = cr2,
                              !["rip"] = <<"isr", d>>,
                              !["rflags"] = <<"rflags", MaskIF(@[2])>>]
           ELSE /\ mode' = "reset" /\ code' = <<>>
                /\ UNCHANGED <<regs, stack, tables, locks, console, caller>>

(* Rust code of the boot path panics (an assertion, an exhausted heap).    *)
Panic ==
  /\ mode = "kmain"
  /\ mode' = "panic" /\ code' = OnPanic
  /\ UNCHANGED <<regs, stack, tables, locks, console, faults, trap, caller>>

(* A user program starts on the booted kernel, IF and DF set.              *)
StartUser ==
  /\ mode = "halted" /\ star.syscall # 0 /\ console = <<<<"record", 0>>>> /\ trap = <<>>
  /\ mode' = "user"
  /\ regs' = [r \in Registers |->
       CASE r = "cs" -> <<"cs", USER_CODE>> [] r = "ss" -> <<"ss", USER_DATA>>
         [] r = "rflags" -> <<"rflags", 3>> [] OTHER -> <<r, 1>>]
  /\ stack' = <<<<"user", 0>>, <<"user", 1>>>>
  /\ UNCHANGED <<tables, locks, console, code, faults, trap, caller>>

(* The syscall instruction.                                                *)
Syscall(nr, length) ==
  /\ mode = "user"
  /\ LET user == [regs EXCEPT !["rax"] = <<"nr", nr>>, !["rdx"] = <<"length", length>>]
     IN /\ caller' = [regs |-> user, stack |-> stack]
        /\ regs' = [user EXCEPT !["rcx"] = user["rip"], !["r11"] = user["rflags"],
                                !["cs"] = <<"cs", star.syscall>>,
                                !["ss"] = <<"ss", star.syscall + 8>>,
                                !["rip"] = <<"syscall_entry", 0>>,
                                !["rflags"] = <<"rflags", 0>>]
  /\ mode' = "syscall" /\ code' = SyscallEntry
  /\ UNCHANGED <<stack, tables, locks, console, faults, trap>>

-----------------------------------------------------------------------------
Instruction ==
  \/ Push \/ PushWords \/ Pop \/ Drop \/ Lock \/ Unlock \/ Write
  \/ LoadIdt \/ LoadGdt \/ ReloadSegments \/ LoadTss \/ InitSyscalls
  \/ Swapgs \/ Halt \/ CallDispatch \/ WriteCr2 \/ CallSyscallHandler \/ Sysret

Next ==
  \/ Instruction
  \/ \E v \in Exceptions, stackGood \in BOOLEAN : Fault(v, stackGood)
  \/ Panic
  \/ StartUser
  \/ \E nr \in Numbers, length \in Lengths : Syscall(nr, length)

(* The processor goes on; nothing obliges exceptions or user code to come. *)
Spec == Init /\ [][Next]_vars /\ WF_vars(Instruction)

-----------------------------------------------------------------------------
(* What the report of an exception is to say.                              *)
Expected ==
  <<<<"vector", trap.vector>>,
    IF trap.vector \in CpuErrorCodes THEN <<"error", trap.vector>> ELSE <<"zero", 0>>,
    trap.regs["rip"], trap.regs["cs"], trap.regs["rflags"], <<"rsp", trap.rsp>>, trap.regs["ss"],
    trap.regs["rax"], trap.regs["rbx"], trap.regs["rcx"], trap.regs["rdx"],
    trap.regs["rsi"], trap.regs["rdi"], trap.regs["rbp"]>>
  \o (IF trap.vector = 14 THEN <<trap.regs["cr2"]>> ELSE <<>>)
  \o <<<<"halted", 0>>>>

(* When the machine has halted on an exception, the console ends with one  *)
(* whole report of the last one, and every word of it is what the          *)
(* processor held when it came, whether or not it pushes an error code and *)
(* wherever it came: in a log record, in a system call, in the report of   *)
(* another (idt.rs:116-136, the order of the frame; 236-256, the stubs).   *)
ReportFaithful == mode = "halted" /\ trap # <<>> => console = Expected

(* Once arch::init has returned, an exception in the kernel on a usable    *)
(* stack reaches its own handler: none turns into a double fault, and the  *)
(* machine never just resets (mod.rs:3-4, "a full set of exception         *)
(* handlers").                                                             *)
NoLostFault == trap # <<>> /\ trap.ready => trap.vector = trap.cause /\ mode # "reset"

(* A system call gives user code back everything it had, its stack and     *)
(* flags, its segments in ring 3 and its GS base included, but for rax and *)
(* the two registers the instruction spends (syscall.rs:139-172).          *)
SyscallTransparent ==
  mode = "user" /\ caller # <<>> =>
    /\ stack = caller.stack
    /\ \A r \in Registers \ {"rax", "rcx", "r11"} : regs[r] = caller.regs[r]
    /\ LET cs == Segment(Gdt, regs["cs"][2]) IN IsCode64(cs) /\ Ring(cs) = 3
    /\ LET ss == Segment(Gdt, regs["ss"][2]) IN "exec" \notin ss /\ Ring(ss) = 3

(* Boot, a handler, a panic and a system call all come to an end: nothing  *)
(* waits for a lock that the code it interrupted, or its own caller, holds *)
(* (serial.rs:144-151, heap.rs:193, main.rs:69-81).                        *)
NeverSpins ==
  mode \in {"kmain", "panic", "trap", "syscall"} ~> mode \in {"halted", "reset", "user"}
==============================================================================
