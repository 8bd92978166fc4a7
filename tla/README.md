# A TLA+ development of zeroxos

zeroxos (`src/`) is a small operating system in Rust: a kernel (`crates/zerox-kernel`), a
hardware abstraction layer (`crates/hal`), a boot crate for real machines
(`crates/zeroxos-boot`), a file system (`crates/zerox-fs`), userspace services
(`crates/zerox-runtime`), a host simulator (`crates/zerox-sim`) and the compiler of its
language agex (`crates/agex`).  This directory holds TLA+ specifications of the parts whose
correctness depends on order, interleaving, failure or long sequences of calls, the TLC
configurations that check them on small instances, and proofs checked by TLAPS.

Paths below are relative to `src/crates/`.

## 1. The system

### 1.1 Components, their state and what makes them correct

| Component | State | Operations | Correct when |
|---|---|---|---|
| Buddy allocator, `zerox-kernel/src/memory.rs` | one Vec of page frame numbers per order, three counters | `add_region`, `alloc`, `free` | no page is in two blocks or in none; the counters count; free buddies are merged |
| Memory manager, same file | the allocator, statistics in statics | `register_region`, `init`, `alloc_page`, `alloc_huge_page`, `free_page`, `free_huge_page`, `cow_fault`, `stats` | the statistics agree with the allocator; only usable memory is handed out |
| Kernel, `zerox-kernel/src/lib.rs`; kmain, `zeroxos-boot/src/main.rs` | the subsystems behind one mutex (`KERNEL`), `booted` | `boot`, `tick`, `shutdown`; registration of the loader's memory map | boot is idempotent and fails when it must |
| Scheduler, `scheduler.rs` | a Vec of threads, the current one, gaming mode | `add_thread`, `remove_thread`, `set_gaming_mode`, `pick_next`, `yield_thread`, `preempt`, `on_frame_complete` | a pick never passes over a thread that outranks it; nobody starves who is promised not to |
| IPC core, `ipc.rs` | two channel tables behind two mutexes, four atomics, a buffer and two counters per channel | create, send, receive, statistics | ids are unique, channels are bounded FIFO queues, a snapshot is a real state |
| Heap, `heap.rs` | a free list inside the free memory | `init`, `alloc_first_fit`, `dealloc` | no byte is in two blocks, the count is exact, nothing is lost that need not be |
| Page tables, `hal/src/arch/x86_64/paging.rs`, `hal/src/arch/x86_64.rs` | tables in physical frames, the TLB | map, unmap, translate, frame allocation through a hook | the tables are an address space; a table frame has one owner; the TLB is never stale |
| Context switch, `zerox-kernel/src/arch/x86_64/context.rs` | a stack and a saved stack pointer and root per task | `init_kernel_task`, `switch_to` | every task resumes as it left, in its own address space |
| Processes, threads, capabilities, `process.rs`, `security.rs` | a table of processes, each with its list of thread ids, and a table of threads; the issued tokens behind a mutex, a counter beside it | `spawn`, `spawn_thread`, `kill`, `exit`; `grant`, `revoke`, `check`, `verify_token` | the two lists of threads agree; a token is valid for its grant alone, from its return to its revocation |
| Drivers, `driver.rs` | a registry of driver states | register, load, init, start, crash | the life cycle is followed |
| Descriptor tables, interrupts, system calls, `arch/x86_64/{mod,gdt,tss,idt,syscall}.rs` | the GDT, the IDT, the TSS and the MSRs of the system call | loading them in `arch::init`, the stub of each exception, `isr_dispatch`, `syscall_entry` | every exception after `arch::init` reaches its handler, with a frame that has the layout its reader expects; a system call gives everything back |
| Serial console and panic, `serial.rs`, `panic.rs` | one locked port | records, reports, forced unlock | a fault is reported wherever it came, inside a record or a report included |
| File system, `zerox-fs` | a journal, a copy-on-write tree, a superblock | begin, append, commit, replay; snapshot, write | recovery applies what was committed; references are conserved |
| Userspace services, `zerox-runtime` | single-threaded tables | create, destroy, register, crash | ids are unique |
| agex compiler, `agex` | characters and a position; tokens and a cursor; a tree, a scope of field names and the sealed classes seen so far | `tokenize`, `parse_program`, `generate` | tokens are as written and where they were written; the tree reflects the source, whatever the source the compiler neither panics nor loses a part of it; the Rust it emits means what the tree does |
| Simulator, `zerox-sim` | none | demonstrations | - |

### 1.2 How they interact

- `KERNEL` is one spin mutex around the scheduler, the memory manager, the IPC core, the
  security manager, the process table and the driver registry.  A method that takes
  `&mut self` is one step for everybody else.  The IPC core and the security manager take
  `&self` and do their own locking.
- kmain registers the loader's usable memory, sets the direct map and hands the HAL two
  hooks, `alloc_frame` and `free_frame`, which lock `KERNEL`; `map_page` takes a frame through
  the hook for each table it has to build.
- The heap is behind a mutex of its own; the page tables have none: the caller of `map_page`
  must exclude other walkers.
- The TLB is filled by the processor whenever it likes.
- kmain is one path: it initialises the logger, registers memory, calls `arch::init`, boots the
  kernel under `KERNEL`'s lock, and halts.  Every record takes the console's lock, every Vec
  that grows the heap's.  An exception or a panic interrupts the path at any instruction, with
  whatever locks are held, reports to the console and never returns.
- A grant or a new thread names a process by its number, and neither checks that the table has
  one; nothing tells the security manager or the scheduler when a process ends.
- The journal and the tree do not call each other; a client uses both.

### 1.3 What is hard

Exclusive ownership of pages over arbitrary sequences of splits and merges; maps that fail half-way
while other clients use the same allocator; a TLB that caches what is about to disappear; snapshots
of statistics under two locks and two atomics; ids taken outside the lock they are pushed under;
picks among four classes with their own tie-breaks while levels decay, deadlines fall due and modes
change; carving with alignment padding near the size of a header; crashes between any two journal
entries; registers and stacks handed from one task to another; exceptions between any two
instructions of the boot path, under any of three spin locks and inside the report of another; stubs
written in assembly whose pushes, pops and tables must agree with structures written in Rust and
with what the processor does by itself; a language without separators between statements, whose
precedence is spread over a parser and a generator that adds brackets only where it thinks of them.
`PROJECT.json` lists each hazard with its line and the properties aimed at it.

## 2. Plan

Written so far, in this order, the most important behaviour first:

1. `BuddyAllocator` against `PageOwnership`, `BuddyLoops`, `BuddyProofs`; `MemoryManager` and
   `KernelBoot`, which compose it with the memory map, the statistics and the clients.
2. `Scheduler`; `Ipc` against `MessageChannels`; `Heap`; `PageTables` against `AddressSpace`.
3. `Journal` and `CowTree`, composed by `FileSystem`; `ContextSwitch` against `Coroutines`.
4. `AgexParser` against `AgexPrinter`, composed by `Agex`.
5. `AgexLexer`, `AgexCodegen` and `AgexReader`, which `Agex` composes with the parser, from
   characters to Rust tokens.
6. `DescriptorTables` and `KernelEntry`: the path of kmain, exceptions, panics and system calls.
7. `Tasks`: the process table and the security manager.
8. Proofs beyond the buddy allocator's safety: that its coalescing is complete, the heap, the
   IPC core, the security manager's tokens and context switches (section 5).
9. Proofs about what is built on them: the memory statistics over the allocator's lemmas, the
   order of picks, the two lists of threads, snapshots of the IPC statistics.
10. Proofs about tables, logs and trees: the page tables with their TLB and their refinement of
   an address space, recovery from the journal, the references of the copy-on-write tree.

Left: the slab allocator, should it get a client; user mode beyond one system call, should a
loader be written; two clients of one journal, should it keep their transactions apart.

## 3. The modules

A module's variables have the names of the fields they stand for; what the environment
knows (who holds which block, which transaction a writer has open) is named beside them.
An operation called under a mutex its caller holds throughout is one action.  A definition
whose comment begins "Mutant of" is a plausible mistake in the definition after it and is
used by no specification: `PROJECT.json` pairs each property with a mutant that violates it.
Most modules with state also define `TypeOK`, which documents it; a run checks `BuddyAllocator`'s, which
is proved too, as the heap's and the scheduler's are.

| Module | Models | State | Remarks |
|---|---|---|---|
| `PageOwnership` | abstract | available, owned and donated pages | a block is taken as a whole and given back as it was taken |
| `BuddyAllocator` | `memory.rs` 60-147 | `free_lists[o]`: a set per order; counters; blocks in clients' hands | the three loops are closed forms; the order within a Vec decides which block a pop takes, here any block of the order |
| `BuddyLoops` | the same loops, step by step | - | recursive; `LoopsAgree` says of each of the three that in every reachable state loop and closed form compute the same; it also holds the regions of the run `buddy` |
| `MemoryManager`, `KernelBoot` | `memory.rs` 206-276, `lib.rs` 53-104, `zeroxos-boot/src/main.rs` 66-127 | statistics, memory map not yet read, `booted` | INSTANCE of `BuddyAllocator` over the regions the usable entries round to; `boot()` may be called again at any time, as the simulator's demos do |
| `Scheduler` | `scheduler.rs` | queue, state, level and priority per thread, `current`, mode, clock | what callers fix when they add a thread is the constant `Attr`; `Dispatch` is the dispatcher that `src/` does not have yet, external; promotions are not bounded, and a slot that `remove_thread` frees may be taken again |
| `MessageChannels` | abstract | capacity and content per channel | bounded FIFO queues |
| `Ipc` | `ipc.rs` | tables, buffers, counters, two locks, a program counter per caller | `IpcCore` takes `&self`: a step is what one caller does between two points where another sees the difference; today's callers also hold `KERNEL`, and their behaviours are among these |
| `Heap` | `heap.rs` | the free list as a sequence, the blocks held | addresses are small numbers; `MinBlock` and `MinAlign` keep the ratio that matters (a header is a multiple of the alignment) |
| `AddressSpace` | abstract | page to frame and rights | the parts of the loader's huge pages, `Large`, are never unmapped |
| `PageTables` | `paging.rs`, `hal/src/arch/x86_64.rs`, the hooks of kmain | memory as tables, free frames, others' frames, one call in progress and the frame it holds, one TLB entry | `map_page` is one action per level, and two where a table is missing: `TakeTable` is the hook under `KERNEL`, `LinkTable` zeroes and links the frame with the lock released, and other clients run between any two; freed and reused frames hold garbage that would be a valid table; a walk (`Reach`) is a recursive function over the levels |
| `Coroutines` | abstract | registers, place and unfinished calls per task, the address space in force | |
| `ContextSwitch` | `context.rs` | stacks word by word, contexts, registers, `rip`, `rsp`, `cr3` | `switch_to` runs with interrupts off: one action; computing, calling and returning are external |
| `AgexSyntax`, `AgexParser` | `agex/src/parser.rs`, `ast.rs` | `toks`; the cursor, which every operator takes and returns | one operator per function; what is eaten in a fixed order is a `Sequence` of rules, every test and early return is written out; recursive |
| `AgexPrinter` | reference | - | how a tree is written, with brackets where precedence asks for them |
| `AgexLexer` | `agex/src/lexer.rs` | characters, the place in them, line and column | one operator per branch of `tokenize`; a character is a letter of a small alphabet, a token keeps its kind and where it begins; recursive |
| `AgexCodegen` | `agex/src/codegen.rs`, `hir.rs` | the tree, the scope of field names and the sealed classes so far | one operator per `gen_` function, down to the Rust tokens it writes; recursive |
| `AgexReader` | reference | - | reads the emitted Rust back into a tree by Rust's own precedence |
| `Agex` | `lib.rs`, `lex`, `parse` and `generate` composed, and a programmer | the text or the program meant, the tokens, what the parser returned, what was generated, the part of the source still intact | `Compile` goes all the way; each edit changes one token; `Format` writes the source anew from the tree that was read, which then has to be read as that tree; `Respell` writes the same tokens with other blanks, line breaks and comments between them |
| `AgexPrograms` | - | - | the texts and programs the run begins with |
| `DescriptorTables` | `gdt.rs`, `tss.rs`, `idt.rs` | - | how the kernel cuts an address into the fields of a descriptor, and how the processor puts it together; an address is its eight bytes, each known by its place |
| `KernelEntry` | `main.rs`, `mod.rs`, `idt.rs`, `syscall.rs`, `serial.rs`, `panic.rs`, `heap.rs` (its lock) | registers, one stack, tables loaded, locks held, what the console shows last, the instructions still to run | assembly stubs instruction by instruction (a run of pushes or pops is one), Rust code as the locks it takes, the records it writes and the tables it loads; the processor's delivery of an exception, a double fault and a reset are external |
| `Tasks` | `process.rs`, `security.rs` | the two tables, the three counters, the issued grants, what each caller is about to issue; beside them, per pid, the thread counter at its spawn (`born`) and at its last end (`ended`) | the table is borrowed mutably, one step per call; a grant is two steps, the number before the lock; `spawn_thread`, `kill`, `exit` and `grant` take any number, of a process or of none |
| `Vec` | Rust's `Vec::retain` | - | external, used by `Scheduler` and `Tasks`, and by `Journal` to say what replay must apply; a recursive function, so that it can be proved about |
| `LibraryFacts`, `BuddyProofs`, `KernelBootProofs`, `HeapProofs`, `IpcProofs`, `ThreadProofs` (of `Scheduler` and `Tasks`), `X86Proofs` (of `PageTables` and `ContextSwitch`), `FileSystemProofs` | proofs | - | see section 5 |
| `Journal`, `CowTree`, `FileSystem` | `journal.rs`, `cow.rs` | entries, counters, open transactions; nodes with reference counts | a crash leaves any prefix of the journal, and replay is evaluated on every prefix in every state; a volume has one client (`FileSystemAssumption`); a checksum is represented by what it was computed from |

## 4. What TLC checks

Each run finishes within three minutes; bounds are constants of the configuration.

| Run | Bounds and why they suffice | Shows |
|---|---|---|
| `buddy` | orders 0-2, two regions of 7 and 3 pages that touch inside an aligned block of 4 | every split depth, every merge depth, a buddy that belongs to another region, a region start that is aligned to nothing; safety, full coalescing, the three loops against their closed forms, refinement of `PageOwnership` |
| `kernel_boot` | three usable ranges (one with a ragged tail, one below a page), any subset present, two faults | the statistics stay exact over every order of registering, booting again, allocating, freeing, faulting with and without memory; only usable memory is handed out |
| `scheduler` | five threads of all three policies, one added blocked, one with a deadline; two MLFQ levels; one clock step; any number of frames | `pick_next` respects its documented order in every reachable state; `current` is always queued; liveness under `WF(Dispatch)` |
| `ipc` | two callers, two channels of capacity 0 or 2, three messages, payloads below and above the size limit | unique ids, consistent snapshots, refinement of FIFO queues, for all interleavings at the locks; no deadlock, `stats` being the one call that takes both locks |
| `heap` | three arenas, one off alignment and one too short once aligned; three layouts below, at and above header size and alignment | no byte twice, exact accounting, loss bounded by one short piece on each side of a carve |
| `page_tables` | three levels of two entries, a huge page and a page the loader has mapped, four frames including frame 0 (which the hook takes for a failure), five pages that share all, some or no tables, one set of rights that is not the loader's | refinement of an address space, ownership of tables and of the frame in hand, a coherent TLB |
| `filesystem` | one writer, six entries, two targets; four tree operations, two kinds of data | replay on every prefix; references |
| `context_switch` | the boot task and two others, one in another address space; one call deep, one register content in which every register differs | refinement of coroutines, in each task's own address space |
| `agex` | every operator (one of each level) under every other on either side, 23 programs that use each construct with and without its optional parts; texts of up to four pieces (comments, strings, escapes, operators, a line break) and four separators between the tokens of a program; one edit with any of 23 tokens anywhere | tokens as written, at their places; precedence, grouping and the ends of statements; nothing lost; errors where they are; the cursor inside the source; what is emitted groups as the tree does, names a field through `self` only in the methods of its class and `self` only in functions that have one (a `this` written outside classes apart, section 6), and constructs variants as variants.  One edit is enough to reach every error path, since each test looks at one token or two |
| `kernel_entry` | any of the 32 exceptions at any instruction, one of an NMI and a page fault again inside the report of the first; a machine supported or not, with 0 to 2 regions, with and without a framebuffer; one system call, known or not | the report of an exception says what the processor had; none is lost after `arch::init`; a system call is transparent; boot, handlers, panics and calls end |
| `tasks` | two callers and two capabilities (both symmetric), 2 processes, 3 threads, 2 tokens; a process that ends twice, gets a thread after its end, or whose number is used for threads, ends and grants before it is spawned | a process lists the table's threads of it since its spawn; tokens stand for their grants |
| `cow_tree_snapshot` (violation) | six operations | see section 6 |

Beside the runs stand two configurations of behaviours no caller has today, whose counterexamples
section 6 describes: `tlc -config JournalInterleaved.cfg Journal` (two writers) and
`tlc -config ContextSwitchBootTask.cfg MCContextSwitch` (a boot context made by
`TaskContext::empty()`).

Bounds in guards: `MaxFaults`, `MaxTime`, `MaxChannels`, `MaxSends`, `MaxEntries`, `MaxSteps`,
`MaxEdits`, `MaxPid`, `MaxTid`, `MaxToken`, the length of `Vectors`, and the depth of calls in
`ContextSwitch`, which is the size of the stack.  The others are sizes.  `CHECK_DEADLOCK FALSE`
appears only where the bounded client may have nothing left to do (the journal and the tree, a
source edited as often as allowed, processes and tokens) or where the processor halts for good
(`kernel_entry`).

**Fairness.**  Two modules have a liveness property.  `KernelEntry` assumes weak fairness of the
processor's `Instruction` alone: it goes on as long as it has an instruction to run, and a spin on a lock
that is held is not one.  Exceptions, panics and user code may come or not.  `NeverSpins`
then says that whatever is entered ends.  The scheduler's `FairSpec` assumes weak fairness of
`Dispatch` alone: the dispatcher keeps picking when nothing runs and preempting when a quantum ends,
which is what the timer interrupt is for.  Nobody is obliged to add, remove, wake or promote a
thread, and the clock may stand still.  `AboveBottomRuns` promises as much as the code gives:
an MLFQ thread above the bottom level runs, or decays, or leaves, unless a real-time thread is
ready, provided that from some time on no other thread is set ahead of it (`NoneSetAhead`: added,
or promoted by a frame).  The proviso is not idle: `on_frame_complete` promotes the render thread at every
frame, and a frame before every pick starves the others for ever.  At the bottom level, and for CFS
threads, nothing of the kind holds.

**Actions** are all taken in the passing runs; a memory-less machine is
one of `kernel_boot`, a failed map and a failed allocation are reached in `page_tables` and `heap`.

## 5. What TLAPS proves

Each theorem is about the specification TLC checks, for every value of the constants that
satisfies the named `ASSUME` of its module.  `LibraryFacts` holds what several proofs
share: division with remainder, an element added to a sequence, one taken out of it, what
`retain` leaves, a running sum that changes at one place or gets one number more.

| Module | Theorems | For every |
|---|---|---|
| `BuddyProofs` | `TypeCorrect`, `ExclusivePages`, `PagesConserved`, `CountersCorrect`, `Implementation`: `BuddyAllocator` satisfies `[]TypeOK`, `[]NoPageTwice`, `[]NoPageLost`, `[]CountersExact` and `ImplementsOwnership`; `Coalescing`: `[]FullyCoalesced` | `MaxOrder`, set of disjoint regions |
| `KernelBootProofs` | `StatsCorrect`, `UsableCorrect`: `KernelBoot` satisfies `[]StatsExact` and `[]OnlyUsableMemory` | `MaxOrder` above 0, page size, memory map whose usable entries start at pages and do not overlap |
| `HeapProofs` | `TypeCorrect`, `ExclusiveBytes`, `AccountsCorrect`, `LossesSmall`: `Heap` satisfies `[]TypeOK`, `[]NoByteTwice`, `[]AllocatedExact` and `LossBounded` | header size that is a multiple of the alignment, disjoint arenas, layouts whose alignment divides or is divided by `MinAlign` (powers of two) |
| `IpcProofs` | `IdsUnique`, `StatsAreASnapshot`, `Implementation`: `Ipc` satisfies `[]UniqueIds`, `StatsConsistent` and `ImplementsChannels` | number of callers, capacities, payloads and bounds |
| `ThreadProofs` | `TypeCorrect`, `SliceHolds`, `NobodyPassedOver`: `Scheduler` satisfies `[]TypeOK`, `[]CurrentHasSlice` and `NeverPassedOver` | set of threads with any attributes, number of MLFQ levels, bounds |
| | `TokensCorrect`, `ThreadsCorrect`: `Tasks` satisfies `[]TokensExact` and `[]ThreadsAgree` | number of callers, processes, threads, capabilities and bounds |
| `X86Proofs` | `TablesBelong`, `TlbCorrect`, `AddressSpaceImplemented`: `PageTables` satisfies `[]TablesOwned`, `[]TlbCoherent` and `ImplementsAddressSpace` | number of levels and of entries, pages, frames, targets and rights, tables of the loader that satisfy `LoaderAssumption` |
| | `CoroutinesImplemented`: if `BootCr3 = TaskRoot[Boot]`, `ContextSwitch` satisfies `ImplementsCoroutines` | tasks, size and place of disjoint stacks, what tasks compute |
| `FileSystemProofs` | `ReplayCorrect`, `ReferencesCorrect`: `FileSystem` satisfies `[]ReplayExact` and `[]RefcountsConserved` | targets, data, length of the journal and number of steps, one client |

**Buddy allocator.**  `NoPageTwice` is not inductive: a merge takes the union of a block and its
buddy, and the exclusive or names the buddy only if the block starts at a multiple of its size.  The
inductive invariant is `TypeOK`, `BlocksAligned`, `NoPageTwice`, `NoPageLost`, that the pages are
finitely many, and `CountersExact`.  Underneath are four layers of lemmas:

1. arithmetic of powers of two (`DivMod`, `MultipleBelow`, `DivModUnique`, `PagesMonotone`): the
   power is a recursive function, and the facts about it are derived from its step;
2. blocks: aligned blocks of two orders are nested or apart (`AlignedNested`), a block and its
   buddy are the two halves of the block above (`BuddyFacts`);
3. the closed forms: what a split leaves (`SplitAligned`, `SplitPages`, `SplitDisjoint`), what a merge
   joins (`MergeStep`, `MergePages`, `TopOrderFacts`), what a region is cut into (`CutDisjoint`, `CutCovers`);
   where an induction is called for, the smallest counterexample is taken instead;
4. one lemma per operation (`AddStep`, `AllocStep`, `FreeStep`) and the counting of pages
   (`BlockCount`, `RegionCount`, `CountCup`, `CountMinus`).

TLC evaluates the assumptions in `buddy`, where `BuddyLoops` also ties the closed forms, which the
proofs are about, to the loops of the code.

**Coalescing.**  `FullyCoalesced` speaks of blocks of any order at once.  What is preserved step by
step is smaller: of no block inside one region are both halves on the free lists
(`NoFreeHalves`).  A merge stops only where the buddy is not free, a split leaves one half of every
block it cuts.  From `NoFreeHalves` the property follows by the smallest order at which it would fail:
both halves of such a block lie inside single free blocks, which are the halves themselves.

**Memory statistics.**  `KernelBootProofs` instantiates `BuddyProofs` twice: the allocator of a machine
with usable memory holds the regions its map rounds to, that of a machine without holds the one
region `init` invents.  The operations are the same formulas in both (`SameAlloc`, `SameFree`, `SameAdd`).
Its invariant says that the allocator is in a state of the one or, after such a boot, of the other
(`Sound`), and what the statics are beside its counters (`StatsKept`): `FREE_MEMORY` and `TOTAL_MEMORY` its
counters in bytes once the kernel has booted, `HUGE_PAGES` the blocks of the top order clients hold, and no
block held before the boot.  That the counters count pages is the allocator's own theorem.  `MaxOrder` has to be
above 0, or each page would be a huge page; the usable entries have to start at pages, as Limine
makes them, because `register_region` rounds base and length down independently.

**Scheduler.**  The invariant is `TypeOK`, that the queue holds no thread twice, and that `current` is in it;
`remove_thread` keeps it because it clears `current`, by what `retain` leaves of a queue.  For the order of
picks, the candidate each of the four loops ends with exists and is beaten by none (`FirstDueFacts` and its
like): the least key is taken, and of the threads that have it the first in the queue.  Everything
`Outranks` compares follows from which loop the pick came from.

**Heap.**  The invariant is `TypeOK`, `NoByteTwice`, `AllocatedExact`, that the bytes held are finitely
many, and that a block's address is a multiple of `MinAlign`: without it, freeing a block would push
its header up and lose bytes.  `AddFacts` says what adding a region to a free list adds,
`CarveFacts` what an allocation leaves of its region; accounting is the cardinality of a union and of
a difference of disjoint sets.

**IPC core.**  Ids are taken from a counter outside the lock they are published under; the invariant says
that every id in a table or in a caller's hands is below the counter and is there only once.  The
refinement maps every step at the locks to `Open`, `Put`, `Get` or nothing.  For the statistics, what was
sent and not received is the sum of what all buffers hold, where a channel that was never opened counts
as empty; a caller of `stats` that has read under one lock still holds it while it reads under the
other, so that neither table nor either counter moves in between.

**Tokens.**  The number a grant takes is below the counter, in one caller's hands or in one entry of
the list, and the list holds exactly the tokens granted and not revoked; `verify_token`, which looks
for the first entry of its number, then finds the only one.

**Threads.**  The invariant `Table` says that a process sits at the place of its pid and a thread
has a number below the counter (`Numbered`), that the list of a living process is the table's
threads of that pid that were made since its spawn, in order (`ListsAgree`), and that no thread is
older than the last end of its number (`NoneLeft`). Threads made for a number before its process was
spawned are in the table and in no list, which is why `born` is needed; ending a number no process
has removes them as well.  An end retains the threads of the others: retaining twice is retaining
once from both (`WithoutTwice`), and a list that loses only other processes' threads stays the same.

**Page tables.**  What a walk reaches is a recursive function of the memory, and everything in the
module is said in its terms.  The lemmas under the proof are about one store each: a walk depends
only on the entries it reads (`SameWalk`), and of the walks that read a given entry each reads it at
the same level (`HitsAgree`), because no table is reached on two ways.  That is `OneWay`, the heart
of the inductive invariant `PagingInv`; beside it stand `OneOwner` (the allocator's frames, another
client's and the one a map has taken and not linked yet are three different things), `Within` (no
table is any of these, and an intermediate entry grants everything), `NoFrameLost`, that the parts
of a huge page stay parts of it (`LargeStays`), that a map in progress is at the table its walk
reaches at its level (`OnItsWay`), that the entry a frame was taken for is still absent when it is
linked (`FreshWanted`), `TypeOK` and `TlbCoherent`.  A new table is a zeroed frame no walk reached:
it lengthens the walks that ended at the entry that now links it, by one table and nothing else
(`GrownWalk`), so that no translation changes; a leaf is read by the walks of one page alone
(`LeafRead`), so that a leaf written changes one translation.  The rights an intermediate entry
grants have to be all, as `map_page_in` makes them, or the leaf's rights would not be those asked
for. `LoaderAssumption` asks as much of the tables the boot loader leaves, and that they are a tree;
`PagingAssumption`, that they lie in memory the loader did not report as usable; `unmap_page` of a
part of a huge page finds no leaf and changes nothing.

**Context switches.**  The invariant gives every suspended task a saved stack pointer inside its own
stack with a whole frame above it, and the running one room for a frame below.  `PushFacts` says that what
`switch_to` pushes its pops find, register by register; `FrozenSame`, that a suspended task's
activity depends on its own stack alone.  The condition on `BootCr3` is the one that
`TaskContext::empty()` does not meet, as `ContextSwitchBootTask.cfg` shows (section 6).

**Journal.**  Replay of a journal with one entry more is one turn of its loop on the replay of the
journal (`ReplayAppended`), and so is what `ReplayExact` compares it with (`LeftOf`).  `ReplayExact`
is not inductive: at a commit replay applies what it has held back, of which the property says
nothing.  `HoldsBack` does: what replay has applied and what it holds back are together the entries
it would apply if its current transaction were committed.  `BeginReplay`, `OpReplay` and
`CommitReplay` keep it, provided that the transaction an entry belongs to is the one replay takes
for current; that is where `FileSystemAssumption` comes in, since a client that has a transaction
open began none since.  An abandoned transaction is dropped by the next Begin.  What a crash leaves
is a journal that once was the whole of it.

**Tree.**  `References` is a running sum over the nodes.  A snapshot adds one at the root's node, which is
there because the first node keeps the id 0; a clone takes one from a node that has more than one, and
is appended with one.

**Only model-checked.**  `LoopsAgree` (an induction over loops written with recursive operators, against bit
operations) and everything about agex, whose operators are recursive; `KernelEntry`, where the instructions
left to run are data; and every liveness property.  TLAPS
proves nothing under fairness, and induction over data is out of its reach here: where a recursive function
is proved about (`Vec`, powers of two, sums, walks, replay), the smallest counterexample takes the place of the
induction.

## 6. Where the code departs from what is said of it

Shown by a run:

- `cow_tree_snapshot`: snapshots are point-in-time copies; the second write to a snapshotted leaf
  overwrites the data the snapshot names.

Shown by the configurations beside the runs:

- `JournalInterleaved.cfg`: "until commit, the operations are not visible"; with two transactions
  open, replay applies the operations of one that never commits with the other's.
- `ContextSwitchBootTask.cfg`: the empty context is "used for the initial/boot task, whose state is
  captured on its first outbound `switch_to`"; `switch_to` captures `rsp` and not `cr3`, and resumes
  the boot task with CR3 = 0.

Read in the code while modelling it, certain without a run:

- `CHANGELOG.md` 29-31, `lib.rs` 80: `boot()` is said to fail with `MemoryInit` when no usable memory is
  registered; `MemoryManager::init` invents 256 MB of RAM instead, and boot succeeds.
- `README.md` 149: async functions are parsed; `parse_decl` calls `parse_fn(false, ..)`, which
  eats `fn` while the cursor is at `async`, so every `async fn` is an error.
- `parser.rs` 326: `return` looks for a semicolon, which no rule then eats: `return;` is an error.
- `parser.rs` 243: the arguments of a base class are dropped up to the first closing bracket.
- `parser.rs` 188: `*T?` is a pointer to a nullable T, and no source names a nullable pointer to T.
- `heap.rs` 5-6 promises coalescing on free; `dealloc` puts the block at the front of the list.
- `README.md` 165 and `scheduler.rs` 115 promise the foreground game's threads a boost;
  `foreground_game` is written and never read, the boost goes by role flags, and a thread of
  the game without one is penalised as a background service.
- `scheduler.rs` 105: CFS threads share by vruntime; nothing advances it.  `scheduler.rs` 23 and
  `README.md` 163: real-time threads of one priority are FIFO; yield moves no thread in
  the Vec, so the first always wins.
- `scheduler.rs` 282: decay is for threads that used their quantum; every yield decays.
- `scheduler.rs` 300: a frame resets the render thread to the top level and nothing takes it back: an
  MLFQ render thread whose frame completes before every pick starves every other MLFQ thread.
- `memory.rs` 273: `cow_fault` without memory returns the shared page as the private copy.
- `tss.rs` 9-11: critical faults are said to land on a fresh stack; every gate has IST index 0.
  `rsp0` is never set either, so that an exception in user mode resets the machine.
- `mod.rs` 88: between `lidt` and `lgdt` the gates name selector 8, which is 16-bit code in the
  boot loader's table: an exception there resets the machine.
- `idt.rs`: `isr_dispatch` never returns, so the second half of `isr_common` (pops, `iretq`) is
  never run; the stub neither clears DF nor swaps GS.
- `syscall.rs`: the stub stays on the user's stack, which it pushes to from `rsp` on and so into the
  red zone of the user's code, and calls Rust with a stack that is off its alignment by a word; the
  length of a write is returned as it came, and from 2^63 on it reads as an error.  `README.md` 195
  says that every system call checks capabilities: no code does.
- `main.rs`: the guard of `KERNEL` lives through the whole `match` on `boot()`, the record of
  its success included; its error arm is never reached.
- `process.rs`: `spawn_thread` gives a dead process a thread, and one to a pid that is not in the
  table (line 127), which a process spawned with that number later does not list; `grant` takes any
  pid as well; `kill` and `exit` overwrite the
  state of a process that ended before, leave `threads` of the process as it was, leave the
  threads in the scheduler, and leave what was granted to it valid.
- `driver.rs` 129 logs that the supervisor will restart a crashed driver; nothing does.  Only
  user drivers become `Running`, and `start` asks for no load before it.  `supervisor.rs`: a crash
  of a stopped service starts it.
- `lexer.rs`: a block comment that is not closed leaves its last character behind as code; a line
  break that is escaped, or in a character literal, is not counted; a line comment does not advance the
  column; a character literal that is not closed is accepted.
- `codegen.rs` 525: `this` is emitted as `self` wherever it stands; in `main`, in the members of objects,
  interfaces and drivers, there is none.
- `codegen.rs` 529: a parameter or local with the name of a field is written as `self.` and that
  field.  `method_needs_mut` does not look into `for`.
- `codegen.rs`: `(x is T) ?: y`, `(&x).y`, `-(x is T)`, `(x is T) < y` and `(x.y)(a)` are
  emitted without the brackets they need.
- `codegen.rs`: the `Display` of a data or sealed class hands `write!` an expression where Rust wants a
  literal; a `case` with a single name drops its bindings; a variant without brackets, or
  used in a declaration before its sealed class, is not translated; a constant without a
  value is emitted as `= ;`; base classes, default values and `unsafe` in objects are dropped.

## 7. Not modelled

`PROJECT.json` lists every component with its status.  Left out for good:

- device output: the UART's registers and the wait for its transmitter, the framebuffer;
- the driver registry and the userspace tables (supervisor, windows, packages, ...):
  single-threaded, each operation assigns one field under one guard, and a property would
  only repeat the guard.  Section 6 says where they depart from what is said of them;
- `CapabilitySet`, the list in each process that no code of the kernel fills or reads;
- the superblock, checksums and compression: constructors and conversions that unit tests cover;
- the slab allocator, which nothing uses; `dump` and `tick` of the scheduler, which nothing reads;
- HAL traits and architecture stubs without state, the simulator's demonstrations (their calls
  are the environment of the kernel's modules), the command-line tools;
- exceptions between two pushes of one stub, which find what one before or after them finds on a
  stack of another depth; user code beside its system calls, as no loader exists;
- the text of format strings and the layout of emitted Rust; in the lexer, letters beyond a small
  alphabet that has one of every kind its tests tell apart.

Integer widths: the buddy allocator's counters are proved not to wrap; heap addresses are
unbounded, as `Layout` bounds sizes far below the address space; the system call's length is
kept in a small two's complement word.  One processor, as `src/` brings up only one.
