------------------------------ MODULE PageTables ------------------------------
(***************************************************************************)
(* The x86_64 page tables (hal/src/arch/x86_64/paging.rs), the map_page    *)
(* and unmap_page of the kernel on top of them (hal/src/arch/x86_64.rs),   *)
(* the frames they take from the kernel's allocator through the hook       *)
(* zeroxos-boot/src/main.rs registers, and the processor's TLB.            *)
(*                                                                         *)
(* A virtual page is the sequence of its indices, one per level; the       *)
(* offset inside a page, which every translation keeps, is left out.       *)
(* Walkers of the tables exclude each other (the contract of map_page_in), *)
(* but KERNEL is held only while a frame is taken: before the frame is     *)
(* zeroed and linked, other clients of the allocator run.                  *)
(***************************************************************************)
EXTENDS Naturals, Sequences, FiniteSets

CONSTANTS
  Depth,      (* Levels of intermediate tables (3: PML4, PDPT, PD).        *)
  Entries,    (* ENTRY_COUNT                                               *)
  Root,       (* The frame CR3 names.                                      *)
  BootTables, (* frame -> table: the root and the tables the loader built. *)
  Frames,     (* The allocator's frames, by page frame number.             *)
  Pages,      (* The virtual pages callers map and unmap.                  *)
  Targets,    (* The frames they map them to.                              *)
  Permissions  (* The rights they ask for.                                 *)

Indices == 0 .. Entries - 1
Levels == 1 .. Depth + 1
Rights == {"WRITE", "USER", "EXEC"}

(* A table entry: absent, or the address of a frame (of a table, of a page *)
(* at the last level) or of a huge page.  flags are the PTE bits, NX being *)
(* the lack of "EXEC".                                                     *)
Absent == [kind |-> "absent"]
Link(f, flags) == [kind |-> "link", frame |-> f, flags |-> flags]
Huge(f, flags) == [kind |-> "huge", frame |-> f, flags |-> flags]
IsEntry(e) == e = Absent \/ e.kind \in {"link", "huge"}
IsTable(t) == t = [i \in Indices |-> t[i]] /\ \A i \in Indices : IsEntry(t[i])

ASSUME PagingAssumption ==
  /\ Depth \in Nat \ {0} /\ Entries \in Nat \ {0}
  /\ Pages \subseteq [Levels -> Indices]
  /\ Permissions \subseteq SUBSET Rights
  /\ Root \in DOMAIN BootTables /\ \A f \in DOMAIN BootTables : IsTable(BootTables[f])
  /\ Frames \cap DOMAIN BootTables = {}

Zeroed == [i \in Indices |-> Absent]
(* What a frame holds that was in use before: as bad as it gets. *)
Garbage == [i \in Indices |-> Link(Root, Rights)]

VARIABLES
  memory,  (* frame -> its content, read as a table                        *)
  avail,   (* The allocator's free frames.                                 *)
  others,  (* The frames its other clients hold.                           *)
  fresh,   (* The frame alloc_zeroed has been given, {f}, or none.         *)
  call,    (* The call of map_page or unmap_page in progress, or Idle.     *)
  tlb      (* The entry the TLB caches, {[page, to]}, or none.             *)

vars == <<memory, avail, others, fresh, call, tlb>>

Idle == [op |-> "idle"]

BootMemory ==
  [f \in Frames \cup DOMAIN BootTables |-> IF f \in Frames THEN Garbage ELSE BootTables[f]]

Init ==
  /\ memory = BootMemory
  /\ avail = Frames
  /\ others = {}
  /\ fresh = {}
  /\ call = Idle
  /\ tlb = {}

(* The frame of page inside a huge page that an entry of level l maps: the *)
(* indices below l, read as a number.                                      *)
HugeOffset(page, l) ==
  LET offset[k \in l .. Depth + 1] ==
        IF k = l THEN 0 ELSE offset[k - 1] * Entries + page[k]
  IN offset[Depth + 1]

(* One level of a walk that has come to up: a set of at most one link or   *)
(* huge page, with the rights every level so far grants.                   *)
Follow(mem, page, up, l) ==
  IF up.kind # "link" THEN {up}
  ELSE {[kind |-> e.kind, flags |-> up.flags \cap e.flags,
         frame |-> IF e.kind = "huge" THEN e.frame + HugeOffset(page, l) ELSE e.frame] :
          e \in {mem[up.frame][page[l]]} \ {Absent}}

Advance(mem, page, from, l) == UNION {Follow(mem, page, up, l) : up \in from}

(* Where the walk of page is after n levels: nowhere, once an entry is     *)
(* missing.                                                                *)
Walk(mem, page) ==
  LET at[l \in 0 .. Depth + 1] ==
        IF l = 0 THEN {Link(Root, Rights)} ELSE Advance(mem, page, at[l - 1], l)
  IN at
Reach(mem, page, n) == Walk(mem, page)[n]

(* The table the walk reads at level n + 1: again one or none. *)
TablesIn(mem, page, n) == {e.frame : e \in {r \in Reach(mem, page, n) : r.kind = "link"}}
Tables(page, n) == TablesIn(memory, page, n)

(* The pages the loader has mapped as parts of huge pages.                 *)
Large == {p \in Pages : \E e \in Reach(BootMemory, p, Depth) : e.kind = "huge"}

(* The loader's tables are a tree within its own memory, and like          *)
(* map_page_in it leaves the rights to the last level.                     *)
ASSUME LoaderAssumption ==
  /\ \A p \in Pages, n \in 0 .. Depth : \A e \in Reach(BootMemory, p, n) :
       e.kind = "link" => e.frame \in DOMAIN BootTables /\ e.flags = Rights
  /\ \A p, q \in Pages, n, m \in 0 .. Depth :
       TablesIn(BootMemory, p, n) \cap TablesIn(BootMemory, q, m) # {}
         => n = m /\ \A i \in 1 .. n : p[i] = q[i]

(* translate_in, with the rights the processor grants: None is the empty   *)
(* set, Some(t) the set of t.                                              *)
Translate(mem, page) ==
  {[frame |-> e.frame, flags |-> e.flags] : e \in Reach(mem, page, Depth + 1)}

------------------------------------------------------------------------------

(* map_page(virt, phys, flags): read CR3, then descend. *)
StartMap(page, target, flags) ==
  /\ call = Idle
  /\ call' = [op |-> "map", page |-> page, target |-> target, flags |-> flags,
              level |-> 1, table |-> Root]
  /\ UNCHANGED <<memory, avail, others, fresh, tlb>>

(* The entry of the current level, for a call that is mapping. *)
Mapping == call.op = "map"
Current == memory[call.table][call.page[call.level]]
Down(f) == call' = [call EXCEPT !.level = @ + 1, !.table = f]
(* map_page ignores the Result and goes on to flush the TLB entry. *)
Finish == call' = [op |-> "flush", page |-> call.page]

FollowEntry ==
  /\ Mapping /\ call.level <= Depth /\ Current.kind # "absent"
  /\ IF Current.kind = "huge" THEN Finish ELSE Down(Current.frame)
  /\ UNCHANGED <<memory, avail, others, fresh, tlb>>

(* Mutant of TakeTable: the frame is handed out and stays free as well. *)
TakeBorrowedTable ==
  /\ Mapping /\ call.level <= Depth /\ Current.kind = "absent" /\ fresh = {}
  /\ \E f \in avail \ {0} : fresh' = {f}
  /\ UNCHANGED <<memory, avail, others, call, tlb>>

(* alloc_zeroed calls the hook, which takes a frame under KERNEL.  Frame 0 *)
(* looks like a failed allocation; on failure the tables linked so far     *)
(* stay.                                                                   *)
TakeTable ==
  /\ Mapping /\ call.level <= Depth /\ Current.kind = "absent" /\ fresh = {}
  /\ \/ avail = {} /\ Finish /\ UNCHANGED <<avail, fresh>>
     \/ \E f \in avail :
          /\ avail' = avail \ {f}
          /\ \/ f = 0 /\ Finish /\ UNCHANGED fresh
             \/ f # 0 /\ fresh' = {f} /\ UNCHANGED call
  /\ UNCHANGED <<memory, others, tlb>>

(* With KERNEL released the frame is zeroed and linked, at the entry that  *)
(* was read before it was taken.  Until it is linked, nothing that runs in *)
(* between reads it, so both writes are one step.                          *)
LinkTable ==
  /\ \E f \in fresh :
       /\ memory' = [memory EXCEPT ![f] = Zeroed,
                                   ![call.table][call.page[call.level]] = Link(f, Rights)]
       /\ Down(f)
  /\ fresh' = {}
  /\ UNCHANGED <<avail, others, tlb>>

(* Mutant of InstallLeaf: a present page is mapped over. *)
OverwriteLeaf ==
  /\ Mapping /\ call.level = Depth + 1
  /\ memory' = [memory EXCEPT ![call.table][call.page[call.level]] =
                                Link(call.target, call.flags)]
  /\ Finish
  /\ UNCHANGED <<avail, others, fresh, tlb>>

(* The leaf: a page that is present already is left alone. *)
InstallLeaf ==
  /\ Mapping /\ call.level = Depth + 1
  /\ IF Current.kind = "absent"
     THEN memory' = [memory EXCEPT ![call.table][call.page[call.level]] =
                                     Link(call.target, call.flags)]
     ELSE UNCHANGED memory
  /\ Finish
  /\ UNCHANGED <<avail, others, fresh, tlb>>

(* Mutant of UnmapLeaf: the flush is forgotten. *)
UnmapWithoutFlush(page) ==
  /\ call = Idle
  /\ memory' = [f \in DOMAIN memory |->
                  IF f \in Tables(page, Depth)
                  THEN [memory[f] EXCEPT ![page[Depth + 1]] = Absent] ELSE memory[f]]
  /\ UNCHANGED <<avail, others, fresh, call, tlb>>

(* unmap_page: unmap_page_in clears the leaf if the walk gets there, and   *)
(* leaves the intermediate tables in place.                                *)
UnmapLeaf(page) ==
  /\ call = Idle
  /\ memory' = [f \in DOMAIN memory |->
                  IF f \in Tables(page, Depth)
                  THEN [memory[f] EXCEPT ![page[Depth + 1]] = Absent] ELSE memory[f]]
  /\ call' = [op |-> "flush", page |-> page]
  /\ UNCHANGED <<avail, others, fresh, tlb>>

FlushTlb ==
  /\ call.op = "flush"
  /\ tlb' = {t \in tlb : t.page # call.page}
  /\ call' = Idle
  /\ UNCHANGED <<memory, avail, others, fresh>>

(* The processor may cache a translation at any time. *)
TlbFill(page) ==
  /\ \E t \in Translate(memory, page) : tlb' = {[page |-> page, to |-> t]}
  /\ UNCHANGED <<memory, avail, others, fresh, call>>

(* Other clients of the allocator take frames, write to them and give them *)
(* back.                                                                   *)
OthersTake(f) ==
  /\ f \in avail
  /\ avail' = avail \ {f}
  /\ others' = others \cup {f}
  /\ memory' = [memory EXCEPT ![f] = Garbage]
  /\ UNCHANGED <<fresh, call, tlb>>

OthersReturn(f) ==
  /\ f \in others
  /\ others' = others \ {f}
  /\ avail' = avail \cup {f}
  /\ UNCHANGED <<memory, fresh, call, tlb>>

Next ==
  \/ \E page \in Pages, target \in Targets, flags \in Permissions :
       StartMap(page, target, flags)
  \/ FollowEntry \/ TakeTable \/ LinkTable \/ InstallLeaf
  \/ \E page \in Pages : UnmapLeaf(page) \/ TlbFill(page)
  \/ FlushTlb
  \/ \E f \in Frames : OthersTake(f) \/ OthersReturn(f)

Spec == Init /\ [][Next]_vars

------------------------------------------------------------------------------

(* The variables have their types. *)
TypeOK ==
  /\ memory = [f \in Frames \cup DOMAIN BootTables |-> memory[f]]
  /\ \A f \in DOMAIN memory : IsTable(memory[f])
  /\ avail \subseteq Frames /\ others \subseteq Frames
  /\ \A f \in fresh : f \in Frames /\ fresh = {f}
  /\ \/ call = Idle
     \/ call \in [op : {"flush"}, page : Pages]
     \/ call \in [op : {"map"}, page : Pages, target : Targets, flags : Permissions,
                 level : Levels, table : DOMAIN memory]
  /\ \A t \in tlb : t.page \in Pages /\ tlb = {t}

(* A frame in use as a table, or on its way to be one, belongs to the      *)
(* tables alone: it is neither free nor another client's, and one entry    *)
(* links it.  No frame is lost when a map fails half-way, but for frame 0. *)
TablesOwned ==
  LET tables == UNION {Tables(p, n) : p \in Pages, n \in 0 .. Depth}
  IN /\ (tables \cup fresh) \cap (avail \cup others) = {}
     /\ avail \cap others = {} /\ fresh \cap tables = {}
     /\ Frames \ {0} \subseteq avail \cup others \cup fresh \cup tables
     /\ \A p, q \in Pages, n, m \in 0 .. Depth :
          Tables(p, n) \cap Tables(q, m) # {} => SubSeq(p, 1, n) = SubSeq(q, 1, m)

(* The TLB never answers with a translation that is gone, except for the   *)
(* page whose unmap has not yet flushed it.                                *)
TlbCoherent ==
  \A t \in tlb : \/ Translate(memory, t.page) = {t.to}
                 \/ call.op = "flush" /\ call.page = t.page

(* The tables implement an address space: a map takes effect as a whole or *)
(* not at all, with the frame and the rights asked for, whatever frames    *)
(* the new tables came from, and no other page's translation changes.      *)
Translations(mem) == [p \in Pages |-> Translate(mem, p)]

Space == INSTANCE AddressSpace WITH
  BootMapping <- Translations(BootMemory),
  mapping     <- Translations(memory)

ImplementsAddressSpace == Space!Spec
===============================================================================
