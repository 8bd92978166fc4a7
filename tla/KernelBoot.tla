------------------------------ MODULE KernelBoot ------------------------------
(***************************************************************************)
(* Bringing the kernel up and using its memory: kmain registers the        *)
(* bootloader's usable memory (zeroxos-boot/src/main.rs), Kernel::boot     *)
(* initialises the subsystems (zerox-kernel/src/lib.rs), and from then on  *)
(* clients allocate, free and fault, each call under the KERNEL mutex.     *)
(* Kernel::boot may be called again at any time: the simulator's demos and *)
(* tests share one KERNEL and each of them boots it.                       *)
(***************************************************************************)
EXTENDS MemoryManager

CONSTANT MaxFaults  (* Bound: copy-on-write faults in a behaviour. *)

VARIABLES
  unread,      (* Memory-map entries kmain has not looked at yet.          *)
  booted,      (* Kernel.booted                                            *)
  boot_result  (* What the last call of boot() returned, "none" before it. *)

bootVars == <<unread, booted, boot_result>>
vars == <<mmVars, bootVars>>

Init ==
  /\ MMInit
  /\ unread \in SUBSET MemoryMap  (* The machine has some of these regions. *)
  /\ booted = FALSE
  /\ boot_result = "none"

(* One turn of kmain's loop over the memory map. *)
ReadEntry ==
  /\ ~booted
  /\ \E e \in unread :
       /\ unread' = unread \ {e}
       /\ IF e.usable THEN RegisterRegion(e.base, e.len) ELSE UNCHANGED mmVars
  /\ UNCHANGED <<booted, boot_result>>

(* Mutant of Boot: a booted kernel is initialised again. *)
BootAgain ==
  /\ unread = {}
  /\ MemoryInit
  /\ IF total_pages' = 0
     THEN boot_result' = "MemoryInit" /\ UNCHANGED booted
     ELSE boot_result' = "Ok" /\ booted' = TRUE
  /\ UNCHANGED unread

(* Kernel::boot.  The init functions of the other subsystems change none of *)
(* this: they log, or fill the driver registry.                            *)
Boot ==
  /\ unread = {}
  /\ IF booted
     THEN boot_result' = "Ok" /\ UNCHANGED <<mmVars, booted>>
     ELSE /\ MemoryInit
          /\ IF total_pages' = 0
             THEN boot_result' = "MemoryInit" /\ UNCHANGED booted
             ELSE boot_result' = "Ok" /\ booted' = TRUE
  /\ UNCHANGED unread

(* The kernel's clients, which come after boot. *)
Client ==
  /\ booted
  /\ \/ AllocPage
     \/ AllocHugePage
     \/ \E b \in held : b[2] = 0 /\ FreePage(b[1])
     \/ \E b \in held : b[2] = MaxOrder /\ FreeHugePage(b[1])
     \/ cow_faults < MaxFaults /\ (\E b \in held : b[2] = 0) /\ CowFault
  /\ UNCHANGED bootVars

Next == ReadEntry \/ Boot \/ Client

Spec == Init /\ [][Next]_vars

------------------------------------------------------------------------------

(* MemoryManager::stats agrees with the allocator once the kernel is up,   *)
(* however often boot() is repeated while pages are out: FREE_MEMORY is    *)
(* the free pages, TOTAL_MEMORY all of them, HUGE_PAGES the huge pages     *)
(* clients hold.                                                           *)
StatsExact ==
  booted =>
    /\ FREE_MEMORY = PageSize * Cardinality(Buddy!FreePages)
    /\ TOTAL_MEMORY = FREE_MEMORY + PageSize * Cardinality(Buddy!HeldPages)
    /\ HUGE_PAGES = Cardinality({b \in held : b[2] = MaxOrder})

(* On a machine with usable memory no byte of a page lies outside the      *)
(* ranges the bootloader called usable (register_region rounds inwards,    *)
(* given page-aligned bases).                                              *)
OnlyUsableMemory ==
  total_pages > 0 /\ added # {FakeRegion} =>
    \A pfn \in Buddy!FreePages \cup Buddy!HeldPages :
      \E e \in Usable : /\ e.base <= pfn * PageSize
                        /\ (pfn + 1) * PageSize <= e.base + e.len
===============================================================================
