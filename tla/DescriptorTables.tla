---------------------------- MODULE DescriptorTables ----------------------------
(***************************************************************************)
(* The tables the processor reads when control changes hands               *)
(* (zerox-kernel/src/arch/x86_64/gdt.rs, idt.rs, tss.rs): how the kernel    *)
(* encodes them, and how the processor takes them apart again.             *)
(*                                                                         *)
(* An address is its eight bytes, low byte first, each known only by its   *)
(* place, so that a field put together from other bytes is another address. *)
(* A segment descriptor is the set of its access and flag bits.            *)
(***************************************************************************)
EXTENDS Integers, Sequences

Address(symbol) == [i \in 1 .. 8 |-> <<symbol, i>>]

-----------------------------------------------------------------------------
(* gdt.rs *)

KERNEL_CODE == 8
KERNEL_DATA == 16
USER_DATA == 24 + 3
USER_CODE == 32 + 3
TSS_SELECTOR == 40
STAR_SYSRET_BASE == KERNEL_DATA
STAR_SYSCALL_BASE == KERNEL_CODE

NULL == {}
Flat(access, flags) == access \cup flags
KernelCode == Flat({"present", "type", "exec", "rw"}, {"granularity", "long"})
KernelData == Flat({"present", "type", "rw"}, {"granularity", "db"})
UserCode == Flat({"present", "dpl3", "type", "exec", "rw"}, {"granularity", "long"})
UserData == Flat({"present", "dpl3", "type", "rw"}, {"granularity", "db"})

(* TssDescriptor::new: the base is cut into bits 0-23, 24-31 and 32-63. *)
TssLow(base) ==
  [kind |-> {"present", "tss"}, base_low |-> SubSeq(base, 1, 3), base_mid |-> SubSeq(base, 4, 4)]
TssHigh(base) == [base_high |-> SubSeq(base, 5, 8)]

(* Mutant of GdtNew: user code before user data. *)
GdtCodeFirst(tss) ==
  [segments |-> <<NULL, KernelCode, KernelData, UserCode, UserData>>,
   system   |-> [low |-> TssLow(tss), high |-> TssHigh(tss)]]

(* Gdt::new: five segments and the TSS's two words after them. *)
GdtNew(tss) ==
  [segments |-> <<NULL, KernelCode, KernelData, UserData, UserCode>>,
   system   |-> [low |-> TssLow(tss), high |-> TssHigh(tss)]]

(* What the processor finds at a selector. *)
Segment(gdt, selector) ==
  IF selector \div 8 < Len(gdt.segments) THEN gdt.segments[selector \div 8 + 1] ELSE NULL
IsCode64(descriptor) == {"present", "type", "exec", "long"} \subseteq descriptor
Ring(descriptor) == IF "dpl3" \in descriptor THEN 3 ELSE 0

(* The address ltr takes out of the two words at the selector. *)
TssBase(gdt, selector) ==
  IF selector \div 8 # Len(gdt.segments) THEN <<>>
  ELSE gdt.system.low.base_low \o gdt.system.low.base_mid \o gdt.system.high.base_high

-----------------------------------------------------------------------------
(* idt.rs *)

Missing == [present |-> FALSE, selector |-> 0, ist |-> 0, dpl |-> 0,
            offset_low |-> <<>>, offset_mid |-> <<>>, offset_high |-> <<>>]

(* IdtEntry::new, always with the interrupt gate the kernel asks for. *)
IdtEntry(handler, selector, ist, dpl) ==
  [present |-> TRUE, selector |-> selector, ist |-> ist % 8, dpl |-> dpl % 4,
   offset_low |-> SubSeq(handler, 1, 2), offset_mid |-> SubSeq(handler, 3, 4),
   offset_high |-> SubSeq(handler, 5, 8)]
Offset(entry) == entry.offset_low \o entry.offset_mid \o entry.offset_high

(* The 32 exceptions; the other 224 vectors stay missing and nothing raises *)
(* them.                                                                   *)
Exceptions == 0 .. 31

(* Mutant of InstallExceptions: the loop stops one short. *)
InstallOneShort == [v \in Exceptions |->
  IF v = 31 THEN Missing ELSE IdtEntry(Address(<<"isr", v>>), KERNEL_CODE, 0, 0)]

InstallExceptions == [v \in Exceptions |-> IdtEntry(Address(<<"isr", v>>), KERNEL_CODE, 0, 0)]

-----------------------------------------------------------------------------
(* tss.rs: a stack pointer of zero is no stack. *)

TssNew == [rsp0 |-> 0, ist |-> [i \in 1 .. 7 |-> 0]]
==============================================================================
