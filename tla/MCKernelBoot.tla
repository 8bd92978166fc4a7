----------------------------- MODULE MCKernelBoot -----------------------------
EXTENDS KernelBoot

(* A machine with three usable ranges, one of them with a tail that is no  *)
(* whole page and one shorter than a page, and a reserved one.             *)
ConstMemoryMap ==
  {[base |-> 4,  len |-> 15, usable |-> TRUE],
   [base |-> 20, len |-> 20, usable |-> TRUE],
   [base |-> 44, len |-> 3,  usable |-> TRUE],
   [base |-> 40, len |-> 4,  usable |-> FALSE]}
===============================================================================
