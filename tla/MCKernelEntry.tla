----------------------------- MODULE MCKernelEntry -----------------------------
(* Every exception, and one more inside the report of the first.           *)
EXTENDS KernelEntry

ConstVectors == <<0 .. 31, {2, 14}>>
ConstNumbers == {1, 3}
ConstLengths == {12}
==============================================================================
