\* The processor halts, or is reset, for good.
CONSTANTS
  Vectors <- ConstVectors
  Numbers <- ConstNumbers
  Lengths <- ConstLengths
  Word = 16

SPECIFICATION Spec

CHECK_DEADLOCK FALSE

INVARIANTS
  ReportFaithful
  NoLostFault
  SyscallTransparent

PROPERTY
  NeverSpins
