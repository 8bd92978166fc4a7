CONSTANTS
  Callers = {c1, c2}
  Caps = {Gpu, Audio}
  MaxPid = 2
  MaxTid = 3
  MaxToken = 2

SPECIFICATION TasksSpec

INVARIANT
  ThreadsAgree
  TokensExact

SYMMETRY Alike

CHECK_DEADLOCK FALSE
