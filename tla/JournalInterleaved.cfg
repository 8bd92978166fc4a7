CONSTANTS
  Writers = {w1, w2}
  Targets = {5}
  MaxEntries = 5

SPECIFICATION Spec

INVARIANT
  UncommittedInvisible

CHECK_DEADLOCK FALSE
