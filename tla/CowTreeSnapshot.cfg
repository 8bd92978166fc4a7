CONSTANTS
  Data = {a, b}
  Empty = a
  MaxSteps = 6

SPECIFICATION Spec

INVARIANT
  SnapshotImmutable

CHECK_DEADLOCK FALSE
