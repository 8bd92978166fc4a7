CONSTANTS
  Writers = {w1}
  Targets = {5, 100}
  MaxEntries = 6
  Data = {a, b}
  Empty = a
  MaxSteps = 4

SPECIFICATION Spec

INVARIANTS
  ReplayExact
  RefcountsConserved

CHECK_DEADLOCK FALSE
