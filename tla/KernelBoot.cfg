CONSTANTS
  MaxOrder = 2
  PageSize = 4
  FakePages = 4
  MaxFaults = 2
  MemoryMap <- ConstMemoryMap

SPECIFICATION Spec

INVARIANTS
  StatsExact
  OnlyUsableMemory
