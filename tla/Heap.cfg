CONSTANTS
  MinBlock = 4
  MinAlign = 2
  Arenas <- ConstArenas
  Layouts <- ConstLayouts

SPECIFICATION Spec

INVARIANTS
  NoByteTwice
  AllocatedExact

PROPERTY
  LossBounded
