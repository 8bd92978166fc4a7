CONSTANTS
  MaxOrder = 2
  Regions <- ConstRegions

SPECIFICATION Spec

INVARIANTS
  TypeOK
  NoPageTwice
  CountersExact
  NoPageLost
  FullyCoalesced
  LoopsAgree

PROPERTY
  ImplementsOwnership
