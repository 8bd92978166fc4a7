CONSTANTS
  audio = audio
  render = render
  physics = physics
  shell = shell
  backup = backup
  None = None
  Threads <- MixedThreads
  Attr <- ConstAttr
  MlfqLevels = 2
  MaxTime = 1

SPECIFICATION FairSpec

INVARIANTS
  CurrentHasSlice

PROPERTIES
  NeverPassedOver
  AboveBottomRuns
