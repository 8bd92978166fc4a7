CONSTANTS
  boot = boot
  ta = ta
  tb = tb
  Tasks = {boot, ta, tb}
  Boot = boot
  Top <- ConstTop
  StackWords = 8
  Entry <- ConstEntry
  TaskRoot <- ConstRoot
  BootCr3 = 0
  Activities <- ConstActivities
  Junk = 999

SPECIFICATION SwitchSpec

INVARIANT
  OwnAddressSpace
