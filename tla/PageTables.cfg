CONSTANTS
  Depth = 2
  Entries = 2
  Root = 10
  BootTables <- ConstBootTables
  Frames = {0, 1, 2, 3}
  Pages <- ConstPages
  Targets = {30}
  Permissions <- ConstPermissions

SPECIFICATION Spec

INVARIANTS
  TablesOwned
  TlbCoherent

PROPERTY
  ImplementsAddressSpace
