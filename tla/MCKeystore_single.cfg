CONSTANTS
  a = a
  b = b
  none = none
  i1 = i1
  i2 = i2
  i3 = i3
  Names <- AnyNames
  NoName = none
  Inodes <- ThreeInodes
  NoFile = nofile
  Writers = {w1}
  Readers = {r1}
  FileSystems <- Both
  MaxCommands = 4
  MaxAborts = 2
SPECIFICATION Spec
CHECK_DEADLOCK FALSE
INVARIANT StoreWellFormed
INVARIANT LiveFileWhole
INVARIANT KeptOnDisk
INVARIANT KeptInSomeFile
PROPERTY AtomicStore
