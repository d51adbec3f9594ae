CONSTANTS
  a = a
  b = b
  none = none
  i1 = i1
  i2 = i2
  i3 = i3
  Names <- TwoNames
  NoName = none
  Inodes <- ThreeInodes
  NoFile = nofile
  Writers = {w1, w2}
  Readers = {r1}
  FileSystems <- Posix
  MaxCommands = 2
  MaxAborts = 0
SPECIFICATION Spec
CHECK_DEADLOCK FALSE
INVARIANT PosixNeverRetries
