SPECIFICATION WrapSpec
CONSTANT MaxKeys = 3
CHECK_DEADLOCK FALSE
INVARIANT FlagsKept
