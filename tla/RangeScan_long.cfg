\* A file of 31 records, whose size the constructor counts as 32.
CONSTANTS
  Modulus = 256
  Files <- LongFile
  Starts = {0, 10, 20, 30}  Ends = {20, 32}
SPECIFICATION Spec
INVARIANTS
  ReadsInBounds
CHECK_DEADLOCK FALSE
