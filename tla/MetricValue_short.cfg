\* Every sorted file of up to four records, every window, every metric.
CONSTANTS
  Modulus = 256  MaxRecords = 4  MaxTime = 3
  Files <- SortedFiles
  Starts = {0, 1, 2, 3, 4}  Ends = {1, 2, 3, 4, 5}
  Radix = 10  ScaleUpTo = 100  MaxMantissa = 429  MinExponent = 2  One = 10
SPECIFICATION FairVSpec
INVARIANTS
  VTypeOK ReadsInBounds ScanIsExact KeepsDigits ReturnsWindowValue
PROPERTIES
  Answers
CHECK_DEADLOCK FALSE
