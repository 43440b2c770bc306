\* Queries for some of the metrics.
CONSTANTS
  Modulus = 8  MaxResults = 24
  Queries <- AllQueries
SPECIFICATION Spec
INVARIANTS
  SetsAreWhole
CHECK_DEADLOCK FALSE
