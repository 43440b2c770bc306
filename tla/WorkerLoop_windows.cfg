\* Every query, those that stand still or wrap around included.
CONSTANTS
  Modulus = 8  MaxResults = 24
  Queries <- AllQueries
SPECIFICATION FairSpec
INVARIANTS
  AssertHolds OneIntervalPerWindow
  WindowsWithinQuery  RoundTrip
PROPERTIES
  Terminates
CHECK_DEADLOCK FALSE
