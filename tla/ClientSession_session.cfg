\* Three typed queries, two more at the end of the input.
CONSTANTS
  Me = Me
  Lines = 3  MaxQueries = 5
  BodySizes = {0, 1, 3}
  Garbage <- MCGarbage
  OneShot = FALSE
SPECIFICATION FairSpec
INVARIANTS
  Drained
PROPERTIES
  PlaysByService WaitEnds GoneServerEndsClient
CHECK_DEADLOCK FALSE
