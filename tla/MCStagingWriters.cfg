SPECIFICATION Spec
CONSTANTS
  MaxRow = 2
  MaxRuns = 2
  MaxOrphans = 1
INVARIANTS
  
  TagsAreTrue
  NothingBehindCursor

  
CHECK_DEADLOCK FALSE
