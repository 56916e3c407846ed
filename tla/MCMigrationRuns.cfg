SPECIFICATION FairSpec
CONSTANTS
  rows = rows
  MaxRequests = 2
  Parts <- ThePart
  Disturbances = {"persist_fails", "docker_dies", "unknown_exit", "orphan"}
INVARIANTS SingleFlight RowFollowsProgress SuccessIsWhole BlockedOnlyByThread
PROPERTIES NeverBlockedForGood
CHECK_DEADLOCK FALSE
