SPECIFICATION MCSpec
CONSTANTS
  Rows = {r1, r2}
  Reloaders = {loop, once}
  Loop = loop
  MaxVersions = 2
  Disturbances = {"count_error", "unknown_exit", "orphan"}
INVARIANTS
  LiveIsSnapshot
  TempOnlyInCycle
PROPERTIES
  PublishesInOrder
  ReloadCatchesUp
