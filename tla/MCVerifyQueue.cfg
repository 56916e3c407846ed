SPECIFICATION FairSpec
CONSTANTS
  Known = {a}
  Unknown = {u}
  MaxRequests = 3
  MaxNames = 2
  MaxBatches = 1
INVARIANTS
  PendingIsListed
  VerifiedInOrder
PROPERTIES
  OverfullOnlyOfPending
  BatchFinishes
CHECK_DEADLOCK FALSE
