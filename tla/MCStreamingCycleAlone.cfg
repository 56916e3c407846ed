SPECIFICATION FairSpec
CONSTANTS
  Keys = {k1, k2}
  Cyclers = {loop}
  Loop = loop
  Lookback = 1
  Julian <- NewYear
  MaxDay = 3
  MaxVersion = 2
  Disturbances = {"marker_change"}
INVARIANTS NothingMissed
PROPERTIES RowsArrive
CHECK_DEADLOCK FALSE
