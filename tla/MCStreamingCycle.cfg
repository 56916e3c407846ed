SPECIFICATION Spec
CONSTANTS
  Keys = {k1, k2}
  Cyclers = {loop, once}
  Loop = loop
  Lookback = 0
  Julian <- NewYear
  MaxDay = 2
  MaxVersion = 1
  Disturbances = {"unknown_exit", "marker_change"}
SYMMETRY KeySymmetry
INVARIANTS CursorIsStaged CursorInSpaceWhenSafe
CHECK_DEADLOCK FALSE
