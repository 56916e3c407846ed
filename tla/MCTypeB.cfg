SPECIFICATION QuerySpec
CONSTANTS
  b = b
  x = x
  y = y
  z = z
  null = null
  Null = null
  Base = b
  Tables <- TablesDef
  Name <- NameDef
  Kind <- KindDef
  Hows <- HowsDef
  Mapped <- MappedDef
  Contents <- ContentsDef
  MaxEdges = 3
INVARIANTS
  PlansTrees
  SqlMirrorsPlan
  OneRowPerKey
  NothingLost
CHECK_DEADLOCK FALSE
