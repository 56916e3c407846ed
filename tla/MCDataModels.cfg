SPECIFICATION Spec
CONSTANTS
  Names = {x, y}
  Attrs = {a, b}
  Required = {b}
  None = None
  EditGroups = {{"name", "attrs"}, {"type"}, {"active"}}
  MaxModels = 2
  Calls = {c1, c2, c3}
SYMMETRY CallSymmetry
INVARIANTS
  TableFitsModel
  SharedOnlyIfMoved
  StoredIffLogged
PROPERTIES
  DeactivationSticks
  ImplementsRegistry
CHECK_DEADLOCK FALSE
