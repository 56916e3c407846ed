SPECIFICATION Spec
CONSTANTS
  Keys = {k1, k2}
  Reference = k1
  None = None
  Requests = {r1, r2}
SYMMETRY RequestSymmetry
INVARIANTS
  KeysAgree
  InsertsOnItsKey
PROPERTIES
  ManualWins
  NeverUnguarded
