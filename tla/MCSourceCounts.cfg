SPECIFICATION Spec
CONSTANTS
  Counts = {c1, c2}
  NoCount = NoCount
  Verifiers = {worker}
  Refresher = refresher
  MaxRuns = 1
SYMMETRY CountSymmetry
INVARIANTS ExactIsConfirmed
PROPERTIES FailureKeepsCount StampsAreTrue
