SPECIFICATION Spec
CONSTANTS
  Creation = create
  Refreshes = {r1, r2}
  Executions = {e1, e2}
  Leases = {l1}
  NoOne = NoOne
  MaxAttempts = 1
  MaxAuthority = 1
  MaxVersion = 1
SYMMETRY Symmetry
INVARIANTS
  TypeOK
  ReceiptsAreEarned
  EffectsAreFenced
PROPERTIES
  ObservationsAdvance
CHECK_DEADLOCK FALSE
