SPECIFICATION Spec
CONSTANTS
  Creation = create
  Refreshes = {}
  Executions = {e1, e2}
  Leases = {l1, l2}
  NoOne = NoOne
  MaxAttempts = 2
  MaxAuthority = 1
  MaxVersion = 0
INVARIANTS
  QuarantineExposesNothing
CHECK_DEADLOCK FALSE
