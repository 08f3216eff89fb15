SPECIFICATION Spec
CONSTANTS
  Invocations = {i1, i2}
  NoInvocation = NoInvocation
  Payloads = {p1, p2}
  NoPayload = NoPayload
  MaxGeneration = 2
  MaxRevision = 2
SYMMETRY Symmetry
INVARIANTS
  ReviewIsPossible
CHECK_DEADLOCK FALSE
