SPECIFICATION Spec
CONSTANTS
  Requests = {h1, h2, h3}
  NoOne = NoOne
  MaxRevision = 2
  MaxAuthority = 2
INVARIANTS
  TypeOK
  UsableIsActive
  ShownWasIssued
CHECK_DEADLOCK FALSE
