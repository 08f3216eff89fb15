SPECIFICATION RailsSpec
CONSTANTS
  Sessions = {s1, s2}
  NoSession = NoSession
  Workers = {w1}
  Admins = {alice}
  Approvals = {a1, a2}
  NoApproval = NoApproval
  NoAdmin = NoAdmin
  MaxPortal = 2
  Deliveries = {}
  Clerks = {c1}
SYMMETRY RotationSymmetry
INVARIANTS
  RailsTypeOK
  OneCharge
  PaidStaysRecordable
  SessionInv
PROPERTIES
  SessionsSucceed
  CollectsOnce
CHECK_DEADLOCK FALSE
