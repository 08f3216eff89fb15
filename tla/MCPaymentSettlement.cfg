SPECIFICATION RailsFairSpec
CONSTANTS
  Sessions = {s1}
  NoSession = NoSession
  Workers = {w1}
  Admins = {alice}
  Approvals = {a1}
  NoApproval = NoApproval
  NoAdmin = NoAdmin
  MaxPortal = 1
  Deliveries = {d1, d2}
  Clerks = {c1}
INVARIANTS
  PaidEventAccounted
PROPERTIES
  AuditIsFinal
  SettlementIsFinal
  PaidIsRecorded
CHECK_DEADLOCK FALSE
