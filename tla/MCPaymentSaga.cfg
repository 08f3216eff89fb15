SPECIFICATION RailsSpec
CONSTANTS
  Sessions = {s1, s2}
  NoSession = NoSession
  Workers = {w1, w2}
  Admins = {alice}
  Approvals = {a1}
  NoApproval = NoApproval
  NoAdmin = NoAdmin
  MaxPortal = 1
  Deliveries = {}
  Clerks = {}
SYMMETRY Symmetry
INVARIANTS
  SagaInv
  PublishedOnlyAfterAcceptance
  RecordFollowsStripe
  PreparedStands
PROPERTIES
  FailuresCleanUp
CHECK_DEADLOCK FALSE
