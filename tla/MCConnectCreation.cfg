SPECIFICATION FairSpec
CONSTANTS
  Creation = create
  Refreshes = {}
  Executions = {e1, e2}
  Leases = {l1, l2}
  NoOne = NoOne
  MaxAttempts = 2
  MaxAuthority = 2
  MaxVersion = 0
INVARIANTS
  OneAccount
  BindingIsClaimed
PROPERTIES
  CommandsEnd
CHECK_DEADLOCK FALSE
