SPECIFICATION FairSpec
CONSTANTS
  Jobs = {j1}
  Runs = {r1}
  Requests = {q1}
  NoOne = NoOne
  MaxAttempts = 2
  MaxMails = 1
PROPERTY
  LeaseEnds
CHECK_DEADLOCK FALSE
