SPECIFICATION Spec
CONSTANTS
  Jobs = {j1}
  Runs = {r1, r2}
  Requests = {q1}
  NoOne = NoOne
  MaxAttempts = 2
  MaxMails = 2
SYMMETRY Symmetry
INVARIANTS
  TypeOK
  OneSender
  AttemptsAreBounded
  EvidenceIsProved
PROPERTY
  EndedIsFinal
CHECK_DEADLOCK FALSE
