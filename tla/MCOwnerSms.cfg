SPECIFICATION FairSpec
CONSTANTS
  Alerts = {a1}
  Diagnostics = {d1}
  Workers = {w1, w2}
  Generations = {g1}
  Phones = {p1, p2}
  NoOne = NoOne
  MaxTime = 2
INVARIANTS
  TypeOK
  AlertsAreProved
  SummaryIsLatest
PROPERTIES
  DispatchesOnce
  OutboxSettles
CHECK_DEADLOCK FALSE
