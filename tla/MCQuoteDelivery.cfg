SPECIFICATION Spec
CONSTANTS
  Invocations = {i1, i2}
  NoInvocation = NoInvocation
  Payloads = {p1, p2}
  NoPayload = NoPayload
  MaxGeneration = 2
  MaxRevision = 3
SYMMETRY Symmetry
INVARIANTS
  TypeOK
  OneMailPerKey
  PortalShowsWhatWasSent
  PaymentFollowsDelivery
PROPERTIES
  AcceptanceIsFinal
CHECK_DEADLOCK FALSE
