\* One intent, two events; an ingress handler, an administrator's replay and the
\* worker, any of which may die.
SPECIFICATION Spec
CONSTANTS
  Intents = {i1}
  Events = {e1, e2}
  IngressHandlers = {h1}
  ReplayHandlers = {r1}
  Workers = {w1}
  Crashable = {h1, r1, w1}
  LeftOpen = {"REQUIRES_PAYMENT", "PENDING", "UNKNOWN_OUTCOME", "EXPIRE_PENDING", "CANCEL_PENDING"}
  MaxFaults = 1
INVARIANTS TypeOK SaleNeedsPayment RowsAgree EffectsFollowSettlement ReleaseNeedsEvidence
PROPERTIES PaidIsFinal ImplementsVerifiedPayment
