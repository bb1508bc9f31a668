\* One intent from its creation, two events, two overlapping checkout operations.
SPECIFICATION SystemSpec
CONSTANTS
  Intents = {i1}
  Events = {e1, e2}
  IngressHandlers = {h1}
  ReplayHandlers = {}
  Workers = {}
  Crashable = {}
  LeftOpen = {}
  MaxFaults = 0
  Operations = {q1, q2}
INVARIANTS SystemTypeOK SaleNeedsPayment PaidOrderIsSettled EndersKeepHolds TerminalIsVerified
PROPERTIES SettlementIsFinal
SYMMETRY OperationSymmetry
