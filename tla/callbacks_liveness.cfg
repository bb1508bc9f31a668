\* The worker survives; the ingress handler dies or a call fails, once.
SPECIFICATION Spec
CONSTANTS
  Intents = {i1}
  Events = {e1, e2}
  IngressHandlers = {h1}
  ReplayHandlers = {}
  Workers = {w1}
  Crashable = {h1}
  LeftOpen = {"PENDING", "UNKNOWN_OUTCOME"}
  MaxFaults = 1
PROPERTIES AcceptedIsResolved PaidIsBooked
