\* The worker dies, or calls fail: two faults.
SPECIFICATION Spec
CONSTANTS
  Intents = {i1}
  Events = {e1}
  IngressHandlers = {h1}
  ReplayHandlers = {}
  Workers = {w1}
  Crashable = {w1}
  LeftOpen = {"PENDING", "UNKNOWN_OUTCOME"}
  MaxFaults = 2
PROPERTIES PaidIsBooked
