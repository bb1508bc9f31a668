\* One PAID event and one checkout operation that overlap.
SPECIFICATION SystemSpec
CONSTANTS
  Intents = {i1}
  Events = {e1}
  IngressHandlers = {h1}
  ReplayHandlers = {}
  Workers = {}
  Crashable = {}
  LeftOpen = {}
  MaxFaults = 0
  Operations = {q1}
INVARIANTS PaidEventStands
