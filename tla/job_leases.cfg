\* Two replicas share an owner name and may die, a third lives under its own; the job
\* takes longer than its cadence.
SPECIFICATION Spec
CONSTANTS
  r1 = r1
  r2 = r2
  r3 = r3
  Replicas <- MCReplicas
  Steady = r3
  Owner <- MCOwner
  Goroutines = {1, 2, 3}
  Cadence = 2
  Timeout = 2
  Grace = 0
  LeaseTTL = 3
  MarkDelay = 1
  MaxMisses = 1
INVARIANTS TypeOK NamesExclude RunsAreSpaced FailoverIsBounded
PROPERTIES JobKeepsRunning
