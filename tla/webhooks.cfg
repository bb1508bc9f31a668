\* One delivery of three attempts, two workers, an administrator who retries once.
SPECIFICATION Spec
CONSTANTS
  Deliveries = {d1}
  Workers = {w1, w2}
  Admins = {a1}
  MaxAttempts = 3
  MaxWaves = 1
  MaxFaults = 1
INVARIANTS TypeOK DeliveredWasAccepted PostsAreBounded OpenHasWork
PROPERTIES DeliveriesEnd
\* A delivery comes to an end.
CHECK_DEADLOCK FALSE
