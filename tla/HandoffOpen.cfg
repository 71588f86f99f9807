\* Every interleaving the mutex allows: overlapping deliveries, claims at any time.
CONSTANTS
  Deliveries = {d1, d2, d3}
  Runs = {r1, r2}
  BodySizes = {1, 2}
  MaxQueuedDeliveries = 2
  MaxQueuedBytes = 4
  MaxAsks = 1
  MaxInFlight = 2
  StartWhileOvertaken = TRUE
  ClaimWhileCreating = TRUE
SPECIFICATION Spec
SYMMETRY Symmetry
\* A panic leaves h.mu locked, and the calls of an instance come to an end.
CHECK_DEADLOCK FALSE
INVARIANTS
  Accounting
  FifoOrder
  ReceiptHonest
