\* A turn is created while an older delivery is still being injected.
CONSTANTS
  Deliveries = {d1, d2}
  Runs = {r1}
  BodySizes = {1}
  MaxQueuedDeliveries = 2
  MaxQueuedBytes = 3
  MaxAsks = 0
  MaxInFlight = 2
  StartWhileOvertaken = TRUE
  ClaimWhileCreating = FALSE
SPECIFICATION Spec
CHECK_DEADLOCK FALSE
INVARIANTS
  QueuedExactlyOnce
