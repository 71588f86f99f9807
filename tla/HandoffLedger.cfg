\* Turns are created, and claims made, only while no queued delivery is overtaken;
\* interrupt requests at every point of two runs.
CONSTANTS
  Deliveries = {d1, d2}
  Runs = {r1, r2}
  BodySizes = {1}
  MaxQueuedDeliveries = 2
  MaxQueuedBytes = 3
  MaxAsks = 2
  MaxInFlight = 2
  StartWhileOvertaken = FALSE
  ClaimWhileCreating = FALSE
SPECIFICATION FairSpec
\* The calls of an instance come to an end.
CHECK_DEADLOCK FALSE
INVARIANTS
  QueuedExactlyOnce
  InterruptOnce
PROPERTIES
  ImplementsLedger
  InterruptedRunReturns
