\* Two requests with the same or with different ids, cancelled and stopped at any time.
CONSTANTS
  Requests = {q1, q2}
  Keys = {k1, k2}
  LineSizes = {1}
  ReplySizes = {1, 2}
  MaxFrameBytes = 1
  MaxResponseWork = 2
  MaxRetainedBytes = 270
  NoRequest = NoRequest
SPECIFICATION FairSpec
INVARIANTS
  PendingExact
  AnsweredOnce
PROPERTIES
  StopLeadsToReturn
