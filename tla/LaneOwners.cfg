\* Two owners in turn, two calls, crashes anywhere; the next owner gets its
\* endpoint, and ServeLane drains.
CONSTANTS
  p1 = p1  p2 = p2  c1 = c1  c2 = c2
  Procs = {p1, p2}
  Calls = {c1, c2}
  NoProc = NoProc
SPECIFICATION FairSpec
\* Every owner may be gone.
CHECK_DEADLOCK FALSE
INVARIANTS
  EndpointOwned
  CallsReachOwner
  AdmittedActionsJoined
PROPERTIES
  OwnerListens
  SessionReleased
  ServeLaneReturns
