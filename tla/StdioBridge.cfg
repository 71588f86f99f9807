\* Two frames each way, every end in every order, blocked outputs and peers.
CONSTANTS
  MaxFrames = 2
SPECIFICATION BridgeSpec
\* The bridge and its goroutines end.
CHECK_DEADLOCK FALSE
INVARIANTS
  ResultTrue
PROPERTIES
  BridgeReturns
  NothingLeft
