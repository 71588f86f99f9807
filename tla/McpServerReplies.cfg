\* Three lines of every kind, every order of their goroutines, failures and cancellation.
CONSTANTS
  l1 = l1  l2 = l2  l3 = l3
  NoLine = NoLine
  Lines = {l1, l2, l3}
  Kinds = {"malformed", "notification", "local", "tool"}
  InputCloses = TRUE
  Cancels = TRUE
SPECIFICATION FairSpec
\* Serve may have returned with every goroutine done.
CHECK_DEADLOCK FALSE
INVARIANTS
  OneReplyEach
  FirstFailureKept
  ReturnHonest
PROPERTIES
  CancelReturns
