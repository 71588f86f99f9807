\* Three requests that share one id, at most two workers; results too large for
\* the frame limit or for what is left of the budget.
CONSTANTS
  Requests = {q1, q2, q3}
  Keys = {k1}
  LineSizes = {1}
  ReplySizes = {1, 2}
  MaxFrameBytes = 1
  MaxResponseWork = 2
  MaxRetainedBytes = 270
  NoRequest = NoRequest
SPECIFICATION Spec
SYMMETRY Symmetry
INVARIANTS
  BudgetExact
  ReturnedClean
PROPERTIES
  LifetimeOrder
