\* Legacy installations of every product, changed by their user while the tool runs twice.
CONSTANTS
  Installations <- Sample
  ServiceExe = "root"
  MaxChanges = 1
  MaxAttempts = 2
SPECIFICATION Spec
\* The last invocation ends.
CHECK_DEADLOCK FALSE
INVARIANTS
  NoDanglingRegistration
  Restorable
  RerunIsNoOp
PROPERTIES
  NoOldConfig
  OnlyLegacyRetired
