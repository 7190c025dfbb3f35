CONSTANTS
  Txn = {1, 2}
  Resource = {r1, r2}
  Nesting = FALSE
  Timeouts = FALSE
  Detection = TRUE
SPECIFICATION Spec
SYMMETRY Symmetry
INVARIANTS
  FinishedHoldNothing
CHECK_DEADLOCK FALSE
