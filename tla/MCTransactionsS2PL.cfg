CONSTANTS
  Txn = {1, 2}
  Resource = {r1, r2}
  Nesting = TRUE
  Timeouts = TRUE
  Detection = FALSE
SPECIFICATION Spec
SYMMETRY Symmetry
INVARIANTS
  ReadsStayCurrent
  ReadsCommitted
  AllOrNothing
CHECK_DEADLOCK FALSE
