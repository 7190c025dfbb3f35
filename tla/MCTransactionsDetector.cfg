CONSTANTS
  Txn = {1, 2}
  Resource = {r1, r2}
  Nesting = FALSE
  Timeouts = FALSE
  Detection = TRUE
SPECIFICATION FairSpec
INVARIANTS
  ReadsStayCurrent
  VictimIsBlocked
PROPERTY
  DeadlocksAreBroken
CHECK_DEADLOCK FALSE
