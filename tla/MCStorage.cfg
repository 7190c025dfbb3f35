CONSTANTS
  Txn = {1, 2, 3}
  Resource = {r1, r2}
  Nesting = FALSE
  Timeouts = TRUE
  Detection = TRUE
  Client = {1, 2}
  One = r1
SPECIFICATION StorageSpec
INVARIANTS
  LockTypeOK
  LockCompatible
  NoStrandedWaiter
  IndexSound
  HeldLocksAreReal
PROPERTY
  WaitersLeaveOnlyAsHolders
ACTION_CONSTRAINT StorageBounds
CHECK_DEADLOCK FALSE
