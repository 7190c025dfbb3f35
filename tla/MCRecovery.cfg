CONSTANTS
  a = a
  b = b
  c = c
  x = x
  Txn = {1, 2}
  Key = {a, b, c}
  File <- TwoFiles
  Value <- Values
  MaxWrites = 2
  MaxFailures = 1
SPECIFICATION Spec
SYMMETRY Symmetry
INVARIANTS
  CommittedIsStored
  DecidedOnce
CHECK_DEADLOCK FALSE
