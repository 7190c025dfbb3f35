CONSTANTS
  a = a
  b = b
  c = c
  x = x
  Txn = {1, 2}
  Key = {a}
  File <- OneKey
  Value <- Values
  MaxWrites = 2
  MaxFailures = 2
SPECIFICATION Spec
INVARIANTS
  CommittedIsStored
CHECK_DEADLOCK FALSE
