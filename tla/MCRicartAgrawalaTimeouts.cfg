CONSTANTS
  r1 = r1
  Node = {0, 1}
  Resource = {r1}
  Wants <- WantsOfTwo
  MaxRequests = 3
  GivesUp = {r1}
SPECIFICATION Spec
INVARIANT MutualExclusion
CHECK_DEADLOCK FALSE
