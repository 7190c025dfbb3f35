CONSTANTS
  Participant = {p1, p2}
  LocalAborts = {p1}
  AckRetries = 1
  MaxFailures = 1

SPECIFICATION FairSpec

CHECK_DEADLOCK FALSE

INVARIANTS
  OneDecision
  AckedMeansSettled

PROPERTIES
  EveryCallReturns
  ImplementsAtomicCommit
