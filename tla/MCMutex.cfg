CONSTANTS
  r1 = r1
  r2 = r2
  Node = {0, 1, 2}
  Resource = {r1, r2}
  Wants <- WantsOfThree
  MaxRequests = 2
  GivesUp = {r2}
  Site = {0, 1, 2}
  NoSite = NoSite
  Quorum <- QuorumsOfThree
  MaxTs = 2
  MaxCalls = 3
  Impatient = {0}
  Overtaken = {}
SPECIFICATION MutexSpec
INVARIANTS
  MutualExclusion
  OneSiteIn
  VotesAreReal
PROPERTIES
  ServedInOrder
  EverybodyGetsIn
  ImplementsCriticalSection
  EverySiteGetsIn
CHECK_DEADLOCK FALSE
