CONSTANTS
  Site = {0, 1, 2, 3}
  NoSite = NoSite
  Quorum <- QuorumsOfFour
  MaxTs = 2
  MaxCalls = 2
  Impatient = {}
  Overtaken = {0, 1, 2, 3}
SPECIFICATION MaekawaSpec
INVARIANT OneSiteIn
CHECK_DEADLOCK FALSE
