CONSTANTS
  Node = {0, 1, 2}
  NoLeader = NoLeader
  MaxEvents = 3
  Member = {0, 1}
  MaxFailures = 2
  MaxSlow = 2
  Watcher = 0
  Watched = 1
SPECIFICATION Spec
INVARIANTS
  LeaderIsHighest
PROPERTIES
  AllAgree
  LeaderReplaced
  DownIsSuspected
  SuspicionHeals
CHECK_DEADLOCK FALSE
