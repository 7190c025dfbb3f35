CONSTANTS
  Node = {0, 1, 2}
  Sequencer = 0
  Data = {1}
  MaxSent = 3
  MaxLost = 1
  Peer = {0, 1, 2}
  FirstLeader = 2
  MaxRounds = 2
  MaxChanges = 1
SPECIFICATION Spec
INVARIANTS
  FifoOrder
  FifoGapExplained
  CausalOrder
  VectorsTellCausality
  CausalGapExplained
  TotalGapExplained
  EnoughAccepted
  OneValuePerRound
  EverybodyTold
PROPERTY
  ImplementsTotalOrder
CHECK_DEADLOCK FALSE
