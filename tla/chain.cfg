SPECIFICATION AnchorSpec
CONSTANTS
  Submission = {s1, s2}
  Reverting = {s2}
  Erasable = {s2}
  Confirmations = 2
  MaxReorgs = 2
  MaxDepth = 2
  Writer = {w1, w2}
  NoWriter = NoWriter
  NoNonce = NoNonce
  MaxEvents = 3
  NoBlock = NoBlock
  MaxRetries = 2
  MaxFaults = 1
  ScanRange = 2
  MaxRebuilds = 1
  MaxFailedPolls = 1
INVARIANTS
  AnchoredOnce
  NoncesDense
  FinalIsMined
  ProjectionFaithful
CONSTRAINT Explored
SYMMETRY Symmetric
CHECK_DEADLOCK FALSE
