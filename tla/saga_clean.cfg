SPECIFICATION FairSpec
CONSTANTS
  Worker = {w1, w2}
  NoWorker = NoWorker
  NSteps = 3
  Remote = {2, 3}
  MaxAttempts = 3
  MaxTriggers = 2
  MaxAbandons = 2
  MaxOverruns = 0
  MaxOrphans = 0
PROPERTIES
  ImplementsProvisioning
  Terminates
CHECK_DEADLOCK FALSE
