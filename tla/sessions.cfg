SPECIFICATION Spec
CONSTANTS
  Session = {s1, s2}
  All = All
  Millis = 2
  Ttl = 2
  TokenLife = 2
  MaxTime = 4
  MaxRequests = 4
  MaxLinks = 2
  MaxChain = 2
  MaxRepeats = 1
SYMMETRY Symmetry
CHECK_DEADLOCK FALSE
INVARIANTS
  RevokedRefused ActiveAccepted OldPasswordOut OneResetPerLink
PROPERTY RevokedForGood
