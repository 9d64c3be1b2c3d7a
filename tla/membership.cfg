SPECIFICATION Spec
CONSTANTS
  User = {ann, bob}
  Millis = 2
  Ttl = 1
  TokenLife = 1
  Grants = {"administrator", "viewer"}
  MaxTime = 3
  MaxRequests = 3
  MaxDepartures = 1
  MaxRepeats = 1
  MaxSkews = 0
  Ties = FALSE
  MaxExpiries = 1
SYMMETRY Symmetry
CHECK_DEADLOCK FALSE
INVARIANTS
  AlwaysAdministered ProjectionAgrees RemovedStaysOut OldTokensStayOut
