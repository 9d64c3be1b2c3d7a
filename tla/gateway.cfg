\* Two requests under both limits and one under the general one; windows of three
\* ticks, seconds of two, and clocks up to three ticks apart.
SPECIFICATION Spec
CONSTANTS
  AuthRequest = {a1, a2}
  TodoRequest = {t}
  Limit <- Limits
  Window = 3
  Second = 2
  Ttl = 2
  MaxAge = 2
  AllowedSkew = 1
  Timeout = 2
  Skew <- Skews
  MaxTime = 4
  MaxFaults = 1
INVARIANTS
  WithinLimit
  HonestRetryAfter
  BegunInTime
  RefusedForCause
SYMMETRY Symmetry
CHECK_DEADLOCK FALSE
