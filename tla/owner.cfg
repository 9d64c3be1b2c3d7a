\* Two e-mail changes under three stamps, one rebuild and the deletion, every
\* message delivered in any order and any number of times.
SPECIFICATION Spec
CONSTANTS
  MaxTime = 4
  MaxChanges = 2
  MaxRebuilds = 1
  Skews = FALSE
  PlaceholderFits = TRUE
INVARIANTS
  ProjectionAgrees
  InactiveForCause
  ErasedStaysErased
CHECK_DEADLOCK FALSE
