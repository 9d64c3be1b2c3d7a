\* The row that the erasure inserts lacks a column that must not be NULL.
SPECIFICATION FairDeletionSpec
CONSTANTS
  MaxTime = 1
  MaxChanges = 0
  MaxRebuilds = 0
  Skews = TRUE
  PlaceholderFits = FALSE
  Worker = {w1, w2}
  NoWorker = NoWorker
  MaxMishaps = 1
  MaxOthers = 1
  Mixed = FALSE
PROPERTY Completes
CHECK_DEADLOCK FALSE
