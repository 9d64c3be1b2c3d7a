\* Four TODOs, two of them there at first; three commands or reads, two of
\* each at a time.
SPECIFICATION Spec
CONSTANTS
  MaxTodo = 4
  Existing = 2
  MaxTitle = 3
  Key = {k1}
  Recipient = {ann}
  Owner = own
  Client = {c1, c2}
  MaxRequests = 3
  Reader = {r1, r2}
  PageSize = 1
  NoVersion = NoVersion
INVARIANTS
  KeyAnswersOnce
  FreshReads
  WalkComplete
PROPERTIES
  CompletionsCounted
  WithdrawnStaysOut
SYMMETRY Symmetry
CHECK_DEADLOCK FALSE
