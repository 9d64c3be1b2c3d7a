SPECIFICATION DeliverySpec
CONSTANTS
  TodoEvent = {t, u, x}
  AccountEvent = {a}
  TodoPublisher = {p1, p2}
  AccountPublisher = {q}
  NoPublisher = NoPublisher
  MaxFaults = 2
  MaxRetries = 1
  Unfit = {a, x}
  Mailer = {c1, c2}
  Operator = Operator
  Nobody = Nobody
  MaxAttempts = 2
  Quota = 1
  MaxReplays = 1
SYMMETRY Symmetric
CONSTRAINT Explored
CHECK_DEADLOCK FALSE
INVARIANTS
  NothingLost
  RetriesBounded
  MailDriven
  OneMail
  NoMailToDeleted
