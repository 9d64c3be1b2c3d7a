SPECIFICATION FairDelivery
CONSTANTS
  TodoEvent = {t}
  AccountEvent = {}
  TodoPublisher = {p1}
  AccountPublisher = {}
  NoPublisher = NoPublisher
  MaxFaults = 1
  MaxRetries = 1
  Unfit = {}
  Mailer = {c1}
  Operator = Operator
  Nobody = Nobody
  MaxAttempts = 1
  Quota = 1
  MaxReplays = 0
CHECK_DEADLOCK FALSE
PROPERTIES
  CommittedPublished
