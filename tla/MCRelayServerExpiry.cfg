CONSTANTS
  t1 = t1  t2 = t2  s1 = s1  h1 = h1  q1 = q1  Null = Null
  slot1 = slot1  slot2 = slot2
  TransactionIds = {t1}
  Bindings <- OneOperation
  StateValues = {s1}
  Challenges = {h1}
  Requests = {q1}
  Results <- OneResult
  Times <- TimesTo2
  Lifetimes <- LifetimeOne
  MaximumRows = 1
  MaxSerial = 3
  Slots = {slot1}
  MaxUptime = 3
SPECIFICATION ServerSpec
INVARIANT LiveRowsAreTimed
PROPERTY SecretsExpire
CHECK_DEADLOCK FALSE
