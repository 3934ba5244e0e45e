CONSTANTS
  t1 = t1  t2 = t2  s1 = s1  h1 = h1  h2 = h2
  q1 = q1  r1 = r1  Null = Null
  TransactionIds = {t1, t2}
  Bindings <- OneSite
  StateValues = {s1}
  Challenges = {h1, h2}
  Requests = {q1}
  Results = {r1}
  Times <- TimesTo2
  Lifetimes <- LifetimeOne
  MaximumRows = 1
  MaxSerial = 4
  MaxOps = 1
  MaxNow = 2
  MaxRetired = 1
  RegistrationWindow = 1
  MaxTransaction = 1
  MaxConnection = 1
  CallbackWindow = 1
  Kinds = {"account"}
  ClockMaySkew = TRUE
SYMMETRY Symmetry
SPECIFICATION MCSpec
INVARIANTS
  IInv ReleaseFollowsRegistration SingleRelease BeliefsAreTrue
PROPERTIES
  SpentIdsStaySpent ImplementsOneShotExchange
CHECK_DEADLOCK FALSE
