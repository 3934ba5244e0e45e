CONSTANTS
  u1 = u1  u2 = u2  x1 = x1  x2 = x2  None = None
  MaxHandles = 3
  MaxGeneration = 3
  Unlocks = {u1, u2}
  Transactions = {x1, x2}
  MaxRevocations = 2
  NativeMayFail = TRUE
  c1 = c1  s1 = s1  s2 = s2  s3 = s3
  ConsentTabs = {c1}
  Scopes = {s1, s2, s3}
  Watched = s1
  Session = 2
  MaxUnattended = 2
  MaxGrants = 2
  MaxNow = 3
  ClockMayStep = TRUE
  WritesMayFail = TRUE
  t1 = t1  t2 = t2  Empty = Empty  Garbage = Garbage
  Tabs = {t1, t2}
  MaxRecords = 4
  InitialActive = {Empty, Garbage, 1}
  InitialPending = {Empty, Garbage}
SPECIFICATION MCSpec
SYMMETRY Symmetry
INVARIANTS
  HandlesAreAccountedFor
  HoldsOnlyItsIdentity
  PermitMeansClean
  ConsentIsBounded
  ActiveWasVerified
  RememberedIsKept
PROPERTIES
  OneResultPerPage
  OpenedInSession
CHECK_DEADLOCK FALSE
