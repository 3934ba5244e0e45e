CONSTANTS
  t1 = t1  s1 = s1
  ConsentTabs = {t1}
  Scopes = {s1}
  Watched = s1
  Session = 2
  MaxUnattended = 2
  MaxGrants = 1
  MaxNow = 1
  ClockMayStep = FALSE
  WritesMayFail = FALSE
SPECIFICATION ConsentSpec
INVARIANT LogoutForgets
CHECK_DEADLOCK FALSE
