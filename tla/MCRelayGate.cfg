CONSTANTS
  t1 = t1  t2 = t2  s1 = s1  h1 = h1  q1 = q1  Null = Null
  slot1 = slot1  slot2 = slot2
  TransactionIds = {t1, t2}
  Bindings <- TwoOperations
  StateValues = {s1}
  Challenges = {h1}
  Requests = {q1}
  Results <- TwoResults
  Times <- TimesTo2
  Lifetimes <- LifetimeOne
  MaximumRows = 1
  MaxSerial = 4
  Slots = {slot1, slot2}
  MaxUptime = 1
  k1 = k1  k2 = k2  k3 = k3
  Keys = {k1, k2, k3}
  MaxRequests <- MaximumTwo
  MaxBuckets = 2
  Window = 2
  MaxNow = 3
SYMMETRY Symmetry
SPECIFICATION GateSpec
INVARIANTS LimitsHold RefusedOnlyWhenFull
PROPERTY ResultFitsOperation
CHECK_DEADLOCK FALSE
