CONSTANTS
  MaxOps = 3
  MaxNow = 1
  MaxRetired = 1
  RegistrationWindow = 0
  MaxTransaction = 1
  MaxConnection = 1
  CallbackWindow = 1
  Kinds = {"connect"}
  CallbackTexts = {TRUE}
  ClockMaySkew = FALSE
SPECIFICATION UsefulSpec
INVARIANTS CallsSettleInOrder CleanupIsDone
CHECK_DEADLOCK FALSE
