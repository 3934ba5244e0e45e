CONSTANTS
  MaxOps = 2
  MaxNow = 1
  MaxRetired = 2
  RegistrationWindow = 1
  MaxTransaction = 1
  MaxConnection = 1
  CallbackWindow = 1
  Kinds = {"connect"}
  CallbackTexts = {TRUE, FALSE}
  ClockMaySkew = FALSE
SPECIFICATION UsefulSpec
INVARIANT DestroyWithdraws
CHECK_DEADLOCK FALSE
