CONSTANTS
  MaxOps = 2
  MaxNow = 1
  MaxRetired = 1
  RegistrationWindow = 1
  MaxTransaction = 1
  MaxConnection = 1
  CallbackWindow = 1
  Kinds = {"account", "sign"}
  CallbackTexts = {TRUE, FALSE}
  ClockMaySkew = FALSE
SPECIFICATION FairUsefulSpec
INVARIANTS SpentStaysSpent ConnectionIsAccountedFor
PROPERTY OperationsEnd
CHECK_DEADLOCK FALSE
