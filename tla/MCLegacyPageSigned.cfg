CONSTANTS
    HandlerCalls = {c1, c2}
    HandlerPrograms <- executeSend
    Watched <- SignedSinks
    Concurrent <- scanHandlers
    OverLogins <- NoOverLogin
    MaxLogins = 2
SPECIFICATION PageSpec
PROPERTY EndedSessionWritesNothing
CHECK_DEADLOCK FALSE
