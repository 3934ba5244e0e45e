CONSTANTS
    HandlerCalls = {c1, c2}
    HandlerPrograms <- AllHandlers
    Watched <- GuardedSinks
    Concurrent <- scanHandlers
    OverLogins <- NoOverLogin
    MaxLogins = 2
    Tabs = {t1}
    DefaultCount = 1
    MaxIndex = 1
    StoredLists <- MCStoredLists
    NoListScan = NoListScan
    Own = "mine"
    Others = {"peer"}
    Recipients <- MCRecipients
    Cards <- MCCards
    Levels = {4}
    MaxTrusts = 2
    MaxRevoked = 1
    NoTrust = NoTrust
    Identities = {mine, other}
    SignedIn = mine
    NoIdentity = NoIdentity
    MaxPageHandles = 2
    Programs <- MCPrograms
    Calls = {c1, c2}
    Slots = 2
    MaxValues = 4
    Copies = {a, b}
    Keys = {k1, k2}
    MaxLoads = 3
    NoLoad = none
SPECIFICATION MCSpec
INVARIANTS
    LoginsAreSeparate
    ListIsUsable
    AccountPageGivesBack
    TrustMapIsTrue
    CallsReleaseAll
    AuthorityIsLive
    OneInstance
PROPERTIES
    EndedSessionWritesNothing
    ScansLoseNothing
    NativeStateIsReleasedInOrder
    NothingWaitsForever
CHECK_DEADLOCK FALSE
