CONSTANTS
    u1 = u1  w1 = w1  w2 = w2  d1 = d1  r1 = r1  r2 = r2  g1 = g1  g2 = g2
    NoUser = NoUser
    Users <- OneUser
    Workers <- OneWorker
    Dispatchers <- OneDispatcher
    Requests <- OneRequest
    MaxJobs = 2
    MaxRetries = 0
    Limit = 1
    FaultKinds = {"worker_crash", "db_error"}
    MaxFaults = 1
    Games <- TwoGames
    CandidateLists <- Lists
    MaxGeneration = 2
    c1 = c1  c2 = c2
    Accounts <- OneUser
    Calls <- TwoCalls
    MaxTokens = 3
    MaxPasswords = 2
    MaxTime = 2
    Retention = 1
    Lifetime = 2
    Crashes = TRUE
SPECIFICATION RefreshAndSessionSpec
SYMMETRY CallsAreAlike
INVARIANTS SysTypeOK
    AuthTypeOK RotationIsExchange UndisturbedSessionsFollow ActiveIsNotDeleted
PROPERTIES ImplementsJobs SuccessMeansReplaced ListEmptiedOnlyByEmptyResult
