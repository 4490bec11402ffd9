CONSTANTS
    u1 = u1  w1 = w1  w2 = w2  d1 = d1  r1 = r1  r2 = r2  g1 = g1  g2 = g2
    NoUser = NoUser
    Users <- OneUser
    Workers <- TwoWorkers
    Dispatchers <- OneDispatcher
    Requests <- TwoRequests
    MaxJobs = 2
    MaxRetries = 0
    Limit = 2
    FaultKinds = {}
    MaxFaults = 0
    Games <- TwoGames
    CandidateLists <- OneGameList
    MaxGeneration = 2
SPECIFICATION SysSpec
SYMMETRY Interchangeable
INVARIANT SucceededHasRows
