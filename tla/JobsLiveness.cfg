CONSTANTS
    u1 = u1  u2 = u2  w1 = w1  w2 = w2  d1 = d1  d2 = d2  r1 = r1  r2 = r2
    NoUser = NoUser
    Users <- OneUser
    Workers <- OneWorker
    Dispatchers <- OneDispatcher
    Requests <- OneRequest
    MaxJobs = 2
    MaxRetries = 1
    Limit = 1
    FaultKinds = {"redelivery", "request_dies"}
    MaxFaults = 1
SPECIFICATION FairSpec
INVARIANTS RunningIsCarried OneActiveJob
PROPERTIES JobsFinish RunningStatusEnds
