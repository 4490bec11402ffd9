CONSTANTS
    u1 = u1  u2 = u2  w1 = w1  w2 = w2  d1 = d1  d2 = d2  r1 = r1  r2 = r2
    NoUser = NoUser
    Users <- OneUser
    Workers <- TwoWorkers
    Dispatchers <- TwoDispatchers
    Requests <- OneRequest
    MaxJobs = 1
    MaxRetries = 1
    Limit = 1
    FaultKinds = {"worker_crash", "worker_lost", "redelivery", "dispatcher_dies", "request_dies", "db_error"}
    MaxFaults = 2
SPECIFICATION Spec
SYMMETRY Interchangeable
INVARIANTS TypeOK OneExecution
PROPERTY StatusMovesForward
