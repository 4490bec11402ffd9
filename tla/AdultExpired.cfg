CONSTANTS
    u1 = u1  u2 = u2  p1 = p1  p2 = p2  s1 = s1  s2 = s2  s3 = s3  r1 = r1  r2 = r2
    Users <- TwoUsers
    Persons <- TwoPersons
    States <- ThreeStates
    Requests <- TwoRequests
    Nobody = Nobody
    ValidFor = 1
    MaxTime = 2
SPECIFICATION AdultSpec
SYMMETRY Interchangeable
INVARIANT AdultGamesNeedVerification
CHECK_DEADLOCK FALSE
