CONSTANTS
    u1 = u1  u2 = u2  e1 = e1  e2 = e2  e1x = e1x  kakao = kakao  discord = discord
    k1 = k1  k2 = k2  d1 = d1  s1 = s1  s2 = s2  r1 = r1  r2 = r2
    Users <- TwoUsers
    Emails <- SomeEmails
    Normalized <- DomainInLowerCase
    Providers <- TwoProviders
    Uids <- SomeUids
    ProviderOf <- UidProvider
    EmailsOf <- UidEmails
    States <- TwoStates
    Requests <- TwoRequests
    Nothing = Nothing
    a1 = a1
    Addresses <- OneAddress
    Clients <- TwoRequests
    MaxCodes = 3
    MaxClock = 2
    CodeTTL = 2
    CooldownTTL = 1
    BlockTTL = 2
    MaxAttempts = 2
SPECIFICATION AccountsSpec
SYMMETRY Interchangeable
INVARIANTS AccountsTypeOK UidHasItsAccount
    SpentCodeIsGone SerialCodesWork ParallelLimits
CHECK_DEADLOCK FALSE
