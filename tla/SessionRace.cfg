CONSTANTS
    u1 = u1  c1 = c1  c2 = c2
    Accounts <- OneAccount
    Calls <- TwoCalls
    MaxTokens = 2
    MaxPasswords = 2
    MaxTime = 1
    Retention = 1
    Lifetime = 2
    Crashes = FALSE
SPECIFICATION AuthSpec
SYMMETRY Interchangeable
INVARIANT PasswordEndsOlderSessions
