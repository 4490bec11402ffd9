CONSTANTS
    g1 = g1  r1 = r1  t1 = t1  t2 = t2  b1 = b1
    NoGame = NoGame
    NoSlug = NoSlug
    Games <- OneGame
    Asked <- OneGame
    ParentOf <- NoParent
    InferredOf <- Itself
    Named <- OneGame
    CleanSlug <- SlugsOfEditions
    CleanNamed <- OneGame
    Requests <- OneRequest
    Tasks <- TwoTasks
    Bulks <- OneBulk
    MaxRetries = 1
    MaxFailed = 1
    BatchSize = 1
    ChunkSize = 1
    w1 = w1  w2 = w2  w3 = w3  w4 = w4
    Rows <- FourRows
    Tables <- FullOrNot
    Wanted <- SomeRows
    PageSize = 2
    MaxPages = 2
    MaxChanges = 2
    MaxTokens = 3
    v1 = v1  v2 = v2  v3 = v3
    Titles <- ThreeTitles
    RatingsOf <- OneAdult
    Opened <- OneTitle
    Lookups <- BothTitles
    GameTTL = 1
    Slow = 1
    Horizon = 4
    MaxMoves = 1
    Web <- TwoTasks
    Orders <- TwoEditions
    ListSize = 1
    TopN = 2
    Servers <- TwoTasks
SPECIFICATION CatalogueSpec
INVARIANTS CatalogueTypeOK LockMeansFetch
    WalkFollowsTable RequestBudget AnswersAreCurrent LinksLoseNothing
PROPERTIES NameIsKept BackfillWaitsAWeek
SYMMETRY Interchangeable
