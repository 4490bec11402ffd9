CONSTANTS
    g1 = g1  r1 = r1  t1 = t1  t2 = t2  b1 = b1
    NoGame = NoGame
    NoSlug = NoSlug
    Games <- OneGame
    Asked <- OneGame
    ParentOf <- NoParent
    InferredOf <- Itself
    Named <- OneGame
    CleanSlug <- SlugsOfEditions
    CleanNamed <- OneGame
    Requests <- OneRequest
    Tasks <- TwoTasks
    Bulks <- OneBulk
    MaxRetries = 1
    MaxFailed = 1
    BatchSize = 1
    ChunkSize = 1
SPECIFICATION NameKoSpec
SYMMETRY Interchangeable
PROPERTY PendingAreProcessed
