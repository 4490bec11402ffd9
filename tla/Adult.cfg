CONSTANTS
    u1 = u1  u2 = u2  p1 = p1  p2 = p2  s1 = s1  s2 = s2  s3 = s3  r1 = r1  r2 = r2
    Users <- TwoUsers
    Persons <- TwoPersons
    States <- ThreeStates
    Requests <- TwoRequests
    Nobody = Nobody
    ValidFor = 1
    MaxTime = 2
    o1 = o1  word1 = word1  word2 = word2  word3 = word3  word4 = word4
    Owners <- OneOwner
    Workers <- ThreeStates
    MaxImages = 3
    NoImage = NoImage
    Searchers <- OneOwner
    Keywords <- FourWords
    HistorySize = 2
    game1 = game1  game2 = game2  game3 = game3
    Hits <- ThreeGames
    MaxResults = 2
    Enough = 4
    MaxIterations = 3
    MaxUpdates = 1
SPECIFICATION UserDataSpec
SYMMETRY Interchangeable
INVARIANTS UserDataTypeOK PersonVerifiesOneUser LastPeriodCounts
    ImagesAgree RecentIsLatest CompletionIsBest
CHECK_DEADLOCK FALSE
