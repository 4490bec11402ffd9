CONSTANTS
    u1 = u1  g1 = g1  detail_page = detail_page  search_result = search_result  shop1 = shop1  word1 = word1
    r1 = r1  r2 = r2
    Users <- OneUser
    Games <- OneGame
    Sources <- TwoSources
    Details <- TwoDetails
    NoDetail = NoDetail
    Requests <- TwoRequests
    Events <- ViewsAndClicks
    Reactions <- SomeReactions
    InitialRule <- Seeded
    Patches <- SomePatches
    ContextPatches <- OneContextPatch
    InitialMultiplier = 1
    MaxRepeat = 1
    WeightLimit = 100
    MaxLogs = 3
    MaxTime = 2
    Writers <- TwoRequests
    Numbers = 5
    Kinds <- TwoKinds
    Existing <- OneOfEach
    Bodies <- SomeBodies
    Players <- TwoPlayers
    GameIds <- ThreeGames
    MaxSimilar = 1
    Scale = 100
    Logs <- AnyLog
    MaxEvents = 1
SPECIFICATION OpinionsSpec
INVARIANTS OpinionsTypeOK SpacedByCooldown RepeatIsPlaceInSeries AffinityFollowsLog
    ReplacementIsWhole SimilarityIsCosine
SYMMETRY Interchangeable
