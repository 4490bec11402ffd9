---------------------------- MODULE GameSimilarity ----------------------------
(***************************************************************************)
(* The similarity of games, computed from the interaction log: two games   *)
(* are similar that the same users have met.  A rebuild replaces the table. *)
(***************************************************************************)
EXTENDS RowReplacement, Integers

CONSTANTS
    Players,        \* users
    GameIds,        \* integers
    MaxSimilar,     \* MAX_SIMILAR_PER_GAME
    Scale,          \* the score's unit is one 1/Scale; 10000 in the code
    Logs,           \* the interaction logs there may be at first
    MaxEvents       \* bound: what is logged after the start

ASSUME GameSimilarityAssumption ==
    /\ IsFiniteSet(Players) /\ IsFiniteSet(GameIds) /\ GameIds \subseteq Nat
    /\ MaxSimilar \in Nat \ {0} /\ Scale \in Nat \ {0} /\ MaxEvents \in Nat
    /\ \A log \in Logs : log \subseteq Players \X GameIds

VARIABLES
    met,        \* interaction_logs: <<user, game>>
    events      \* how many were logged since the start

similarityVars == <<met, events>>

GameSimilarityInit ==
    /\ met \in Logs
    /\ events = 0

-----------------------------------------------------------------------------
(* _build_similarity_pairs_from_interactions *)

Pairs == {ab \in GameIds \X GameIds : ab[1] < ab[2]}
GamesOf(log, u) == {g \in GameIds : <<u, g>> \in log}

\* counted user by user
UserCount(log, g) ==
    FoldSet(LAMBDA u, n : n + IF g \in GamesOf(log, u) THEN 1 ELSE 0, 0, Players)
CoOccurrence(log, ab) ==
    FoldSet(LAMBDA u, n : n + IF {ab[1], ab[2]} \subseteq GamesOf(log, u) THEN 1 ELSE 0,
            0, Players)

\* overlap / sqrt(d), rounded to the nearest unit
Rounded ==
    [overlap \in 0..Cardinality(Players), d \in 1..Cardinality(Players) * Cardinality(Players) |->
        LET x == 2 * overlap * Scale
        IN CHOOSE s \in 0..(overlap * Scale) : /\ s = 0 \/ (2 * s - 1) * (2 * s - 1) * d <= x * x
                                              /\ x * x < (2 * s + 1) * (2 * s + 1) * d]

Score(log, ab) ==
    Rounded[CoOccurrence(log, ab), UserCount(log, ab[1]) * UserCount(log, ab[2])]

Table == "game_similarities"
\* mutated form: a pair is stored one way
PairScoresOneWay(log) ==
    LET together == {ab \in Pairs : CoOccurrence(log, ab) > 0}
    IN {r \in {Row(Table, ab, Score(log, ab)) : ab \in together} : r.value > 0}
PairScores(log) ==
    LET together == {ab \in Pairs : CoOccurrence(log, ab) > 0}
        up == {r \in {Row(Table, ab, Score(log, ab)) : ab \in together} : r.value > 0}
    IN up \cup {Row(Table, <<r.key[2], r.key[1]>>, r.value) : r \in up}

-----------------------------------------------------------------------------
(* _replace_game_similarities *)

OfGame(rs, a) == {r \in rs : r.key[1] = a}
\* of each game the first MaxSimilar by score, whatever the order of equals
Tops(scores) ==
    {top \in SUBSET scores : \A a \in GameIds :
        /\ Cardinality(OfGame(top, a)) = Min({MaxSimilar, Cardinality(OfGame(scores, a))})
        /\ \A r \in OfGame(top, a), s \in OfGame(scores \ top, a) : r.value >= s.value}

\* run_similarity_rebuild_job, whose job is in RecommendationJobs
Rebuild(p) ==
    /\ \E top \in Tops(PairScores(met)) : 
            Start(p, <<Table>>, <<SetToSeq(top)>>, met)
    /\ UNCHANGED similarityVars

LogInteraction(u, g) ==
    /\ events < MaxEvents /\ <<u, g>> \notin met
    /\ met' = met \cup {<<u, g>>} /\ events' = events + 1
    /\ UNCHANGED rowVars

GameSimilarityNext ==
    \/ \E p \in Writers : Rebuild(p)
    \/ \E u \in Players, g \in GameIds : LogInteraction(u, g)
    \/ Statement /\ UNCHANGED similarityVars

GameSimilaritySpec ==
    RowReplacementInit /\ GameSimilarityInit /\ [][GameSimilarityNext]_<<rowVars, similarityVars>>

-----------------------------------------------------------------------------
(* Properties *)

\* What a rebuild wanted to leave is the cosine similarity of the sets of users: a game's
\* row for another has the share of users they have in common, the two ways agree, only
\* games with a common user have one, and of more than MaxSimilar those left out are no
\* closer than those kept.
UsersOf(log, g) == {u \in Players : <<u, g>> \in log}
Cosine(log, a, b) ==
    LET ua == UsersOf(log, a)
        ub == UsersOf(log, b)
    IN IF ua \cap ub = {} THEN 0
       ELSE Rounded[Cardinality(ua \cap ub), Cardinality(ua) * Cardinality(ub)]
SimilarityIsCosine ==
    last.tables = <<Table>> =>
        LET log == last.source
            near(a) == {b \in GameIds \ {a} : Cosine(log, a, b) > 0}
            kept(a) == {r.key[2] : r \in OfGame(last.wanted, a)}
        IN /\ \A r \in last.wanted : r.value = Cosine(log, r.key[1], r.key[2])
           /\ \A a \in GameIds :
                /\ kept(a) \subseteq near(a)
                /\ Cardinality(kept(a)) = Min({MaxSimilar, Cardinality(near(a))})
                /\ \A b \in kept(a), c \in near(a) \ kept(a) : Cosine(log, a, b) >= Cosine(log, a, c)
=============================================================================
