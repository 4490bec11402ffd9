---------------------------- MODULE MCPreferences ----------------------------
(* Instances of Preferences and of GameSimilarity beside Interactions for TLC. *)
EXTENDS MCInteractions, Preferences, GameSimilarity

\* two of the three kinds; the last id of each does not exist
TwoKinds == <<"genres", "tags">>
OneOfEach == [k \in {"genres", "tags"} |-> {1, 2}]
Body(genres, tags) == [k \in {"genres", "tags"} |-> IF k = "genres" THEN genres ELSE tags]
SomeBodies == {Body(<<1, 2>>, <<1>>), Body(<<2>>, <<1, 2>>), Body(<<2, 1>>, <<>>),
               Body(<<1, 1>>, <<2>>), Body(<<3>>, <<1>>)}

TwoPlayers == {u1, shop1}
ThreeGames == 1..3
AnyLog == SUBSET (TwoPlayers \X ThreeGames)

\* The three modules share no state; Preferences and GameSimilarity write tables of their
\* own by transactions of one form, whose interleavings the part of Preferences explores:
\* that of GameSimilarity runs one rebuild at a time, from any log.  Searches, which
\* count for no series but their own, have a part apart from views and store clicks.  A run
\* explores one part.
VARIABLE part

Only(types) ==
    \A r \in Requests : request'[r].pc \in {"context", "lock", "insert"} =>
        request'[r].event.type \in types

OpinionsInit ==
    /\ InteractionsInit /\ RowReplacementInit /\ GameSimilarityInit
    /\ part \in {"views", "searches", "preferences", "similarity"}
    /\ part # "similarity" => met = {}

OpinionsNext ==
    /\ UNCHANGED part
    /\ \/ /\ part = "views" /\ InteractionsNext /\ Only({"view", "store_click"})
          /\ UNCHANGED <<rowVars, similarityVars>>
       \/ /\ part = "searches" /\ InteractionsNext /\ Only({"search"})
          /\ UNCHANGED <<rowVars, similarityVars>>
       \/ part = "preferences" /\ PreferencesNext /\ UNCHANGED <<interactionVars, similarityVars>>
       \/ part = "similarity" /\ GameSimilarityNext /\ UNCHANGED interactionVars
                              /\ Cardinality({p \in Writers : writer'[p] # NoWrite}) <= 1

OpinionsSpec == OpinionsInit /\ [][OpinionsNext]_<<interactionVars, rowVars, similarityVars, part>>

\* Every part stays well typed: log, rules and affinities, and the rows that are replaced.
OpinionsTypeOK ==
    /\ InteractionsTypeOK /\ RowReplacementTypeOK
=============================================================================
