------------------------ MODULE UserRecommendations ------------------------
(***************************************************************************)
(* The body of run_user_refresh_job: how one execution replaces the rows   *)
(* of a user in user_recommendations.  Nothing here runs in a transaction: *)
(* every query is an action of its own, and executions interleave.         *)
(***************************************************************************)
EXTENDS Naturals, Sequences, FiniteSetsExt

CONSTANTS
    Users,
    Games,           \* IGDB game ids
    Executors,       \* worker processes that execute refresh jobs
    CandidateLists,  \* what the seed, similarity and IGDB queries may return
    MaxGeneration    \* bound: generations of one user

VARIABLES
    rows,  \* table user_recommendations
    run    \* the local state of each execution

rvars == <<rows, run>>

Reasons == {"similarity", "preference"}
Row == [user: Users, game: Games, reason: Reasons, gen: Nat, rank: Nat]

RowsOf(u) == {x \in rows : x.user = u}
Listed(u, reason) == {x \in RowsOf(u) : x.reason = reason}

IdleRun == [pc |-> "idle"]
Run == [pc: {"generation", "collect", "upsert", "finished"}, user: Users,
        reason: Reasons, gen: Nat, lists: [Reasons -> Seq(Games)], next: Nat]

\* No game is listed twice for one user and reason (the unique constraint).
UniqueKeys ==
    \A x, y \in rows :
        x.user = y.user /\ x.game = y.game /\ x.reason = y.reason => x = y

RecommendationsTypeOK ==
    /\ rows \subseteq Row
    /\ UniqueKeys
    /\ run \in [Executors -> Run \cup {IdleRun}]

RInit ==
    /\ rows = {}
    /\ run = [e \in Executors |-> IdleRun]

-----------------------------------------------------------------------------
\* mutated form: the new run keeps the generation of the newest row
NextGenerationKept(u) == Max({x.gen : x \in RowsOf(u)} \cup {0})
NextGeneration(u) == Max({x.gen : x \in RowsOf(u)} \cup {0}) + 1

\* mutated form: create instead of update_or_create
Inserted(row) == rows \cup {row}

\* update_or_create by (user, game, reason)
Upserted(row) ==
    {x \in rows : ~(/\ x.user = row.user
                    /\ x.game = row.game
                    /\ x.reason = row.reason)} \cup {row}

\* mutated form: the rows of the new generation are the ones deleted
PrunedWrongSide(u, reason, gen) ==
    rows \ {x \in Listed(u, reason) : x.gen = gen}
Pruned(u, reason, gen) == rows \ {x \in Listed(u, reason) : x.gen # gen}

Begin(e, u) ==
    /\ run[e].pc = "idle"
    /\ run' = [run EXCEPT ![e] =
                 [pc |-> "generation", user |-> u, reason |-> "similarity", gen |-> 0,
                  lists |-> [r \in Reasons |-> <<>>], next |-> 1]]
    /\ UNCHANGED rows

ReadGeneration(e) ==
    /\ run[e].pc = "generation"
    /\ NextGeneration(run[e].user) <= MaxGeneration
    /\ run' = [run EXCEPT ![e].pc = "collect",
                          ![e].gen = NextGeneration(run[e].user)]
    /\ UNCHANGED rows

\* the seeds and the similarity table, or the preferences and an IGDB search
Collect(e, list) ==
    /\ run[e].pc = "collect"
    /\ run' = [run EXCEPT ![e].pc = "upsert", ![e].next = 1,
                          ![e].lists[run[e].reason] = list]
    /\ UNCHANGED rows

Candidates(e) == run[e].lists[run[e].reason]

RowFor(e) ==
    [user |-> run[e].user, game |-> Candidates(e)[run[e].next],
     reason |-> run[e].reason, gen |-> run[e].gen, rank |-> run[e].next]

Upsert(e) ==
    /\ run[e].pc = "upsert"
    /\ run[e].next <= Len(Candidates(e))
    /\ rows' = Upserted(RowFor(e))
    /\ run' = [run EXCEPT ![e].next = @ + 1]

\* the last statement of _upsert_recommendations; preference follows similarity
Prune(e) ==
    /\ run[e].pc = "upsert"
    /\ run[e].next > Len(Candidates(e))
    /\ rows' = Pruned(run[e].user, run[e].reason, run[e].gen)
    /\ run' = IF run[e].reason = "similarity"
                THEN [run EXCEPT ![e].pc = "collect", ![e].reason = "preference"]
                ELSE [run EXCEPT ![e].pc = "finished"]

\* the job is marked a success, or an exception or a crash ends the execution:
\* the rows stay as they are
EndRun(e) ==
    /\ run' = [run EXCEPT ![e] = IdleRun]
    /\ UNCHANGED rows

-----------------------------------------------------------------------------
RunStep(e) ==
    \/ ReadGeneration(e)
    \/ \E list \in CandidateLists : Collect(e, list)
    \/ Upsert(e)
    \/ Prune(e)
=============================================================================
