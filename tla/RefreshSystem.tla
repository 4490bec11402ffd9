--------------------------- MODULE RefreshSystem ---------------------------
(***************************************************************************)
(* RecommendationJobs with UserRecommendations in it: a worker that        *)
(* executes a user_refresh job runs the steps of an execution on the rows. *)
(* The variables of the job model are kept, so that what is proved of it   *)
(* holds here; hasRecs becomes the set of users that have rows.            *)
(***************************************************************************)
EXTENDS RecommendationJobs, Sequences

CONSTANTS Games, CandidateLists, MaxGeneration

\* A query lists no game twice
ASSUME RecommendationsAssumption ==
    /\ CandidateLists \subseteq Seq(Games)
    /\ \A l \in CandidateLists : \A i, j \in 1..Len(l) : l[i] = l[j] => i = j
    /\ MaxGeneration \in Nat

VARIABLES rows, run

sysVars == <<vars, rows, run>>

R == INSTANCE UserRecommendations WITH Executors <- Workers

\* UserRecommendation.objects.filter(user=user).exists()
UsersWithRows == {u \in Users : \E x \in rows : x.user = u}

SysInit == R!RInit /\ Init /\ hasRecs = UsersWithRows

\* Steps of the job system that touch no recommendation row
JobStep ==
    /\ UNCHANGED <<rows, run>>
    /\ \/ \E r \in Requests : RequestStep(r)
       \/ \E d \in Dispatchers : DispatcherStep(d) \/ DispatcherDies(d)
       \/ \E w \in Workers :
            \/ \E m \in Message : Receive(w, m)
            \/ StartJob(w) \/ SkipJob(w) \/ Retry(w) \/ Ack(w)
            \/ Redelivery(w)

\* The body of the task begins once the user is loaded
BeginBody(w) ==
    /\ worker[w].pc = "load"
    /\ IF job[Held(w)].kind = "user_refresh"
         THEN R!Begin(w, job[Held(w)].target)
         ELSE UNCHANGED <<rows, run>>
    /\ LoadUser(w)

\* A step on the rows changes nothing of the job model but hasRecs
RowsChange ==
    /\ hasRecs' = UsersWithRows'
    /\ UNCHANGED <<job, nextJob, users, queue, worker, dispatcher, request, faults,
                   executions>>

\* mutated form: no foreign key stops rows for a purged user
BodyStepUnconstrained(w) ==
    /\ worker[w].pc = "work"
    /\ R!RunStep(w)
    /\ RowsChange

\* One query of the body; the foreign key refuses rows of a purged user
BodyStep(w) ==
    /\ worker[w].pc = "work"
    /\ R!RunStep(w)
    /\ rows' \subseteq rows \/ run[w].user \in users
    /\ RowsChange

\* mutated form: the job is marked a success before its rows are complete
BodyDoneEarly(w) == run[w].pc \in {"idle", "upsert", "finished"}
BodyDone(w) == run[w].pc \in {"idle", "finished"}

FinishBody(w) == BodyDone(w) /\ R!EndRun(w) /\ Succeed(w)

\* An exception or a crash in the body leaves the rows written so far
BreakBody(w) ==
    /\ R!EndRun(w)
    /\ Fail(w) \/ DatabaseError(w) \/ WorkerCrash(w) \/ WorkerLost(w)

\* The purge cascades to the rows and the jobs of the user
Purge(u) ==
    /\ rows' = {x \in rows : x.user # u}
    /\ UNCHANGED run
    /\ PurgeUser(u)

SysNext ==
    \/ JobStep
    \/ \E w \in Workers : BeginBody(w) \/ BodyStep(w) \/ FinishBody(w) \/ BreakBody(w)
    \/ \E u \in Users : Purge(u)

SysSpec == SysInit /\ [][SysNext]_sysVars

-----------------------------------------------------------------------------
\* The rows and the executions are well typed, and hasRecs says who has rows.
SysTypeOK == R!RecommendationsTypeOK /\ hasRecs = UsersWithRows

\* The composition implements the job model: a step of a body on the rows is a
\* WriteRecommendations step of the job the worker holds, or a stutter, even when the
\* user is purged meanwhile; everything else is as it is there.
ImplementsJobs == Spec

\* A job that ends in success ended after its own rows were written and the
\* others pruned: the user's rows are exactly the lists the job computed
\* (test_run_user_refresh_job_success and
\* test_upsert_recommendations_replaces_old_generation).  It holds while jobs of
\* one user do not overlap.
SuccessMeansReplaced ==
    [][\A w \in Workers :
         (run[w].pc # "idle" /\ worker[w].pc = "work" /\ worker'[w].pc = "ack"
            /\ run[w].user \in users) =>
           /\ run[w].pc = "finished"
           /\ \A reason \in R!Reasons :
                {<<x.game, x.rank>> : x \in R!Listed(run[w].user, reason)} =
                {<<run[w].lists[reason][i], i>> : i \in 1..Len(run[w].lists[reason])}]_sysVars

\* New rows are written before the old ones are deleted, so a list that had rows
\* becomes empty only when the execution found no candidate for it, or when the
\* user is purged.
ListEmptiedOnlyByEmptyResult ==
    [][\A u \in users \cap users', reason \in R!Reasons :
         (R!Listed(u, reason) # {} /\ R!Listed(u, reason)' = {}) =>
            \E w \in Workers : /\ run[w].pc = "upsert"
                               /\ run[w].user = u /\ run[w].reason = reason
                               /\ R!Candidates(w) = <<>>]_sysVars

\* Once every job of a user has succeeded, the list view has something to show
\* (in an instance whose candidate lists are never empty).
SucceededHasRows ==
    \A u \in users :
        (RefreshJobsOf(u) # {} /\ \A j \in RefreshJobsOf(u) : job[j].status = "success")
            => R!RowsOf(u) # {}
=============================================================================
