------------------------- MODULE RecommendationJobs -------------------------
(***************************************************************************)
(* The life of a RecommendationJob row: the requests that create it, the   *)
(* periodic dispatcher that claims it, the Celery broker that carries its  *)
(* message, and the worker that executes it.  Every transaction of the     *)
(* code is one action; reads and writes outside a transaction are separate *)
(* actions, so that web processes, beat tasks and workers interleave.      *)
(***************************************************************************)
EXTENDS Naturals, FiniteSets

CONSTANTS
    Users,        \* accounts a user_refresh job can target
    NoUser,       \* target_user = NULL
    Workers,      \* Celery worker processes (prefork children)
    Dispatchers,  \* concurrent runs of process_pending_recommendation_jobs
    Requests,     \* web requests and beat ticks that check, then create a job
    MaxJobs,      \* bound: rows ever created
    MaxRetries,   \* max_retries of the two tasks (3 in the code)
    Limit,        \* limit of process_pending_recommendation_jobs (20)
    FaultKinds,   \* the faults the environment may inject
    MaxFaults     \* bound: faults ever injected

AllFaults == {"worker_crash", "worker_lost", "redelivery", "dispatcher_dies",
              "request_dies", "db_error"}

ASSUME JobsAssumption ==
    /\ NoUser \notin Users
    /\ MaxJobs \in Nat /\ MaxRetries \in Nat /\ MaxFaults \in Nat
    /\ Limit \in Nat \ {0}
    /\ FaultKinds \subseteq AllFaults

VARIABLES
    job,        \* table recommendation_jobs, by primary key
    nextJob,    \* the next primary key; keys are given in created_at order
    users,      \* the accounts that exist
    hasRecs,    \* the users with a row in user_recommendations
    queue,      \* the broker: how many copies of each message wait in Redis
    worker,     \* what each worker process is doing
    dispatcher, \* what each run of the dispatcher is doing
    request,    \* what each creating request is doing
    faults,     \* faults injected so far
    executions  \* history: how often the body of each job was started

vars == <<job, nextJob, users, hasRecs, queue, worker, dispatcher, request,
          faults, executions>>

JobIds == 1..MaxJobs
Kinds == {"user_refresh", "similarity_rebuild"}
ActiveStatus == {"pending", "running"}
FinalStatus == {"success", "failed"}
JobRow == [kind: Kinds, target: Users \cup {NoUser},
           status: {"absent"} \cup ActiveStatus \cup FinalStatus,
           started: BOOLEAN, retryCount: Nat]

\* A key that is not in the table: not created yet, or deleted with its user.
NoRow == [kind |-> "user_refresh", target |-> NoUser, status |-> "absent",
          started |-> FALSE, retryCount |-> 0]

Message == [job: JobIds, retries: 0..MaxRetries]
NoMessage == [job |-> 0, retries |-> 0]
IdleWorker == [pc |-> "idle", msg |-> NoMessage, retryCount |-> 0]
IdleDispatcher == [pc |-> "idle", refresh |-> {}, similarity |-> {}]
IdleRequest == [pc |-> "idle", origin |-> "list", kind |-> "user_refresh",
                target |-> NoUser, job |-> 0]

BusyWorker ==
    [pc: {"received", "load", "work", "retry", "ack"}, msg: Message, retryCount: Nat]
WorkerState == BusyWorker \cup {IdleWorker}
DispatcherState ==
    [pc: {"idle", "similarity", "dispatch"},
     refresh: SUBSET JobIds, similarity: SUBSET JobIds]
RequestState ==
    [pc: {"idle", "check", "create", "publish"},
     origin: {"list", "admin", "beat"}, kind: Kinds,
     target: Users \cup {NoUser}, job: 0..MaxJobs]

TypeOK ==
    /\ job \in [JobIds -> JobRow]
    /\ nextJob \in 1..(MaxJobs + 1)
    /\ users \subseteq Users
    /\ hasRecs \subseteq Users
    /\ queue \in [Message -> Nat]
    /\ worker \in [Workers -> WorkerState]
    /\ dispatcher \in [Dispatchers -> DispatcherState]
    /\ request \in [Requests -> RequestState]
    /\ faults \in 0..MaxFaults
    /\ executions \in [JobIds -> Nat]

Init ==
    /\ job = [j \in JobIds |-> NoRow]
    /\ nextJob = 1
    /\ users = Users
    /\ hasRecs \in SUBSET Users
    /\ queue = [m \in Message |-> 0]
    /\ worker = [w \in Workers |-> IdleWorker]
    /\ dispatcher = [d \in Dispatchers |-> IdleDispatcher]
    /\ request = [r \in Requests |-> IdleRequest]
    /\ faults = 0
    /\ executions = [j \in JobIds |-> 0]

-----------------------------------------------------------------------------
(* Queries on the tables *)

IsActive(j) == job[j].status \in ActiveStatus

RefreshJobsOf(u) ==
    {j \in JobIds : /\ job[j].status # "absent"
                    /\ job[j].kind = "user_refresh"
                    /\ job[j].target = u}

\* order_by("-created_at").first() is not an active job
NoLatestActive(u) ==
    \A j \in RefreshJobsOf(u) :
        (\A k \in RefreshJobsOf(u) : k <= j) => ~IsActive(j)

IsReady(u) == NoLatestActive(u) /\ u \in hasRecs

StatusOf(u) ==
    IF NoLatestActive(u)
      THEN IF \E j \in RefreshJobsOf(u) : /\ \A k \in RefreshJobsOf(u) : k <= j
                                          /\ job[j].status = "failed"
             THEN "failed"
             ELSE IF u \in hasRecs THEN "success" ELSE "pending"
      ELSE IF \E j \in RefreshJobsOf(u) : /\ \A k \in RefreshJobsOf(u) : k <= j
                                          /\ job[j].status = "running"
             THEN "running" ELSE "pending"

\* mutated form: running jobs do not conflict
HasActiveJobPendingOnly(kind, target) ==
    \E j \in JobIds : /\ job[j].status = "pending"
                      /\ job[j].kind = kind /\ job[j].target = target

HasActiveJob(kind, target) ==
    \E j \in JobIds : /\ IsActive(j)
                      /\ job[j].kind = kind /\ job[j].target = target

\* A task is sent for every job but a user_refresh without a target.
HasTask(row) == row.kind = "user_refresh" => row.target # NoUser

-----------------------------------------------------------------------------
(* The broker *)

Send(m) == queue' = [queue EXCEPT ![m] = @ + 1]

Fault(kind) ==
    /\ kind \in FaultKinds
    /\ faults < MaxFaults
    /\ faults' = faults + 1

-----------------------------------------------------------------------------
(* Requests that create jobs: each checks the table, then inserts a row *)

SetRequest(r, rec) == request' = [request EXCEPT ![r] = rec]

\* GET /recommendations for a user whose recommendations are not ready
ListNotReady(r, u) ==
    /\ request[r].pc = "idle"
    /\ u \in users
    /\ ~IsReady(u)
    /\ SetRequest(r, [IdleRequest EXCEPT !.pc = "check", !.target = u])
    /\ UNCHANGED <<job, nextJob, users, hasRecs, queue, worker, dispatcher,
                   faults, executions>>

\* the second read of the latest job, in enqueue_user_refresh_job_if_needed
CheckLatest(r) ==
    /\ request[r].pc = "check"
    /\ \/ /\ NoLatestActive(request[r].target)
          /\ SetRequest(r, [request[r] EXCEPT !.pc = "create"])
       \/ /\ ~NoLatestActive(request[r].target)
          /\ SetRequest(r, IdleRequest)
    /\ UNCHANGED <<job, nextJob, users, hasRecs, queue, worker, dispatcher,
                   faults, executions>>

\* POST /admin/recommendations/jobs/run, up to the JOB_ALREADY_RUNNING check
AdminCheck(r, kind, target) ==
    /\ request[r].pc = "idle"
    /\ target \in users \cup {NoUser}
    /\ kind = "similarity_rebuild" => target = NoUser
    /\ ~HasActiveJob(kind, target)
    /\ SetRequest(r, [pc |-> "create", origin |-> "admin", kind |-> kind,
                      target |-> target, job |-> 0])
    /\ UNCHANGED <<job, nextJob, users, hasRecs, queue, worker, dispatcher,
                   faults, executions>>

\* the beat task enqueue_similarity_rebuild_job_if_needed
BeatCheck(r) ==
    /\ request[r].pc = "idle"
    /\ \A j \in JobIds : job[j].kind = "similarity_rebuild" => ~IsActive(j)
    /\ SetRequest(r, [pc |-> "create", origin |-> "beat",
                      kind |-> "similarity_rebuild", target |-> NoUser, job |-> 0])
    /\ UNCHANGED <<job, nextJob, users, hasRecs, queue, worker, dispatcher,
                   faults, executions>>

\* RecommendationJob.objects.create; only the admin view then calls .delay
CreateJob(r) ==
    /\ request[r].pc = "create"
    /\ nextJob <= MaxJobs
    /\ request[r].target \in users \cup {NoUser}
    /\ job' = [job EXCEPT ![nextJob] =
                 [kind |-> request[r].kind, target |-> request[r].target,
                  status |-> "pending", started |-> FALSE, retryCount |-> 0]]
    /\ nextJob' = nextJob + 1
    /\ SetRequest(r, IF request[r].origin = "admin" /\ HasTask(request[r])
                       THEN [request[r] EXCEPT !.pc = "publish", !.job = nextJob]
                       ELSE IdleRequest)
    /\ UNCHANGED <<users, hasRecs, queue, worker, dispatcher, faults, executions>>

\* the target was purged in between: the foreign key refuses the row
CreateRefused(r) ==
    /\ request[r].pc = "create"
    /\ request[r].target \notin users \cup {NoUser}
    /\ SetRequest(r, IdleRequest)
    /\ UNCHANGED <<job, nextJob, users, hasRecs, queue, worker, dispatcher,
                   faults, executions>>

Publish(r) ==
    /\ request[r].pc = "publish"
    /\ Send([job |-> request[r].job, retries |-> 0])
    /\ SetRequest(r, IdleRequest)
    /\ UNCHANGED <<job, nextJob, users, hasRecs, worker, dispatcher, faults,
                   executions>>

\* the process is killed, or the broker refuses the message
RequestDies(r) ==
    /\ request[r].pc # "idle"
    /\ Fault("request_dies")
    /\ SetRequest(r, IdleRequest)
    /\ UNCHANGED <<job, nextJob, users, hasRecs, queue, worker, dispatcher,
                   executions>>

-----------------------------------------------------------------------------
(* process_pending_recommendation_jobs: two claiming transactions, then one *)
(* .delay per claimed job, user_refresh jobs first                          *)

\* mutated form: the slice stops one row early
FirstOfOneLess(S, n) == {j \in S : Cardinality({k \in S : k < j}) + 1 < n}
FirstOf(S, n) == {j \in S : Cardinality({k \in S : k < j}) < n}

\* mutated form: the query no longer filters on the status PENDING
PendingUnfiltered(kind) ==
    {j \in JobIds : /\ job[j].status \in {"pending", "running", "failed"}
                    /\ job[j].kind = kind
                    /\ HasTask(job[j])}

Pending(kind) ==
    {j \in JobIds : /\ job[j].status = "pending"
                    /\ job[j].kind = kind
                    /\ HasTask(job[j])}

\* mutated form: a status the model field does not list
ClaimedRowsQueued(batch) ==
    [j \in JobIds |-> IF j \in batch
                        THEN [job[j] EXCEPT !.status = "queued", !.started = FALSE]
                        ELSE job[j]]

ClaimedRows(batch) ==
    [j \in JobIds |-> IF j \in batch
                        THEN [job[j] EXCEPT !.status = "running", !.started = FALSE]
                        ELSE job[j]]

\* the task ends when nothing is left to dispatch
SetDispatcher(d, next, refresh, similarity) ==
    dispatcher' = [dispatcher EXCEPT ![d] =
        IF next = "dispatch" /\ refresh \cup similarity = {} THEN IdleDispatcher
        ELSE [pc |-> next, refresh |-> refresh, similarity |-> similarity]]

ClaimUserRefresh(d) ==
    /\ dispatcher[d].pc = "idle"
    /\ LET batch == FirstOf(Pending("user_refresh"), Limit)
       IN  /\ job' = ClaimedRows(batch)
           /\ SetDispatcher(d, "similarity", batch, {})
    /\ UNCHANGED <<nextJob, users, hasRecs, queue, worker, request, faults,
                   executions>>

\* remaining_limit = 0 skips the second transaction: FirstOf(S, 0) = {}
ClaimSimilarity(d) ==
    /\ dispatcher[d].pc = "similarity"
    /\ LET remaining == Limit - Cardinality(dispatcher[d].refresh)
           batch == FirstOf(Pending("similarity_rebuild"), remaining)
       IN  /\ job' = ClaimedRows(batch)
           /\ SetDispatcher(d, "dispatch", dispatcher[d].refresh, batch)
    /\ UNCHANGED <<nextJob, users, hasRecs, queue, worker, request, faults,
                   executions>>

\* the claimed lists were read before: a job deleted since is still dispatched
Dispatch(d, j) ==
    LET refresh == dispatcher[d].refresh
        similarity == dispatcher[d].similarity
        first == IF refresh # {} THEN refresh ELSE similarity
    IN  /\ dispatcher[d].pc = "dispatch"
        /\ j \in first /\ \A k \in first : j <= k
        /\ Send([job |-> j, retries |-> 0])
        /\ SetDispatcher(d, "dispatch", refresh \ {j}, similarity \ {j})
        /\ UNCHANGED <<job, nextJob, users, hasRecs, worker, request, faults,
                       executions>>

\* the dispatcher is killed, or .delay raises: nobody sends the rest
DispatcherDies(d) ==
    /\ dispatcher[d].pc # "idle"
    /\ Fault("dispatcher_dies")
    /\ dispatcher' = [dispatcher EXCEPT ![d] = IdleDispatcher]
    /\ UNCHANGED <<job, nextJob, users, hasRecs, queue, worker, request,
                   executions>>

-----------------------------------------------------------------------------
(* run_user_refresh_job and run_similarity_rebuild_job in a Celery worker.  *)
(* acks_late: the message is acknowledged when the task has ended.          *)

Held(w) == worker[w].msg.job
SetPc(w, pc) == worker' = [worker EXCEPT ![w].pc = pc]
Release(w) == worker' = [worker EXCEPT ![w] = IdleWorker]

Receive(w, m) ==
    /\ worker[w].pc = "idle"
    /\ queue[m] > 0
    /\ queue' = [queue EXCEPT ![m] = @ - 1]
    /\ worker' = [worker EXCEPT ![w] = [pc |-> "received", msg |-> m, retryCount |-> 0]]
    /\ UNCHANGED <<job, nextJob, users, hasRecs, dispatcher, request, faults,
                   executions>>

\* mutated form: started_at is not looked at
MayStartIfRunning(row) == HasTask(row) /\ row.status \in ActiveStatus

\* mutated form: a job claimed by the dispatcher is taken for one in progress
MayStartPendingOnly(row) == HasTask(row) /\ row.status = "pending"

MayStart(row) ==
    /\ HasTask(row)
    /\ row.status = "pending" \/ (row.status = "running" /\ ~row.started)

\* mutated form: the row is marked running, started_at stays NULL
StartedRowUnstamped(row) == [row EXCEPT !.status = "running"]
StartedRow(row) == [row EXCEPT !.status = "running", !.started = TRUE]

StartJob(w) ==
    /\ worker[w].pc = "received"
    /\ MayStart(job[Held(w)])
    /\ job' = [job EXCEPT ![Held(w)] = StartedRow(@)]
    /\ executions' = [executions EXCEPT ![Held(w)] = @ + 1]
    /\ worker' = [worker EXCEPT ![w].pc = "load",
                                ![w].retryCount = job[Held(w)].retryCount]
    /\ UNCHANGED <<nextJob, users, hasRecs, queue, dispatcher, request, faults>>

SkipJob(w) ==
    /\ worker[w].pc = "received"
    /\ ~MayStart(job[Held(w)])
    /\ SetPc(w, "ack")
    /\ UNCHANGED <<job, nextJob, users, hasRecs, queue, dispatcher, request,
                   faults, executions>>

\* User.objects.get finds the target (a similarity rebuild has none to find)
LoadUser(w) ==
    /\ worker[w].pc = "load"
    /\ job[Held(w)].kind = "user_refresh" => job[Held(w)].target \in users
    /\ job[Held(w)].status # "absent"
    /\ SetPc(w, "work")
    /\ UNCHANGED <<job, nextJob, users, hasRecs, queue, dispatcher, request,
                   faults, executions>>

\* One upsert or prune of the user's rows; module UserRecommendations has them
WriteRecommendations(w) ==
    /\ worker[w].pc = "work"
    /\ job[Held(w)].kind = "user_refresh"
    /\ job[Held(w)].target \in users
    /\ \/ hasRecs' = hasRecs \cup {job[Held(w)].target}
       \/ hasRecs' = hasRecs \ {job[Held(w)].target}
    /\ UNCHANGED <<job, nextJob, users, queue, worker, dispatcher, request,
                   faults, executions>>

\* filter(id=job_id).update(...): no row, nothing to update
FinishedRow(row, status, retryCount) ==
    IF row.status = "absent" THEN row
    ELSE [row EXCEPT !.status = status, !.retryCount = retryCount]

Succeed(w) ==
    /\ worker[w].pc = "work"
    /\ job' = [job EXCEPT ![Held(w)] = FinishedRow(@, "success", @.retryCount)]
    /\ SetPc(w, "ack")
    /\ UNCHANGED <<nextJob, users, hasRecs, queue, dispatcher, request, faults,
                   executions>>

\* any exception of the body: the row fails, and the exception is raised again
Fail(w) ==
    /\ worker[w].pc \in {"load", "work"}
    /\ job' = [job EXCEPT ![Held(w)] =
                 FinishedRow(@, "failed", worker[w].retryCount + 1)]
    /\ SetPc(w, "retry")
    /\ UNCHANGED <<nextJob, users, hasRecs, queue, dispatcher, request, faults,
                   executions>>

\* the database refuses the starting transaction or the final update
DatabaseError(w) ==
    /\ worker[w].pc \in {"received", "load", "work"}
    /\ Fault("db_error")
    /\ SetPc(w, "retry")
    /\ UNCHANGED <<job, nextJob, users, hasRecs, queue, dispatcher, request,
                   executions>>

\* autoretry_for: a copy with one more retry is sent, the original acknowledged
Retry(w) ==
    /\ worker[w].pc = "retry"
    /\ IF worker[w].msg.retries < MaxRetries
         THEN Send([worker[w].msg EXCEPT !.retries = @ + 1])
         ELSE UNCHANGED queue
    /\ Release(w)
    /\ UNCHANGED <<job, nextJob, users, hasRecs, dispatcher, request, faults,
                   executions>>

Ack(w) ==
    /\ worker[w].pc = "ack"
    /\ Release(w)
    /\ UNCHANGED <<job, nextJob, users, hasRecs, queue, dispatcher, request,
                   faults, executions>>

\* the container stops: Redis restores the unacknowledged message
WorkerCrash(w) ==
    /\ worker[w].pc # "idle"
    /\ Fault("worker_crash")
    /\ Send(worker[w].msg)
    /\ Release(w)
    /\ UNCHANGED <<job, nextJob, users, hasRecs, dispatcher, request, executions>>

\* the child process is killed: without reject_on_worker_lost Celery
\* acknowledges the message all the same
WorkerLost(w) ==
    /\ worker[w].pc # "idle"
    /\ Fault("worker_lost")
    /\ Release(w)
    /\ UNCHANGED <<job, nextJob, users, hasRecs, queue, dispatcher, request,
                   executions>>

\* the visibility timeout passes while the worker still holds the message
Redelivery(w) ==
    /\ worker[w].pc # "idle"
    /\ Fault("redelivery")
    /\ Send(worker[w].msg)
    /\ UNCHANGED <<job, nextJob, users, hasRecs, worker, dispatcher, request,
                   executions>>

-----------------------------------------------------------------------------
(* purge_soft_deleted_users_older_than: the row goes, and its jobs with it *)

PurgeUser(u) ==
    /\ u \in users
    /\ users' = users \ {u}
    /\ hasRecs' = hasRecs \ {u}
    /\ job' = [j \in JobIds |-> IF job[j].target = u THEN NoRow ELSE job[j]]
    /\ UNCHANGED <<nextJob, queue, worker, dispatcher, request, faults, executions>>

-----------------------------------------------------------------------------
RequestStep(r) ==
    \/ \E u \in Users : ListNotReady(r, u)
    \/ CheckLatest(r)
    \/ \E kind \in Kinds, t \in Users \cup {NoUser} : AdminCheck(r, kind, t)
    \/ BeatCheck(r)
    \/ CreateJob(r) \/ CreateRefused(r) \/ Publish(r) \/ RequestDies(r)

DispatcherStep(d) ==
    \/ ClaimUserRefresh(d) \/ ClaimSimilarity(d)
    \/ \E j \in JobIds : Dispatch(d, j)

WorkerStep(w) ==
    \/ \E m \in Message : Receive(w, m)
    \/ StartJob(w) \/ SkipJob(w) \/ LoadUser(w)
    \/ Succeed(w) \/ Fail(w) \/ Retry(w) \/ Ack(w)

WorkerFault(w) ==
    DatabaseError(w) \/ WorkerCrash(w) \/ WorkerLost(w) \/ Redelivery(w)

Next ==
    \/ \E r \in Requests : RequestStep(r)
    \/ \E d \in Dispatchers : DispatcherStep(d) \/ DispatcherDies(d)
    \/ \E w \in Workers : WorkerStep(w) \/ WriteRecommendations(w) \/ WorkerFault(w)
    \/ \E u \in Users : PurgeUser(u)

Spec == Init /\ [][Next]_vars

\* Beat fires the dispatcher for ever and a worker that runs goes on; nobody
\* has to send a request, and nothing has to fail.
FairSpec ==
    /\ Spec
    /\ \A d \in Dispatchers : WF_vars(DispatcherStep(d))
    /\ \A w \in Workers : WF_vars(WorkerStep(w))

-----------------------------------------------------------------------------
(* Safety *)

\* The body of a job runs at most once, whatever is redelivered, retried,
\* sent twice (by the admin view and by the dispatcher) or crashes: the locked
\* start in run_user_refresh_job and run_similarity_rebuild_job sees to it.
ExecutedAtMostOnce == \A j \in JobIds : executions[j] <= 1

\* started_at is the record of an execution: it is set in the step that starts
\* the body and never before, so a row that was claimed but not stamped can be
\* executed and a stamped or finished one cannot.
StampRecordsExecution ==
    \A j \in JobIds :
        /\ job[j].status # "absent" => (job[j].started <=> executions[j] = 1)
        /\ job[j].status = "pending" => ~job[j].started
        /\ job[j].status \in FinalStatus => job[j].started

Executing(w) == worker[w].pc \in {"load", "work"}

\* A body in progress owns its row: no other worker is in the body of the same
\* job, and the row says running with a start time, unless it was purged.
ExecutionOwnsRow ==
    \A w \in Workers : Executing(w) =>
        /\ \A v \in Workers \ {w} : Executing(v) => Held(v) # Held(w)
        /\ \/ job[Held(w)].status = "absent"
           \/ job[Held(w)].status = "running" /\ job[Held(w)].started

\* The locked start as a whole: one execution per job, which started_at records and which
\* alone works on the row.  Each part is why the others hold (JobsInv of the proofs).
OneExecution == ExecutedAtMostOnce /\ StampRecordsExecution /\ ExecutionOwnsRow

\* Something will still act on job j: a message, a worker that has not yet
\* looked at the row or is executing it, or a dispatcher about to send it.
Carried(j) ==
    \/ /\ ~job[j].started
       /\ \/ \E m \in Message : m.job = j /\ queue[m] > 0
          \/ \E w \in Workers : worker[w].pc = "received" /\ Held(w) = j
          \/ \E d \in Dispatchers : j \in dispatcher[d].refresh \cup dispatcher[d].similarity
    \/ /\ job[j].started
       /\ \E w \in Workers : Executing(w) /\ Held(w) = j

\* A job leaves the pending state for good, so once it is claimed nobody looks
\* for it again: until it is final something must be carrying it.  True as long
\* as the faults only repeat messages or kill requests.
RunningIsCarried == \A j \in JobIds : job[j].status = "running" => Carried(j)

\* The purpose of the JOB_ALREADY_RUNNING check and of the two
\* enqueue_..._if_needed functions: at most one unfinished job per type and
\* target.  True when the requests come one after the other.
OneActiveJob ==
    \A j, k \in JobIds :
        /\ IsActive(j) /\ IsActive(k)
        /\ job[j].kind = job[k].kind /\ job[j].target = job[k].target
        => j = k

\* A row only moves forward (or is purged): the dispatcher never takes back a
\* job that was claimed, started or finished, and no retry revives a failed one.
MovesForward ==
    \A j \in JobIds : job[j].status # "absent" /\ job'[j].status # "absent" =>
        /\ job[j].status = "running" => job'[j].status # "pending"
        /\ job[j].started => job'[j].started
        /\ job[j].status \in FinalStatus => job'[j] = job[j]

StatusMovesForward == [][MovesForward]_vars

\* The 202 answer of the list view relies on a job the view found unfinished:
\* that job is one that the dispatcher, a message or a worker will still finish.
NotReadyIsQueued ==
    [][\A r \in Requests :
         (request[r].pc = "check" /\ request'[r].pc = "idle" /\ CheckLatest(r))
         => \E j \in RefreshJobsOf(request[r].target) :
               IsActive(j) /\ (job[j].status = "running" => Carried(j))]_vars

(* Liveness *)

EventuallyEnds(kind) ==
    \A j \in JobIds :
        (IsActive(j) /\ job[j].kind = kind /\ HasTask(job[j])) ~> ~IsActive(j)

\* A run of the dispatcher that the user refreshes have not filled.
RoomForRebuild ==
    \E d \in Dispatchers : /\ dispatcher[d].pc = "similarity"
                           /\ Cardinality(dispatcher[d].refresh) < Limit

\* Every user refresh with a target is finished (or purged) in the end: a run claims the
\* oldest first.  A similarity rebuild is finished if the refreshes leave room in a run
\* again and again.  The code promises no more: runs that Limit refreshes fill one after
\* the other pass a rebuild over for as long as they do.
JobsFinish ==
    /\ EventuallyEnds("user_refresh")
    /\ []<>RoomForRebuild => EventuallyEnds("similarity_rebuild")

\* GET /recommendations/status does not say "running" for ever.
RunningStatusEnds ==
    \A u \in Users : (StatusOf(u) = "running") ~> (StatusOf(u) # "running")
=============================================================================
