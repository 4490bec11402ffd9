------------------------ MODULE RecommendationProofs ------------------------
(***************************************************************************)
(* Proofs about RecommendationJobs and about RefreshSystem, in which it    *)
(* runs together with the bodies of the jobs: for any number of users,     *)
(* games, workers, dispatchers, requests, jobs, retries, faults and        *)
(* generations, and any candidate lists.                                   *)
(***************************************************************************)
EXTENDS RefreshSystem, FiniteSetTheorems, WellFoundedInduction, TLAPS

-----------------------------------------------------------------------------
(* Type correctness *)

\* The idle records are well typed.
LEMMA IdleTypes ==
    /\ NoRow \in JobRow
    /\ IdleWorker \in WorkerState
    /\ IdleDispatcher \in DispatcherState
    /\ IdleRequest \in RequestState
  BY JobsAssumption
     DEF NoRow, JobRow, Kinds, ActiveStatus, IdleWorker, WorkerState,
         IdleDispatcher, DispatcherState, IdleRequest, RequestState

\* The initial state is well typed.
LEMMA TypeInit == Init => TypeOK
  BY IdleTypes, JobsAssumption DEF Init, TypeOK

\* Sending any message keeps the type of the broker.
LEMMA SendType ==
    ASSUME queue \in [Message -> Nat], NEW m, Send(m)
    PROVE  queue' \in [Message -> Nat]
  <1>1. ASSUME NEW n \in Message PROVE queue'[n] \in Nat
    BY DEF Send
  <1> QED
    BY <1>1 DEF Send

\* A request step keeps the types.
LEMMA TypeRequest ==
    ASSUME TypeOK, NEW r \in Requests, RequestStep(r) \/ RequestDies(r)
    PROVE  TypeOK'
  <1> USE DEF TypeOK, SetRequest
  <1>0. request[r] \in RequestState
    OBVIOUS
  <1>1. ASSUME NEW u \in Users, ListNotReady(r, u) PROVE TypeOK'
    <2>1. [IdleRequest EXCEPT !.pc = "check", !.target = u] \in RequestState
      BY IdleTypes DEF RequestState
    <2> QED
      BY <1>1, <2>1 DEF ListNotReady
  <1>2. CASE CheckLatest(r)
    <2>1. [request[r] EXCEPT !.pc = "create"] \in RequestState
      BY <1>0 DEF RequestState
    <2> QED
      BY <1>2, <2>1, IdleTypes DEF CheckLatest
  <1>3. ASSUME NEW kind \in Kinds, NEW t \in Users \cup {NoUser}, AdminCheck(r, kind, t)
        PROVE  TypeOK'
    <2>1. [pc |-> "create", origin |-> "admin", kind |-> kind, target |-> t, job |-> 0]
            \in RequestState
      BY JobsAssumption DEF RequestState
    <2> QED
      BY <1>3, <2>1 DEF AdminCheck
  <1>4. CASE BeatCheck(r)
    <2>1. [pc |-> "create", origin |-> "beat", kind |-> "similarity_rebuild",
           target |-> NoUser, job |-> 0] \in RequestState
      BY JobsAssumption DEF RequestState, Kinds
    <2> QED
      BY <1>4, <2>1 DEF BeatCheck
  <1>5. CASE CreateJob(r)
    <2>1. nextJob \in JobIds /\ nextJob \in 0..MaxJobs /\ nextJob' \in 1..(MaxJobs + 1)
      BY <1>5, JobsAssumption DEF CreateJob, JobIds
    <2>2. [kind |-> request[r].kind, target |-> request[r].target,
           status |-> "pending", started |-> FALSE, retryCount |-> 0] \in JobRow
      BY <1>0 DEF RequestState, JobRow, ActiveStatus
    <2>3. [request[r] EXCEPT !.pc = "publish", !.job = nextJob] \in RequestState
      BY <1>0, <2>1 DEF RequestState
    <2> QED
      BY <1>5, <2>1, <2>2, <2>3, IdleTypes DEF CreateJob
  <1>6. CASE CreateRefused(r)
    BY <1>6, IdleTypes DEF CreateRefused
  <1>7. CASE Publish(r)
    BY <1>7, IdleTypes, SendType DEF Publish
  <1>8. CASE RequestDies(r)
    BY <1>8, IdleTypes, JobsAssumption DEF RequestDies, Fault
  <1> QED
    BY <1>1, <1>2, <1>3, <1>4, <1>5, <1>6, <1>7, <1>8 DEF RequestStep

\* Claiming a batch rewrites rows to rows.
LEMMA ClaimedRowsType ==
    ASSUME TypeOK, NEW batch PROVE ClaimedRows(batch) \in [JobIds -> JobRow]
  <1>1. ASSUME NEW j \in JobIds
        PROVE  [job[j] EXCEPT !.status = "running", !.started = FALSE] \in JobRow
    BY DEF TypeOK, JobRow, ActiveStatus
  <1> QED
    BY <1>1 DEF TypeOK, ClaimedRows

\* What SetDispatcher stores is well typed.
LEMMA SetDispatcherType ==
    ASSUME TypeOK, NEW d \in Dispatchers, NEW next \in {"similarity", "dispatch"},
           NEW A \in SUBSET JobIds, NEW B \in SUBSET JobIds,
           SetDispatcher(d, next, A, B)
    PROVE  dispatcher' \in [Dispatchers -> DispatcherState]
  <1>1. [pc |-> next, refresh |-> A, similarity |-> B] \in DispatcherState
    BY DEF DispatcherState
  <1> QED
    BY <1>1, IdleTypes DEF SetDispatcher, TypeOK

\* A dispatcher step keeps the types.
LEMMA TypeDispatcher ==
    ASSUME TypeOK, NEW d \in Dispatchers, DispatcherStep(d) \/ DispatcherDies(d)
    PROVE  TypeOK'
  <1>0. dispatcher[d].refresh \in SUBSET JobIds /\ dispatcher[d].similarity \in SUBSET JobIds
    BY DEF TypeOK, DispatcherState
  <1>a. ASSUME NEW kind, NEW n PROVE FirstOf(Pending(kind), n) \in SUBSET JobIds
    BY DEF FirstOf, Pending
  <1>1. CASE ClaimUserRefresh(d)
    <2>1. job' \in [JobIds -> JobRow]
      BY <1>1, ClaimedRowsType DEF ClaimUserRefresh
    <2>2. dispatcher' \in [Dispatchers -> DispatcherState]
      BY <1>1, <1>a, SetDispatcherType DEF ClaimUserRefresh
    <2> QED
      BY <1>1, <2>1, <2>2 DEF ClaimUserRefresh, TypeOK
  <1>2. CASE ClaimSimilarity(d)
    <2>1. job' \in [JobIds -> JobRow]
      BY <1>2, ClaimedRowsType DEF ClaimSimilarity
    <2>2. dispatcher' \in [Dispatchers -> DispatcherState]
      BY <1>2, <1>0, <1>a, SetDispatcherType DEF ClaimSimilarity
    <2> QED
      BY <1>2, <2>1, <2>2 DEF ClaimSimilarity, TypeOK
  <1>3. ASSUME NEW j \in JobIds, Dispatch(d, j) PROVE TypeOK'
    <2>1. dispatcher' \in [Dispatchers -> DispatcherState]
      BY <1>3, <1>0, SetDispatcherType DEF Dispatch
    <2> QED
      BY <1>3, <2>1, SendType DEF Dispatch, TypeOK
  <1>4. CASE DispatcherDies(d)
    BY <1>4, IdleTypes, JobsAssumption DEF DispatcherDies, Fault, TypeOK
  <1> QED
    BY <1>1, <1>2, <1>3, <1>4 DEF DispatcherStep

\* What a worker step stores in the table is a row.
LEMMA RowTypes ==
    ASSUME NEW row \in JobRow, NEW n \in Nat
    PROVE  /\ StartedRow(row) \in JobRow
           /\ FinishedRow(row, "success", n) \in JobRow
           /\ FinishedRow(row, "failed", n) \in JobRow
  BY DEF StartedRow, FinishedRow, JobRow, ActiveStatus, FinalStatus

\* A worker that is not idle holds a message of an existing key.
LEMMA BusyType ==
    ASSUME TypeOK, NEW w \in Workers, worker[w].pc # "idle"
    PROVE  /\ worker[w] \in BusyWorker
           /\ worker[w].msg \in Message
           /\ worker[w].retryCount \in Nat
           /\ Held(w) \in JobIds
  <1>1. worker[w] \in BusyWorker
    BY DEF TypeOK, WorkerState, IdleWorker
  <1> QED
    BY <1>1 DEF BusyWorker, Message, Held

\* Changing the program counter of a worker keeps its state well typed.
LEMMA SetPcType ==
    ASSUME TypeOK, NEW w \in Workers,
           NEW pc \in {"received", "load", "work", "retry", "ack"},
           worker[w].pc # "idle", SetPc(w, pc)
    PROVE  worker' \in [Workers -> WorkerState]
  <1>1. [worker[w] EXCEPT !.pc = pc] \in WorkerState
    BY BusyType DEF WorkerState, BusyWorker
  <1> QED
    BY <1>1 DEF SetPc, TypeOK

\* A worker that releases its message is idle.
LEMMA ReleaseType ==
    ASSUME TypeOK, NEW w \in Workers, Release(w)
    PROVE  worker' \in [Workers -> WorkerState]
  BY IdleTypes DEF Release, TypeOK

\* A step of a worker, or a fault that strikes it, keeps the types.
LEMMA TypeWorker ==
    ASSUME TypeOK, NEW w \in Workers,
           WorkerStep(w) \/ WriteRecommendations(w) \/ WorkerFault(w)
    PROVE  TypeOK'
  <1> USE DEF TypeOK
  <1>f. ASSUME NEW kind, Fault(kind) PROVE faults' \in 0..MaxFaults
    BY <1>f, JobsAssumption DEF Fault
  <1>1. ASSUME NEW m \in Message, Receive(w, m) PROVE TypeOK'
    <2>1. [pc |-> "received", msg |-> m, retryCount |-> 0] \in WorkerState
      BY DEF WorkerState, BusyWorker
    <2>2. queue' \in [Message -> Nat]
      BY <1>1 DEF Receive
    <2> QED
      BY <1>1, <2>1, <2>2 DEF Receive
  <1>2. CASE StartJob(w)
    <2>0. worker[w] \in BusyWorker /\ Held(w) \in JobIds
      BY <1>2, BusyType DEF StartJob
    <2>1. job' \in [JobIds -> JobRow]
      BY <1>2, RowTypes DEF StartJob
    <2>2. executions' \in [JobIds -> Nat]
      BY <1>2, <2>0 DEF StartJob
    <2>3. [worker[w] EXCEPT !.pc = "load", !.retryCount = job[Held(w)].retryCount]
            \in WorkerState
      BY <2>0 DEF WorkerState, BusyWorker, JobRow
    <2>4. worker' = [worker EXCEPT ![w] =
            [worker[w] EXCEPT !.pc = "load", !.retryCount = job[Held(w)].retryCount]]
      BY <1>2 DEF StartJob
    <2> QED
      BY <1>2, <2>1, <2>2, <2>3, <2>4 DEF StartJob
  <1>3. CASE SkipJob(w)
    BY <1>3, SetPcType DEF SkipJob
  <1>4. CASE LoadUser(w)
    BY <1>4, SetPcType DEF LoadUser
  <1>5. CASE WriteRecommendations(w)
    BY <1>5 DEF WriteRecommendations
  <1>6. CASE Succeed(w)
    <2>1. job' \in [JobIds -> JobRow]
      <3>1. ASSUME NEW j \in JobIds
            PROVE  FinishedRow(job[j], "success", job[j].retryCount) \in JobRow
        BY RowTypes DEF JobRow
      <3> QED
        BY <1>6, <3>1 DEF Succeed
    <2> QED
      BY <1>6, <2>1, SetPcType DEF Succeed
  <1>7. CASE Fail(w)
    <2>1. job' \in [JobIds -> JobRow]
      <3>1. ASSUME NEW j \in JobIds
            PROVE  FinishedRow(job[j], "failed", worker[w].retryCount + 1) \in JobRow
        <4>1. worker[w].retryCount + 1 \in Nat
          BY <1>7, BusyType DEF Fail
        <4> QED
          BY <4>1, RowTypes
      <3> QED
        BY <1>7, <3>1 DEF Fail
    <2> QED
      BY <1>7, <2>1, SetPcType DEF Fail
  <1>8. CASE Retry(w)
    BY <1>8, ReleaseType, SendType DEF Retry
  <1>9. CASE Ack(w)
    BY <1>9, ReleaseType DEF Ack
  <1>10. CASE DatabaseError(w)
    BY <1>10, <1>f, SetPcType DEF DatabaseError
  <1>11. CASE WorkerCrash(w)
    BY <1>11, <1>f, ReleaseType, SendType DEF WorkerCrash
  <1>12. CASE WorkerLost(w)
    BY <1>12, <1>f, ReleaseType DEF WorkerLost
  <1>13. CASE Redelivery(w)
    BY <1>13, <1>f, SendType DEF Redelivery
  <1> QED
    BY <1>1, <1>2, <1>3, <1>4, <1>5, <1>6, <1>7, <1>8, <1>9, <1>10, <1>11,
       <1>12, <1>13 DEF WorkerStep, WorkerFault

\* Purging a user keeps the types.
LEMMA TypePurge ==
    ASSUME TypeOK, NEW u \in Users, PurgeUser(u)
    PROVE  TypeOK'
  BY IdleTypes DEF TypeOK, PurgeUser

\* Every step keeps the types.
LEMMA TypeNext == TypeOK /\ [Next]_vars => TypeOK'
  <1> SUFFICES ASSUME TypeOK, [Next]_vars PROVE TypeOK'
    OBVIOUS
  <1>1. ASSUME NEW r \in Requests, RequestStep(r) PROVE TypeOK'
    BY <1>1, TypeRequest
  <1>2. ASSUME NEW d \in Dispatchers, DispatcherStep(d) \/ DispatcherDies(d) PROVE TypeOK'
    BY <1>2, TypeDispatcher
  <1>3. ASSUME NEW w \in Workers,
               WorkerStep(w) \/ WriteRecommendations(w) \/ WorkerFault(w)
        PROVE  TypeOK'
    BY <1>3, TypeWorker
  <1>4. ASSUME NEW u \in Users, PurgeUser(u) PROVE TypeOK'
    BY <1>4, TypePurge
  <1>5. CASE UNCHANGED vars
    BY <1>5 DEF TypeOK, vars
  <1> QED
    BY <1>1, <1>2, <1>3, <1>4, <1>5 DEF Next

\* The job table, the broker and every process stay well typed, whatever
\* crashes or is delivered twice.
THEOREM TypeCorrect == Spec => []TypeOK
  <1>1. Init => TypeOK
    BY TypeInit
  <1>2. TypeOK /\ [Next]_vars => TypeOK'
    BY TypeNext
  <1> QED
    BY <1>1, <1>2, PTL DEF Spec

-----------------------------------------------------------------------------
(* A body runs at most once, in one worker *)

\* Keys not yet handed out have no row and no execution.
KeysFresh ==
    \A j \in JobIds : j >= nextJob => job[j].status = "absent" /\ executions[j] = 0

\* A worker in the body is the one counted in executions.
ExecutingIsCounted == \A w \in Workers : Executing(w) => executions[Held(w)] = 1

\* The inductive invariant.  The start test reads started_at, so the proof
\* needs StampRecordsExecution; purged rows lose their stamp, so it needs the
\* count itself and ExecutingIsCounted; new rows need KeysFresh.
JobsInv ==
    /\ TypeOK
    /\ KeysFresh
    /\ ExecutedAtMostOnce
    /\ StampRecordsExecution
    /\ ExecutionOwnsRow
    /\ ExecutingIsCounted

\* The invariant holds when the system starts.
LEMMA JobsInvInit == Init => JobsInv
  <1> SUFFICES ASSUME Init PROVE JobsInv
    OBVIOUS
  <1>1. \A j \in JobIds : job[j].status = "absent" /\ executions[j] = 0
    BY DEF Init, NoRow
  <1>2. \A w \in Workers : ~Executing(w)
    BY DEF Init, Executing, IdleWorker
  <1> QED
    BY <1>1, <1>2, TypeInit
       DEF JobsInv, KeysFresh, ExecutedAtMostOnce, StampRecordsExecution,
           ExecutionOwnsRow, ExecutingIsCounted, ActiveStatus, FinalStatus

\* Steps that write neither the table nor the workers keep the invariant.
LEMMA JobsInvQuiet ==
    ASSUME JobsInv, TypeOK', UNCHANGED <<job, nextJob, worker, executions>>
    PROVE  JobsInv'
  BY DEF JobsInv, KeysFresh, ExecutedAtMostOnce, StampRecordsExecution,
         ExecutionOwnsRow, ExecutingIsCounted, Executing, Held

\* So do steps after which one worker is outside the body and no row changed.
LEMMA JobsInvOutside ==
    ASSUME JobsInv, TypeOK', NEW w \in Workers,
           UNCHANGED <<job, nextJob, executions>>,
           ~Executing(w)',
           \A v \in Workers \ {w} : worker'[v] = worker[v]
    PROVE  JobsInv'
  <1>1. \A v \in Workers : Executing(v)' => /\ v # w /\ Executing(v)
                                           /\ Held(v)' = Held(v)
    BY DEF Executing, Held
  <1>2. ExecutionOwnsRow'
    BY <1>1 DEF JobsInv, ExecutionOwnsRow
  <1>3. ExecutingIsCounted'
    BY <1>1 DEF JobsInv, ExecutingIsCounted
  <1> QED
    BY <1>2, <1>3 DEF JobsInv, KeysFresh, ExecutedAtMostOnce, StampRecordsExecution

\* A request adds at most one pending row, at a fresh key.
LEMMA JobsInvRequest ==
    ASSUME JobsInv, TypeOK', NEW r \in Requests, RequestStep(r) \/ RequestDies(r)
    PROVE  JobsInv'
  <1>1. CASE CreateJob(r)
    <2>1. nextJob \in JobIds /\ nextJob' = nextJob + 1 /\ nextJob \in Nat
      BY <1>1, JobsAssumption DEF CreateJob, JobIds, JobsInv, TypeOK
    <2>2. /\ job'[nextJob].status = "pending" /\ job'[nextJob].started = FALSE
          /\ executions[nextJob] = 0
      BY <1>1, <2>1 DEF CreateJob, JobsInv, TypeOK, KeysFresh
    <2>3. \A j \in JobIds : j # nextJob => job'[j] = job[j]
      BY <1>1 DEF CreateJob, JobsInv, TypeOK
    <2>4. worker' = worker /\ executions' = executions
      BY <1>1 DEF CreateJob
    <2>5. \A w \in Workers : Executing(w) => Held(w) # nextJob /\ Held(w) \in JobIds
      BY <2>2, BusyType DEF JobsInv, ExecutingIsCounted, Executing
    <2>6. KeysFresh'
      <3> SUFFICES ASSUME NEW j \in JobIds, j >= nextJob'
                   PROVE  job'[j].status = "absent" /\ executions'[j] = 0
        BY DEF KeysFresh
      <3>1. j # nextJob /\ j >= nextJob
        BY <2>1 DEF JobIds
      <3> QED
        BY <3>1, <2>3, <2>4 DEF JobsInv, KeysFresh
    <2>7. StampRecordsExecution'
      BY <2>2, <2>3, <2>4 DEF JobsInv, StampRecordsExecution, FinalStatus
    <2>8. ExecutionOwnsRow' /\ ExecutingIsCounted'
      BY <2>3, <2>4, <2>5
         DEF JobsInv, ExecutionOwnsRow, ExecutingIsCounted, Executing, Held
    <2> QED
      BY <2>4, <2>6, <2>7, <2>8 DEF JobsInv, ExecutedAtMostOnce
  <1>2. CASE ~CreateJob(r)
    <2>1. UNCHANGED <<job, nextJob, worker, executions>>
      BY <1>2 DEF RequestStep, ListNotReady, CheckLatest, AdminCheck, BeatCheck,
                  CreateRefused, Publish, RequestDies
    <2> QED
      BY <2>1, JobsInvQuiet
  <1> QED
    BY <1>1, <1>2

\* Claiming changes pending rows only, and those carry no stamp.
LEMMA JobsInvClaim ==
    ASSUME JobsInv, TypeOK', NEW batch \in SUBSET JobIds,
           \A j \in batch : job[j].status = "pending",
           job' = ClaimedRows(batch), UNCHANGED <<nextJob, worker, executions>>
    PROVE  JobsInv'
  <1>1. \A j \in JobIds : j \notin batch => job'[j] = job[j]
    BY DEF ClaimedRows
  <1>2. \A j \in batch : job'[j].status = "running" /\ job'[j].started = FALSE
    BY DEF ClaimedRows, JobsInv, TypeOK, JobRow
  <1>3. \A j \in batch : executions[j] # 1
    BY DEF JobsInv, StampRecordsExecution
  <1>4. KeysFresh'
    BY <1>1 DEF JobsInv, KeysFresh
  <1>5. StampRecordsExecution'
    BY <1>1, <1>2, <1>3 DEF JobsInv, StampRecordsExecution, FinalStatus
  <1>6. \A w \in Workers : Executing(w) => Held(w) \in JobIds \ batch
    BY <1>3, BusyType DEF JobsInv, ExecutingIsCounted, Executing
  <1>7. ExecutionOwnsRow' /\ ExecutingIsCounted'
    BY <1>1, <1>6 DEF JobsInv, ExecutionOwnsRow, ExecutingIsCounted, Executing, Held
  <1> QED
    BY <1>4, <1>5, <1>7 DEF JobsInv, ExecutedAtMostOnce

\* The dispatcher claims pending jobs and sends messages.
LEMMA JobsInvDispatcher ==
    ASSUME JobsInv, TypeOK', NEW d \in Dispatchers,
           DispatcherStep(d) \/ DispatcherDies(d)
    PROVE  JobsInv'
  <1>a. ASSUME NEW kind, NEW n
        PROVE  /\ FirstOf(Pending(kind), n) \in SUBSET JobIds
               /\ \A j \in FirstOf(Pending(kind), n) : job[j].status = "pending"
    BY DEF FirstOf, Pending
  <1>1. CASE ClaimUserRefresh(d)
    BY <1>1, <1>a, JobsInvClaim DEF ClaimUserRefresh
  <1>2. CASE ClaimSimilarity(d)
    BY <1>2, <1>a, JobsInvClaim DEF ClaimSimilarity
  <1>3. CASE DispatcherDies(d) \/ \E j \in JobIds : Dispatch(d, j)
    BY <1>3, JobsInvQuiet DEF DispatcherDies, Dispatch
  <1> QED
    BY <1>1, <1>2, <1>3 DEF DispatcherStep

\* The locked start: the row was not stamped, so nobody had executed the job.
LEMMA JobsInvStart ==
    ASSUME JobsInv, TypeOK', NEW w \in Workers, StartJob(w)
    PROVE  JobsInv'
  <1> DEFINE h == Held(w)
  <1>0. /\ h \in JobIds
        /\ worker[w] \in BusyWorker
    BY BusyType DEF StartJob, JobsInv
  <1>1. /\ job[h].status # "absent" /\ ~job[h].started
        /\ executions[h] = 0
    <2>1. job[h].status # "absent" /\ ~job[h].started
      BY <1>0 DEF StartJob, MayStart, JobsInv, StampRecordsExecution
    <2>2. executions[h] \in Nat /\ executions[h] <= 1 /\ executions[h] # 1
      BY <1>0, <2>1 DEF JobsInv, TypeOK, ExecutedAtMostOnce, StampRecordsExecution
    <2> QED
      BY <2>1, <2>2
  <1>2. job'[h].status = "running" /\ job'[h].started = TRUE /\ executions'[h] = 1
    BY <1>0, <1>1 DEF StartJob, StartedRow, JobsInv, TypeOK, JobRow
  <1>3. \A j \in JobIds : j # h => job'[j] = job[j] /\ executions'[j] = executions[j]
    BY DEF StartJob, JobsInv, TypeOK
  <1>4. /\ Executing(w)' /\ Held(w)' = h
        /\ \A v \in Workers : v # w => worker'[v] = worker[v]
    BY <1>0 DEF StartJob, JobsInv, TypeOK, BusyWorker, Executing, Held
  <1>5. \A v \in Workers : Executing(v) => Held(v) # h /\ Held(v) \in JobIds
    BY <1>1, BusyType DEF JobsInv, ExecutingIsCounted, Executing
  <1>6. KeysFresh'
    BY <1>1, <1>3 DEF JobsInv, KeysFresh, StartJob
  <1>7. ExecutedAtMostOnce'
    BY <1>2, <1>3 DEF JobsInv, ExecutedAtMostOnce
  <1>8. StampRecordsExecution'
    BY <1>2, <1>3 DEF JobsInv, StampRecordsExecution, FinalStatus
  <1>9. \A v \in Workers : v # w =>
           /\ Executing(v)' <=> Executing(v)
           /\ Held(v)' = Held(v)
    BY <1>4 DEF Executing, Held
  <1>10. ExecutionOwnsRow'
    <2> SUFFICES ASSUME NEW v \in Workers, Executing(v)'
                 PROVE  /\ \A x \in Workers \ {v} : Executing(x)' => Held(x)' # Held(v)'
                        /\ \/ job'[Held(v)'].status = "absent"
                           \/ job'[Held(v)'].status = "running" /\ job'[Held(v)'].started
      BY DEF ExecutionOwnsRow
    <2>1. CASE v = w
      BY <2>1, <1>2, <1>4, <1>5, <1>9
    <2>2. CASE v # w
      BY <2>2, <1>3, <1>4, <1>5, <1>9 DEF JobsInv, ExecutionOwnsRow
    <2> QED
      BY <2>1, <2>2
  <1>11. ExecutingIsCounted'
    BY <1>2, <1>3, <1>4, <1>5, <1>9 DEF JobsInv, ExecutingIsCounted
  <1> QED
    BY <1>6, <1>7, <1>8, <1>10, <1>11 DEF JobsInv

\* The final update: the row of the worker's own job, which it then leaves.
LEMMA JobsInvFinish ==
    ASSUME JobsInv, TypeOK', NEW w \in Workers, Succeed(w) \/ Fail(w)
    PROVE  JobsInv'
  <1> DEFINE h == Held(w)
  <1>0. h \in JobIds /\ Executing(w) /\ worker[w] \in BusyWorker
    BY BusyType DEF Succeed, Fail, JobsInv, Executing
  <1>1. \/ job'[h] = job[h] /\ job[h].status = "absent"
        \/ /\ job[h].status = "running" /\ job[h].started
           /\ job'[h].status \in FinalStatus /\ job'[h].started = job[h].started
    <2>1. \/ job[h].status = "absent"
          \/ job[h].status = "running" /\ job[h].started
      BY <1>0 DEF JobsInv, ExecutionOwnsRow
    <2>2. PICK status \in FinalStatus, n \in Nat : job'[h] = FinishedRow(job[h], status, n)
      <3>1. job[h].retryCount \in Nat /\ worker[w].retryCount + 1 \in Nat
        BY <1>0 DEF JobsInv, TypeOK, JobRow, BusyWorker
      <3>2. \/ job'[h] = FinishedRow(job[h], "success", job[h].retryCount)
            \/ job'[h] = FinishedRow(job[h], "failed", worker[w].retryCount + 1)
        BY <1>0 DEF Succeed, Fail, JobsInv, TypeOK
      <3> QED
        BY <3>1, <3>2 DEF FinalStatus
    <2>3. job[h] \in JobRow
      BY <1>0 DEF JobsInv, TypeOK
    <2> QED
      BY <2>1, <2>2, <2>3 DEF FinishedRow, JobRow
  <1>2. \A j \in JobIds : j # h => job'[j] = job[j]
    BY DEF Succeed, Fail, JobsInv, TypeOK
  <1>3. nextJob' = nextJob /\ executions' = executions
    BY DEF Succeed, Fail
  <1>4. ~Executing(w)' /\ \A v \in Workers : v # w => worker'[v] = worker[v]
    BY <1>0 DEF Succeed, Fail, SetPc, Executing, JobsInv, TypeOK, BusyWorker
  <1>5. \A v \in Workers : Executing(v)' =>
           /\ v # w /\ Executing(v) /\ Held(v)' = Held(v)
           /\ Held(v) # h /\ Held(v) \in JobIds
    BY <1>0, <1>4, BusyType DEF JobsInv, ExecutionOwnsRow, Executing, Held
  <1>6. KeysFresh'
    BY <1>1, <1>2, <1>3 DEF JobsInv, KeysFresh
  <1>7. StampRecordsExecution'
    BY <1>1, <1>2, <1>3 DEF JobsInv, StampRecordsExecution, FinalStatus
  <1>8. ExecutionOwnsRow'
    BY <1>2, <1>5 DEF JobsInv, ExecutionOwnsRow
  <1>9. ExecutingIsCounted'
    BY <1>3, <1>5 DEF JobsInv, ExecutingIsCounted
  <1> QED
    BY <1>3, <1>6, <1>7, <1>8, <1>9 DEF JobsInv, ExecutedAtMostOnce

\* Loading the user moves a worker within the body.
LEMMA JobsInvLoad ==
    ASSUME JobsInv, TypeOK', NEW w \in Workers, LoadUser(w)
    PROVE  JobsInv'
  <1>1. worker[w] \in BusyWorker
    BY BusyType DEF LoadUser, JobsInv
  <1>2. \A v \in Workers : Executing(v)' <=> Executing(v)
    BY <1>1 DEF LoadUser, SetPc, Executing, JobsInv, TypeOK, BusyWorker
  <1>3. \A v \in Workers : Held(v)' = Held(v)
    BY <1>1 DEF LoadUser, SetPc, Held, JobsInv, TypeOK, BusyWorker
  <1>4. UNCHANGED <<job, nextJob, executions>>
    BY DEF LoadUser
  <1> QED
    BY <1>2, <1>3, <1>4 DEF JobsInv, KeysFresh, ExecutedAtMostOnce,
       StampRecordsExecution, ExecutionOwnsRow, ExecutingIsCounted

\* A step of a worker, or a fault that strikes it, keeps the invariant.
LEMMA JobsInvWorker ==
    ASSUME JobsInv, TypeOK', NEW w \in Workers,
           WorkerStep(w) \/ WriteRecommendations(w) \/ WorkerFault(w)
    PROVE  JobsInv'
  <1>0. worker \in [Workers -> WorkerState]
    BY DEF JobsInv, TypeOK
  <1>p. ASSUME NEW pc \in {"retry", "ack"}, SetPc(w, pc), worker[w].pc # "idle"
        PROVE  ~Executing(w)' /\ \A v \in Workers \ {w} : worker'[v] = worker[v]
    <2>1. worker[w] \in BusyWorker
      BY <1>p, BusyType DEF JobsInv
    <2> QED
      BY <1>p, <2>1, <1>0 DEF SetPc, Executing, BusyWorker
  <1>r. ASSUME Release(w)
        PROVE  ~Executing(w)' /\ \A v \in Workers \ {w} : worker'[v] = worker[v]
    BY <1>r, <1>0 DEF Release, Executing, IdleWorker
  <1>1. ASSUME NEW m \in Message, Receive(w, m) PROVE JobsInv'
    <2>1. ~Executing(w)' /\ \A v \in Workers \ {w} : worker'[v] = worker[v]
      BY <1>1, <1>0 DEF Receive, Executing
    <2> QED
      BY <1>1, <2>1, JobsInvOutside DEF Receive
  <1>2. CASE StartJob(w)
    BY <1>2, JobsInvStart
  <1>3. CASE SkipJob(w)
    BY <1>3, <1>p, JobsInvOutside DEF SkipJob
  <1>4. CASE LoadUser(w)
    BY <1>4, JobsInvLoad
  <1>5. CASE Succeed(w) \/ Fail(w)
    BY <1>5, JobsInvFinish
  <1>6. CASE Retry(w) \/ Ack(w)
    BY <1>6, <1>r, JobsInvOutside DEF Retry, Ack
  <1>7. CASE DatabaseError(w)
    BY <1>7, <1>p, JobsInvOutside DEF DatabaseError
  <1>8. CASE WorkerCrash(w) \/ WorkerLost(w)
    BY <1>8, <1>r, JobsInvOutside DEF WorkerCrash, WorkerLost
  <1>9. CASE WriteRecommendations(w) \/ Redelivery(w)
    BY <1>9, JobsInvQuiet DEF WriteRecommendations, Redelivery
  <1> QED
    BY <1>1, <1>2, <1>3, <1>4, <1>5, <1>6, <1>7, <1>8, <1>9
       DEF WorkerStep, WorkerFault

\* Purging removes rows; a worker in the body of a removed job finds none.
LEMMA JobsInvPurge ==
    ASSUME JobsInv, TypeOK', NEW u \in Users, PurgeUser(u)
    PROVE  JobsInv'
  <1>1. \A j \in JobIds : job'[j] = job[j] \/ job'[j].status = "absent"
    BY DEF PurgeUser, NoRow
  <1>2. UNCHANGED <<nextJob, worker, executions>>
    BY DEF PurgeUser
  <1>3. \A w \in Workers : Executing(w) => Held(w) \in JobIds
    BY BusyType DEF JobsInv, Executing
  <1>4. KeysFresh' /\ ExecutedAtMostOnce' /\ ExecutingIsCounted'
    BY <1>1, <1>2 DEF JobsInv, KeysFresh, ExecutedAtMostOnce, ExecutingIsCounted,
                      Executing, Held
  <1>5. StampRecordsExecution'
    BY <1>1, <1>2 DEF JobsInv, StampRecordsExecution, FinalStatus
  <1>6. ExecutionOwnsRow'
    BY <1>1, <1>2, <1>3 DEF JobsInv, ExecutionOwnsRow, Executing, Held
  <1> QED
    BY <1>4, <1>5, <1>6 DEF JobsInv

\* Every step keeps the invariant.
LEMMA JobsInvNext == JobsInv /\ [Next]_vars => JobsInv'
  <1> SUFFICES ASSUME JobsInv, [Next]_vars PROVE JobsInv'
    OBVIOUS
  <1>0. TypeOK'
    BY TypeNext DEF JobsInv
  <1>1. ASSUME NEW r \in Requests, RequestStep(r) PROVE JobsInv'
    BY <1>0, <1>1, JobsInvRequest
  <1>2. ASSUME NEW d \in Dispatchers, DispatcherStep(d) \/ DispatcherDies(d) PROVE JobsInv'
    BY <1>0, <1>2, JobsInvDispatcher
  <1>3. ASSUME NEW w \in Workers,
               WorkerStep(w) \/ WriteRecommendations(w) \/ WorkerFault(w)
        PROVE  JobsInv'
    BY <1>0, <1>3, JobsInvWorker
  <1>4. ASSUME NEW u \in Users, PurgeUser(u) PROVE JobsInv'
    BY <1>0, <1>4, JobsInvPurge
  <1>5. CASE UNCHANGED vars
    BY <1>0, <1>5, JobsInvQuiet DEF vars
  <1> QED
    BY <1>1, <1>2, <1>3, <1>4, <1>5 DEF Next

\* The body of a job runs at most once, for any number of workers and faults:
\* crashes, redeliveries, retries and double dispatch never execute it again.
THEOREM AtMostOnce == Spec => []ExecutedAtMostOnce
  <1>1. JobsInv => ExecutedAtMostOnce
    BY DEF JobsInv
  <1> QED
    BY <1>1, JobsInvInit, JobsInvNext, PTL DEF Spec

\* A worker in the body is the only one there, on a row marked running and
\* stamped, unless the row was purged under it.
THEOREM BodyOwnsRow == Spec => []ExecutionOwnsRow
  <1>1. JobsInv => ExecutionOwnsRow
    BY DEF JobsInv
  <1> QED
    BY <1>1, JobsInvInit, JobsInvNext, PTL DEF Spec

\* started_at records exactly the jobs whose body was started.
THEOREM StampIsExecution == Spec => []StampRecordsExecution
  <1>1. JobsInv => StampRecordsExecution
    BY DEF JobsInv
  <1> QED
    BY <1>1, JobsInvInit, JobsInvNext, PTL DEF Spec

-----------------------------------------------------------------------------
(* Rows only move forward *)

\* The three kinds of table writes: a claim takes pending rows, a start takes an
\* unstamped row, a finish takes the running row its worker owns.
LEMMA ForwardStep == JobsInv /\ [Next]_vars => [MovesForward]_vars
  <1> SUFFICES ASSUME JobsInv, Next PROVE MovesForward
    OBVIOUS
  <1>0. job' = job => MovesForward
    BY DEF MovesForward
  <1>1. ASSUME NEW r \in Requests, RequestStep(r) PROVE MovesForward
    <2>1. CASE CreateJob(r)
      <3>1. \A j \in JobIds : j # nextJob => job'[j] = job[j]
        BY <2>1 DEF CreateJob, JobsInv, TypeOK
      <3>2. \A j \in JobIds : j = nextJob => job[j].status = "absent"
        BY DEF JobsInv, KeysFresh, JobIds
      <3> QED
        BY <3>1, <3>2 DEF MovesForward, FinalStatus
    <2>2. CASE ~CreateJob(r)
      BY <1>0, <1>1, <2>2
         DEF RequestStep, ListNotReady, CheckLatest, AdminCheck, BeatCheck,
             CreateRefused, Publish, RequestDies
    <2> QED
      BY <2>1, <2>2
  <1>2. ASSUME NEW d \in Dispatchers, DispatcherStep(d) \/ DispatcherDies(d)
        PROVE  MovesForward
    <2>a. ASSUME NEW kind, NEW n, job' = ClaimedRows(FirstOf(Pending(kind), n))
          PROVE  MovesForward
      <3>1. \A j \in FirstOf(Pending(kind), n) :
              /\ j \in JobIds /\ job[j].status = "pending" /\ ~job[j].started
        BY DEF FirstOf, Pending, JobsInv, StampRecordsExecution
      <3>2. \A j \in JobIds : j \notin FirstOf(Pending(kind), n) => job'[j] = job[j]
        BY <2>a DEF ClaimedRows
      <3> QED
        BY <3>1, <3>2 DEF MovesForward, FinalStatus
    <2>1. CASE ClaimUserRefresh(d)
      BY <2>1, <2>a DEF ClaimUserRefresh
    <2>2. CASE ClaimSimilarity(d)
      BY <2>2, <2>a DEF ClaimSimilarity
    <2>3. CASE DispatcherDies(d) \/ \E j \in JobIds : Dispatch(d, j)
      BY <1>0, <2>3 DEF DispatcherDies, Dispatch
    <2> QED
      BY <1>2, <2>1, <2>2, <2>3 DEF DispatcherStep
  <1>3. ASSUME NEW w \in Workers,
               WorkerStep(w) \/ WriteRecommendations(w) \/ WorkerFault(w)
        PROVE  MovesForward
    <2>1. CASE StartJob(w)
      <3>1. \A j \in JobIds : j # Held(w) => job'[j] = job[j]
        BY <2>1 DEF StartJob, JobsInv, TypeOK
      <3>2. Held(w) \in JobIds
        BY <2>1, BusyType DEF StartJob, JobsInv
      <3>3. job[Held(w)].status \in ActiveStatus
        BY <2>1 DEF StartJob, MayStart, ActiveStatus
      <3>4. job'[Held(w)].status = "running" /\ job'[Held(w)].started
        BY <2>1, <3>2 DEF StartJob, StartedRow, JobsInv, TypeOK, JobRow
      <3> QED
        BY <3>1, <3>3, <3>4 DEF MovesForward, ActiveStatus, FinalStatus
    <2>2. CASE Succeed(w) \/ Fail(w)
      <3>1. \A j \in JobIds : j # Held(w) => job'[j] = job[j]
        BY <2>2 DEF Succeed, Fail, JobsInv, TypeOK
      <3>2. Held(w) \in JobIds /\ Executing(w)
        BY <2>2, BusyType DEF Succeed, Fail, Executing, JobsInv
      <3>3. \/ job[Held(w)].status = "absent" /\ job'[Held(w)] = job[Held(w)]
            \/ job[Held(w)].status = "running"
        BY <2>2, <3>2 DEF Succeed, Fail, FinishedRow, JobsInv, TypeOK, ExecutionOwnsRow
      <3>4. job[Held(w)].status = "running" =>
              /\ job'[Held(w)].status \in FinalStatus
              /\ job'[Held(w)].started = job[Held(w)].started
        BY <2>2, <3>2 DEF Succeed, Fail, FinishedRow, JobsInv, TypeOK, JobRow, FinalStatus
      <3> QED
        BY <3>1, <3>3, <3>4 DEF MovesForward, FinalStatus
    <2>3. CASE ~StartJob(w) /\ ~Succeed(w) /\ ~Fail(w)
      BY <1>0, <1>3, <2>3
         DEF WorkerStep, WorkerFault, Receive, SkipJob, LoadUser, WriteRecommendations,
             Retry, Ack, DatabaseError, WorkerCrash, WorkerLost, Redelivery
    <2> QED
      BY <2>1, <2>2, <2>3
  <1>4. ASSUME NEW u \in Users, PurgeUser(u) PROVE MovesForward
    BY <1>4 DEF PurgeUser, NoRow, MovesForward
  <1> QED
    BY <1>1, <1>2, <1>3, <1>4 DEF Next

\* No step takes a job back: not a late dispatcher, not a retry message, not a
\* redelivered message.
THEOREM ForwardOnly == Spec => StatusMovesForward
  BY JobsInvInit, JobsInvNext, ForwardStep, PTL DEF Spec, StatusMovesForward

\* The locked start: one execution per job, recorded by started_at and alone on its row.
THEOREM ExecutionIsSingle == Spec => []OneExecution
  <1>1. ExecutedAtMostOnce /\ StampRecordsExecution /\ ExecutionOwnsRow => OneExecution
    BY DEF OneExecution
  <1>2. QED BY <1>1, AtMostOnce, StampIsExecution, BodyOwnsRow, PTL

-----------------------------------------------------------------------------
(* A running job is carried, when faults only repeat messages or kill requests *)

\* Only a job that has a task is claimed or started.
RunningHasTask == \A j \in JobIds : job[j].status = "running" => HasTask(job[j])

\* A dispatcher holds keys only between its claims and its last message.
DispatcherLists ==
    \A d \in Dispatchers :
        /\ dispatcher[d].pc = "idle" => dispatcher[d].refresh = {}
        /\ dispatcher[d].pc \in {"idle", "similarity"} => dispatcher[d].similarity = {}

\* The inductive invariant.  A worker that leaves an unstamped row would break it but
\* for RunningHasTask, and a claim that overwrote a list but for DispatcherLists.
CarriedInv == JobsInv /\ RunningHasTask /\ DispatcherLists /\ RunningIsCarried

\* Nothing is running when the system starts.
LEMMA CarriedInvInit == Init => CarriedInv
  <1> SUFFICES ASSUME Init PROVE CarriedInv
    OBVIOUS
  <1>1. RunningHasTask /\ RunningIsCarried
    BY DEF Init, NoRow, RunningHasTask, RunningIsCarried
  <1>2. DispatcherLists
    BY DEF Init, IdleDispatcher, DispatcherLists
  <1> QED
    BY <1>1, <1>2, JobsInvInit DEF CarriedInv

\* What carries a job, apart from the table: a waiting message, a worker that has not
\* looked at the row, a dispatcher about to send.
Bearers(j) ==
    \/ \E m \in Message : m.job = j /\ queue[m] > 0
    \/ \E w \in Workers : worker[w].pc = "received" /\ Held(w) = j
    \/ \E d \in Dispatchers : j \in dispatcher[d].refresh \cup dispatcher[d].similarity

\* Carried, split by the stamp of the row.
LEMMA CarriedCases ==
    ASSUME NEW j \in JobIds
    PROVE  Carried(j) <=> \/ ~job[j].started /\ Bearers(j)
                          \/ job[j].started /\ \E w \in Workers : Executing(w) /\ Held(w) = j
  BY DEF Carried, Bearers

\* A message sent is a bearer, and sending takes no message away.
LEMMA SentBears ==
    ASSUME TypeOK, NEW m \in Message, Send(m)
    PROVE  queue'[m] > 0 /\ \A n \in Message : queue[n] > 0 => queue'[n] > 0
  <1>1. queue \in [Message -> Nat]
    BY DEF TypeOK
  <1>2. queue'[m] = queue[m] + 1 /\ \A n \in Message : n # m => queue'[n] = queue[n]
    BY <1>1 DEF Send
  <1> QED
    BY <1>1, <1>2

\* A step that writes no row keeps RunningIsCarried if it keeps the bearers of unstamped
\* running rows and the workers in a body.
LEMMA CarriedKeep ==
    ASSUME CarriedInv, JobsInv', DispatcherLists', job' = job,
           \A j \in JobIds : /\ job[j].status = "running" /\ ~job[j].started /\ Bearers(j)
                             => Bearers(j)',
           \A w \in Workers : Executing(w) => Executing(w)' /\ Held(w)' = Held(w)
    PROVE  CarriedInv'
  <1>1. RunningHasTask'
    BY DEF CarriedInv, RunningHasTask, HasTask
  <1>2. RunningIsCarried'
    <2> SUFFICES ASSUME NEW j \in JobIds, job'[j].status = "running" PROVE Carried(j)'
      BY DEF RunningIsCarried
    <2>1. Carried(j)
      BY DEF CarriedInv, RunningIsCarried
    <2>2. CASE job[j].started
      BY <2>1, <2>2 DEF Carried
    <2>3. CASE ~job[j].started
      <3>1. Bearers(j)'
        BY <2>1, <2>3 DEF Carried, Bearers
      <3> QED
        BY <2>3, <3>1 DEF Carried, Bearers
    <2> QED
      BY <2>2, <2>3
  <1> QED
    BY <1>1, <1>2 DEF CarriedInv

\* Requests create pending rows and send messages.
LEMMA CarriedRequest ==
    ASSUME CarriedInv, JobsInv', NEW r \in Requests, RequestStep(r) \/ RequestDies(r)
    PROVE  CarriedInv'
  <1>0. UNCHANGED <<worker, dispatcher>>
    BY DEF RequestStep, ListNotReady, CheckLatest, AdminCheck, BeatCheck, CreateJob,
           CreateRefused, Publish, RequestDies
  <1>1. DispatcherLists'
    BY <1>0 DEF DispatcherLists, CarriedInv
  <1>2. CASE CreateJob(r)
    <2>1. \A j \in JobIds : job'[j].status = "running" => job'[j] = job[j]
      BY <1>2 DEF CreateJob, CarriedInv, JobsInv, TypeOK
    <2>2. queue' = queue
      BY <1>2 DEF CreateJob
    <2>3. RunningHasTask'
      BY <2>1 DEF RunningHasTask, HasTask, CarriedInv
    <2>4. RunningIsCarried'
      BY <1>0, <2>1, <2>2 DEF RunningIsCarried, Carried, Executing, Held, CarriedInv
    <2> QED
      BY <1>1, <2>3, <2>4 DEF CarriedInv
  <1>3. CASE Publish(r)
    <2>1. /\ TypeOK /\ TypeOK' /\ job' = job
          /\ Send([job |-> request[r].job, retries |-> 0])
      BY <1>3 DEF Publish, CarriedInv, JobsInv
    <2>2. \A n \in Message : queue[n] > 0 => queue'[n] > 0
      <3>1. \A n \in Message : queue[n] \in Nat /\ queue'[n] \in Nat
        BY <2>1 DEF TypeOK
      <3>2. \A n \in Message : queue'[n] = queue[n] \/ queue'[n] = queue[n] + 1
        BY <2>1 DEF Send, TypeOK
      <3> QED
        BY <3>1, <3>2
    <2> QED
      BY <1>0, <1>1, <2>1, <2>2, CarriedKeep DEF Bearers, Executing, Held
  <1>4. CASE ~CreateJob(r) /\ ~Publish(r)
    <2>1. job' = job /\ queue' = queue
      BY <1>4 DEF RequestStep, ListNotReady, CheckLatest, AdminCheck, BeatCheck,
                  CreateRefused, RequestDies
    <2> QED
      BY <1>0, <1>1, <2>1, CarriedKeep DEF Bearers, Executing, Held
  <1> QED
    BY <1>2, <1>3, <1>4

\* What is true after one of the two claims, where A and B are the lists that d then holds.
LEMMA CarriedClaim ==
    ASSUME CarriedInv, JobsInv', NEW d \in Dispatchers, NEW kind, NEW n,
           NEW next \in {"similarity", "dispatch"},
           NEW A \in SUBSET JobIds, NEW B \in SUBSET JobIds,
           dispatcher[d].refresh \cup dispatcher[d].similarity \subseteq A \cup B,
           FirstOf(Pending(kind), n) \subseteq A \cup B,
           next = "similarity" => B = {},
           job' = ClaimedRows(FirstOf(Pending(kind), n)),
           SetDispatcher(d, next, A, B), UNCHANGED <<queue, worker>>
    PROVE  CarriedInv'
  <1> DEFINE batch == FirstOf(Pending(kind), n)
  <1>1. \A j \in batch : j \in JobIds /\ HasTask(job[j])
    BY DEF FirstOf, Pending
  <1>2. /\ \A j \in JobIds \ batch : job'[j] = job[j]
        /\ \A j \in batch : /\ job'[j].status = "running" /\ ~job'[j].started
                            /\ job'[j].kind = job[j].kind /\ job'[j].target = job[j].target
    BY <1>1 DEF ClaimedRows, CarriedInv, JobsInv, TypeOK, JobRow
  <1>3. /\ dispatcher'[d].refresh \cup dispatcher'[d].similarity = A \cup B
        /\ \A e \in Dispatchers : e # d => dispatcher'[e] = dispatcher[e]
        /\ dispatcher'[d].pc = "similarity" => dispatcher'[d].similarity = {}
        /\ dispatcher'[d].pc = "idle" =>
             dispatcher'[d].refresh = {} /\ dispatcher'[d].similarity = {}
    BY DEF SetDispatcher, IdleDispatcher, CarriedInv, JobsInv, TypeOK
  <1>4. DispatcherLists'
    BY <1>3 DEF DispatcherLists, CarriedInv
  <1>5. RunningHasTask'
    BY <1>1, <1>2 DEF RunningHasTask, HasTask, CarriedInv
  <1>6. RunningIsCarried'
    <2> SUFFICES ASSUME NEW j \in JobIds, job'[j].status = "running" PROVE Carried(j)'
      BY DEF RunningIsCarried
    <2>1. CASE j \in batch
      BY <1>2, <1>3, <2>1 DEF Carried
    <2>2. CASE j \notin batch
      <3>1. Carried(j) /\ job'[j] = job[j]
        BY <1>2, <2>2 DEF RunningIsCarried, CarriedInv
      <3>2. \A e \in Dispatchers :
              j \in dispatcher[e].refresh \cup dispatcher[e].similarity
              => j \in dispatcher'[e].refresh \cup dispatcher'[e].similarity
        BY <1>3
      <3> QED
        BY <3>1, <3>2 DEF Carried, Executing, Held
    <2> QED
      BY <2>1, <2>2
  <1> QED
    BY <1>4, <1>5, <1>6 DEF CarriedInv

\* The dispatcher claims into its own lists and turns each of its keys into a message.
LEMMA CarriedDispatcher ==
    ASSUME CarriedInv, JobsInv', NEW d \in Dispatchers, DispatcherStep(d)
    PROVE  CarriedInv'
  <1>0. /\ dispatcher[d].refresh \in SUBSET JobIds
        /\ dispatcher[d].similarity \in SUBSET JobIds
        /\ DispatcherLists
    BY DEF CarriedInv, JobsInv, TypeOK, DispatcherState
  <1>a. ASSUME NEW kind, NEW n PROVE FirstOf(Pending(kind), n) \in SUBSET JobIds
    BY DEF FirstOf, Pending
  <1>1. CASE ClaimUserRefresh(d)
    <2> DEFINE batch == FirstOf(Pending("user_refresh"), Limit)
    <2>1. /\ dispatcher[d].refresh \cup dispatcher[d].similarity \subseteq batch \cup {}
          /\ job' = ClaimedRows(batch) /\ SetDispatcher(d, "similarity", batch, {})
          /\ UNCHANGED <<queue, worker>>
      BY <1>0, <1>1 DEF ClaimUserRefresh, DispatcherLists
    <2> QED
      BY <1>a, <2>1, CarriedClaim
  <1>2. CASE ClaimSimilarity(d)
    <2> DEFINE remaining == Limit - Cardinality(dispatcher[d].refresh)
               batch == FirstOf(Pending("similarity_rebuild"), remaining)
    <2>1. /\ dispatcher[d].refresh \cup dispatcher[d].similarity
               \subseteq dispatcher[d].refresh \cup batch
          /\ job' = ClaimedRows(batch)
          /\ SetDispatcher(d, "dispatch", dispatcher[d].refresh, batch)
          /\ UNCHANGED <<queue, worker>>
      BY <1>0, <1>2 DEF ClaimSimilarity, DispatcherLists
    <2> QED
      BY <1>0, <1>a, <2>1, CarriedClaim
  <1>3. ASSUME NEW j \in JobIds, Dispatch(d, j) PROVE CarriedInv'
    <2> DEFINE m == [job |-> j, retries |-> 0]
               A == dispatcher[d].refresh \ {j}
               B == dispatcher[d].similarity \ {j}
    <2>1. m \in Message /\ m.job = j
      BY JobsAssumption DEF Message
    <2>2. /\ queue'[m] > 0 /\ \A n \in Message : queue[n] > 0 => queue'[n] > 0
      BY <1>3, <2>1, SentBears DEF Dispatch, CarriedInv, JobsInv
    <2>3. /\ dispatcher'[d].refresh = A /\ dispatcher'[d].similarity = B
          /\ \A e \in Dispatchers : e # d => dispatcher'[e] = dispatcher[e]
          /\ dispatcher'[d].pc = "dispatch" \/ A \cup B = {}
          /\ dispatcher'[d].pc # "similarity"
      BY <1>3 DEF Dispatch, SetDispatcher, IdleDispatcher, CarriedInv, JobsInv, TypeOK
    <2>4. DispatcherLists'
      BY <1>0, <2>3 DEF DispatcherLists
    <2>5. job' = job /\ worker' = worker
      BY <1>3 DEF Dispatch
    <2>6. ASSUME NEW k \in JobIds, Bearers(k) PROVE Bearers(k)'
      <3>1. CASE k = j
        BY <2>1, <2>2, <3>1 DEF Bearers
      <3>2. CASE k # j
        BY <2>2, <2>3, <2>5, <2>6, <3>2 DEF Bearers, Held
      <3> QED
        BY <3>1, <3>2
    <2> QED
      BY <2>4, <2>5, <2>6, CarriedKeep DEF Executing, Held
  <1> QED
    BY <1>1, <1>2, <1>3 DEF DispatcherStep

\* The part of a worker step that CarriedKeep asks for, when worker w was neither about to
\* look at an unstamped running row nor in a body.
LEMMA CarriedIdleWorker ==
    ASSUME CarriedInv, JobsInv', NEW w \in Workers,
           UNCHANGED <<job, dispatcher>>,
           \A m \in Message : queue[m] > 0 => queue'[m] > 0,
           \A v \in Workers : v # w => worker'[v] = worker[v],
           ~Executing(w),
           worker[w].pc = "received" =>
               ~(job[Held(w)].status = "running" /\ ~job[Held(w)].started)
    PROVE  CarriedInv'
  <1>1. DispatcherLists'
    BY DEF DispatcherLists, CarriedInv
  <1>2. \A v \in Workers : Executing(v) => Executing(v)' /\ Held(v)' = Held(v)
    BY DEF Executing, Held
  <1>3. ASSUME NEW j \in JobIds, job[j].status = "running", ~job[j].started, Bearers(j)
        PROVE  Bearers(j)'
    BY <1>3 DEF Bearers, Held
  <1> QED
    BY <1>1, <1>2, <1>3, CarriedKeep

\* A worker takes a message over, starts the row it looked at, and leaves a row only
\* when it is final; a redelivered message is one more bearer.
LEMMA CarriedWorker ==
    ASSUME CarriedInv, JobsInv', NEW w \in Workers,
           WorkerStep(w) \/ WriteRecommendations(w) \/ Redelivery(w)
    PROVE  CarriedInv'
  <1>0. /\ TypeOK /\ worker \in [Workers -> WorkerState] /\ queue \in [Message -> Nat]
        /\ DispatcherLists /\ job \in [JobIds -> JobRow]
    BY DEF CarriedInv, JobsInv, TypeOK
  <1>d. dispatcher' = dispatcher
    BY DEF WorkerStep, Receive, StartJob, SkipJob, LoadUser, Succeed, Fail, Retry, Ack,
           WriteRecommendations, Redelivery
  <1>e. DispatcherLists'
    BY <1>0, <1>d DEF DispatcherLists
  <1>s. ASSUME NEW m \in Message, Send(m)
        PROVE  \A n \in Message : queue[n] > 0 => queue'[n] > 0
    BY <1>0, <1>s, SentBears
  <1>1. ASSUME NEW m \in Message, Receive(w, m) PROVE CarriedInv'
    <2>1. /\ worker'[w].pc = "received" /\ Held(w)' = m.job
          /\ \A v \in Workers : v # w => worker'[v] = worker[v]
          /\ worker[w].pc = "idle" /\ job' = job
      BY <1>0, <1>1 DEF Receive, Held
    <2>2. \A n \in Message : n # m => queue'[n] = queue[n]
      BY <1>0, <1>1 DEF Receive
    <2>3. ASSUME NEW j \in JobIds, Bearers(j) PROVE Bearers(j)'
      <3>1. CASE j = m.job
        BY <2>1, <3>1 DEF Bearers
      <3>2. CASE j # m.job
        <4>1. \A n \in Message : n.job = j => queue'[n] = queue[n]
          BY <2>2, <3>2
        <4>2. \A v \in Workers : worker[v].pc = "received" => worker'[v] = worker[v]
          BY <2>1
        <4> QED
          BY <1>d, <2>3, <4>1, <4>2 DEF Bearers, Held
      <3> QED
        BY <3>1, <3>2
    <2>4. \A v \in Workers : Executing(v) => Executing(v)' /\ Held(v)' = Held(v)
      BY <2>1 DEF Executing, Held
    <2> QED
      BY <1>e, <2>1, <2>3, <2>4, CarriedKeep
  <1>2. CASE StartJob(w)
    <2>0. Held(w) \in JobIds /\ worker[w] \in BusyWorker
      BY <1>0, <1>2, BusyType DEF StartJob
    <2>1. /\ \A j \in JobIds : j # Held(w) => job'[j] = job[j]
          /\ job'[Held(w)].started /\ HasTask(job'[Held(w)])
      BY <1>0, <1>2, <2>0 DEF StartJob, StartedRow, MayStart, HasTask, JobRow
    <2>2. /\ Executing(w)' /\ Held(w)' = Held(w)
          /\ \A v \in Workers : v # w => worker'[v] = worker[v]
          /\ worker[w].pc = "received"
      BY <1>0, <1>2, <2>0 DEF StartJob, BusyWorker, Executing, Held
    <2>3. RunningHasTask'
      BY <2>1 DEF RunningHasTask, HasTask, CarriedInv
    <2>4. RunningIsCarried'
      <3> SUFFICES ASSUME NEW j \in JobIds, job'[j].status = "running" PROVE Carried(j)'
        BY DEF RunningIsCarried
      <3>1. CASE j = Held(w)
        BY <2>1, <2>2, <3>1 DEF Carried
      <3>2. CASE j # Held(w)
        <4>1. Carried(j) /\ job'[j] = job[j] /\ queue' = queue
          BY <1>2, <2>1, <3>2 DEF RunningIsCarried, CarriedInv, StartJob
        <4>2. CASE job[j].started
          BY <2>2, <4>1, <4>2 DEF Carried, Executing, Held
        <4>3. CASE ~job[j].started
          BY <1>d, <2>2, <3>2, <4>1, <4>3 DEF Carried, Held
        <4> QED
          BY <4>2, <4>3
      <3> QED
        BY <3>1, <3>2
    <2> QED
      BY <1>e, <2>3, <2>4 DEF CarriedInv
  <1>3. CASE SkipJob(w)
    <2>0. Held(w) \in JobIds /\ worker[w] \in BusyWorker
      BY <1>0, <1>3, BusyType DEF SkipJob
    <2>1. ~(job[Held(w)].status = "running" /\ ~job[Held(w)].started)
      BY <1>3, <2>0 DEF SkipJob, MayStart, CarriedInv, RunningHasTask
    <2>2. /\ job' = job /\ queue' = queue /\ ~Executing(w)
          /\ \A v \in Workers : v # w => worker'[v] = worker[v]
      BY <1>0, <1>3 DEF SkipJob, SetPc, Executing
    <2> QED
      BY <1>d, <2>1, <2>2, CarriedIdleWorker
  <1>4. CASE LoadUser(w)
    <2>0. worker[w] \in BusyWorker
      BY <1>0, <1>4, BusyType DEF LoadUser
    <2>1. /\ worker'[w].pc = "work" /\ Held(w)' = Held(w) /\ worker[w].pc = "load"
          /\ \A v \in Workers : v # w => worker'[v] = worker[v]
          /\ job' = job /\ queue' = queue
      BY <1>0, <1>4, <2>0 DEF LoadUser, SetPc, BusyWorker, Held
    <2>2. \A v \in Workers : Executing(v) => Executing(v)' /\ Held(v)' = Held(v)
      BY <2>1 DEF Executing, Held
    <2>3. \A j \in JobIds : Bearers(j) => Bearers(j)'
      BY <1>d, <2>1 DEF Bearers, Held
    <2> QED
      BY <1>e, <2>1, <2>2, <2>3, CarriedKeep
  <1>5. CASE Succeed(w) \/ Fail(w)
    <2>0. Held(w) \in JobIds /\ worker[w] \in BusyWorker
      BY <1>0, <1>5, BusyType DEF Succeed, Fail
    <2>1. /\ \A j \in JobIds : j # Held(w) => job'[j] = job[j]
          /\ job'[Held(w)].status # "running"
      BY ZenonT(40), <1>0, <1>5, <2>0 DEF Succeed, Fail, FinishedRow, JobRow
    <2>2. /\ \A v \in Workers : v # w => worker'[v] = worker[v]
          /\ Executing(w) /\ queue' = queue
      BY <1>0, <1>5 DEF Succeed, Fail, SetPc, Executing
    <2>3. RunningHasTask'
      BY <2>1 DEF RunningHasTask, HasTask, CarriedInv
    <2>4. RunningIsCarried'
      <3> SUFFICES ASSUME NEW j \in JobIds, job'[j].status = "running" PROVE Carried(j)'
        BY DEF RunningIsCarried
      <3>1. Carried(j) /\ job'[j] = job[j] /\ j # Held(w)
        BY <2>1 DEF RunningIsCarried, CarriedInv
      <3>2. CASE job[j].started
        BY <2>2, <3>1, <3>2 DEF Carried, Executing, Held
      <3>3. CASE ~job[j].started
        BY <1>d, <2>2, <3>1, <3>3 DEF Carried, Held, Executing
      <3> QED
        BY <3>2, <3>3
    <2> QED
      BY <1>e, <2>3, <2>4 DEF CarriedInv
  <1>6. CASE Retry(w) \/ Ack(w)
    <2>1. /\ job' = job /\ ~Executing(w) /\ worker[w].pc \in {"retry", "ack"}
          /\ \A v \in Workers : v # w => worker'[v] = worker[v]
      BY <1>0, <1>6 DEF Retry, Ack, Release, Executing
    <2>2. \A n \in Message : queue[n] > 0 => queue'[n] > 0
      <3>1. CASE queue' = queue
        BY <3>1
      <3>2. CASE worker[w].msg.retries < MaxRetries /\ Send([worker[w].msg EXCEPT !.retries = @ + 1])
        <4>1. worker[w].msg \in Message
          BY <1>0, <2>1, BusyType
        <4>2. [worker[w].msg EXCEPT !.retries = @ + 1] \in Message
          BY <3>2, <4>1, JobsAssumption DEF Message
        <4> QED
          BY <1>s, <3>2, <4>2
      <3> QED
        BY <1>6, <3>1, <3>2 DEF Retry, Ack
    <2> QED
      BY <1>d, <2>1, <2>2, CarriedIdleWorker
  <1>7. CASE WriteRecommendations(w)
    BY <1>7, <1>d, <1>e, CarriedKeep DEF WriteRecommendations, Bearers, Executing, Held
  <1>8. CASE Redelivery(w)
    <2>1. worker[w].msg \in Message
      BY <1>0, <1>8, BusyType DEF Redelivery
    <2>2. \A n \in Message : queue[n] > 0 => queue'[n] > 0
      BY <1>8, <1>s, <2>1 DEF Redelivery
    <2>3. job' = job /\ worker' = worker
      BY <1>8 DEF Redelivery
    <2> QED
      BY <1>d, <1>e, <2>2, <2>3, CarriedKeep DEF Bearers, Executing, Held
  <1> QED
    BY <1>1, <1>2, <1>3, <1>4, <1>5, <1>6, <1>7, <1>8 DEF WorkerStep

\* The faults under which a job is never lost: messages that come again, requests that die.
RepeatFaults == FaultKinds \subseteq {"redelivery", "request_dies"}

\* Every step keeps the invariant when no other faults occur.
LEMMA CarriedInvNext ==
    ASSUME RepeatFaults
    PROVE  CarriedInv /\ [Next]_vars => CarriedInv'
  <1> SUFFICES ASSUME CarriedInv, [Next]_vars PROVE CarriedInv'
    OBVIOUS
  <1>0. JobsInv'
    BY JobsInvNext DEF CarriedInv
  <1>f. "worker_crash" \notin FaultKinds /\ "worker_lost" \notin FaultKinds
        /\ "dispatcher_dies" \notin FaultKinds /\ "db_error" \notin FaultKinds
    BY DEF RepeatFaults
  <1>1. ASSUME NEW r \in Requests, RequestStep(r) PROVE CarriedInv'
    BY <1>0, <1>1, CarriedRequest
  <1>2. ASSUME NEW d \in Dispatchers, DispatcherStep(d) \/ DispatcherDies(d) PROVE CarriedInv'
    BY <1>0, <1>2, <1>f, CarriedDispatcher DEF DispatcherDies, Fault
  <1>3. ASSUME NEW w \in Workers,
               WorkerStep(w) \/ WriteRecommendations(w) \/ WorkerFault(w)
        PROVE  CarriedInv'
    BY <1>0, <1>3, <1>f, CarriedWorker DEF WorkerFault, DatabaseError, WorkerCrash, WorkerLost,
                                           Fault
  <1>4. ASSUME NEW u \in Users, PurgeUser(u) PROVE CarriedInv'
    <2>1. /\ \A j \in JobIds : job'[j].status = "running" => job'[j] = job[j]
          /\ UNCHANGED <<queue, worker, dispatcher>>
      BY <1>4 DEF PurgeUser, NoRow
    <2>2. RunningHasTask' /\ DispatcherLists'
      BY <2>1 DEF RunningHasTask, HasTask, DispatcherLists, CarriedInv
    <2>3. RunningIsCarried'
      BY <2>1 DEF RunningIsCarried, Carried, Executing, Held, CarriedInv
    <2> QED
      BY <1>0, <2>2, <2>3 DEF CarriedInv
  <1>5. CASE UNCHANGED vars
    BY <1>0, <1>5, CarriedKeep DEF vars, CarriedInv, DispatcherLists, Bearers, Executing, Held
  <1> QED
    BY <1>1, <1>2, <1>3, <1>4, <1>5 DEF Next

\* A claimed job is never forgotten while messages may come twice and requests may die:
\* until it is final, a message, a worker or a dispatcher carries it.
THEOREM ClaimedIsCarried ==
    ASSUME RepeatFaults
    PROVE  Spec => []RunningIsCarried
  <1>1. CarriedInv /\ [Next]_vars => CarriedInv'
    BY RepeatFaults, CarriedInvNext
  <1>2. CarriedInv => RunningIsCarried
    BY DEF CarriedInv
  <1> QED
    BY <1>1, <1>2, CarriedInvInit, PTL DEF Spec

\* Reading "not ready" and leaving means that the latest job of the user is unfinished.
LEMMA LeavesToActive ==
    ASSUME CarriedInv
    PROVE  \A r \in Requests :
             (request[r].pc = "check" /\ request'[r].pc = "idle" /\ CheckLatest(r))
             => \E j \in RefreshJobsOf(request[r].target) :
                   IsActive(j) /\ (job[j].status = "running" => Carried(j))
  <1> SUFFICES ASSUME NEW r \in Requests, request'[r].pc = "idle", CheckLatest(r)
               PROVE  \E j \in RefreshJobsOf(request[r].target) :
                         IsActive(j) /\ (job[j].status = "running" => Carried(j))
    OBVIOUS
  <1>1. request \in [Requests -> RequestState]
    BY DEF CarriedInv, JobsInv, TypeOK
  <1>2. ~NoLatestActive(request[r].target)
    BY <1>1 DEF CheckLatest, SetRequest, RequestState
  <1>3. PICK j \in RefreshJobsOf(request[r].target) : IsActive(j)
    BY <1>2 DEF NoLatestActive
  <1>4. j \in JobIds
    BY DEF RefreshJobsOf
  <1> QED
    BY <1>3, <1>4 DEF CarriedInv, RunningIsCarried

\* A list view that answers 202 because of a job it found relies on a job that a
\* dispatcher, a message or a worker will still finish: true while messages may come
\* twice and requests may die (with a crashed worker it is not).
THEOREM NotReadyIsBacked ==
    ASSUME RepeatFaults
    PROVE  Spec => NotReadyIsQueued
  <1>1. CarriedInv /\ [Next]_vars => CarriedInv'
    BY RepeatFaults, CarriedInvNext
  <1>2. CarriedInv /\ [Next]_vars =>
          [\A r \in Requests :
             (request[r].pc = "check" /\ request'[r].pc = "idle" /\ CheckLatest(r))
             => \E j \in RefreshJobsOf(request[r].target) :
                   IsActive(j) /\ (job[j].status = "running" => Carried(j))]_vars
    BY LeavesToActive
  <1> QED
    BY <1>1, <1>2, CarriedInvInit, PTL DEF Spec, NotReadyIsQueued

-----------------------------------------------------------------------------
(* One unfinished job per type and target, while requests do not overlap *)

\* At most one request is between its check and the end of its insert.
OneRequest ==
    \A r, s \in Requests : request[r].pc # "idle" /\ request[s].pc # "idle" => r = s

\* Only the latest job of a type and target is unfinished.
ActiveIsLatest ==
    \A j, k \in JobIds :
        /\ IsActive(j) /\ job[k].status # "absent"
        /\ job[j].kind = job[k].kind /\ job[j].target = job[k].target
        => k <= j

\* A request about to insert a row has found no unfinished job, and there is still none.
CreateIsFree ==
    \A r \in Requests :
        /\ request[r].pc = "create" => ~HasActiveJob(request[r].kind, request[r].target)
        /\ request[r].pc = "check" => request[r].kind = "user_refresh"
        /\ request[r].kind = "similarity_rebuild" => request[r].target = NoUser

\* The inductive invariant.  The list view looks at the latest job only, so the proof needs
\* ActiveIsLatest, which is more than OneActiveJob.
OneActiveInv == JobsInv /\ ActiveIsLatest /\ CreateIsFree

\* No job is unfinished when the system starts.
LEMMA OneActiveInit == Init => OneActiveInv
  <1> SUFFICES ASSUME Init PROVE OneActiveInv
    OBVIOUS
  <1>1. ActiveIsLatest
    BY DEF Init, NoRow, ActiveIsLatest, IsActive, ActiveStatus
  <1>2. CreateIsFree
    BY DEF Init, IdleRequest, CreateIsFree
  <1> QED
    BY <1>1, <1>2, JobsInvInit DEF OneActiveInv

\* A step that creates no row and makes no finished job unfinished keeps the invariant of
\* the table, and what a request has found stays true.
LEMMA OneActiveTable ==
    ASSUME OneActiveInv,
           \A j \in JobIds : job'[j].status # "absent" =>
               /\ job[j].status # "absent"
               /\ job'[j].kind = job[j].kind /\ job'[j].target = job[j].target
               /\ job'[j].status \in ActiveStatus => job[j].status \in ActiveStatus
    PROVE  /\ ActiveIsLatest'
           /\ \A kind, target : ~HasActiveJob(kind, target) => ~HasActiveJob(kind, target)'
  <1>0. \A j \in JobIds : job'[j].status \in ActiveStatus => job'[j].status # "absent"
    BY DEF ActiveStatus
  <1>1. ActiveIsLatest'
    BY <1>0 DEF OneActiveInv, ActiveIsLatest, IsActive
  <1>2. ASSUME NEW kind, NEW target, HasActiveJob(kind, target)'
        PROVE  HasActiveJob(kind, target)
    BY <1>0, <1>2 DEF HasActiveJob, IsActive
  <1> QED
    BY <1>1, <1>2

\* So every step that changes no request keeps the whole invariant if it is such a step.
LEMMA OneActiveQuiet ==
    ASSUME OneActiveInv, JobsInv', request' = request,
           \A j \in JobIds : job'[j].status # "absent" =>
               /\ job[j].status # "absent"
               /\ job'[j].kind = job[j].kind /\ job'[j].target = job[j].target
               /\ job'[j].status \in ActiveStatus => job[j].status \in ActiveStatus
    PROVE  OneActiveInv'
  <1>1. /\ ActiveIsLatest'
        /\ \A kind, target : ~HasActiveJob(kind, target) => ~HasActiveJob(kind, target)'
    BY OneActiveTable
  <1>2. CreateIsFree'
    BY <1>1 DEF OneActiveInv, CreateIsFree
  <1> QED
    BY <1>1, <1>2 DEF OneActiveInv

\* A request inserts the row it has checked for; alone, nobody inserts it in between.
LEMMA OneActiveRequest ==
    ASSUME OneActiveInv, JobsInv', OneRequest, NEW r \in Requests,
           RequestStep(r) \/ RequestDies(r)
    PROVE  OneActiveInv'
  <1>0. /\ TypeOK /\ request \in [Requests -> RequestState] /\ job \in [JobIds -> JobRow]
        /\ request' \in [Requests -> RequestState]
        /\ CreateIsFree /\ ActiveIsLatest /\ KeysFresh
    BY DEF OneActiveInv, JobsInv, TypeOK
  <1>a. \A s \in Requests : s # r => request'[s] = request[s]
    BY <1>0 DEF RequestStep, ListNotReady, CheckLatest, AdminCheck, BeatCheck, CreateJob,
                CreateRefused, Publish, RequestDies, SetRequest
  <1>i. /\ IdleRequest.pc = "idle" /\ IdleRequest.kind = "user_refresh"
    BY DEF IdleRequest
  \* steps that leave the table alone: what has to be shown of the new request state
  <1>q. ASSUME job' = job,
               request'[r].pc = "create" =>
                   ~HasActiveJob(request'[r].kind, request'[r].target),
               request'[r].pc = "check" => request'[r].kind = "user_refresh",
               request'[r].kind = "similarity_rebuild" => request'[r].target = NoUser
        PROVE  OneActiveInv'
    <2>1. ActiveIsLatest'
      BY <1>0, <1>q DEF ActiveIsLatest, IsActive
    <2>2. \A kind, target : HasActiveJob(kind, target)' <=> HasActiveJob(kind, target)
      BY <1>q DEF HasActiveJob, IsActive
    <2>3. CreateIsFree'
      <3> SUFFICES ASSUME NEW s \in Requests
                   PROVE /\ request'[s].pc = "create" =>
                              ~HasActiveJob(request[s].kind, request[s].target)'
                         /\ request'[s].pc = "check" => request'[s].kind = "user_refresh"
                         /\ request'[s].kind = "similarity_rebuild" =>
                              request'[s].target = NoUser
        BY DEF CreateIsFree
      <3>1. CASE s = r
        BY <1>q, <2>2, <3>1
      <3>2. CASE s # r
        BY <1>0, <1>a, <2>2, <3>2 DEF CreateIsFree
      <3> QED
        BY <3>1, <3>2
    <2> QED
      BY <2>1, <2>3 DEF OneActiveInv
  <1>1. ASSUME NEW u \in Users, ListNotReady(r, u) PROVE OneActiveInv'
    <2>1. request'[r].pc = "check" /\ request'[r].kind = "user_refresh" /\ job' = job
      BY <1>0, <1>1 DEF ListNotReady, SetRequest, IdleRequest
    <2> QED
      BY <2>1, <1>q
  <1>2. CASE CheckLatest(r)
    <2>0. job' = job
      BY <1>2 DEF CheckLatest
    <2>1. CASE /\ NoLatestActive(request[r].target)
               /\ SetRequest(r, [request[r] EXCEPT !.pc = "create"])
      <3>1. /\ request'[r].pc = "create" /\ request'[r].kind = request[r].kind
            /\ request'[r].target = request[r].target /\ request[r].kind = "user_refresh"
        BY <1>0, <1>2, <2>1 DEF SetRequest, RequestState, CheckLatest, CreateIsFree
      <3>2. ~HasActiveJob("user_refresh", request[r].target)
        <4> SUFFICES ASSUME NEW j \in JobIds, IsActive(j), job[j].kind = "user_refresh",
                            job[j].target = request[r].target
                     PROVE  FALSE
          BY DEF HasActiveJob
        <4>1. j \in RefreshJobsOf(request[r].target)
          BY DEF RefreshJobsOf, IsActive, ActiveStatus
        <4>2. \A k \in RefreshJobsOf(request[r].target) : k <= j
          BY <1>0 DEF RefreshJobsOf, ActiveIsLatest
        <4> QED
          BY <2>1, <4>1, <4>2 DEF NoLatestActive
      <3> QED
        BY <1>q, <2>0, <3>1, <3>2
    <2>2. CASE SetRequest(r, IdleRequest)
      BY <1>0, <1>i, <1>q, <2>0, <2>2 DEF SetRequest
    <2> QED
      BY <1>2, <2>1, <2>2 DEF CheckLatest
  <1>3. ASSUME NEW kind \in Kinds, NEW t \in Users \cup {NoUser}, AdminCheck(r, kind, t)
        PROVE  OneActiveInv'
    <2>1. /\ request'[r].pc = "create" /\ request'[r].kind = kind
          /\ request'[r].target = t /\ job' = job
      BY <1>0, <1>3 DEF AdminCheck, SetRequest
    <2> QED
      BY <1>3, <1>q, <2>1 DEF AdminCheck
  <1>4. CASE BeatCheck(r)
    <2>1. /\ request'[r].pc = "create" /\ request'[r].kind = "similarity_rebuild"
          /\ request'[r].target = NoUser /\ job' = job
      BY <1>0, <1>4 DEF BeatCheck, SetRequest
    <2>2. ~HasActiveJob("similarity_rebuild", NoUser)
      BY <1>4 DEF BeatCheck, HasActiveJob
    <2> QED
      BY <1>q, <2>1, <2>2
  <1>5. CASE CreateJob(r)
    <2>1. nextJob \in JobIds
      BY <1>0, <1>5, JobsAssumption DEF CreateJob, JobIds, TypeOK
    <2>2. /\ job'[nextJob].kind = request[r].kind /\ job'[nextJob].target = request[r].target
          /\ job'[nextJob].status = "pending"
          /\ \A j \in JobIds : j # nextJob => job'[j] = job[j]
          /\ request[r].pc = "create"
      BY <1>0, <1>5, <2>1 DEF CreateJob
    <2>3. \A j \in JobIds : job[j].status # "absent" => j < nextJob
      BY <1>0 DEF KeysFresh, JobIds, TypeOK
    <2>4. ~HasActiveJob(request[r].kind, request[r].target)
      BY <1>0, <2>2 DEF CreateIsFree
    <2>5. ActiveIsLatest'
      <3> SUFFICES ASSUME NEW j \in JobIds, NEW k \in JobIds,
                          job'[j].status \in ActiveStatus, job'[k].status # "absent",
                          job'[j].kind = job'[k].kind, job'[j].target = job'[k].target
                   PROVE  k <= j
        BY DEF ActiveIsLatest, IsActive
      <3>1. CASE j = nextJob
        <4>1. k < nextJob \/ k = nextJob
          BY <2>2, <2>3
        <4> QED
          BY <3>1, <4>1 DEF JobIds
      <3>2. CASE j # nextJob /\ k # nextJob
        BY <1>0, <2>2, <3>2 DEF ActiveIsLatest, IsActive
      <3>3. CASE j # nextJob /\ k = nextJob
        BY <2>2, <2>4, <3>3 DEF HasActiveJob, IsActive
      <3> QED
        BY <3>1, <3>2, <3>3
    <2>6. CreateIsFree'
      <3> SUFFICES ASSUME NEW s \in Requests
                   PROVE /\ request'[s].pc = "create" =>
                              ~HasActiveJob(request[s].kind, request[s].target)'
                         /\ request'[s].pc = "check" => request'[s].kind = "user_refresh"
                         /\ request'[s].kind = "similarity_rebuild" =>
                              request'[s].target = NoUser
        BY DEF CreateIsFree
      <3>1. CASE s = r
        <4>1. \/ request'[s] = IdleRequest
              \/ /\ request'[s].pc = "publish" /\ request'[s].kind = request[s].kind
                 /\ request'[s].target = request[s].target
          BY <1>0, <1>5, <3>1 DEF CreateJob, SetRequest, RequestState
        <4> QED
          BY <1>0, <1>i, <4>1 DEF CreateIsFree
      <3>2. CASE s # r
        <4>1. request'[s] = request[s] /\ request[s].pc = "idle"
          BY <1>a, <2>2, <3>2 DEF OneRequest
        <4> QED
          BY <1>0, <4>1 DEF CreateIsFree
      <3> QED
        BY <3>1, <3>2
    <2> QED
      BY <2>5, <2>6 DEF OneActiveInv
  <1>6. CASE CreateRefused(r) \/ Publish(r) \/ RequestDies(r)
    <2>1. request'[r] = IdleRequest /\ job' = job
      BY <1>0, <1>6 DEF CreateRefused, Publish, RequestDies, SetRequest
    <2> QED
      BY <1>i, <1>q, <2>1
  <1> QED
    BY <1>1, <1>2, <1>3, <1>4, <1>5, <1>6 DEF RequestStep

\* Every step keeps the invariant while requests do not overlap.
LEMMA OneActiveNext == OneActiveInv /\ OneRequest /\ [Next]_vars => OneActiveInv'
  <1> SUFFICES ASSUME OneActiveInv, OneRequest, [Next]_vars PROVE OneActiveInv'
    OBVIOUS
  <1>0. /\ JobsInv /\ JobsInv' /\ TypeOK /\ job \in [JobIds -> JobRow]
    BY JobsInvNext DEF OneActiveInv, JobsInv, TypeOK
  <1>1. ASSUME NEW r \in Requests, RequestStep(r) PROVE OneActiveInv'
    BY <1>0, <1>1, OneActiveRequest
  <1>2. ASSUME NEW d \in Dispatchers, DispatcherStep(d) \/ DispatcherDies(d)
        PROVE  OneActiveInv'
    <2>a. ASSUME NEW kind, NEW n, job' = ClaimedRows(FirstOf(Pending(kind), n)),
                 request' = request
          PROVE  OneActiveInv'
      <3>1. \A j \in FirstOf(Pending(kind), n) : j \in JobIds /\ job[j].status = "pending"
        BY DEF FirstOf, Pending
      <3>2. ASSUME NEW j \in JobIds
            PROVE  /\ job'[j].kind = job[j].kind /\ job'[j].target = job[j].target
                   /\ job'[j].status # job[j].status => job[j].status = "pending"
        BY <1>0, <2>a, <3>1 DEF ClaimedRows, JobRow
      <3>3. ASSUME NEW j \in JobIds, job'[j].status # "absent"
            PROVE  /\ job[j].status # "absent"
                   /\ job'[j].kind = job[j].kind /\ job'[j].target = job[j].target
                   /\ job'[j].status \in ActiveStatus => job[j].status \in ActiveStatus
        BY <3>2, <3>3 DEF ActiveStatus
      <3> QED
        BY <1>0, <2>a, <3>3, OneActiveQuiet
    <2>1. CASE ClaimUserRefresh(d)
      BY <2>1, <2>a DEF ClaimUserRefresh
    <2>2. CASE ClaimSimilarity(d)
      BY <2>2, <2>a DEF ClaimSimilarity
    <2>3. CASE DispatcherDies(d) \/ \E j \in JobIds : Dispatch(d, j)
      BY <1>0, <2>3, OneActiveQuiet DEF DispatcherDies, Dispatch
    <2> QED
      BY <1>2, <2>1, <2>2, <2>3 DEF DispatcherStep
  <1>3. ASSUME NEW w \in Workers,
               WorkerStep(w) \/ WriteRecommendations(w) \/ WorkerFault(w)
        PROVE  OneActiveInv'
    <2>0. request' = request
      BY <1>3 DEF WorkerStep, WorkerFault, Receive, StartJob, SkipJob, LoadUser,
                  WriteRecommendations, Succeed, Fail, Retry, Ack, DatabaseError,
                  WorkerCrash, WorkerLost, Redelivery
    <2>1. CASE StartJob(w)
      <3>1. \A j \in JobIds : j # Held(w) => job'[j] = job[j]
        BY <1>0, <2>1 DEF StartJob
      <3>2. Held(w) \in JobIds
        BY <1>0, <2>1, BusyType DEF StartJob
      <3>3. /\ job'[Held(w)].kind = job[Held(w)].kind
            /\ job'[Held(w)].target = job[Held(w)].target
            /\ job[Held(w)].status \in ActiveStatus /\ job[Held(w)].status # "absent"
        BY <1>0, <2>1, <3>2 DEF StartJob, StartedRow, MayStart, ActiveStatus, JobRow
      <3> QED
        BY <1>0, <2>0, <3>1, <3>3, OneActiveQuiet
    <2>2. CASE Succeed(w) \/ Fail(w)
      <3>1. \A j \in JobIds : j # Held(w) => job'[j] = job[j]
        BY <1>0, <2>2 DEF Succeed, Fail
      <3>2. Held(w) \in JobIds
        BY <1>0, <2>2, BusyType DEF Succeed, Fail
      <3>3. /\ job'[Held(w)].kind = job[Held(w)].kind
            /\ job'[Held(w)].target = job[Held(w)].target
            /\ job'[Held(w)].status \notin ActiveStatus
            /\ job[Held(w)].status = "absent" => job'[Held(w)].status = "absent"
        <4>1. job[Held(w)] \in JobRow
          BY <1>0, <3>2
        <4>2. CASE Succeed(w)
          BY <1>0, <3>2, <4>1, <4>2 DEF Succeed, FinishedRow, ActiveStatus, JobRow
        <4>3. CASE Fail(w)
          BY <1>0, <3>2, <4>1, <4>3 DEF Fail, FinishedRow, ActiveStatus, JobRow
        <4> QED
          BY <2>2, <4>2, <4>3
      <3> QED
        BY <1>0, <2>0, <3>1, <3>3, OneActiveQuiet
    <2>3. CASE ~StartJob(w) /\ ~Succeed(w) /\ ~Fail(w)
      <3>1. job' = job
        BY <1>3, <2>3
           DEF WorkerStep, WorkerFault, Receive, SkipJob, LoadUser, WriteRecommendations,
               Retry, Ack, DatabaseError, WorkerCrash, WorkerLost, Redelivery
      <3> QED
        BY <1>0, <2>0, <3>1, OneActiveQuiet
    <2> QED
      BY <2>1, <2>2, <2>3
  <1>4. ASSUME NEW u \in Users, PurgeUser(u) PROVE OneActiveInv'
    <2>1. request' = request /\ \A j \in JobIds : job'[j].status # "absent" => job'[j] = job[j]
      BY <1>4 DEF PurgeUser, NoRow
    <2> QED
      BY <1>0, <2>1, OneActiveQuiet
  <1>5. CASE UNCHANGED vars
    BY <1>0, <1>5, OneActiveQuiet DEF vars
  <1> QED
    BY <1>1, <1>2, <1>3, <1>4, <1>5 DEF Next

\* JOB_ALREADY_RUNNING and the enqueue functions do their work when one request follows
\* the other: never two unfinished jobs of a type and target, whatever else fails.
THEOREM OneActiveWhenSerial == Spec /\ []OneRequest => []OneActiveJob
  <1>1. OneActiveInv => OneActiveJob
    <2> SUFFICES ASSUME OneActiveInv, NEW j \in JobIds, NEW k \in JobIds,
                        IsActive(j), IsActive(k),
                        job[j].kind = job[k].kind, job[j].target = job[k].target
                 PROVE  j = k
      BY DEF OneActiveJob
    <2>1. job[j].status # "absent" /\ job[k].status # "absent"
      BY DEF IsActive, ActiveStatus
    <2>2. k <= j /\ j <= k
      BY <2>1 DEF OneActiveInv, ActiveIsLatest
    <2> QED
      BY <2>2 DEF JobIds
  <1> QED
    BY <1>1, OneActiveInit, OneActiveNext, PTL DEF Spec

-----------------------------------------------------------------------------
(* The next generation *)

\* A set of numbers that does not go beyond N has a greatest member.  The intervals 0..k
\* that hold the set are ordered by inclusion, and the least of them ends at it.
LEMMA GreatestExists ==
    ASSUME NEW N \in Nat, NEW S \in SUBSET (0..N), S # {}
    PROVE  \E x \in S : \A y \in S : x >= y
  <1> DEFINE T == {A \in SUBSET (0..N) : \E k \in 0..N : A = 0..k /\ S \subseteq A}
             F == FiniteSubsetsOf(0..N)
             W == StrictSubsetOrdering(0..N)
  <1>1. T # {} /\ T \subseteq F
    <2>1. 0..N \in T
      OBVIOUS
    <2>2. IsFiniteSet(0..N)
      BY FS_Interval
    <2>3. ASSUME NEW A \in SUBSET (0..N) PROVE IsFiniteSet(A)
      BY <2>2, FS_Subset
    <2> QED
      BY <2>1, <2>3 DEF FiniteSubsetsOf
  <1>2. IsWellFoundedOn(W, F)
    BY FS_StrictSubsetOrderingWellFounded
  <1> HIDE DEF T, F, W
  <1>3. PICK A \in T : \A B \in T : ~(<<B, A>> \in W)
    BY <1>1, <1>2, WFMin
  <1> USE DEF T, W
  <1>4. PICK k \in 0..N : A = 0..k /\ S \subseteq A
    OBVIOUS
  <1>5. k \in S
    <2> SUFFICES ASSUME k \notin S PROVE FALSE
      OBVIOUS
    <2>1. \A x \in S : x \in Int /\ 0 <= x /\ x <= k /\ x # k
      BY <1>4
    <2>2. k - 1 \in 0..N
      <3>1. PICK x \in S : TRUE
        OBVIOUS
      <3> QED
        BY <2>1, <3>1
    <2>3. S \subseteq 0..(k - 1)
      BY <2>1
    <2>4. 0..(k - 1) \in T
      BY <2>2, <2>3
    <2>5. 0..(k - 1) \subseteq A /\ 0..(k - 1) # A
      BY <1>4
    <2>6. <<0..(k - 1), A>> \in W
      BY <2>4, <2>5 DEF StrictSubsetOrdering
    <2> QED
      BY <1>3, <2>4, <2>6
  <1>6. \A y \in S : k >= y
    BY <1>4
  <1> QED
    BY <1>5, <1>6

\* What is known of the rows without regard to executions: typed, one per user, game and
\* reason, of an account that exists, of a generation within the bound.
RowsSound ==
    /\ rows \subseteq R!Row
    /\ R!UniqueKeys
    /\ \A x \in rows : x.user \in users /\ x.gen <= MaxGeneration

\* The next generation is a number greater than those of all rows of the user.
LEMMA NextGenerationIsNew ==
    ASSUME RowsSound, NEW u \in Users
    PROVE  /\ R!NextGeneration(u) \in Nat
           /\ \A x \in R!RowsOf(u) : x.gen < R!NextGeneration(u)
  <1> DEFINE S == {x.gen : x \in R!RowsOf(u)} \cup {0}
  <1>1. S \in SUBSET (0..MaxGeneration) /\ S # {}
    BY RecommendationsAssumption DEF RowsSound, R!RowsOf, R!Row
  <1>2. MaxGeneration \in Nat
    BY RecommendationsAssumption
  <1> HIDE DEF S
  <1>3. \E x \in S : \A y \in S : x >= y
    BY <1>1, <1>2, GreatestExists
  <1>4. R!Max(S) \in S /\ \A y \in S : R!Max(S) >= y
    BY <1>3 DEF R!Max
  <1>5. R!NextGeneration(u) = R!Max(S) + 1
    BY DEF R!NextGeneration, S
  <1>6. R!Max(S) \in Nat
    <2>1. \A n \in S : n \in Nat
      BY <1>1, <1>2
    <2> QED
      BY <1>4, <2>1
  <1>7. \A x \in R!RowsOf(u) : x.gen \in S /\ x.gen \in Nat
    BY <1>2 DEF S, R!RowsOf, RowsSound, R!Row
  <1> QED
    BY <1>4, <1>5, <1>6, <1>7

-----------------------------------------------------------------------------
(* The inductive invariant of the composition *)

RunsTyped == run \in [Workers -> R!Run \cup {R!IdleRun}]

\* An execution belongs to the job its worker holds, as long as the user exists: the row of
\* the job goes with the user, and the message the worker holds does not change.
RunsFollowJobs ==
    \A w \in Workers : run[w].pc # "idle" =>
        /\ worker[w].pc = "work"
        /\ run[w].gen <= MaxGeneration /\ run[w].next # 0
        /\ run[w].user \in users =>
             /\ job[Held(w)].status # "absent"
             /\ job[Held(w)].kind = "user_refresh"
             /\ job[Held(w)].target = run[w].user

RefreshInv ==
    JobsInv /\ RowsSound /\ RunsTyped /\ RunsFollowJobs /\ hasRecs = UsersWithRows

\* The invariant holds when the system starts.
LEMMA RefreshInvInit == SysInit => RefreshInv
  <1> SUFFICES ASSUME SysInit PROVE RefreshInv
    OBVIOUS
  <1>1. rows = {} /\ run = [w \in Workers |-> R!IdleRun]
    BY DEF SysInit, R!RInit
  <1>2. RowsSound
    BY <1>1 DEF RowsSound, R!UniqueKeys
  <1>3. RunsTyped
    BY <1>1 DEF RunsTyped
  <1>4. RunsFollowJobs
    BY <1>1 DEF RunsFollowJobs, R!IdleRun
  <1> QED
    BY <1>2, <1>3, <1>4, JobsInvInit DEF RefreshInv, SysInit

\* An execution in progress is a record with all its fields.
LEMMA BusyRun ==
    ASSUME RunsTyped, NEW w \in Workers, run[w].pc # "idle"
    PROVE  /\ run[w] \in R!Run
           /\ run[w].user \in Users /\ run[w].reason \in R!Reasons /\ run[w].gen \in Nat
           /\ run[w].next \in Nat /\ run[w].lists \in [R!Reasons -> Seq(Games)]
  <1>1. run[w] \in R!Run
    BY DEF RunsTyped, R!IdleRun
  <1> QED
    BY <1>1 DEF R!Run

\* What begins an execution: the generation is not read yet, no list is known.
LEMMA BeginEffect ==
    ASSUME RunsTyped, NEW w \in Workers, NEW u \in Users, R!Begin(w, u)
    PROVE  /\ run'[w] \in R!Run /\ run'[w].pc = "generation" /\ run'[w].user = u
           /\ run'[w].reason = "similarity" /\ run'[w].gen = 0 /\ run'[w].next = 1
           /\ \A v \in Workers : v # w => run'[v] = run[v]
           /\ RunsTyped' /\ rows' = rows /\ run[w].pc = "idle"
  <1> DEFINE new == [pc |-> "generation", user |-> u, reason |-> "similarity", gen |-> 0,
                     lists |-> [r \in R!Reasons |-> <<>>], next |-> 1]
  <1>1. new \in R!Run
    BY DEF R!Run, R!Reasons
  <1>2. run' = [run EXCEPT ![w] = new]
    BY DEF R!Begin
  <1> QED
    BY <1>1, <1>2 DEF RunsTyped, R!Begin

\* Reading the generation
LEMMA ReadGenerationEffect ==
    ASSUME RunsTyped, RowsSound, NEW w \in Workers, R!ReadGeneration(w)
    PROVE  /\ run'[w] \in R!Run /\ run[w].pc = "generation" /\ run'[w].pc = "collect"
           /\ run'[w].gen = R!NextGeneration(run[w].user) /\ run'[w].gen <= MaxGeneration
           /\ run'[w].user = run[w].user /\ run'[w].reason = run[w].reason
           /\ run'[w].next = run[w].next /\ run'[w].lists = run[w].lists
           /\ \A v \in Workers : v # w => run'[v] = run[v]
           /\ RunsTyped' /\ rows' = rows
  <1>0. /\ run[w].pc = "generation" /\ run[w] \in R!Run /\ run[w].user \in Users
    BY BusyRun DEF R!ReadGeneration
  <1>1. R!NextGeneration(run[w].user) \in Nat
    BY <1>0, NextGenerationIsNew
  <1>2. run' = [run EXCEPT ![w] =
          [run[w] EXCEPT !.pc = "collect", !.gen = R!NextGeneration(run[w].user)]]
    BY DEF R!ReadGeneration
  <1>3. [run[w] EXCEPT !.pc = "collect", !.gen = R!NextGeneration(run[w].user)] \in R!Run
    BY <1>0, <1>1 DEF R!Run
  <1>4. run'[w] = [run[w] EXCEPT !.pc = "collect", !.gen = R!NextGeneration(run[w].user)]
    BY <1>2 DEF RunsTyped
  <1>5. /\ run'[w].pc = "collect" /\ run'[w].gen = R!NextGeneration(run[w].user)
        /\ run'[w].user = run[w].user /\ run'[w].reason = run[w].reason
        /\ run'[w].next = run[w].next /\ run'[w].lists = run[w].lists
    BY <1>0, <1>4 DEF R!Run
  <1> QED
    BY <1>0, <1>2, <1>3, <1>4, <1>5 DEF RunsTyped, R!ReadGeneration

\* Collecting the candidates of the present reason
LEMMA CollectEffect ==
    ASSUME RunsTyped, NEW w \in Workers, NEW list \in CandidateLists, R!Collect(w, list)
    PROVE  /\ run'[w] \in R!Run /\ run[w].pc = "collect" /\ run'[w].pc = "upsert"
           /\ run'[w].gen = run[w].gen /\ run'[w].user = run[w].user
           /\ run'[w].reason = run[w].reason /\ run'[w].next = 1
           /\ run'[w].lists = [run[w].lists EXCEPT ![run[w].reason] = list]
           /\ \A v \in Workers : v # w => run'[v] = run[v]
           /\ RunsTyped' /\ rows' = rows
  <1> DEFINE lists == [run[w].lists EXCEPT ![run[w].reason] = list]
             new == [run[w] EXCEPT !.pc = "upsert", !.next = 1, !.lists = lists]
  <1>0. run[w].pc = "collect" /\ run[w] \in R!Run
    BY BusyRun DEF R!Collect
  <1>1. lists \in [R!Reasons -> Seq(Games)]
    BY <1>0, RecommendationsAssumption DEF R!Run
  <1>2. run' = [run EXCEPT ![w] = new]
    BY DEF R!Collect
  <1> HIDE DEF lists
  <1>3. new \in R!Run
    BY <1>0, <1>1 DEF R!Run
  <1>4. run'[w] = new
    BY <1>2 DEF RunsTyped
  <1>5. /\ new.pc = "upsert" /\ new.gen = run[w].gen /\ new.user = run[w].user
        /\ new.reason = run[w].reason /\ new.next = 1 /\ new.lists = lists
    BY <1>0 DEF R!Run
  <1> QED
    BY <1>0, <1>2, <1>3, <1>4, <1>5 DEF RunsTyped, R!Collect, lists

\* One row is written: the row of the candidate, instead of a row of the same key.
LEMMA UpsertEffect ==
    ASSUME RunsTyped, RunsFollowJobs, NEW w \in Workers, R!Upsert(w)
    PROVE  /\ run'[w] \in R!Run /\ run[w].pc = "upsert" /\ run'[w].pc = "upsert"
           /\ run'[w].gen = run[w].gen /\ run'[w].user = run[w].user
           /\ run'[w].reason = run[w].reason /\ run'[w].next = run[w].next + 1
           /\ run'[w].lists = run[w].lists
           /\ \A v \in Workers : v # w => run'[v] = run[v]
           /\ RunsTyped' /\ rows' = R!Upserted(R!RowFor(w))
           /\ R!RowFor(w) \in R!Row /\ R!RowFor(w).user = run[w].user
           /\ R!RowFor(w).gen <= MaxGeneration
           /\ run[w].next \in 1..Len(run[w].lists[run[w].reason])
  <1>0. /\ run[w].pc = "upsert" /\ run[w] \in R!Run /\ run[w].user \in Users
        /\ run[w].reason \in R!Reasons /\ run[w].gen \in Nat /\ run[w].next \in Nat
        /\ run[w].lists \in [R!Reasons -> Seq(Games)]
        /\ run[w].gen <= MaxGeneration /\ run[w].next # 0
    BY BusyRun DEF R!Upsert, RunsFollowJobs
  <1>1. run' = [run EXCEPT ![w] = [run[w] EXCEPT !.next = run[w].next + 1]]
    BY DEF R!Upsert
  <1>2. [run[w] EXCEPT !.next = run[w].next + 1] \in R!Run
    <2>1. run[w].next + 1 \in Nat
      BY <1>0
    <2> QED
      BY <1>0, <2>1 DEF R!Run
  <1>3. run'[w] = [run[w] EXCEPT !.next = run[w].next + 1]
    BY <1>1 DEF RunsTyped
  <1>4. /\ run[w].lists[run[w].reason] \in Seq(Games)
        /\ Len(run[w].lists[run[w].reason]) \in Nat
    BY <1>0
  <1>5. run[w].next \in 1..Len(run[w].lists[run[w].reason])
    BY <1>0, <1>4 DEF R!Upsert, R!Candidates
  <1>6. run[w].lists[run[w].reason][run[w].next] \in Games
    BY <1>4, <1>5
  <1>7. /\ R!RowFor(w) \in R!Row /\ R!RowFor(w).user = run[w].user
        /\ R!RowFor(w).gen <= MaxGeneration
    BY <1>0, <1>6 DEF R!RowFor, R!Row, R!Candidates
  <1>8. /\ run'[w].pc = "upsert" /\ run'[w].gen = run[w].gen /\ run'[w].user = run[w].user
        /\ run'[w].reason = run[w].reason /\ run'[w].next = run[w].next + 1
        /\ run'[w].lists = run[w].lists
    BY <1>0, <1>3 DEF R!Run
  <1> QED
    BY <1>0, <1>1, <1>2, <1>3, <1>5, <1>7, <1>8 DEF RunsTyped, R!Upsert

\* The rows of other generations go, and the next reason or the end follows.
LEMMA PruneEffect ==
    ASSUME RunsTyped, NEW w \in Workers, R!Prune(w)
    PROVE  /\ run'[w] \in R!Run /\ run[w].pc = "upsert"
           /\ run'[w].gen = run[w].gen /\ run'[w].user = run[w].user
           /\ run'[w].next = run[w].next /\ run'[w].lists = run[w].lists
           /\ \/ /\ run[w].reason = "similarity"
                 /\ run'[w].pc = "collect" /\ run'[w].reason = "preference"
              \/ /\ run[w].reason = "preference"
                 /\ run'[w].pc = "finished" /\ run'[w].reason = "preference"
           /\ \A v \in Workers : v # w => run'[v] = run[v]
           /\ RunsTyped'
           /\ rows' = R!Pruned(run[w].user, run[w].reason, run[w].gen)
           /\ run[w].next > Len(run[w].lists[run[w].reason])
  <1>0. run[w].pc = "upsert" /\ run[w] \in R!Run
    BY BusyRun DEF R!Prune
  <1>1. CASE run[w].reason = "similarity"
    <2>1. run' = [run EXCEPT ![w] = [run[w] EXCEPT !.pc = "collect", !.reason = "preference"]]
      BY <1>1 DEF R!Prune
    <2>2. [run[w] EXCEPT !.pc = "collect", !.reason = "preference"] \in R!Run
      BY <1>0 DEF R!Run, R!Reasons
    <2>3. run'[w] = [run[w] EXCEPT !.pc = "collect", !.reason = "preference"]
      BY <2>1 DEF RunsTyped
    <2>4. /\ run'[w].pc = "collect" /\ run'[w].gen = run[w].gen
          /\ run'[w].user = run[w].user /\ run'[w].reason = "preference"
          /\ run'[w].next = run[w].next /\ run'[w].lists = run[w].lists
      BY <1>0, <2>3 DEF R!Run
    <2> QED
      BY <1>0, <1>1, <2>1, <2>2, <2>3, <2>4 DEF RunsTyped, R!Prune, R!Candidates
  <1>2. CASE run[w].reason # "similarity"
    <2>1. run' = [run EXCEPT ![w] = [run[w] EXCEPT !.pc = "finished"]]
      BY <1>2 DEF R!Prune
    <2>2. [run[w] EXCEPT !.pc = "finished"] \in R!Run
      BY <1>0 DEF R!Run
    <2>3. run'[w] = [run[w] EXCEPT !.pc = "finished"]
      BY <2>1 DEF RunsTyped
    <2>4. /\ run'[w].pc = "finished" /\ run'[w].gen = run[w].gen
          /\ run'[w].user = run[w].user /\ run'[w].reason = run[w].reason
          /\ run[w].reason = "preference"
          /\ run'[w].next = run[w].next /\ run'[w].lists = run[w].lists
      BY <1>0, <1>2, <2>3 DEF R!Run, R!Reasons
    <2> QED
      BY <1>0, <2>1, <2>2, <2>3, <2>4 DEF RunsTyped, R!Prune, R!Candidates
  <1> QED
    BY <1>1, <1>2

\* An execution that ends leaves the rows as they are.
LEMMA EndRunEffect ==
    ASSUME RunsTyped, NEW w \in Workers, R!EndRun(w)
    PROVE  /\ run'[w].pc = "idle" /\ rows' = rows /\ RunsTyped'
           /\ \A v \in Workers : v # w => run'[v] = run[v]
  BY DEF R!EndRun, R!IdleRun, RunsTyped

-----------------------------------------------------------------------------
(* Every step is a step of the job model *)

\* An upsert writes for a user that exists: the foreign key refuses it otherwise.
LEMMA UpsertNeedsUser ==
    ASSUME RefreshInv, NEW w \in Workers, BodyStep(w), R!Upsert(w)
    PROVE  run[w].user \in users
  <1> SUFFICES ASSUME rows' \subseteq rows PROVE run[w].user \in users
    BY DEF BodyStep
  <1>1. R!RowFor(w) \in rows' /\ R!RowFor(w).user = run[w].user
    BY UpsertEffect DEF RefreshInv, R!Upserted
  <1> QED
    BY <1>1 DEF RefreshInv, RowsSound

\* A step of a body is the write of its job or nothing, seen from the job model.
LEMMA BodyStepIsWrite ==
    ASSUME RefreshInv, NEW w \in Workers, BodyStep(w)
    PROVE  WriteRecommendations(w) \/ UNCHANGED vars
  <1> USE DEF UsersWithRows
  <1>0. /\ hasRecs = UsersWithRows /\ hasRecs' = UsersWithRows' /\ worker[w].pc = "work"
        /\ UNCHANGED <<job, nextJob, users, queue, worker, dispatcher, request, faults,
                       executions>>
        /\ RunsTyped /\ RunsFollowJobs /\ RowsSound
    BY DEF BodyStep, RowsChange, RefreshInv
  <1>1. CASE rows' = rows
    BY <1>0, <1>1 DEF vars
  <1>a. ASSUME run[w].pc # "idle", run[w].user \in users,
               \/ hasRecs' = hasRecs \cup {run[w].user}
               \/ hasRecs' = hasRecs \ {run[w].user}
        PROVE  WriteRecommendations(w)
    BY <1>0, <1>a DEF RunsFollowJobs, WriteRecommendations
  <1>2. CASE R!Upsert(w)
    <2> DEFINE row == R!RowFor(w)
    <2>1. /\ rows' = R!Upserted(row) /\ row.user = run[w].user /\ row.user \in Users
          /\ run[w].pc = "upsert"
      BY <1>0, <1>2, UpsertEffect, BusyRun
    <2>2. hasRecs' = hasRecs \cup {run[w].user}
      <3>1. \A u \in Users : (\E x \in rows' : x.user = u)
                             <=> (\E x \in rows : x.user = u) \/ u = row.user
        BY <2>1 DEF R!Upserted
      <3> QED
        BY <1>0, <2>1, <3>1
    <2> QED
      BY <1>2, <1>a, <2>1, <2>2, UpsertNeedsUser
  <1>3. CASE R!Prune(w)
    <2>1. /\ rows' = R!Pruned(run[w].user, run[w].reason, run[w].gen)
          /\ run[w].user \in Users /\ run[w].pc = "upsert"
      BY <1>0, <1>3, PruneEffect, BusyRun
    <2>2. /\ rows' \subseteq rows
          /\ \A x \in rows : x.user # run[w].user => x \in rows'
      BY <2>1 DEF R!Pruned, R!Listed, R!RowsOf
    <2>3. \/ hasRecs' = hasRecs
          \/ hasRecs' = hasRecs \ {run[w].user} /\ run[w].user \in hasRecs
      BY <1>0, <2>1, <2>2
    <2>4. CASE hasRecs' = hasRecs
      BY <1>0, <2>4 DEF vars
    <2>5. CASE hasRecs' = hasRecs \ {run[w].user} /\ run[w].user \in hasRecs
      <3>1. run[w].user \in users
        BY <1>0, <2>5 DEF RowsSound
      <3> QED
        BY <1>a, <2>1, <2>5, <3>1
    <2> QED
      BY <2>3, <2>4, <2>5
  <1>4. CASE R!ReadGeneration(w) \/ \E list \in CandidateLists : R!Collect(w, list)
    BY <1>1, <1>4 DEF R!ReadGeneration, R!Collect
  <1> QED
    BY <1>2, <1>3, <1>4 DEF BodyStep, R!RunStep

\* So is every other step of the composition.
LEMMA SysStepIsJobStep == RefreshInv /\ [SysNext]_sysVars => [Next]_vars
  <1> SUFFICES ASSUME RefreshInv, [SysNext]_sysVars PROVE [Next]_vars
    OBVIOUS
  <1>1. CASE JobStep
    BY <1>1 DEF JobStep, Next, WorkerStep, WorkerFault
  <1>2. ASSUME NEW w \in Workers, BeginBody(w) PROVE Next
    BY <1>2 DEF BeginBody, Next, WorkerStep
  <1>3. ASSUME NEW w \in Workers, BodyStep(w) PROVE [Next]_vars
    BY <1>3, BodyStepIsWrite DEF Next
  <1>4. ASSUME NEW w \in Workers, FinishBody(w) PROVE Next
    BY <1>4 DEF FinishBody, Next, WorkerStep
  <1>5. ASSUME NEW w \in Workers, BreakBody(w) PROVE Next
    BY <1>5 DEF BreakBody, Next, WorkerStep, WorkerFault
  <1>6. ASSUME NEW u \in Users, Purge(u) PROVE Next
    BY <1>6 DEF Purge, Next
  <1>7. CASE UNCHANGED sysVars
    BY <1>7 DEF sysVars
  <1> QED
    BY <1>1, <1>2, <1>3, <1>4, <1>5, <1>6, <1>7 DEF SysNext

-----------------------------------------------------------------------------
(* The invariant is kept *)

\* Rows stay sound when one is written for a user that exists.
LEMMA UpsertedSound ==
    ASSUME RowsSound, NEW row \in R!Row, row.user \in users, row.gen <= MaxGeneration,
           rows' = R!Upserted(row), users' = users
    PROVE  RowsSound'
  <1>1. rows' \subseteq R!Row
    BY DEF RowsSound, R!Upserted
  <1>2. \A x \in rows' : x.user \in users' /\ x.gen <= MaxGeneration
    BY DEF RowsSound, R!Upserted
  <1>3. R!UniqueKeys'
    BY DEF RowsSound, R!UniqueKeys, R!Upserted
  <1> QED
    BY <1>1, <1>2, <1>3 DEF RowsSound

\* So they do when rows go, and when a user goes with all rows.
LEMMA FewerSound ==
    ASSUME RowsSound, rows' \subseteq rows, \A x \in rows' : x.user \in users'
    PROVE  RowsSound'
  BY DEF RowsSound, R!UniqueKeys

\* An execution keeps to its job in a step that leaves it alone, if the job's row, when the
\* user still exists, keeps kind and target, and the worker its place and message.
LEMMA RunFollows ==
    ASSUME RunsFollowJobs, NEW w \in Workers, run'[w] = run[w], worker'[w] = worker[w],
           users' \subseteq users,
           job[Held(w)].status # "absent" /\ job[Held(w)].target \in users' =>
               /\ job'[Held(w)].status # "absent"
               /\ job'[Held(w)].kind = job[Held(w)].kind
               /\ job'[Held(w)].target = job[Held(w)].target
    PROVE  run'[w].pc # "idle" =>
             /\ worker'[w].pc = "work"
             /\ run'[w].gen <= MaxGeneration /\ run'[w].next # 0
             /\ run'[w].user \in users' =>
                  /\ job'[Held(w)'].status # "absent"
                  /\ job'[Held(w)'].kind = "user_refresh"
                  /\ job'[Held(w)'].target = run'[w].user
  BY DEF RunsFollowJobs, Held

\* No step of the job model takes kind and target from a row that stays, and only a purge
\* removes one: that of its target.
LEMMA RowsKeepTarget ==
    ASSUME JobsInv, [Next]_vars, NEW j \in JobIds, job[j].status # "absent"
    PROVE  \/ /\ job'[j].status # "absent"
              /\ job'[j].kind = job[j].kind /\ job'[j].target = job[j].target
           \/ /\ job[j].target \notin users'
  <1>0. job \in [JobIds -> JobRow] /\ TypeOK
    BY DEF JobsInv, TypeOK
  <1> DEFINE Kept == /\ job'[j].status # "absent"
                     /\ job'[j].kind = job[j].kind /\ job'[j].target = job[j].target
  <1>1. ASSUME NEW r \in Requests, RequestStep(r) PROVE Kept
    <2>1. CASE CreateJob(r)
      <3>1. j # nextJob
        BY DEF JobsInv, KeysFresh, JobIds
      <3> QED
        BY <1>0, <2>1, <3>1 DEF CreateJob
    <2>2. CASE ~CreateJob(r)
      BY <1>1, <2>2
         DEF RequestStep, ListNotReady, CheckLatest, AdminCheck, BeatCheck,
             CreateRefused, Publish, RequestDies
    <2> QED
      BY <2>1, <2>2
  <1>2. ASSUME NEW d \in Dispatchers, DispatcherStep(d) \/ DispatcherDies(d) PROVE Kept
    <2>a. ASSUME NEW batch, job' = ClaimedRows(batch) PROVE Kept
      BY <1>0, <2>a DEF ClaimedRows, JobRow
    <2>1. CASE ClaimUserRefresh(d)
      BY <2>1, <2>a DEF ClaimUserRefresh
    <2>2. CASE ClaimSimilarity(d)
      BY <2>2, <2>a DEF ClaimSimilarity
    <2>3. CASE DispatcherDies(d) \/ \E k \in JobIds : Dispatch(d, k)
      BY <2>3 DEF DispatcherDies, Dispatch
    <2> QED
      BY <1>2, <2>1, <2>2, <2>3 DEF DispatcherStep
  <1>3. ASSUME NEW w \in Workers,
               WorkerStep(w) \/ WriteRecommendations(w) \/ WorkerFault(w)
        PROVE  Kept
    <2>0. job[j] \in JobRow
      BY <1>0
    <2>1. CASE StartJob(w)
      <3>1. job'[j] = job[j] \/ job'[j] = StartedRow(job[j])
        BY <1>0, <2>1 DEF StartJob
      <3> QED
        BY <2>0, <3>1 DEF StartedRow, JobRow
    <2>2. CASE Succeed(w)
      <3>1. \/ job'[j] = job[j]
            \/ job'[j] = FinishedRow(job[j], "success", job[j].retryCount)
        BY <1>0, <2>2 DEF Succeed
      <3> QED
        BY <2>0, <3>1 DEF FinishedRow, JobRow
    <2>3. CASE Fail(w)
      <3>1. \/ job'[j] = job[j]
            \/ job'[j] = FinishedRow(job[j], "failed", worker[w].retryCount + 1)
        BY <1>0, <2>3 DEF Fail
      <3> QED
        BY <2>0, <3>1 DEF FinishedRow, JobRow
    <2>4. CASE ~StartJob(w) /\ ~Succeed(w) /\ ~Fail(w)
      BY <1>3, <2>4
         DEF WorkerStep, WorkerFault, Receive, SkipJob, LoadUser, WriteRecommendations,
             Retry, Ack, DatabaseError, WorkerCrash, WorkerLost, Redelivery
    <2> QED
      BY <2>1, <2>2, <2>3, <2>4
  <1>4. ASSUME NEW u \in Users, PurgeUser(u) PROVE Kept \/ job[j].target \notin users'
    BY <1>4 DEF PurgeUser
  <1>5. CASE UNCHANGED vars
    BY <1>5 DEF vars
  <1> QED
    BY <1>1, <1>2, <1>3, <1>4, <1>5 DEF Next

\* Users only go.
LEMMA UsersOnlyGo == [Next]_vars => users' \subseteq users
  BY DEF Next, RequestStep, ListNotReady, CheckLatest, AdminCheck, BeatCheck, CreateJob,
         CreateRefused, Publish, RequestDies, DispatcherStep, ClaimUserRefresh,
         ClaimSimilarity, Dispatch, DispatcherDies, WorkerStep, Receive, StartJob, SkipJob,
         LoadUser, WriteRecommendations, Succeed, Fail, Retry, Ack, WorkerFault,
         DatabaseError, WorkerCrash, WorkerLost, Redelivery, PurgeUser, vars

\* Executions keep to their jobs in every step of the job model that leaves each of them
\* and its worker alone, or ends it.
LEMMA RunsKept ==
    ASSUME JobsInv, RunsFollowJobs, [Next]_vars,
           \A v \in Workers : \/ run'[v].pc = "idle"
                              \/ run'[v] = run[v] /\ worker'[v] = worker[v]
    PROVE  RunsFollowJobs'
  <1> SUFFICES ASSUME NEW w \in Workers, run'[w].pc # "idle"
               PROVE  /\ worker'[w].pc = "work"
                      /\ run'[w].gen <= MaxGeneration /\ run'[w].next # 0
                      /\ run'[w].user \in users' =>
                           /\ job'[Held(w)'].status # "absent"
                           /\ job'[Held(w)'].kind = "user_refresh"
                           /\ job'[Held(w)'].target = run'[w].user
    BY DEF RunsFollowJobs
  <1>1. run'[w] = run[w] /\ worker'[w] = worker[w]
    OBVIOUS
  <1>2. worker[w].pc = "work"
    BY <1>1 DEF RunsFollowJobs
  <1>3. Held(w) \in JobIds
    BY <1>2, BusyType DEF JobsInv
  <1>4. job[Held(w)].status # "absent" /\ job[Held(w)].target \in users' =>
               /\ job'[Held(w)].status # "absent"
               /\ job'[Held(w)].kind = job[Held(w)].kind
               /\ job'[Held(w)].target = job[Held(w)].target
    BY <1>3, RowsKeepTarget
  <1>5. users' \subseteq users
    BY UsersOnlyGo
  <1> QED
    BY <1>1, <1>4, <1>5, RunFollows

\* A worker that changes its state in a step of the job system is not in the middle of a body.
LEMMA JobStepWorkers ==
    ASSUME JobsInv, JobStep, NEW v \in Workers, worker[v].pc = "work"
    PROVE  worker'[v] = worker[v]
  <1>0. worker \in [Workers -> WorkerState]
    BY DEF JobsInv, TypeOK
  <1>1. CASE worker' = worker
    BY <1>1
  <1>2. ASSUME NEW w \in Workers, NEW m \in Message, Receive(w, m)
        PROVE  worker'[v] = worker[v]
    BY <1>0, <1>2 DEF Receive
  <1>3. ASSUME NEW w \in Workers, StartJob(w) \/ SkipJob(w) \/ Retry(w) \/ Ack(w)
        PROVE  worker'[v] = worker[v]
    BY <1>0, <1>3 DEF StartJob, SkipJob, Retry, Ack, SetPc, Release
  <1> QED
    BY <1>1, <1>2, <1>3
       DEF JobStep, RequestStep, ListNotReady, CheckLatest, AdminCheck, BeatCheck, CreateJob,
           CreateRefused, Publish, RequestDies, DispatcherStep, ClaimUserRefresh,
           ClaimSimilarity, Dispatch, DispatcherDies, Redelivery

\* In the job system, and when the body of a rebuild begins, rows and executions stay.
LEMMA RefreshInvJobStep ==
    ASSUME RefreshInv, JobsInv', JobStep
    PROVE  RefreshInv'
  <1>1. [Next]_vars
    BY SysStepIsJobStep DEF SysNext
  <1>2. users' = users /\ hasRecs' = hasRecs /\ rows' = rows /\ run' = run
    BY DEF JobStep, RequestStep, ListNotReady, CheckLatest, AdminCheck, BeatCheck, CreateJob,
           CreateRefused, Publish, RequestDies, DispatcherStep, ClaimUserRefresh,
           ClaimSimilarity, Dispatch, DispatcherDies, Receive, StartJob, SkipJob, Retry, Ack,
           Redelivery
  <1>3. RunsFollowJobs'
    BY <1>1, <1>2, JobStepWorkers, RunsKept DEF RefreshInv, RunsFollowJobs
  <1>4. RowsSound' /\ RunsTyped' /\ hasRecs' = UsersWithRows'
    BY <1>2 DEF RefreshInv, RowsSound, R!UniqueKeys, RunsTyped, UsersWithRows
  <1> QED
    BY <1>3, <1>4 DEF RefreshInv

\* The body begins for a user that exists, the target of the job.
LEMMA RefreshInvBegin ==
    ASSUME RefreshInv, JobsInv', NEW w \in Workers, BeginBody(w)
    PROVE  RefreshInv'
  <1>0. /\ worker \in [Workers -> WorkerState] /\ users \subseteq Users
        /\ UNCHANGED <<job, users, hasRecs>>
        /\ worker[w] \in BusyWorker /\ worker[w].pc = "load"
        /\ RunsTyped /\ RunsFollowJobs
    BY BusyType DEF RefreshInv, JobsInv, TypeOK, BeginBody, LoadUser
  <1>1. /\ worker'[w].pc = "work" /\ Held(w)' = Held(w)
        /\ \A v \in Workers : v # w => worker'[v] = worker[v]
        /\ job[Held(w)].status # "absent"
        /\ job[Held(w)].kind = "user_refresh" => job[Held(w)].target \in users
    BY <1>0 DEF BeginBody, LoadUser, SetPc, BusyWorker, Held
  <1>2. run[w].pc = "idle"
    BY <1>0 DEF RunsFollowJobs
  <1>3. CASE job[Held(w)].kind = "user_refresh"
    <2> DEFINE u == job[Held(w)].target
    <2>1. R!Begin(w, u) /\ u \in users /\ u \in Users
      BY <1>0, <1>1, <1>3 DEF BeginBody
    <2>2. /\ run'[w].user = u /\ run'[w].gen = 0 /\ run'[w].next = 1
          /\ \A v \in Workers : v # w => run'[v] = run[v]
          /\ RunsTyped' /\ rows' = rows
      BY <1>0, <2>1, BeginEffect
    <2>3. RunsFollowJobs'
      <3> SUFFICES ASSUME NEW v \in Workers, run'[v].pc # "idle"
                   PROVE  /\ worker'[v].pc = "work"
                          /\ run'[v].gen <= MaxGeneration /\ run'[v].next # 0
                          /\ run'[v].user \in users' =>
                               /\ job'[Held(v)'].status # "absent"
                               /\ job'[Held(v)'].kind = "user_refresh"
                               /\ job'[Held(v)'].target = run'[v].user
        BY DEF RunsFollowJobs
      <3>1. CASE v = w
        BY <1>0, <1>1, <1>3, <2>2, <3>1, RecommendationsAssumption
      <3>2. CASE v # w
        BY <1>0, <1>1, <2>2, <3>2 DEF RunsFollowJobs, Held
      <3> QED
        BY <3>1, <3>2
    <2> QED
      BY <1>0, <2>2, <2>3 DEF RefreshInv, RowsSound, R!UniqueKeys, UsersWithRows
  <1>4. CASE job[Held(w)].kind # "user_refresh"
    <2>1. rows' = rows /\ run' = run
      BY <1>4 DEF BeginBody
    <2>2. RunsFollowJobs'
      BY <1>0, <1>1, <1>2, <2>1 DEF RunsFollowJobs, Held
    <2> QED
      BY <1>0, <2>1, <2>2 DEF RefreshInv, RowsSound, R!UniqueKeys, RunsTyped, UsersWithRows
  <1> QED
    BY <1>3, <1>4

\* A step of a body moves one execution, within its job, and keeps the rows sound.
LEMMA RefreshInvBody ==
    ASSUME RefreshInv, JobsInv', NEW w \in Workers, BodyStep(w)
    PROVE  RefreshInv'
  <1>0. /\ UNCHANGED <<job, users, worker>> /\ hasRecs' = UsersWithRows'
        /\ RunsTyped /\ RunsFollowJobs /\ RowsSound /\ worker[w].pc = "work"
    BY DEF BodyStep, RowsChange, RefreshInv
  <1>a. ASSUME RunsTyped', RowsSound', run[w].pc # "idle", run'[w].user = run[w].user,
               run'[w].gen <= MaxGeneration, run'[w].next # 0,
               \A v \in Workers : v # w => run'[v] = run[v]
        PROVE  RefreshInv'
    <2>1. RunsFollowJobs'
      <3> SUFFICES ASSUME NEW v \in Workers, run'[v].pc # "idle"
                   PROVE  /\ worker'[v].pc = "work"
                          /\ run'[v].gen <= MaxGeneration /\ run'[v].next # 0
                          /\ run'[v].user \in users' =>
                               /\ job'[Held(v)'].status # "absent"
                               /\ job'[Held(v)'].kind = "user_refresh"
                               /\ job'[Held(v)'].target = run'[v].user
        BY DEF RunsFollowJobs
      <3>1. CASE v = w
        BY <1>0, <1>a, <3>1 DEF RunsFollowJobs, Held
      <3>2. CASE v # w
        BY <1>0, <1>a, <3>2 DEF RunsFollowJobs, Held
      <3> QED
        BY <3>1, <3>2
    <2> QED
      BY <1>0, <1>a, <2>1 DEF RefreshInv
  <1>1. CASE R!ReadGeneration(w)
    <2>1. RowsSound'
      BY <1>0, <1>1, ReadGenerationEffect DEF RowsSound, R!UniqueKeys
    <2> QED
      BY <1>0, <1>1, <1>a, <2>1, ReadGenerationEffect DEF RunsFollowJobs
  <1>2. ASSUME NEW list \in CandidateLists, R!Collect(w, list) PROVE RefreshInv'
    <2>1. RowsSound'
      BY ZenonT(40), <1>0, <1>2, CollectEffect DEF RowsSound, R!UniqueKeys
    <2>2. /\ RunsTyped' /\ run[w].pc # "idle" /\ run'[w].user = run[w].user
          /\ run'[w].gen = run[w].gen /\ run'[w].next = 1
          /\ \A v \in Workers : v # w => run'[v] = run[v]
      BY <1>0, <1>2, CollectEffect
    <2>3. run'[w].gen <= MaxGeneration /\ run'[w].next # 0
      BY <1>0, <2>2 DEF RunsFollowJobs
    <2> QED
      BY <1>a, <2>1, <2>2, <2>3
  <1>3. CASE R!Upsert(w)
    <2>1. RowsSound'
      BY <1>0, <1>3, UpsertEffect, UpsertNeedsUser, UpsertedSound
    <2>2. run'[w].next # 0
      <3>1. run[w].next \in Nat /\ run'[w].next = run[w].next + 1
        BY <1>0, <1>3, UpsertEffect, BusyRun
      <3> QED
        BY <3>1
    <2> QED
      BY <1>0, <1>3, <1>a, <2>1, <2>2, UpsertEffect DEF RunsFollowJobs
  <1>4. CASE R!Prune(w)
    <2>1. rows' \subseteq rows
      BY <1>0, <1>4, PruneEffect DEF R!Pruned
    <2>2. RowsSound'
      BY <1>0, <2>1, FewerSound DEF RowsSound
    <2> QED
      BY <1>0, <1>4, <1>a, <2>2, PruneEffect DEF RunsFollowJobs
  <1> QED
    BY <1>1, <1>2, <1>3, <1>4 DEF BodyStep, R!RunStep

\* The end of a body, good or bad, ends the execution.
LEMMA RefreshInvEnd ==
    ASSUME RefreshInv, JobsInv', NEW w \in Workers, FinishBody(w) \/ BreakBody(w)
    PROVE  RefreshInv'
  <1>1. [Next]_vars
    BY SysStepIsJobStep DEF SysNext
  <1>2. /\ users' = users /\ hasRecs' = hasRecs /\ rows' = rows /\ run'[w].pc = "idle"
        /\ RunsTyped' /\ \A v \in Workers : v # w => run'[v] = run[v]
    BY EndRunEffect DEF FinishBody, BreakBody, Succeed, Fail, DatabaseError, WorkerCrash,
                        WorkerLost, RefreshInv
  <1>3. \A v \in Workers : v # w => worker'[v] = worker[v]
    <2>1. worker \in [Workers -> WorkerState]
      BY DEF RefreshInv, JobsInv, TypeOK
    <2> QED
      BY <2>1 DEF FinishBody, BreakBody, Succeed, Fail, DatabaseError, WorkerCrash,
                  WorkerLost, SetPc, Release
  <1>4. RunsFollowJobs'
    BY <1>1, <1>2, <1>3, RunsKept DEF RefreshInv
  <1> QED
    BY <1>2, <1>4 DEF RefreshInv, RowsSound, R!UniqueKeys, UsersWithRows

\* The purge takes the user's rows with it.
LEMMA RefreshInvPurge ==
    ASSUME RefreshInv, JobsInv', NEW u \in Users, Purge(u)
    PROVE  RefreshInv'
  <1>1. [Next]_vars
    BY SysStepIsJobStep DEF SysNext
  <1>2. /\ users' = users \ {u} /\ hasRecs' = hasRecs \ {u} /\ worker' = worker /\ run' = run
        /\ rows' = {x \in rows : x.user # u}
    BY DEF Purge, PurgeUser
  <1>3. RunsFollowJobs'
    BY <1>1, <1>2, RunsKept DEF RefreshInv
  <1>4. RowsSound'
    BY <1>2, FewerSound DEF RefreshInv, RowsSound
  <1>5. hasRecs' = UsersWithRows'
    BY <1>2 DEF RefreshInv, UsersWithRows
  <1> QED
    BY <1>2, <1>3, <1>4, <1>5 DEF RefreshInv, RunsTyped

\* Every step keeps the invariant.
LEMMA RefreshInvNext == RefreshInv /\ [SysNext]_sysVars => RefreshInv'
  <1> SUFFICES ASSUME RefreshInv, [SysNext]_sysVars PROVE RefreshInv'
    OBVIOUS
  <1>0. JobsInv'
    BY SysStepIsJobStep, JobsInvNext DEF RefreshInv
  <1>1. CASE JobStep
    BY <1>0, <1>1, RefreshInvJobStep
  <1>2. ASSUME NEW w \in Workers, BeginBody(w) PROVE RefreshInv'
    BY <1>0, <1>2, RefreshInvBegin
  <1>3. ASSUME NEW w \in Workers, BodyStep(w) PROVE RefreshInv'
    BY <1>0, <1>3, RefreshInvBody
  <1>4. ASSUME NEW w \in Workers, FinishBody(w) \/ BreakBody(w) PROVE RefreshInv'
    BY <1>0, <1>4, RefreshInvEnd
  <1>5. ASSUME NEW u \in Users, Purge(u) PROVE RefreshInv'
    BY <1>0, <1>5, RefreshInvPurge
  <1>6. CASE UNCHANGED sysVars
    BY <1>0, <1>6 DEF sysVars, vars, RefreshInv, RowsSound, R!UniqueKeys, RunsTyped,
                      RunsFollowJobs, Held, UsersWithRows
  <1> QED
    BY <1>1, <1>2, <1>3, <1>4, <1>5, <1>6 DEF SysNext

\* Rows and executions are well typed, no game is listed twice for a user and reason, and
\* hasRecs of the job model says who has rows, however executions, crashes and purges mix.
THEOREM SystemTypes == SysSpec => []SysTypeOK
  <1>1. RefreshInv => SysTypeOK
    BY DEF RefreshInv, RowsSound, RunsTyped, SysTypeOK, R!RecommendationsTypeOK
  <1> QED
    BY <1>1, RefreshInvInit, RefreshInvNext, PTL DEF SysSpec

\* The composition implements the job model, step by step.
THEOREM SystemImplementsJobs == SysSpec => ImplementsJobs
  <1>1. SysInit => Init
    BY DEF SysInit
  <1> QED
    BY <1>1, RefreshInvInit, RefreshInvNext, SysStepIsJobStep, PTL
       DEF SysSpec, ImplementsJobs, Spec

\* What is proved of the job model holds of the composition: here that no body starts twice.
THEOREM SystemExecutesOnce == SysSpec => []OneExecution
  BY SystemImplementsJobs, ExecutionIsSingle, PTL DEF ImplementsJobs

-----------------------------------------------------------------------------
(* What an execution has written, while jobs of one user do not overlap *)

\* The list of reason r is finished in the execution of w.
Done(w, r) ==
    \/ run[w].pc = "finished"
    \/ r = "similarity" /\ run[w].reason = "preference"

\* How many candidates of reason r have been written
Progress(w, r) ==
    IF Done(w, r) THEN Len(run[w].lists[r])
    ELSE IF run[w].pc = "upsert" /\ run[w].reason = r THEN run[w].next - 1
    ELSE 0

\* The rows of the first n candidates
Written(w, r, n) ==
    {[user |-> run[w].user, game |-> run[w].lists[r][i], reason |-> r,
      gen |-> run[w].gen, rank |-> i] : i \in 1..n}

\* The rows of the user that carry the generation of the execution
NewRows(w, r) == {x \in R!Listed(run[w].user, r) : x.gen = run[w].gen}

\* The rows of the execution's generation are those it has written, and when a list is
\* finished there are no others.
ListProgress(w, r) ==
    /\ Done(w, r) \/ (run[w].pc = "upsert" /\ run[w].reason = r) =>
         run[w].lists[r] \in CandidateLists
    /\ Progress(w, r) <= Len(run[w].lists[r])
    /\ NewRows(w, r) = Written(w, r, Progress(w, r))
    /\ Done(w, r) => R!Listed(run[w].user, r) = NewRows(w, r)

ProgressOf(w) ==
    run[w].pc # "idle" /\ run[w].user \in users =>
        /\ run[w].pc = "generation" => run[w].reason = "similarity"
        /\ run[w].pc = "finished" => run[w].reason = "preference"
        /\ run[w].pc # "generation" => \A r \in R!Reasons : ListProgress(w, r)

RunProgress == \A w \in Workers : ProgressOf(w)

\* No execution is in progress when the system starts.
LEMMA RunProgressInit == SysInit => RunProgress
  BY DEF SysInit, R!RInit, R!IdleRun, RunProgress, ProgressOf

\* With one unfinished job per type and target a user has one execution at most: both would
\* hold a running job of the user, hence the same one, which only one worker executes.
LEMMA OneRunPerUser ==
    ASSUME RefreshInv, OneActiveJob, NEW v \in Workers, NEW w \in Workers,
           run[v].pc # "idle", run[w].pc # "idle",
           run[v].user = run[w].user, run[w].user \in users
    PROVE  v = w
  <1>1. ASSUME NEW x \in {v, w}
        PROVE  /\ Executing(x) /\ Held(x) \in JobIds /\ IsActive(Held(x))
               /\ job[Held(x)].kind = "user_refresh"
               /\ job[Held(x)].target = run[w].user
    <2>1. /\ worker[x].pc = "work" /\ job[Held(x)].status # "absent"
          /\ job[Held(x)].kind = "user_refresh" /\ job[Held(x)].target = run[w].user
      BY DEF RefreshInv, RunsFollowJobs
    <2>2. Executing(x) /\ Held(x) \in JobIds
      BY <2>1, BusyType DEF Executing, RefreshInv, JobsInv
    <2>3. job[Held(x)].status = "running"
      BY <2>1, <2>2 DEF RefreshInv, JobsInv, ExecutionOwnsRow
    <2> QED
      BY <2>1, <2>2, <2>3 DEF IsActive, ActiveStatus
  <1>2. Held(v) = Held(w)
    BY <1>1 DEF OneActiveJob
  <1> QED
    BY <1>1, <1>2 DEF RefreshInv, JobsInv, ExecutionOwnsRow

\* What an execution has written stays so in a step that leaves it and its user's rows alone.
LEMMA ProgressKept ==
    ASSUME NEW w \in Workers, ProgressOf(w), run'[w] = run[w], users' \subseteq users,
           run[w].pc # "idle" /\ run[w].user \in users' => \A r \in R!Reasons :
               R!Listed(run[w].user, r)' = R!Listed(run[w].user, r)
    PROVE  ProgressOf(w)'
  <1> SUFFICES ASSUME run'[w].pc # "idle", run'[w].user \in users' PROVE ProgressOf(w)'
    BY DEF ProgressOf
  <1>1. /\ run[w].pc # "idle" /\ run[w].user \in users
        /\ \A r \in R!Reasons : R!Listed(run[w].user, r)' = R!Listed(run[w].user, r)
    OBVIOUS
  <1>2. ASSUME NEW r \in R!Reasons
        PROVE  ListProgress(w, r)' <=> ListProgress(w, r)
    <2>1. R!Listed(run[w].user, r)' = R!Listed(run[w].user, r)
      BY <1>1
    <2>2. NewRows(w, r)' = NewRows(w, r)
      BY <2>1 DEF NewRows
    <2>3. Done(w, r)' <=> Done(w, r)
      BY DEF Done
    <2>4. Progress(w, r)' = Progress(w, r)
      BY <2>3 DEF Progress
    <2>5. Written(w, r, Progress(w, r))' = Written(w, r, Progress(w, r))
      BY <2>4 DEF Written
    <2> QED
      BY <2>1, <2>2, <2>3, <2>4, <2>5 DEF ListProgress
  <1> QED
    BY <1>1, <1>2 DEF ProgressOf

\* The rows of one user and reason are not those of another.
LEMMA OtherLists ==
    ASSUME NEW w \in Workers, NEW u, NEW r, u # run[w].user \/ r # run[w].reason,
           \/ rows' = R!Upserted(R!RowFor(w))
           \/ rows' = R!Pruned(run[w].user, run[w].reason, run[w].gen)
    PROVE  R!Listed(u, r)' = R!Listed(u, r)
  <1>1. R!RowFor(w).user = run[w].user /\ R!RowFor(w).reason = run[w].reason
    BY DEF R!RowFor
  <1>2. CASE rows' = R!Upserted(R!RowFor(w))
    BY <1>1, <1>2 DEF R!Upserted, R!Listed, R!RowsOf
  <1>3. CASE rows' = R!Pruned(run[w].user, run[w].reason, run[w].gen)
    BY <1>3 DEF R!Pruned, R!Listed, R!RowsOf
  <1> QED
    BY <1>2, <1>3

\* Nothing is written yet when the execution has read its generation.
LEMMA ProgressReadGeneration ==
    ASSUME RefreshInv, NEW w \in Workers, ProgressOf(w), R!ReadGeneration(w),
           users' = users
    PROVE  ProgressOf(w)'
  <1> SUFFICES ASSUME run[w].user \in users PROVE ProgressOf(w)'
    BY ReadGenerationEffect DEF RefreshInv, ProgressOf
  <1>0. RunsTyped /\ RowsSound
    BY DEF RefreshInv
  <1>1. /\ run[w].pc = "generation" /\ run'[w].pc = "collect"
        /\ run'[w].gen = R!NextGeneration(run[w].user) /\ run'[w].user = run[w].user
        /\ run'[w].reason = run[w].reason /\ run'[w].lists = run[w].lists /\ rows' = rows
    BY <1>0, ReadGenerationEffect
  <1>2. /\ run[w].reason = "similarity" /\ run[w].user \in Users
        /\ run[w].lists \in [R!Reasons -> Seq(Games)]
    BY <1>0, <1>1, BusyRun DEF ProgressOf
  <1>3. ASSUME NEW r \in R!Reasons PROVE ListProgress(w, r)'
    <2>1. ~Done(w, r)' /\ Progress(w, r)' = 0
      BY <1>1, <1>2 DEF Done, Progress
    <2>2. R!Listed(run[w].user, r) \subseteq R!RowsOf(run[w].user)
      BY DEF R!Listed
    <2>3. \A x \in R!RowsOf(run[w].user) : x.gen < R!NextGeneration(run[w].user)
      BY <1>0, <1>2, NextGenerationIsNew
    <2>4. /\ \A x \in R!RowsOf(run[w].user) : x.gen \in Nat
          /\ R!NextGeneration(run[w].user) \in Nat
      BY <1>0, <1>2, NextGenerationIsNew DEF RowsSound, R!RowsOf, R!Row
    <2>5. R!Listed(run[w].user, r)' = R!Listed(run[w].user, r)
      BY <1>1 DEF R!Listed, R!RowsOf
    <2>6. NewRows(w, r)' = {}
      BY <1>1, <2>2, <2>3, <2>4, <2>5 DEF NewRows
    <2>7. Written(w, r, 0)' = {}
      BY DEF Written
    <2>8. 0 <= Len(run'[w].lists[r])
      BY <1>1, <1>2
    <2>9. Written(w, r, Progress(w, r))' = Written(w, r, 0)'
      BY <2>1 DEF Written
    <2> QED
      BY <1>1, <2>1, <2>6, <2>7, <2>8, <2>9 DEF ListProgress
  <1> QED
    BY <1>1, <1>2, <1>3 DEF ProgressOf

\* Collecting candidates writes nothing; the other list is as it was.
LEMMA ProgressCollect ==
    ASSUME RefreshInv, NEW w \in Workers, ProgressOf(w), NEW list \in CandidateLists,
           R!Collect(w, list), users' = users
    PROVE  ProgressOf(w)'
  <1> SUFFICES ASSUME run[w].user \in users PROVE ProgressOf(w)'
    BY CollectEffect DEF RefreshInv, ProgressOf
  <1>0. RunsTyped
    BY DEF RefreshInv
  <1>1. /\ run[w].pc = "collect" /\ run'[w].pc = "upsert"
        /\ run'[w].gen = run[w].gen /\ run'[w].user = run[w].user
        /\ run'[w].reason = run[w].reason /\ run'[w].next = 1
        /\ run'[w].lists = [run[w].lists EXCEPT ![run[w].reason] = list]
        /\ rows' = rows
    BY <1>0, CollectEffect
  <1>2. /\ run[w].reason \in R!Reasons /\ run[w].lists \in [R!Reasons -> Seq(Games)]
        /\ list \in Seq(Games)
    BY <1>0, <1>1, BusyRun, RecommendationsAssumption
  <1>3. ASSUME NEW r \in R!Reasons PROVE ListProgress(w, r)'
    <2>0. ListProgress(w, r)
      BY <1>1 DEF ProgressOf
    <2>1. Done(w, r)' <=> Done(w, r)
      BY <1>1 DEF Done
    <2>2. NewRows(w, r)' = NewRows(w, r)
          /\ R!Listed(run[w].user, r)' = R!Listed(run[w].user, r)
      BY <1>1 DEF NewRows, R!Listed, R!RowsOf
    <2>3. \A n : Written(w, r, n)' = {[user |-> run[w].user, game |-> run'[w].lists[r][i],
                     reason |-> r, gen |-> run[w].gen, rank |-> i] : i \in 1..n}
      BY <1>1 DEF Written
    <2>4. CASE r = run[w].reason
      <3>1. ~Done(w, r) /\ Progress(w, r) = 0 /\ Progress(w, r)' = 0
        BY <1>1, <2>1, <2>4 DEF Done, Progress
      <3>2. run'[w].lists[r] = list
        BY <1>1, <1>2, <2>4
      <3>3. Written(w, r, Progress(w, r)) = {} /\ Written(w, r, Progress(w, r))' = {}
        BY <3>1 DEF Written
      <3>4. 0 <= Len(list)
        BY <1>2
      <3>5. NewRows(w, r)' = Written(w, r, Progress(w, r))'
        BY <2>0, <2>2, <3>3 DEF ListProgress
      <3>6. ~Done(w, r)'
        BY <2>1, <3>1
      <3> QED
        BY <3>1, <3>2, <3>4, <3>5, <3>6 DEF ListProgress
    <2>5. CASE r # run[w].reason
      <3>1. run'[w].lists[r] = run[w].lists[r]
        BY <1>1, <1>2, <2>5
      <3>2. Progress(w, r)' = Progress(w, r)
        BY <1>1, <2>1, <2>5, <3>1 DEF Progress
      <3>3. Written(w, r, Progress(w, r))' = Written(w, r, Progress(w, r))
        BY <1>1, <3>1, <3>2 DEF Written
      <3> QED
        BY <1>1, <2>0, <2>1, <2>2, <2>5, <3>1, <3>2, <3>3 DEF ListProgress
    <2> QED
      BY <2>4, <2>5
  <1> QED
    BY <1>1, <1>3 DEF ProgressOf

\* The row of one more candidate joins the new rows, and no new row is lost: the candidates
\* before it are other games.
LEMMA ProgressUpsert ==
    ASSUME RefreshInv, NEW w \in Workers, ProgressOf(w), R!Upsert(w), users' = users
    PROVE  ProgressOf(w)'
  <1> SUFFICES ASSUME run[w].user \in users PROVE ProgressOf(w)'
    BY UpsertEffect DEF RefreshInv, ProgressOf
  <1>0. RunsTyped /\ RunsFollowJobs
    BY DEF RefreshInv
  <1> DEFINE q == run[w].reason
             n == run[w].next
             list == run[w].lists[q]
  <1>1. /\ run[w].pc = "upsert" /\ run'[w].pc = "upsert"
        /\ run'[w].gen = run[w].gen /\ run'[w].user = run[w].user
        /\ run'[w].reason = q /\ run'[w].next = n + 1
        /\ run'[w].lists = run[w].lists /\ rows' = R!Upserted(R!RowFor(w))
        /\ n \in 1..Len(list)
    BY <1>0, UpsertEffect
  <1>2. /\ q \in R!Reasons /\ run[w].lists \in [R!Reasons -> Seq(Games)] /\ n \in Nat
    BY <1>0, <1>1, BusyRun
  <1>3. ASSUME NEW r \in R!Reasons PROVE ListProgress(w, r)'
    <2>0. ListProgress(w, r)
      BY <1>1 DEF ProgressOf
    <2>1. Done(w, r)' <=> Done(w, r)
      BY <1>1 DEF Done
    <2>2. CASE r = q
      <3>1. ~Done(w, r)
        BY <1>1, <2>2 DEF Done
      <3>2. Progress(w, r) = n - 1 /\ Progress(w, r)' = n
        BY <1>1, <1>2, <2>1, <2>2, <3>1 DEF Progress
      <3>3. list \in CandidateLists /\ list \in Seq(Games)
        BY <1>1, <1>2, <2>0, <2>2 DEF ListProgress
      <3>4. \A i \in 1..(n - 1) : list[i] # list[n]
        <4> TAKE i \in 1..(n - 1)
        <4>1. i \in 1..Len(list) /\ i # n
          BY <1>1, <1>2, <3>3
        <4> HIDE DEF n, list
        <4> QED
          BY <1>1, <3>3, <4>1, RecommendationsAssumption
      <3> DEFINE row == R!RowFor(w)
      <3>5. row = [user |-> run[w].user, game |-> list[n], reason |-> r,
                   gen |-> run[w].gen, rank |-> n]
        BY <2>2 DEF R!RowFor, R!Candidates
      <3>6. NewRows(w, r) = Written(w, r, n - 1)
        BY <2>0, <3>2 DEF ListProgress
      <3>7. \A x \in NewRows(w, r) : x.game # list[n]
        BY <2>2, <3>4, <3>6 DEF Written
      <3>8. R!Listed(run[w].user, r)' = {x \in R!Listed(run[w].user, r) :
                                             x.game # list[n]} \cup {row}
        BY <1>1, <2>2, <3>5 DEF R!Upserted, R!Listed, R!RowsOf
      <3>9. NewRows(w, r)' = NewRows(w, r) \cup {row}
        <4>1. NewRows(w, r)' = {x \in R!Listed(run[w].user, r)' : x.gen = run[w].gen}
          BY <1>1 DEF NewRows
        <4>2. NewRows(w, r) = {x \in R!Listed(run[w].user, r) : x.gen = run[w].gen}
          BY DEF NewRows
        <4>3. row.gen = run[w].gen
          BY <3>5
        <4> HIDE DEF row, list
        <4> QED
          BY <3>7, <3>8, <4>1, <4>2, <4>3
      <3>10. 1..n = 1..(n - 1) \cup {n}
        BY <1>1, <1>2
      <3>11. Written(w, r, Progress(w, r))' = Written(w, r, n - 1) \cup {row}
        <4>1. Written(w, r, Progress(w, r))' =
                {[user |-> run[w].user, game |-> list[i], reason |-> r,
                  gen |-> run[w].gen, rank |-> i] : i \in 1..n}
          BY <1>1, <2>2, <3>2 DEF Written
        <4>2. Written(w, r, n - 1) =
                {[user |-> run[w].user, game |-> list[i], reason |-> r,
                  gen |-> run[w].gen, rank |-> i] : i \in 1..(n - 1)}
          BY <2>2 DEF Written
        <4> QED
          BY <3>5, <3>10, <4>1, <4>2
      <3>12. n <= Len(run'[w].lists[r])
        BY <1>1, <2>2, <3>3
      <3> QED
        BY <1>1, <2>1, <2>2, <3>1, <3>2, <3>3, <3>6, <3>9, <3>11, <3>12
           DEF ListProgress
    <2>3. CASE r # q
      <3>1. R!Listed(run[w].user, r)' = R!Listed(run[w].user, r)
        BY <1>1, <2>3, OtherLists
      <3>2. Progress(w, r)' = Progress(w, r)
        BY <1>1, <2>1, <2>3 DEF Progress
      <3>3. Written(w, r, Progress(w, r))' = Written(w, r, Progress(w, r))
        BY <1>1, <3>2 DEF Written
      <3>4. R!Listed(run[w].user, r)' = R!Listed(run[w].user, r)
            /\ NewRows(w, r)' = NewRows(w, r)
        BY <1>1, <3>1 DEF NewRows
      <3> QED
        BY <1>1, <2>0, <2>1, <2>3, <3>2, <3>3, <3>4 DEF ListProgress
    <2> QED
      BY <2>2, <2>3
  <1> QED
    BY <1>1, <1>3 DEF ProgressOf

\* The prune leaves the new rows, which by then are those of all candidates.
LEMMA ProgressPrune ==
    ASSUME RefreshInv, NEW w \in Workers, ProgressOf(w), R!Prune(w), users' = users
    PROVE  ProgressOf(w)'
  <1> SUFFICES ASSUME run[w].user \in users PROVE ProgressOf(w)'
    BY PruneEffect DEF RefreshInv, ProgressOf
  <1>0. RunsTyped
    BY DEF RefreshInv
  <1> DEFINE q == run[w].reason
             n == run[w].next
             list == run[w].lists[q]
  <1>1. /\ run[w].pc = "upsert"
        /\ run'[w].gen = run[w].gen /\ run'[w].user = run[w].user
        /\ run'[w].lists = run[w].lists
        /\ \/ q = "similarity" /\ run'[w].pc = "collect" /\ run'[w].reason = "preference"
           \/ q = "preference" /\ run'[w].pc = "finished" /\ run'[w].reason = "preference"
        /\ rows' = R!Pruned(run[w].user, q, run[w].gen)
        /\ n > Len(list)
    BY <1>0, PruneEffect
  <1>2. /\ q \in R!Reasons /\ run[w].lists \in [R!Reasons -> Seq(Games)] /\ n \in Nat
    BY <1>0, <1>1, BusyRun
  <1>3. ASSUME NEW r \in R!Reasons PROVE ListProgress(w, r)'
    <2>0. ListProgress(w, r)
      BY <1>1 DEF ProgressOf
    <2>1. CASE r = q
      <3>1. ~Done(w, r) /\ Done(w, r)'
        BY <1>1, <2>1 DEF Done
      <3>2. Progress(w, r) = n - 1 /\ Progress(w, r)' = Len(list)
        BY <1>1, <2>1, <3>1 DEF Progress
      <3>3. n - 1 = Len(list)
        <4>1. Len(list) \in Nat
          BY <1>2
        <4>2. n - 1 <= Len(list)
          BY <2>0, <2>1, <3>2 DEF ListProgress
        <4>3. n > Len(list) /\ n \in Nat
          BY <1>1, <1>2
        <4> HIDE DEF n, list
        <4> QED
          BY <4>1, <4>2, <4>3
      <3>4. R!Listed(run[w].user, r)' = NewRows(w, r)
        BY <1>1, <2>1 DEF R!Pruned, R!Listed, R!RowsOf, NewRows
      <3>5. NewRows(w, r)' = NewRows(w, r)
        BY <1>1, <3>4 DEF NewRows
      <3>6. Written(w, r, Progress(w, r))' = Written(w, r, Progress(w, r))
        BY <1>1, <3>2, <3>3 DEF Written
      <3>7. Len(list) \in Nat
        BY <1>2
      <3> QED
        BY <1>1, <2>0, <2>1, <3>1, <3>2, <3>4, <3>5, <3>6, <3>7 DEF ListProgress
    <2>2. CASE r # q
      <3>1. R!Listed(run[w].user, r)' = R!Listed(run[w].user, r)
        BY <1>1, <2>2, OtherLists
      <3>2. Done(w, r)' <=> Done(w, r)
        BY <1>1, <1>2, <2>2 DEF Done, R!Reasons
      <3>3. Progress(w, r)' = Progress(w, r)
        BY <1>1, <2>2, <3>2 DEF Progress
      <3>4. Written(w, r, Progress(w, r))' = Written(w, r, Progress(w, r))
        BY <1>1, <3>3 DEF Written
      <3>5. R!Listed(run[w].user, r)' = R!Listed(run[w].user, r)
            /\ NewRows(w, r)' = NewRows(w, r)
        BY <1>1, <3>1 DEF NewRows
      <3> QED
        BY <1>1, <2>0, <2>2, <3>2, <3>3, <3>4, <3>5 DEF ListProgress
    <2> QED
      BY <2>1, <2>2
  <1> QED
    BY <1>1, <1>3 DEF ProgressOf

\* A step of a body moves its own execution forward, and touches no other one of which the
\* user exists: that would be of the same user, hence the same.
LEMMA RunProgressBody ==
    ASSUME RefreshInv, OneActiveJob, RunProgress, NEW w \in Workers, BodyStep(w)
    PROVE  RunProgress'
  <1>0. users' = users /\ RunsTyped /\ RunsFollowJobs /\ RowsSound
    BY DEF BodyStep, RowsChange, RefreshInv
  <1>1. /\ run[w].pc # "idle" /\ \A v \in Workers : v # w => run'[v] = run[v]
        /\ \/ rows' = rows
           \/ rows' = R!Upserted(R!RowFor(w))
           \/ rows' = R!Pruned(run[w].user, run[w].reason, run[w].gen)
    BY <1>0, ReadGenerationEffect, CollectEffect, UpsertEffect, PruneEffect
       DEF BodyStep, R!RunStep
  <1>2. ProgressOf(w)'
    BY <1>0, ProgressReadGeneration, ProgressCollect, ProgressUpsert, ProgressPrune
       DEF BodyStep, R!RunStep, RunProgress
  <1>3. ASSUME NEW v \in Workers, v # w PROVE ProgressOf(v)'
    <2>1. ProgressOf(v) /\ run'[v] = run[v]
      BY <1>1, <1>3 DEF RunProgress
    <2>2. ASSUME NEW r \in R!Reasons, run[v].pc # "idle", run[v].user \in users
          PROVE  R!Listed(run[v].user, r)' = R!Listed(run[v].user, r)
      <3>1. run[v].user # run[w].user
        BY <1>1, <1>3, <2>2, OneRunPerUser
      <3>2. CASE rows' = rows
        BY <2>1, <3>2 DEF R!Listed, R!RowsOf
      <3>3. CASE rows' # rows
        BY <1>1, <2>1, <3>1, <3>3, OtherLists
      <3> QED
        BY <3>2, <3>3
    <2> QED
      BY <1>0, <2>1, <2>2, ProgressKept
  <1> QED
    BY <1>2, <1>3 DEF RunProgress

\* Every step keeps the progress, while jobs of one user do not overlap.
LEMMA RunProgressNext ==
    RefreshInv /\ OneActiveJob /\ RunProgress /\ [SysNext]_sysVars => RunProgress'
  <1> SUFFICES ASSUME RefreshInv, OneActiveJob, RunProgress, [SysNext]_sysVars
               PROVE  RunProgress'
    OBVIOUS
  <1>0. RunsTyped
    BY DEF RefreshInv
  <1>a. ASSUME users' = users, rows' = rows,
               \A w \in Workers : run'[w] = run[w] \/ run'[w].pc \in {"idle", "generation"},
               \A w \in Workers : run'[w].pc = "generation" =>
                                    run'[w] = run[w] \/ run'[w].reason = "similarity"
        PROVE  RunProgress'
    <2> SUFFICES ASSUME NEW w \in Workers PROVE ProgressOf(w)'
      BY DEF RunProgress
    <2>1. CASE run'[w] = run[w]
      <3>1. \A r \in R!Reasons : R!Listed(run[w].user, r)' = R!Listed(run[w].user, r)
        BY <1>a, <2>1 DEF R!Listed, R!RowsOf
      <3> QED
        BY <1>a, <2>1, <3>1, ProgressKept DEF RunProgress
    <2>2. CASE run'[w] # run[w]
      BY <1>a, <2>2 DEF ProgressOf
    <2> QED
      BY <2>1, <2>2
  <1>1. CASE JobStep
    <2>1. users' = users /\ rows' = rows /\ run' = run
      BY <1>1 DEF JobStep, RequestStep, ListNotReady, CheckLatest, AdminCheck, BeatCheck,
                  CreateJob, CreateRefused, Publish, RequestDies, DispatcherStep,
                  ClaimUserRefresh, ClaimSimilarity, Dispatch, DispatcherDies, Receive,
                  StartJob, SkipJob, Retry, Ack, Redelivery
    <2> QED
      BY <1>a, <2>1
  <1>2. ASSUME NEW w \in Workers, BeginBody(w) PROVE RunProgress'
    <2>1. users' = users
      BY <1>2 DEF BeginBody, LoadUser
    <2>2. CASE job[Held(w)].kind = "user_refresh"
      <3>1. R!Begin(w, job[Held(w)].target) /\ job[Held(w)].target \in Users
        <4>1. job[Held(w)].target \in users /\ users \subseteq Users
          BY <1>2, <2>2 DEF BeginBody, LoadUser, RefreshInv, JobsInv, TypeOK
        <4> QED
          BY <1>2, <2>2, <4>1 DEF BeginBody
      <3>2. /\ run'[w].pc = "generation" /\ run'[w].reason = "similarity" /\ rows' = rows
            /\ \A v \in Workers : v # w => run'[v] = run[v]
        BY <1>0, <3>1, BeginEffect
      <3> QED
        BY <1>a, <2>1, <3>2
    <2>3. CASE job[Held(w)].kind # "user_refresh"
      BY <1>2, <1>a, <2>1, <2>3 DEF BeginBody
    <2> QED
      BY <2>2, <2>3
  <1>3. ASSUME NEW w \in Workers, BodyStep(w) PROVE RunProgress'
    BY <1>3, RunProgressBody
  <1>4. ASSUME NEW w \in Workers, FinishBody(w) \/ BreakBody(w) PROVE RunProgress'
    <2>1. /\ users' = users /\ rows' = rows /\ run'[w].pc = "idle"
          /\ \A v \in Workers : v # w => run'[v] = run[v]
      BY <1>0, <1>4, EndRunEffect DEF FinishBody, BreakBody, Succeed, Fail, DatabaseError,
                                      WorkerCrash, WorkerLost
    <2> QED
      BY <1>a, <2>1
  <1>5. ASSUME NEW u \in Users, Purge(u) PROVE RunProgress'
    <2> SUFFICES ASSUME NEW w \in Workers PROVE ProgressOf(w)'
      BY DEF RunProgress
    <2>1. users' = users \ {u} /\ run' = run /\ rows' = {x \in rows : x.user # u}
      BY <1>5 DEF Purge, PurgeUser
    <2>2. ASSUME run[w].user \in users', NEW r \in R!Reasons
          PROVE  R!Listed(run[w].user, r)' = R!Listed(run[w].user, r)
      BY <2>1, <2>2 DEF R!Listed, R!RowsOf
    <2> QED
      BY <2>1, <2>2, ProgressKept DEF RunProgress
  <1>6. CASE UNCHANGED sysVars
    BY <1>6, <1>a DEF sysVars, vars
  <1> QED
    BY <1>1, <1>2, <1>3, <1>4, <1>5, <1>6 DEF SysNext

\* A step in which a body ends in success is the last step of its execution.
LEMMA SuccessIsFinish ==
    ASSUME RefreshInv, SysNext, NEW w \in Workers,
           worker[w].pc = "work", worker'[w].pc = "ack"
    PROVE  FinishBody(w)
  <1>0. worker \in [Workers -> WorkerState]
    BY DEF RefreshInv, JobsInv, TypeOK
  <1>1. ASSUME worker' = worker PROVE FALSE
    BY <1>1
  <1>2. ASSUME NEW v \in Workers, v # w, \A x \in Workers : x # v => worker'[x] = worker[x]
        PROVE  FALSE
    BY <1>2
  <1>3. CASE JobStep
    <2>1. ASSUME NEW v \in Workers,
                 \/ \E m \in Message : Receive(v, m)
                 \/ StartJob(v) \/ SkipJob(v) \/ Retry(v) \/ Ack(v)
          PROVE  FALSE
      <3>1. v # w
        BY <2>1 DEF Receive, StartJob, SkipJob, Retry, Ack
      <3>2. \A x \in Workers : x # v => worker'[x] = worker[x]
        BY <1>0, <2>1 DEF Receive, StartJob, SkipJob, Retry, Ack, SetPc, Release
      <3> QED
        BY <1>2, <3>1, <3>2
    <2> QED
      BY <1>1, <1>3, <2>1
         DEF JobStep, RequestStep, ListNotReady, CheckLatest, AdminCheck, BeatCheck, CreateJob,
             CreateRefused, Publish, RequestDies, DispatcherStep, ClaimUserRefresh,
             ClaimSimilarity, Dispatch, DispatcherDies, Redelivery
  <1>4. ASSUME NEW v \in Workers, BeginBody(v) PROVE FALSE
    <2>1. v # w /\ \A x \in Workers : x # v => worker'[x] = worker[x]
      BY <1>0, <1>4 DEF BeginBody, LoadUser, SetPc
    <2> QED
      BY <1>2, <2>1
  <1>5. ASSUME NEW v \in Workers, BodyStep(v) PROVE FALSE
    BY <1>1, <1>5 DEF BodyStep, RowsChange
  <1>6. ASSUME NEW v \in Workers, FinishBody(v) PROVE FinishBody(w)
    <2>1. \A x \in Workers : x # v => worker'[x] = worker[x]
      BY <1>0, <1>6 DEF FinishBody, Succeed, SetPc
    <2> QED
      BY <1>2, <1>6, <2>1
  <1>7. ASSUME NEW v \in Workers, BreakBody(v) PROVE FALSE
    <2>1. \A x \in Workers : x # v => worker'[x] = worker[x]
      BY <1>0, <1>7 DEF BreakBody, Fail, DatabaseError, WorkerCrash, WorkerLost, SetPc, Release
    <2>2. worker'[v].pc \in {"retry", "idle"}
      <3>1. CASE worker[v].pc = "idle"
        BY <1>7, <3>1 DEF BreakBody, Fail, DatabaseError, WorkerCrash, WorkerLost
      <3>2. CASE worker[v].pc # "idle"
        <4>1. worker[v] \in BusyWorker
          BY <1>0, <3>2, BusyType DEF RefreshInv, JobsInv
        <4>2. \/ worker' = [worker EXCEPT ![v].pc = "retry"]
              \/ worker' = [worker EXCEPT ![v] = IdleWorker]
          BY <1>7 DEF BreakBody, Fail, DatabaseError, WorkerCrash, WorkerLost, SetPc, Release
        <4> QED
          BY <1>0, <4>1, <4>2 DEF BusyWorker, IdleWorker
      <3> QED
        BY <3>1, <3>2
    <2> QED
      BY <1>2, <2>1, <2>2
  <1>8. ASSUME NEW u \in Users, Purge(u) PROVE FALSE
    BY <1>1, <1>8 DEF Purge, PurgeUser
  <1> QED
    BY <1>3, <1>4, <1>5, <1>6, <1>7, <1>8 DEF SysNext

\* When a refresh ends in success the rows of its user are exactly the two lists it computed,
\* of its generation and in its order, while jobs of one user do not overlap.
THEOREM SuccessReplaces == SysSpec /\ []OneRequest => SuccessMeansReplaced
  <1> DEFINE Replaced ==
        \A w \in Workers :
          (run[w].pc # "idle" /\ worker[w].pc = "work" /\ worker'[w].pc = "ack"
             /\ run[w].user \in users) =>
            /\ run[w].pc = "finished"
            /\ \A reason \in R!Reasons :
                 {<<x.game, x.rank>> : x \in R!Listed(run[w].user, reason)} =
                 {<<run[w].lists[reason][i], i>> : i \in 1..Len(run[w].lists[reason])}
  <1>1. RefreshInv /\ RunProgress /\ [SysNext]_sysVars => [Replaced]_sysVars
    <2> SUFFICES ASSUME RefreshInv, RunProgress, SysNext, NEW w \in Workers,
                        run[w].pc # "idle", worker[w].pc = "work", worker'[w].pc = "ack",
                        run[w].user \in users
                 PROVE  /\ run[w].pc = "finished"
                        /\ \A reason \in R!Reasons :
                             {<<x.game, x.rank>> : x \in R!Listed(run[w].user, reason)} =
                             {<<run[w].lists[reason][i], i>> :
                                 i \in 1..Len(run[w].lists[reason])}
      OBVIOUS
    <2>1. run[w].pc = "finished"
      BY SuccessIsFinish DEF FinishBody, BodyDone
    <2>2. ASSUME NEW r \in R!Reasons
          PROVE  {<<x.game, x.rank>> : x \in R!Listed(run[w].user, r)} =
                 {<<run[w].lists[r][i], i>> : i \in 1..Len(run[w].lists[r])}
      <3>1. ListProgress(w, r) /\ Done(w, r)
        BY <2>1 DEF RunProgress, ProgressOf, Done
      <3>2. R!Listed(run[w].user, r) = Written(w, r, Len(run[w].lists[r]))
        BY <3>1 DEF ListProgress, Progress
      <3> DEFINE row(i) == [user |-> run[w].user, game |-> run[w].lists[r][i],
                            reason |-> r, gen |-> run[w].gen, rank |-> i]
                 n == Len(run[w].lists[r])
      <3>3. R!Listed(run[w].user, r) = {row(i) : i \in 1..n}
        BY <3>2 DEF Written
      <3>4. \A i : row(i).game = run[w].lists[r][i] /\ row(i).rank = i
        OBVIOUS
      <3> HIDE DEF row, n
      <3>5. {<<x.game, x.rank>> : x \in R!Listed(run[w].user, r)} =
            {<<run[w].lists[r][i], i>> : i \in 1..n}
        BY <3>3, <3>4
      <3> QED
        BY <3>5 DEF n
    <2> QED
      BY <2>1, <2>2
  <1> HIDE DEF Replaced
  <1>2. SuccessMeansReplaced <=> [][Replaced]_sysVars
    BY DEF SuccessMeansReplaced, Replaced
  <1>3. SysInit => RunProgress
    BY RunProgressInit
  <1>4. SysSpec /\ []OneRequest => []OneActiveJob
    BY SystemImplementsJobs, OneActiveWhenSerial, PTL DEF ImplementsJobs
  <1> QED
    BY <1>1, <1>2, <1>3, <1>4, RefreshInvInit, RefreshInvNext, RunProgressNext, PTL
       DEF SysSpec

\* A list is never empty in between: it becomes so only by the prune of an execution that
\* found no candidate for it, while jobs of one user do not overlap.
THEOREM ListsStayUp == SysSpec /\ []OneRequest => ListEmptiedOnlyByEmptyResult
  <1> DEFINE OnlyByEmptyResult ==
        \A u \in users \cap users', reason \in R!Reasons :
          (R!Listed(u, reason) # {} /\ R!Listed(u, reason)' = {}) =>
             \E w \in Workers : /\ run[w].pc = "upsert"
                                /\ run[w].user = u /\ run[w].reason = reason
                                /\ R!Candidates(w) = <<>>
  <1>1. RefreshInv /\ RunProgress /\ [SysNext]_sysVars => [OnlyByEmptyResult]_sysVars
    <2> SUFFICES ASSUME RefreshInv, RunProgress, SysNext,
                        NEW u \in users \cap users', NEW r \in R!Reasons,
                        R!Listed(u, r) # {}, R!Listed(u, r)' = {}
                 PROVE  \E w \in Workers : /\ run[w].pc = "upsert"
                                           /\ run[w].user = u /\ run[w].reason = r
                                           /\ R!Candidates(w) = <<>>
      OBVIOUS
    <2>0. RunsTyped /\ RunsFollowJobs
      BY DEF RefreshInv
    <2>1. rows' # rows
      BY DEF R!Listed, R!RowsOf
    <2>2. ~ \E v \in Users : Purge(v)
      BY DEF Purge, PurgeUser, R!Listed, R!RowsOf
    <2>3. ~ \E w \in Workers : BeginBody(w) \/ FinishBody(w) \/ BreakBody(w)
      BY <2>1 DEF BeginBody, FinishBody, BreakBody, R!Begin, R!EndRun
    <2>4. PICK w \in Workers : BodyStep(w)
      BY <2>1, <2>2, <2>3 DEF SysNext, JobStep
    <2>5. R!Upsert(w) \/ R!Prune(w)
      BY <2>1, <2>4 DEF BodyStep, R!RunStep, R!ReadGeneration, R!Collect
    <2>6. run[w].user = u /\ run[w].reason = r
      BY <2>0, <2>5, UpsertEffect, PruneEffect, OtherLists
    <2>7. CASE R!Upsert(w)
      <3>1. /\ rows' = R!Upserted(R!RowFor(w)) /\ R!RowFor(w).user = u
            /\ R!RowFor(w).reason = r
        BY <2>0, <2>6, <2>7, UpsertEffect DEF R!RowFor
      <3>2. R!RowFor(w) \in R!Listed(u, r)'
        BY <3>1 DEF R!Upserted, R!Listed, R!RowsOf
      <3> QED
        BY <3>2
    <2>8. CASE R!Prune(w)
      <3>1. /\ run[w].pc = "upsert" /\ run[w].next > Len(run[w].lists[r])
            /\ rows' = R!Pruned(u, r, run[w].gen)
        BY <2>0, <2>6, <2>8, PruneEffect
      <3>2. ListProgress(w, r) /\ ~Done(w, r)
        BY <2>6, <3>1 DEF RunProgress, ProgressOf, Done
      <3>3. /\ run[w].next \in Nat /\ run[w].lists[r] \in Seq(Games)
            /\ Len(run[w].lists[r]) \in Nat
        BY <2>0, <3>1, BusyRun
      <3>4. NewRows(w, r) = {}
        BY <2>6, <3>1 DEF R!Pruned, R!Listed, R!RowsOf, NewRows
      <3>5. Written(w, r, run[w].next - 1) = {}
        BY <2>6, <3>1, <3>2, <3>4 DEF ListProgress, Progress
      <3>6. ~(1 \in 1..(run[w].next - 1))
        BY <3>5 DEF Written
      <3>7. Len(run[w].lists[r]) = 0
        BY <3>1, <3>3, <3>6
      <3>8. run[w].lists[r] = <<>>
        BY <3>3, <3>7
      <3> QED
        BY <2>6, <3>1, <3>8 DEF R!Candidates
    <2> QED
      BY <2>5, <2>7, <2>8
  <1> HIDE DEF OnlyByEmptyResult
  <1>2. ListEmptiedOnlyByEmptyResult <=> [][OnlyByEmptyResult]_sysVars
    BY DEF ListEmptiedOnlyByEmptyResult, OnlyByEmptyResult
  <1>3. SysSpec /\ []OneRequest => []OneActiveJob
    BY SystemImplementsJobs, OneActiveWhenSerial, PTL DEF ImplementsJobs
  <1> QED
    BY <1>1, <1>2, <1>3, RunProgressInit, RefreshInvInit, RefreshInvNext, RunProgressNext, PTL
       DEF SysSpec
=============================================================================
