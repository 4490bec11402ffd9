------------------------------- MODULE NameKo -------------------------------
(***************************************************************************)
(* The Korean names of games: one Redis hash and one enqueue lock per      *)
(* game.  Web requests read the hash and enqueue a fetch, Celery tasks ask *)
(* Wikidata and write the hash, a backfill runs every ten minutes, an      *)
(* operator may run fill_name_ko.  Every Redis round trip is a step.       *)
(***************************************************************************)
EXTENDS Naturals, FiniteSets, FiniteSetsExt

CONSTANTS
    Games,        \* IGDB games with a slug; one without is never enqueued
    Asked,        \* the games clients ask for
    NoGame,
    ParentOf,     \* parent_game of the IGDB record, or NoGame
    InferredOf,   \* what an IGDB search for the name without its edition finds
    Named,        \* games Wikidata has a Korean label for
    CleanSlug,    \* the slug without its edition, or NoSlug if it has none
    NoSlug,
    CleanNamed,   \* games Wikidata has a Korean label for under that slug
    Requests,
    Tasks,        \* bound: fetch messages in the broker or in a worker
    Bulks,        \* bound: backfills and commands at one time
    MaxRetries,
    MaxFailed,    \* _MAX_FAILED
    BatchSize,    \* _BACKFILL_BATCH
    ChunkSize     \* _BULK_CHUNK_SIZE

Ages == {"never", "recent", "old"} \* fetched_at: missing, within 7 days, before

ASSUME NameKoAssumption ==
    /\ Asked \subseteq Games /\ NoGame \notin Games
    /\ ParentOf \in [Games -> Games \cup {NoGame}]
    /\ InferredOf \in [Games -> Games \cup {NoGame}]
    /\ Named \subseteq Games /\ CleanNamed \subseteq Games
    /\ DOMAIN CleanSlug = Games
    /\ MaxRetries \in Nat /\ MaxFailed \in Nat
    /\ BatchSize \in Nat \ {0} /\ ChunkSize \in Nat \ {0}
    /\ IsFiniteSet(Requests) /\ IsFiniteSet(Tasks) /\ IsFiniteSet(Bulks)
    /\ Requests \cap Tasks = {} /\ Requests \cap Bulks = {} /\ Tasks \cap Bulks = {}

VARIABLES
    entry,    \* games:name_ko:{id}
    lock,     \* the games whose key games:name_ko_enqueued:{id} exists
    request,  \* web requests that resolve a name
    task,     \* messages of fetch_name_ko_task and their executions
    bulk,     \* executions of backfill_name_ko_bulk and fill_name_ko
    mixed,    \* history: games whose writers overlapped or were executed again
    lapsed,   \* history: games whose lock expired under a fetch, or whose fetch was redelivered
    leaked    \* history: games whose lock was left behind

nameVars == <<entry, lock, request, task, bulk>>
nameHistory == <<mixed, lapsed, leaked>>

\* failed_count is only ever compared with MaxFailed and is kept up to there.
\* A missing hash reads as one without fields.
Entry == [fetched: Ages, named: BOOLEAN, slug: BOOLEAN, failed: 0..MaxFailed]
Absent == [fetched |-> "never", named |-> FALSE, slug |-> FALSE, failed |-> 0]

Idle == [pc |-> "idle"]
RequestState == [pc: {"parent", "infer", "count", "lock", "publish"}, game: Asked] \cup {Idle}
TaskState == [pc: {"queued", "save", "release", "fail", "retry", "ack", "raised"},
              game: Asked, retries: 0..MaxRetries, found: BOOLEAN] \cup {Idle}
BulkState == [pc: {"slugs", "query", "clean", "save", "count"}, backfill: BOOLEAN,
              todo: SUBSET Games, chunk: SUBSET Games, found: SUBSET Games,
              missed: SUBSET Games] \cup {Idle}

NameKoTypeOK ==
    /\ entry \in [Games -> Entry]
    /\ lock \subseteq Asked
    /\ request \in [Requests -> RequestState]
    /\ task \in [Tasks -> TaskState]
    /\ bulk \in [Bulks -> BulkState]
    /\ mixed \subseteq Games /\ lapsed \subseteq Games /\ leaked \subseteq Games

NameKoInit ==
    /\ entry = [g \in Games |-> Absent]
    /\ lock = {}
    /\ request = [r \in Requests |-> Idle]
    /\ task = [t \in Tasks |-> Idle]
    /\ bulk = [b \in Bulks |-> Idle]
    /\ mixed = {} /\ lapsed = {} /\ leaked = {}

-----------------------------------------------------------------------------
(* The hash *)

\* save_name_ko: one transaction
Saved(g, found) ==
    [entry EXCEPT ![g].named = found, ![g].slug = TRUE, ![g].fetched = "recent"]

\* increment_failed_count
Counted(g) == [entry EXCEPT ![g].failed = Min({@ + 1, MaxFailed})]

\* the threshold of seven days, and the TTL of thirty days since the last write
EntryAges(g) ==
    /\ entry[g].fetched = "recent"
    /\ entry' = [entry EXCEPT ![g].fetched = "old"]
    /\ UNCHANGED <<lock, request, task, bulk>>

EntryExpires(g) ==
    /\ entry[g] # Absent
    /\ entry' = [entry EXCEPT ![g] = Absent]
    /\ UNCHANGED <<lock, request, task, bulk>>

\* the TTL of an hour
LockExpires(g) ==
    /\ g \in lock
    /\ lock' = lock \ {g}
    /\ UNCHANGED <<entry, request, task, bulk>>

-----------------------------------------------------------------------------
(* A request resolves the name of a game; with a name it ends at once *)

Become(r, state) == request' = [request EXCEPT ![r] = state]

\* mutated form: a request enqueues whatever the hash holds
ReadNameAlways(r, g) ==
    /\ request[r].pc = "idle"
    /\ Become(r, [pc |-> "parent", game |-> g])
    /\ UNCHANGED <<entry, lock, task, bulk>>
ReadName(r, g) ==
    /\ request[r].pc = "idle"
    /\ ~entry[g].named
    /\ Become(r, [pc |-> "parent", game |-> g])
    /\ UNCHANGED <<entry, lock, task, bulk>>

HasName(g) == g # NoGame /\ entry[g].named

ReadParent(r) ==
    /\ request[r].pc = "parent"
    /\ Become(r, IF HasName(ParentOf[request[r].game])
                   THEN Idle ELSE [request[r] EXCEPT !.pc = "infer"])
    /\ UNCHANGED <<entry, lock, task, bulk>>

\* the IGDB search may fail, and a failure is remembered per process
ReadInferred(r) ==
    /\ request[r].pc = "infer"
    /\ \/ /\ HasName(InferredOf[request[r].game])
          /\ Become(r, Idle)
       \/ Become(r, [request[r] EXCEPT !.pc = "count"])
    /\ UNCHANGED <<entry, lock, task, bulk>>

ReadCount(r) ==
    /\ request[r].pc = "count"
    /\ Become(r, IF entry[request[r].game].failed >= MaxFailed
                   THEN Idle ELSE [request[r] EXCEPT !.pc = "lock"])
    /\ UNCHANGED <<entry, lock, task, bulk>>

\* set nx
AcquireLock(r) ==
    /\ request[r].pc = "lock"
    /\ Become(r, IF request[r].game \in lock
                   THEN Idle ELSE [request[r] EXCEPT !.pc = "publish"])
    /\ lock' = lock \cup {request[r].game}
    /\ UNCHANGED <<entry, task, bulk>>

Message(g, retries) == [pc |-> "queued", game |-> g, retries |-> retries, found |-> FALSE]

Publish(r, t) ==
    /\ request[r].pc = "publish"
    /\ task[t].pc = "idle"
    /\ task' = [task EXCEPT ![t] = Message(request[r].game, 0)]
    /\ Become(r, Idle)
    /\ UNCHANGED <<entry, lock, bulk>>

\* a killed web process, a broker that refuses the message
RequestDies(r) ==
    /\ request[r].pc # "idle"
    /\ Become(r, Idle)
    /\ UNCHANGED <<entry, lock, task, bulk>>

-----------------------------------------------------------------------------
(* fetch_name_ko_task *)

AdvanceTask(t, pc) == task' = [task EXCEPT ![t].pc = pc]

\* A worker receives the message, sends the query and has the answer: until then it
\* touches no key.  sparql_query answers nothing for a network error just as for an
\* unknown game; only an answer of an unexpected shape raises.
Ask(t) ==
    /\ task[t].pc = "queued"
    /\ \/ \E found \in {FALSE, task[t].game \in Named} :
            task' = [task EXCEPT ![t].pc = "save", ![t].found = found]
       \/ AdvanceTask(t, "fail")
    /\ UNCHANGED <<entry, lock, request, bulk>>

\* an error of Redis is logged
Save(t) ==
    /\ task[t].pc = "save"
    /\ entry' = Saved(task[t].game, task[t].found) \/ UNCHANGED entry
    /\ task' = [task EXCEPT ![t].pc = "release", ![t].found = FALSE]
    /\ UNCHANGED <<lock, request, bulk>>

\* mutated form: a fetch that has answered keeps the lock
ReleaseNothing(t) ==
    /\ task[t].pc = "release"
    /\ AdvanceTask(t, "ack")
    /\ UNCHANGED <<entry, lock, request, bulk>>
Release(t) ==
    /\ task[t].pc = "release"
    /\ lock' = lock \ {task[t].game}
    /\ AdvanceTask(t, "ack")
    /\ UNCHANGED <<entry, request, bulk>>

CountFailure(t) ==
    /\ task[t].pc = "fail"
    /\ entry' = Counted(task[t].game)
    /\ AdvanceTask(t, "retry")
    /\ UNCHANGED <<lock, request, bulk>>

\* mutated form: the lock is released before the retry
RetryUnlocked(t, s) ==
    /\ task[t].pc = "retry" /\ task[t].retries < MaxRetries
    /\ task[s].pc = "idle"
    /\ task' = [task EXCEPT ![t].pc = "ack",
                            ![s] = Message(task[t].game, task[t].retries + 1)]
    /\ lock' = lock \ {task[t].game}
    /\ UNCHANGED <<entry, request, bulk>>

\* mutated form: a message is retried once too often
RetryOnceMore(t, s) ==
    /\ task[t].pc = "retry" /\ task[t].retries <= MaxRetries
    /\ task[s].pc = "idle"
    /\ task' = [task EXCEPT ![t].pc = "ack",
                            ![s] = Message(task[t].game, task[t].retries + 1)]
    /\ UNCHANGED <<entry, lock, request, bulk>>
\* self.retry publishes the next message and keeps the lock
Retry(t, s) ==
    /\ task[t].pc = "retry" /\ task[t].retries < MaxRetries
    /\ task[s].pc = "idle"
    /\ task' = [task EXCEPT ![t].pc = "ack",
                            ![s] = Message(task[t].game, task[t].retries + 1)]
    /\ UNCHANGED <<entry, lock, request, bulk>>

\* The execution ends with an exception and leaves the lock: Redis refuses the count (or
\* the expiry sent after it) or the release, the broker refuses the next message, or the
\* retries are used up.  With exc given, Task.retry raises exc and not
\* MaxRetriesExceededError, so the handler that releases the lock is not entered.
GiveUp(t) ==
    /\ task[t].pc \in {"fail", "release", "retry"}
    /\ \/ UNCHANGED entry
       \/ task[t].pc = "fail" /\ entry' = Counted(task[t].game)
    /\ AdvanceTask(t, "raised")
    /\ UNCHANGED <<lock, request, bulk>>

\* the message of a failed execution is acknowledged too
Ack(t) ==
    /\ task[t].pc \in {"ack", "raised"}
    /\ task' = [task EXCEPT ![t] = Idle]
    /\ UNCHANGED <<entry, lock, request, bulk>>

\* acks_late: the message of a killed worker is delivered again
TaskKilled(t) ==
    /\ task[t].pc \notin {"idle", "queued"}
    /\ task' = [task EXCEPT ![t] = Message(task[t].game, task[t].retries)]
    /\ UNCHANGED <<entry, lock, request, bulk>>

-----------------------------------------------------------------------------
(* backfill_name_ko_bulk and fill_name_ko *)

AdvanceBulk(b, state) == bulk' = [bulk EXCEPT ![b] = state]

Pending == {g \in Games : entry[g].fetched = "never" /\ entry[g] # Absent}
\* mutated form: the age of an answer is not looked at
DueAtAnyAge ==
    {g \in Games : entry[g].fetched # "never" /\ ~entry[g].named /\ entry[g].failed < MaxFailed}
Due == {g \in Games : entry[g].fetched = "old" /\ ~entry[g].named /\ entry[g].failed < MaxFailed}

\* the first n in the order of SCAN, which is arbitrary
UpTo(n, ids) == kSubset(Min({n, Cardinality(ids)}), ids)

Bulk(pc, backfill, ids) ==
    [pc |-> pc, backfill |-> backfill, todo |-> ids, chunk |-> {}, found |-> {},
     missed |-> {}]

\* SCAN stops at twice the batch, of either kind; the batch of each kind is cut from that
BackfillScan(b) ==
    /\ bulk[b].pc = "idle"
    /\ Pending \cup Due # {}
    /\ \E scanned \in UpTo(2 * BatchSize, Pending \cup Due) :
       \E pending \in UpTo(BatchSize, scanned \cap Pending),
          due \in UpTo(BatchSize, scanned \cap Due) :
         AdvanceBulk(b, Bulk("slugs", TRUE, pending \cup due))
    /\ UNCHANGED <<entry, lock, request, task>>

WithSlug(ids) == {g \in ids : entry[g].slug}

BackfillSlugs(b) ==
    /\ bulk[b].pc = "slugs"
    /\ AdvanceBulk(b, IF WithSlug(bulk[b].todo) = {}
                        THEN Idle ELSE Bulk("query", TRUE, WithSlug(bulk[b].todo)))
    /\ UNCHANGED <<entry, lock, request, task>>

\* --igdb-ids and --overwrite take any games, the command without them the pending
\* hashes with a slug
FillNames(b) ==
    /\ bulk[b].pc = "idle"
    /\ \E ids \in SUBSET Games \ {{}} :
         AdvanceBulk(b, Bulk("query", FALSE, ids))
    /\ UNCHANGED <<entry, lock, request, task>>

Cleanable(ids) == {g \in ids : CleanSlug[g] # NoSlug}

\* first query of a chunk
QueryChunk(b) ==
    /\ bulk[b].pc = "query"
    /\ \E chunk \in UpTo(ChunkSize, bulk[b].todo) :
       \E found \in SUBSET (chunk \cap Named) :
         AdvanceBulk(b, [bulk[b] EXCEPT
             !.pc = IF Cleanable(chunk \ found) = {} THEN "save" ELSE "clean",
             !.todo = @ \ chunk, !.chunk = chunk, !.found = found])
    /\ UNCHANGED <<entry, lock, request, task>>

\* a dict keyed by the cleaned slug keeps one game of each
OnePerSlug(ids) ==
    {one \in SUBSET ids : \A g \in ids : \E h \in one :
        CleanSlug[h] = CleanSlug[g] /\ \A i \in one : CleanSlug[i] = CleanSlug[g] => i = h}

\* second query, for the games the first one did not find
QueryCleaned(b) ==
    /\ bulk[b].pc = "clean"
    /\ \E asked \in OnePerSlug(Cleanable(bulk[b].chunk \ bulk[b].found)) :
       \E found \in SUBSET (asked \cap CleanNamed) :
         AdvanceBulk(b, [bulk[b] EXCEPT !.pc = "save", !.found = @ \cup found])
    /\ UNCHANGED <<entry, lock, request, task>>

\* the misses are counted after the last chunk, by the backfill alone
AfterSave(state) ==
    IF state.chunk # {} THEN state
    ELSE IF state.todo # {} THEN [state EXCEPT !.pc = "query", !.found = {}]
    ELSE IF state.missed # {} THEN [state EXCEPT !.pc = "count", !.found = {}]
    ELSE Idle

SaveNext(b, g) ==
    /\ bulk[b].pc = "save" /\ g \in bulk[b].chunk
    /\ entry' = Saved(g, g \in bulk[b].found)
    /\ AdvanceBulk(b, AfterSave([bulk[b] EXCEPT
           !.chunk = @ \ {g},
           !.missed = IF bulk[b].backfill /\ g \notin bulk[b].found THEN @ \cup {g} ELSE @]))
    /\ UNCHANGED <<lock, request, task>>

CountMiss(b, g) ==
    /\ bulk[b].pc = "count" /\ g \in bulk[b].missed
    /\ entry' = Counted(g)
    /\ AdvanceBulk(b, IF bulk[b].missed = {g}
                        THEN Idle ELSE [bulk[b] EXCEPT !.missed = @ \ {g}])
    /\ UNCHANGED <<lock, request, task>>

\* an exception, a killed worker: what is written stays, nothing more is counted
BulkDies(b) ==
    /\ bulk[b].pc # "idle"
    /\ AdvanceBulk(b, Idle)
    /\ UNCHANGED <<entry, lock, request, task>>

-----------------------------------------------------------------------------
NameStep ==
    \/ \E g \in Games : EntryAges(g) \/ EntryExpires(g) \/ LockExpires(g)
    \/ \E r \in Requests :
         \/ \E g \in Asked : ReadName(r, g)
         \/ ReadParent(r) \/ ReadInferred(r) \/ ReadCount(r) \/ AcquireLock(r)
         \/ \E t \in Tasks : Publish(r, t)
         \/ RequestDies(r)
    \/ \E t \in Tasks :
         \/ Ask(t) \/ Save(t) \/ Release(t) \/ CountFailure(t)
         \/ \E s \in Tasks : Retry(t, s)
         \/ GiveUp(t) \/ Ack(t) \/ TaskKilled(t)
    \/ \E b \in Bulks :
         \/ BackfillScan(b) \/ BackfillSlugs(b) \/ FillNames(b)
         \/ QueryChunk(b) \/ QueryCleaned(b)
         \/ \E g \in Games : SaveNext(b, g) \/ CountMiss(b, g)
         \/ BulkDies(b)

(* History: what happened to the writers of a game since it last had none *)

\* past the read of the hash and before the write
Writers(g) ==
    {r \in Requests : request[r].pc # "idle" /\ request[r].game = g}
      \cup {t \in Tasks : task[t].pc \in {"queued", "save", "fail", "retry"}
                            /\ task[t].game = g}
      \cup {b \in Bulks : bulk[b].pc # "idle" /\ g \in bulk[b].todo \cup bulk[b].chunk}

\* between the lock and its release
Fetching(g) ==
    {r \in Requests : request[r].pc = "publish" /\ request[r].game = g}
      \cup {t \in Tasks : task[t].pc \notin {"idle", "ack", "raised"} /\ task[t].game = g}

Redelivered(g) ==
    \E t \in Tasks : /\ task[t].pc \notin {"idle", "queued"} /\ task[t].game = g
                     /\ task'[t].pc = "queued"
Expired(g) == g \in lock \ lock' /\ UNCHANGED <<request, task>>

\* A request that died with the lock, or an execution that ended with an exception
LeftBehind(g) ==
    \/ /\ \E r \in Requests : request[r].pc = "publish" /\ request[r].game = g
                                 /\ request'[r].pc = "idle"
       /\ UNCHANGED task
    \/ \E t \in Tasks : /\ task[t].pc \notin {"idle", "raised"} /\ task[t].game = g
                        /\ task'[t].pc = "raised"

Note ==
    /\ mixed' = {g \in Games :
         /\ Writers(g)' # {}
         /\ g \in mixed \/ Redelivered(g) \/ Cardinality(Writers(g)') > 1}
    /\ lapsed' = {g \in Games :
         /\ Fetching(g)' # {}
         /\ g \in lapsed \/ Redelivered(g) \/ Expired(g)}
    /\ leaked' = {g \in Games : g \in lock' /\ (g \in leaked \/ LeftBehind(g))}

NameKoNext == NameStep /\ Note

NameKoSpec == NameKoInit /\ [][NameKoNext]_<<nameVars, nameHistory>>

-----------------------------------------------------------------------------
\* A Korean name, once stored, is replaced by an empty answer only by a command
\* that was told to, or while several writers of the game overlap: every writer
\* starts from a hash without a name, and alone it finds the hash as it left it.
NameIsKept ==
    [][\A g \in Games :
         (entry[g].named /\ ~entry'[g].named /\ entry'[g] # Absent) =>
            \/ g \in mixed
            \/ \E b \in Bulks : bulk[b].pc = "save" /\ ~bulk[b].backfill
                                  /\ g \in bulk[b].chunk]_nameVars

\* The enqueue lock ("중복 Celery 태스크 방지용", wikidata/client.py:18) keeps a game
\* from having two fetches in flight, retries included, unless the lock expires
\* under a fetch or a fetch is delivered twice.
OneFetchPerGame ==
    \A g \in Games : Cardinality(Fetching(g)) > 1 => g \in lapsed

\* A lock is held for a fetch that will release it, unless the request died with it or
\* the fetch ended with an exception: no other way leaves a game locked for an hour.
LockHasFetch ==
    \A g \in lock : Fetching(g) # {} \/ g \in leaked

\* Lock and fetch come and go together, one of each for a game.
LockMeansFetch == OneFetchPerGame /\ LockHasFetch

\* The backfill asks again about a game only a week after the last answer: it
\* overwrites a recent one only if another writer stored it in the meantime.
WaitsAWeek ==
    \A b \in Bulks, g \in Games :
      (/\ bulk[b].pc = "save" /\ bulk[b].backfill /\ entry[g].fetched = "recent"
       /\ SaveNext(b, g)) => g \in mixed
BackfillWaitsAWeek == [][WaitsAWeek]_nameVars

\* A backfill asks about the pending games it has selected, first of all
\* ("pending(미조회) 우선", tasks.py:10; test_pending_ids_are_processed).
PendingAreProcessed ==
    [][\A b \in Bulks, g \in Games :
         (bulk[b].pc = "slugs" /\ BackfillSlugs(b) /\ g \in bulk[b].todo \cap Pending) =>
            bulk'[b].pc = "query" /\ g \in bulk'[b].todo]_nameVars
=============================================================================
