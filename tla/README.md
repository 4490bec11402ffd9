# Gechu backend: TLA+ models and proofs

Gechu recommends games. A Django application (gunicorn, three workers) serves
the API, PostgreSQL keeps the data, Redis is both cache and Celery broker, one
Celery worker container executes tasks and Celery beat fires the periodic ones.
This directory holds the TLA+ modules that model the stateful parts of that
system, the TLC configurations that check them, and the TLAPS proofs.

## 1. The system

| Component | State | Operations | What is hard |
|---|---|---|---|
| recommendation jobs (`recommendations`) | table `recommendation_jobs`, broker queue | list view and admin endpoint create, beat creates, dispatcher claims, worker executes | check-then-create, claim and send are two steps, at-least-once delivery, crashes, retries |
| user recommendations | table `user_recommendations` | generation, upsert, prune, list, status | no transaction around the replacement; overlapping executions |
| game similarity | table `game_similarities` | rebuilt as a whole in one transaction | computed from a log that goes on, read by refreshes at the same time |
| sessions and accounts (`users`) | users, outstanding and blacklisted refresh tokens | login, refresh with rotation, logout, password change and reset, delete, restore, admin status, purge | rotation and revocation are several statements; stale rows |
| e-mail codes | cache keys: code, cooldown, attempts | send, sign up, reset | get-then-set, expiry, attempts |
| adult verification | cache key of the state, verification rows, user flags | initiate, complete, status | external calls between check and write |
| social login | cache key of the state, social users, users | login URL, callback | get-or-create by two keys, nickname retries |
| profile image | S3 object, `profile_img_url` | upload, delete | two stores, no transaction |
| recent searches | one Redis list per user | save, list, delete, clear | pipelined writes |
| preferences and affinity (`preferences`) | preference rows, affinity row, log | replace preferences, like, save | row read before the transaction and saved whole; replacement table by table |
| interaction log (`interactions`) | log rows, weight and context rules | view, search, store click, rule administration | cooldown and repeat count, rules read before the lock |
| Korean names (`games/wikidata`, `games/tasks.py`) | Redis hash and enqueue lock per game | resolve, fetch task, backfill task | swallowed errors, entries without a slug |
| IGDB client and cache (`games/igdb`) | access token, cache of games and list pages | post, paginate, search, detail | token renewal, rate limit, paging through a table that changes |
| catalogue views (`games/views`, `games/services`) | none of their own | list, top, detail, similar games, autocompletion | shared cache entries, a SCAN beside writers, pages that end early |
| converters, error handler, cookies | none | formatting | the age limit decides what is shown; the rest is form |

How they interact: web requests and Celery tasks share the database and Redis
and nothing else. The list view, the admin endpoint and beat insert job rows; the
dispatcher (every 30 s) turns pending rows into broker messages; the worker reads
`interaction_logs`, `game_similarities` and IGDB and writes
`user_recommendations`; the list and status views read jobs and rows. The purge
(daily) deletes users and, by cascade, their jobs, rows, logs and preferences.

What makes each part correct, in a sentence each:

- jobs: a body runs at most once, a running job is carried by a message or a
  worker, one unfinished job per type and target, every refresh finishes, and every rebuild
  that is not passed over for ever;
- user recommendations: a success leaves exactly the lists it computed, and a
  list with rows is never empty in between;
- sessions: a rotated refresh token is spent, sessions end when the account is
  closed or its password changes, a token is exchanged once;
- interactions: two rows that count within a cooldown are one, the decay exponent
  of a row is its place in the series, the affinity row agrees with the log;
- adult verification: one person verifies one account, periods follow each other;
- social login: one provider account opens one account and is linked to it;
- Korean names: one fetch in flight per game, the lock is released, a name stays;
- e-mail codes: at most the allowed attempts per code, a code works once;
- profile image: the row points to an object that exists;
- recent searches: at most the configured number, newest first, no duplicates;
- preferences: what was put last is there, whole, and older rows are gone;
- IGDB client: pages neither skipped nor repeated beyond what the table's changes
  cause, one renewal per expired token, a bounded number of requests;
- catalogue: cached games do not outlive their time, links lose no game, adult games
  are shown to verified adults only, a completion shows the best matches once;
- game similarity: the pairs and ranks of the definition, replaced as a whole.

## 2. The plan

Done, in this order, most important behaviour first: `RecommendationJobs`,
`UserRecommendations`, `RefreshSystem` (the two composed, a refinement of the first),
`AuthSession`, `Interactions` (log, rules and affinity), `AdultVerification` and
`SocialLogin`, `NameKo`; then `EmailCodes`, `ProfileImage`, `RecentSearches`,
`RowReplacement` with its two users `Preferences` and `GameSimilarity`, and the
catalogue: `IgdbClient`, `AgeRatings`, `GameEntries`, `ListPages`, `Autocomplete`.
`Lists` has what several of them do with a list: keep some of its elements. Each
component has a module of proofs, or shares one: `RecommendationProofs` (jobs, rows, their
composition), `AuthSessionProofs`, `AccountsProofs` (social login, codes),
`InteractionsProofs` (log, replaced rows), `UserDataProofs` (verification, images,
searches, completions), `NameKoProofs`, `CatalogueProofs` (client, entries, pages), and
`ListsProofs` for the lemmas about lists the last two and the searches need.

Left, in this order:

1. `EmailCodes` composed with `AuthSession`: the reset's code and the sessions it ends
2. a refinement of `NameKo` and `GameEntries` to one abstract cache with a time to live

## 3. Modules and the code

All modules share a way of modelling. A database row is a record, a table a set or
a function of rows; a web request, a worker or a bulk run is a record with a `pc`
and the locals the code keeps across statements. One statement against
PostgreSQL or one Redis round trip is one step, a `transaction.atomic` block that
locks its rows first is one step, and everything read in one step and used in a
later one is a local, so stale reads are in the model. `PROJECT.json` maps every
definition to its lines.

**RecommendationJobs** (`recommendations/tasks.py`, `services.py`, `views.py`,
`views_admin.py`, `models/recommendation_job.py`). `job` is the table, `queue` the
messages, `worker`, `dispatcher` and `request` the processes. A request checks
for an unfinished job and inserts in a later step; the dispatcher claims rows
under `select_for_update(skip_locked)`, marks them running and sends one message
per row (the rest is never sent if it dies); a worker locks the row, decides whether it may start,
stamps `started_at`, loads the user, executes, and stores success or failure;
retries and redelivery (`CELERY_TASK_ACKS_LATE`) are messages. `FaultKinds` and
`MaxFaults` choose the faults of an instance: a worker that crashes before or in
the body, a lost child process, a redelivered message, a dispatcher or request
that dies, a database error.

**UserRecommendations** is the body of `run_user_refresh_job`: next generation,
candidates, `update_or_create` row by row, prune, once per reason.

**RefreshSystem** composes the two: the body of a worker is an execution of
`UserRecommendations`, a broken body keeps the rows written so far, the purge
cascades to rows and jobs, and the foreign key refuses rows of a purged user. The
variables of the job model are kept as they are, and `hasRecs` becomes the set of users
with rows (`UsersWithRows`), so the composition is claimed to implement the job model as
it stands: a step on the rows is one that changes `hasRecs`, or a stutter.

**AuthSession** (`users/services/auth_service.py`, `user_me_service.py`,
`admin_user_service.py`, `users/tasks.py`, `core/authentication.py`). The account
row, the outstanding and the blacklisted refresh tokens, the clock. Login, refresh
(verify, load, issue, blacklist), logout, deletion, password change and reset (save,
then list the tokens, then blacklist one by one), restore, admin status change, the
daily purge, a request that dies anywhere. `call` has the web requests (`Calls`), and
`CallDies` is such a death. Access tokens are not modelled: they
are never stored.

**Interactions** (`interactions/services/*`, `interactions/views.py`,
`views_admin.py`, `preferences/services.py`, `preferences/signals.py`). A view,
search or store click reads its weight rule, then its context rule, then locks the
user's row, looks for a row within the cooldown, counts the repetitions and
inserts. A reaction reads the affinity row and later saves it whole with its log
rows. An administrator patches a rule by reading and saving a whole row. A weight
that does not fit `numeric(6,4)` is refused by the database. Rates are integers
and the stored weight is kept as its factors.

**AdultVerification** (`users/services/adult_verification_service.py`,
`games/services/game_list.py`, `game_detail.py`). The state in the cache, the
provider's answer (any person), the check whether that person has verified another
account, the flags and the verification row written in one transaction, status,
expiry, deactivation, purge.

**SocialLogin** (`users/services/social_auth_service.py`,
`users/services/auth_service.py` for signup, `users/views/social_auth.py`). OAuth
state, the provider's answer (a uid and one of its addresses), lookup by uid,
lookup by e-mail, linking, creation, session. `Normalized` is what
`UserManager.create_user` does to an address; lookups do not do it.

**EmailCodes** (`users/services/auth_service.py`). Per purpose and address three cache keys: `codeEntry`,
`cooldown` and the failure counter `attempts`, each with its end. Sending reads the
cooldown, sets it, stores the code, deletes the counter and mails (a mail may fail); a
sign-up compares the code, creates the account, then deletes the code and the counter; a
reset reads the counter, compares the code, counts a wrong guess by writing back what it
read and one more, and takes the code away at the limit. A request may die before any of
its commands, or the command may raise (`CodeRequestDies`); what it did so far stays. A
code is the number of its issue, so a code is told from every other one.

**ProfileImage** (`users/services/user_me_service.py`, `users/views/me.py`). An upload
reads the row when the request is authenticated, puts the new object, deletes the old
one and saves the row; a removal deletes and saves. Each call may fail or be the last
of a killed request. Deletion, restoration and purge of the account are beside it.

**RecentSearches** (`users/services/search_recent_service.py` and its call in
`games/services/game_list.py`). One Redis list per user; save is one `MULTI` block of `LREM`, `LPUSH`
and `LTRIM`, so it is one step.

**RowReplacement**, **Preferences** (`preferences/services.py`, `serializers.py`) and
**GameSimilarity** (`recommendations/tasks.py`). `RowReplacement` is a transaction that
deletes the rows of some tables, table after table, and inserts new ones, one
`bulk_create` after the other (an empty one sends no statement), under READ COMMITTED: a delete aims at the committed rows of its beginning and waits for those
another transaction has deleted, an insert waits for a row of the same key and breaks
the unique constraint if that is committed. `Preferences` starts it with the lists of a
request, `GameSimilarity` with the scores of the log, computed the way the code
computes them (users per game, counts per pair, best first) on integers: `Rounded`
is a table of the rounded quotients.

**IgdbClient** (`games/igdb/client.py`). One process walks a table of IGDB: a post, a
401 that renews the token and posts again, a 429 that waits and posts once more, the
loop over pages and the loop over chunks of ids. A page comes in the table's order, the
rows of a chunk of ids in any order. The table is sorted by `updated_at
desc` and changes between requests: an updated or new row moves to the front, a
deleted row leaves.

**AgeRatings** (`_parse_esrb` of `games/igdb/converters.py`, the filter in
`games/services/game_list.py`), **GameEntries** (`games/igdb/cache.py`,
`games/services/game_detail.py`, `similar_game.py`, `preferences/views.py`) and
**ListPages** (`games/services/game_list.py`, `games/views/game_list.py`). An entry per game, shared
by the detail page and by lookups that read games one by one (a list may name a game
twice), ask IGDB for what they miss, store the answers one by one in the order IGDB
returns them, and answer in the order asked; several workers do so while games come and
go and entries expire. A list page is a window into an edition of IGDB's table, cached by
its parameters and filtered for each visitor; a reader follows the next links.

**Lists** is a list without some of its elements: a comprehension with a condition
(`filter_adult_games`, the last line of `get_games_by_ids`), `LREM`, a stable sort by two
priorities. `Kept` is defined by the places of the elements that stay, and not by
recursion, so that lemmas about it can be proved.

**Autocomplete** (`games/views/autocomplete.py`). A SCAN over the hashes of `NameKo`
in batches that may return a key twice, while names are written and expire; then the
sort by priority, the cut and a short cache of the answer.

**NameKo** (`games/wikidata/client.py`, `resolvers.py`, `games/tasks.py`,
`fill_name_ko.py`). `entry` is the hash of each game without its texts, `lock` the
keys that exist. A request reads the hash, the parent's, the inferred parent's, the
failure count, takes the lock and publishes; a task asks Wikidata, saves, releases,
or counts a failure and publishes its retry. An error of Redis or of the broker, or the
end of the retries, ends it with an exception that leaves the lock (`GiveUp`). A backfill
scans up to twice its batch of pending and due games together, so that one kind can crowd
out the other, reads slugs, asks chunk by chunk (twice, the second time by cleaned slug), saves game by game and
counts the misses at the end. `failed_count` is kept up to `MaxFailed`: the code
only compares it with that. An hour, a week and thirty days are steps that may
come at any time, so the model allows any relation between them and the work.

### History variables

`executions` (jobs), `disturbed` (sessions), `contended` (affinity), `overlapped`
(adult verification, codes), `entered`, `killed` and the field `origin` (social login),
`mixed`, `lapsed`, `leaked` (names), `spent`, `wrong`, `cut` (codes),
`unsettled`, `halfDone` (images), `used`, `removed` (searches), `last` and the field
`beside` (replacements), `atStart`, `touched`, `moves`, `deletions` (client), `steady`
(entries, completion) record what happened; no guard reads them. Where the
code has a race, the property of the passing run is stated for behaviours without
it, with the exception written out by such a variable, and the race itself is a
finding or is described in section 5. Those of `NameKo` are cleared once the writers involved
are gone; the others are kept, because what they excuse leaves its trace in a table.

## 4. What the runs check

Seven runs pass; each explores its instances completely in at most about three and a
half minutes with two TLC workers. Each also checks the type invariant of its modules, except
`jobs_liveness`, whose model `jobs_faults` explores with it, and the runs that end in a
counterexample, which check one property each.
Where a claim has several halves, the run checks their conjunction, given first in
the table; each half has a name of its own in the module.

| Run | Instance | What it shows |
|---|---|---|
| `jobs_faults` | 1 job, 2 workers, 2 dispatchers, 1 request, any 2 faults of six kinds, 1 retry | `OneExecution`: no body starts twice (`ExecutedAtMostOnce`), `started_at` records exactly that (`StampRecordsExecution`), a body is alone on its row, which says running (`ExecutionOwnsRow`), no row moves back and no retry revives a failed one (`StatusMovesForward`) |
| `jobs_liveness` | 2 jobs, 1 worker, 1 dispatcher, 1 request, 1 redelivery or dying request, fair | a running job has a message or a worker (`RunningIsCarried`), one unfinished job per type and target while requests do not overlap (`OneActiveJob`), every user refresh finishes, and a rebuild does if the refreshes leave room in a run again and again (`JobsFinish`), the status endpoint stops saying running (`RunningStatusEnds`) |
| `system_refines` | 2 jobs of 1 user, 1 worker, candidate lists of 0, 1 and 2 games, a crash or a database error, the purge | the composition implements `RecommendationJobs` (`ImplementsJobs`), a success leaves exactly its lists (`SuccessMeansReplaced`), a list becomes empty only when nothing was found (`ListEmptiedOnlyByEmptyResult`) |
| | 1 account, 2 overlapping and killable requests, 3 tokens (2 after an overlap or a kill), 2 passwords, clock 0..2 | `RotationIsExchange`: a rotated token is spent (`RotationSpendsParent`) and, without overlaps and kills, exchanged once (`ExchangedOnce`); usable tokens then belong to the present account state (`UndisturbedSessionsFollow`); an active account is not marked deleted (`ActiveIsNotDeleted`), unless requests overlapped or died |
| `interactions` | 1 user, 1 game, 2 requests, 4 events, 2 reactions, rule and context changes, 3 log rows, clock 0..2 | cooldown (`SpacedByCooldown`), decay exponent (`RepeatIsPlaceInSeries`), affinity against log (`AffinityFollowsLog`) |
| | 2 requests, 2 of the three kinds of preference, 5 bodies, 5 transaction numbers | `ReplacementIsWhole`: the last replacement is whole (`LastIsWhole`), older rows than concurrent ones never stay (`LeftoversAreConcurrent`) |
| | 2 users, 3 games, 1 similar game kept, any log and one more row | the rows are the cosine of the sets of users, best first (`SimilarityIsCosine`) |
| `adult` | 2 users, 2 people, 3 states, 2 callbacks, validity 1, clock 0..2 | one person, one account (`PersonVerifiesOneUser`); `LastPeriodCounts`: periods follow each other (`PeriodsAreConsecutive`), the flag's expiry is the latest row's (`ExpiryIsLatest`), each unless callbacks overlapped |
| | 1 user, 3 requests, 3 objects, every call may fail | `ImagesAgree`: a row names a missing object only half way (`MissingOnlyHalfDone`); serial requests keep row and bucket together (`SerialImagesMatch`) |
| | 1 user, 4 keywords, 2 kept | the list is the latest uses that were not deleted (`RecentIsLatest`) |
| | 3 games, 3 batches of 2 keys, 2 shown, 1 change of a name | `CompletionIsBest`: no game twice, best first (`NoGameTwice`), and no match left out without need (`BestAreShown`) |
| `social_login` | 2 accounts, 3 addresses (one not in normal form), 3 uids of 2 providers, 2 states, 2 requests | `UidHasItsAccount`: one uid opens one account (`OneAccountPerUid`), an account created for a uid is linked to it (`CreatedIsLinked`) |
| | 1 address, 2 clients, 3 codes, 2 attempts, code and counter last 2, cooldown 1, clock 0..2, requests that die anywhere | a spent code is gone (`SpentCodeIsGone`); `SerialCodesWork`: the counter is exact and the last mail works when requests do not overlap, up to what a dead request left undone (`SerialCounterIsExact`, `LatestMailWorks`); `ParallelLimits`: how far two clients get past the limits (`ParallelGuessesBounded`, `IssuedPerCooldown`) |
| `name_ko` | 1 game, 1 request at a time, 2 messages, 1 retry, 1 backfill or command, all expiries, errors and kills | `LockMeansFetch`: one fetch in flight (`OneFetchPerGame`), no lock without a fetch (`LockHasFetch`); a stored name stays (`NameIsKept`); a backfill waits a week (`BackfillWaitsAWeek`) |
| | a table of 3 or 4 rows, pages of 2, 2 pages, 2 changes, 3 tokens, lookups of 2 to 4 ids | `WalkFollowsTable`: a walk skips only what a deletion pulled forward (`UntouchedNotSkipped`), repeats only what moved (`RepeatsBounded`); it costs a bounded number of requests (`RequestBudget`) |
| | 3 games, 2 workers, detail of one and a lookup of two, one of them named twice, entries that live 1, clock to 4 | `AnswersAreCurrent`: no answer is older than an entry's life and two requests (`NothingOutlivesItsTTL`), lookups are complete and in order (`LookupIsComplete`) |
| | 3 games (1 for adults), 2 editions, pages of 1, 2 workers, a reader | `LinksLoseNothing`: a reader who follows the links through one edition sees no game twice; a verified adult sees all of them in order, another visitor what comes before the first adult game, where the list may end |

Five of the runs hold several models that share no state: a variable `part`, chosen
at the beginning, says which of them moves. Every state a model has in the product it
has in its part, and the other models stay in one initial state. Two parts are smaller
than their model: in `interactions` searches, which count for no series but their own,
come apart from views and store clicks, and in `social_login` the codes of the two
purposes, which meet only in the account a sign-up makes, come apart. Two bounds apply to the codes (`WithinBounds`): a code sees at most `MaxWrong` guesses, one
more than the claim allows, since a request that dies before it counts can be repeated for
ever; and deaths about a stored code come in behaviours where the requests of its address
do not overlap. Overlapping requests that die there are covered by the theorems of
section 6. Typed codes are the last one issued and one that was never mailed: any other is
as wrong as that. In `system_refines` there is no third token once requests overlapped or
died (`NoThirdToken`); `RotationIsSafe` is proved for any number.

Why the bounds are enough: two of every kind of actor show every race between
two statements of two handlers, which is all these handlers have (none waits for
a third); one request at a time asks for a name, beside the fetch an earlier one
enqueued, a retry of it and a backfill, and `LocksAreFetches` is proved for any number of
requests (section 6); two faults allow a fault during the recovery from another; two jobs,
two users or two people are the least for which a uniqueness property can fail, and two
jobs let a rebuild wait for a refresh (it takes endless jobs to pass it over for ever, so
`JobsFinish` has that case as a condition); three log rows give a row, a repetition and a repetition beyond the cap of one;
clock 0..2 has a time before, at and after each limit. `RotationSpendsParent`
uses three tokens: parent, child and a login beside them. Three codes give a code, its
replacement and one more while an old request still holds the first; two attempts give
a wrong guess before the limit and one at it. Three objects give two uploads that
overlap and a later one. Five transaction numbers are more than two writers, the last
transaction and its leftovers can use at a time, so a number is given again only when
no row has it. The rebuild of similarities runs one at a time from any log: how two
replacements interleave is explored by the part of `Preferences`. A table of four rows
and pages of two give a full last page, a short one and one beyond `MaxPages`; two
changes suffice for a row to jump over a page boundary and another to be pulled back.
`Slow` bounds the duration of a request: gunicorn kills a worker that is silent for 30
seconds (its default, which the compose file leaves alone), an entry lives an hour. In `name_ko` games do not
interact except through the parent's name, so one game, which is its own base game
when the search finds the edition itself, is a whole system; chunks of several
games and the second query by cleaned slug are in the model, only the former
is not reached by this instance. Symmetry permutes only actors and model values
that no configuration names, and only in runs without liveness properties.

Deadlock is checked everywhere except in `adult`, `adult_expired` and
`social_login`, where the bounds on the clock, on codes and on objects, the one-time
states and the purge leave nothing to do.

Five runs end in a counterexample, each to what a document or test of the
repository says:

- `jobs_stuck` (`NotReadyIsQueued`): a worker dies in a body; the redelivered
  message finds `running` with `started_at` set and leaves. Nothing looks at the row
  again, and every later request of that user is told that a job is under way, while
  `recommendations/views.py:31` says a refresh is queued when the list is not ready.
- `system_overlap` (`SucceededHasRows`): two requests both find no unfinished job and
  both insert; the two executions take the same or neighbouring generations and
  prune each other. Both jobs succeed and no row is left, although
  `test_run_user_refresh_job_success` expects rows after a success.
- `session_race` (`PasswordEndsOlderSessions`): a login has checked the old password
  and issues its token after a password reset listed the tokens to blacklist; a refresh
  can do the same. The session survives the reset, against `test_password_reset.py:165`.
- `backfill_pending` (`PendingAreProcessed`): a failed fetch leaves a hash with nothing
  but a failure count. The backfill selects it as pending, finds no slug and drops it,
  against `games/tasks.py:10` ("pending first") and `test_pending_ids_are_processed`,
  which writes a slug itself that no code of the program writes without an answer.
- `adult_expired` (`AdultGamesNeedVerification`): nothing clears
  `is_adult_verified`. After the expiry the status endpoint says unverified and the
  catalogue still shows adult games, against the docstring at `game_list.py:25`.

### Fairness

Only `FairSpec` of the jobs has fairness: weak fairness of the dispatcher's step,
since beat sends the dispatcher task every 30 seconds, and of the worker's step,
since the worker process takes messages as long as it lives. Requests, faults and the
purge have none: nobody must send a request. Everything else is safety.

### Assumptions about the environment

PostgreSQL runs at READ COMMITTED with autocommit; a row lock taken by
`select_for_update` makes the rest of its transaction one step with respect to others
that lock the row; an insert that references a row waits for a lock on it and fails
if the row is gone. Redis commands are atomic and `MULTI` pipelines are one step.
Celery acknowledges after the task (`CELERY_TASK_ACKS_LATE`), delivers again what a
killed worker held, and `Task.retry(exc=...)` raises `exc` when retries are used up.
simplejwt 5.5 blacklists a rotated token before it issues the next.

## 5. Behaviour worth knowing that no run states

These are in the models and can be produced by them; the properties of section 4
exclude or allow them explicitly.

- The dispatcher claims user refreshes first, up to its limit: as long as they fill every
  run, a similarity rebuild waits. The second half of `JobsFinish` has the condition.
- A password reset or change that dies between the save of the password and the last
  `get_or_create` of a blacklist row leaves older sessions alive (`disturbed`).
- A status change by an administrator that overlaps a deletion leaves an active account
  with a deletion date, and two refreshes with one token that overlap both issue a session
  (`disturbed`).
- The purge selects the accounts past their retention and deletes them in a later
  statement: an account restored in between is deleted all the same.
- Admin status changes and weight rules are read, then saved whole; the later of two
  overlapping changes silently undoes the earlier. So do two reactions to one game
  (`contended`).
- A weight that does not fit the column fails the request with the whole transaction
  (`InsertRefused`). A reaction of `neutral` is logged with a type outside
  `ActionType`.
- The OAuth state is read, then deleted: two callbacks with one state both go on.
- `create_user` lowers the case of an address' domain and no lookup does: such an
  address is never found, its creation is refused, and the request ends in an error
  instead of a login.
- A uid that gives two addresses in two overlapping first logins leaves an account
  without link. A user already linked to another uid of the provider keeps that link.
- A Wikidata outage is stored as "not found": `sparql_query` swallows it, so the
  retries of `fetch_name_ko_task` (`games/tasks.py:6`) only follow an answer of an
  unexpected shape, and the backfill counts a failure for every game of the chunk.
- When the retries are used up the lock is not released, against `games/tasks.py:38`:
  with `exc` given Celery raises that exception and not `MaxRetriesExceededError`. Nor is
  it when Redis refuses the count of the failure or the release, or the broker the retry
  (action `GiveUp`, history `leaked`).
- A game that Wikidata does not know is fetched again by every request that shows it
  once the previous fetch is over: only the backfill and failed fetches count
  failures.
- Hashes without an answer have no slug, so the first half of the backfill ("pending
  first") and `fill_name_ko` without options never find anything (run
  `backfill_pending`).
- Two editions whose slugs become the same without their suffix share one key in the
  second query: one of them is stored as not found. An exception in a later chunk
  loses the misses of the earlier ones.
- `resolvers.py:11` says no request calls an external service; the inference of a
  parent game calls IGDB, and remembers a failure for the life of the process.
- Two clients that guess at one reset code in parallel write the same count back, or an
  old one: up to `MaxAttempts * (MaxAttempts + 3) / 2` wrong guesses reach one code, 20
  for the five of the settings (`ParallelGuessesBounded`; the bound is reached). Wrong
  codes at a sign-up are not counted at all. A late failure may take away a newer code.
- A request that dies between two commands about a code leaves them apart (`cut`): a new
  code that starts with the failures of the one before it, possibly at the limit; a code
  that was never mailed; a wrong guess that is not counted; a code that has seen its last
  guess and stays stored until it expires, while the counter refuses every attempt.
- A code whose mail could not be sent keeps its cooldown: the user waits for a mail that
  does not come.
- A failed save of an uploaded image leaves a row that names a deleted object, and the
  new object stays without a row (`halfDone`). The image of a purged account stays in the
  bucket for good, and its list of recent searches in Redis.
- Two simultaneous replacements of the preferences leave the union of both, or fail at
  the unique constraint, where the docstring says "replace"; a repeated id passes the
  serializer and fails the request.
- `igdb:game:{id}` is one key for two shapes: the detail page stores and expects media,
  links and storyline, the lookups of several games store the entry without them, so a
  detail page after a lookup has no media for up to an hour. The fallback to a "stale"
  entry reads the key that has just missed: it finds only what another request stored
  since.
- The links of the game list end, for visitors who are not verified, at the first page
  whose window has an adult game: `has_next` counts the filtered results. Similar games,
  saved games and affinities are not filtered. `_parse_esrb` takes the first ESRB rating
  it knows, in IGDB's order.
- A search with a text ignores the filter and the order it is given; no code
  outside the tests calls the `iter_*` methods.
- Autocompletion by English names finds nothing: it scans for `igdb:game:*`, while
  django-redis writes `:1:igdb:game:*` and pickles (`autocomplete.py:7` describes it as
  working).

## 6. What is proved

TLAPS proves the following for every value of the constants: every number of users,
requests, workers, messages, codes, files, games, rows and pages, and all faults. Assumed
are only the named assumptions on constants, which TLC evaluates in the runs: limits are
natural numbers, `No...` values are not members of the sets they are added to, the sets of
inputs contain well-formed inputs (a query, an edition of IGDB's table or a list of
kinds names nothing twice; ids are numbers), the games that have a record or a
similarity, the users whose meetings are counted and the clients of a code are finitely
many, and a failure counter lasts at least as long as a code (`CodeTTL <= BlockTTL`, five
and twenty minutes in the source).
Five theorems have a hypothesis of their own, which the code does not enforce and the
findings of section 4 are about:

- `OneRequest` (in `OneActiveWhenSerial`, `SuccessReplaces`, `ListsStayUp`): at most one
  request is between the check for an unfinished job and its insert. Without it
  `system_overlap` shows what happens. Deliveries, faults, dispatchers and workers are
  not restricted. It is a hypothesis about behaviours (`[]OneRequest`), which the runs
  `jobs_liveness` and `system_refines` meet with one request.
- `RepeatFaults` (in `ClaimedIsCarried`, `NotReadyIsBacked`): messages may come twice and
  requests may die, but no process that has claimed a job dies. Without it `jobs_stuck`
  shows what happens.

`OpinionsAreCosines` has one that the code does meet: the tables of the preferences are not
that of the similarities.

| Module | Theorems |
|---|---|
| `RecommendationProofs` | of the jobs `TypeCorrect`, `AtMostOnce`, `StampIsExecution`, `BodyOwnsRow`, of these three `ExecutionIsSingle`; `ForwardOnly`, `ClaimedIsCarried`, `NotReadyIsBacked`, `OneActiveWhenSerial`; of the composition `SystemTypes`, `SystemImplementsJobs` and with it `SystemExecutesOnce`; `SuccessReplaces`, `ListsStayUp` |
| `AuthSessionProofs` | `SessionTypes`, `UndisturbedFollow`, `ActiveAreNotDeleted`; `RotationIsSafe`, `ExchangesAreSingle`, of these two `RotationExchanges` |
| `InteractionsProofs` | `InteractionTypes`, `CooldownIsKept`, `RepeatsAreCounted`, `AffinityIsLogged`; `PreferencesAreWhole`, `PreferencesTypes`, `SimilaritiesAreWhole`, `SimilaritiesAreCosines`; of log and rows together `OpinionsHaveInteractions`, `OpinionsAreWhole`, `OpinionsTypes`, `OpinionsAreCosines` |
| `UserDataProofs` | `AdultTypes`, `OnePersonOneUser`, `PeriodsFollow`, `ExpiryFollowsRows`, of these two `ColumnsSayLastPeriod`; `ProfileImageTypesAreInvariant`, `MissingIsHalfDone`, `SerialRequestsMatch`, of these two `RowsAndBucketAgree`; `ListIsLatest`; `AnswersRankMatches`, `AutocompleteTypes`; of all four together `UserDataParts`, `UserDataTypes` |
| `AccountsProofs` | `SocialTypes`, `OneAccount`, `CreatedAreLinked`, of these two `UidsHaveTheirAccounts`; `EmailCodesTypesAreInvariant`, `SpentCodesStayGone`, `CounterIsExactSerially`, `LatestMailWorksSerially`, of these two `CodesWorkSerially`; for overlapping requests `CodesAreSpaced`, `ParallelGuessesAreFew`, of these two `ParallelLimitsHold`; of social login and codes together `AccountsParts`, `AccountsTypes` |
| `NameKoProofs` | `NameTypes`, `LocksHaveFetches`, `FetchesAreSingle`, of these two `LocksAreFetches`; the action properties `NamesStay`, `BackfillWaits` |
| `CatalogueProofs` | `ClientTypes`, `RequestsAreBounded`, `WalksFollow`; `GameEntriesTypes`, `EntriesAnswerWell`; `ListPagesTypes`, `PagesLoseNothing`; of these and the names together `CatalogueParts`, `CatalogueTypes` |

`UserDataParts`, `CatalogueParts`, `AccountsParts` and `OpinionsHaveInteractions` say that
a behaviour of the parts a run explores together is a behaviour of each part, so that what
is proved of a part holds in the run.

Each theorem rests on an inductive invariant, proved action by action.

- `JobsInv`: keys of the table are below the next key (`KeysFresh`), and the three
  properties support each other. A body that has started left `started_at` set
  (`StampRecordsExecution`), a worker in the body owns a running row
  (`ExecutionOwnsRow`) and was counted once (`ExecutingIsCounted`), so a second
  message for the row, whatever its origin, finds a stamp and may not start.
  `ForwardOnly` is an action property proved from the same invariant.
- `CarriedInv`: as long as nobody who has claimed a job dies, a running row has a task id
  (`RunningHasTask`), so a worker that leaves it has found it final or started, and a
  dispatcher begins with empty lists (`DispatcherLists`), so no claim is overwritten.
- `OneActiveInv`: the list view looks at the latest job only, so what has to be kept is
  that only the latest job of a type and target is unfinished (`ActiveIsLatest`), and
  that a request about to insert still finds none (`CreateIsFree`).
- `RefreshInv` of the composition: an execution belongs to the job its worker holds as
  long as the user exists (`RunsFollowJobs`), `hasRecs` is who has rows, and keys are
  unique (`RowsSound`), which needs that the next generation is above all those of the
  user (`NextGenerationIsNew`). Every step is then a step of the job model or a stutter.
  `RunProgress` adds what an execution has written, row by row: rows of its generation
  are exactly the candidates before `next`, and a finished list has no other rows. It is
  kept because a user with one unfinished job has one execution (`OneRunPerUser`).
- `AuthInv`: the property alone is not inductive, because issuing and blacklisting
  are two statements: `RefreshHasSpent` says that a request about to issue a child
  has already blacklisted the parent, `TokensExist` that tokens in hand are in the table.
- `UndisturbedInv`: an undisturbed user has one request at a time (`OneAtATime`, which
  the history variable makes inductive), what that request has read is still so
  (`Sees`), and a session that does not fit the account is about to be blacklisted by
  it (`Pending`). Steps of the user's request are treated one by one, those of anybody
  else, the purge and the clock by one lemma (`UntouchedUser`).
- `ExchangeInv`: the token a request holds is its user's and has no successor yet
  (`Unexchanged`): at the check because a token with a successor is blacklisted
  (`RotationSpendsParent`), later because nobody else works for that user.
- `Inv` of `Interactions`: the log lies in the past (`LogIsPast`), a request that
  has passed the cooldown check holds the user's lock (`LockIsExclusive`) and its row
  is still due (`InsertIsDue`), which no other request can disturb while the lock is held.
- `PlaceInv`: the count a request took under the lock still is the number of rows of
  its series (`PlaceIsHeld`), since only other users' rows and reactions, which count for
  no series, come in between. `FollowInv` carries the position of the last row about a
  pair, so that nothing about maxima is needed but at the very end (`LastIsLast`).
- `AdultInv`: the check and the write of a callback are two steps with a call to the
  provider between them; what was checked still holds at the write
  (`CheckedPersonHolds`, `CheckedUserHolds`) unless another callback worked on the same
  user or person, which `OverlapIsNoted` says is recorded. No row outlives the expiry
  of its user (`RowsEndBy`), and where the flag is set one lasts as long (`FlagHasRow`).
- `SocialInv`: every session opened by a uid has the link that explains it
  (`EntryHasLink`), links and sessions name users that exist (`UsersExist`).
  `CreatedInv` adds that a callback about to link has an account created for
  its own uid (`AttachIsOrigin`).
- `CodesInv` of `EmailCodes`: the stored code of a key is the last one issued, spent
  codes were issued and are not the stored one (`KeySound`), and what a request in the
  middle of its steps holds was issued before (`Sound`). `SerialInv` describes the one
  request of an undisturbed key: what it read is what is stored (`Serves`), and counter
  and mail agree with the code (`Calm`) except in the middle of its steps, and but for
  what `cut` says a dead request left undone.
- `CooldownInv` of `EmailCodes`, for requests that overlap: the codes issued for a key, and
  those about to be stored, are as many as the moments at which some client passed the
  cooldown (`SetFor`). A client passes it once per cooldown, so that the client and the
  quotient of the moment by `CooldownTTL` tell those moments apart (`SpacedAreFew`).
- `GuessInv` counts the wrong guesses of one code when two clients overlap. A guess is
  written back as one more than the count that was read: two that read the same count
  write one, and one that waited writes an old count over newer ones. Twice the guesses
  made, and what two clients still can make (`Room`), stay within `Limit`, `M * (M + 3)`.
  `Room` depends on the lowest count from which each client still guesses (`Level`): the
  lower one can take the other back once per guess (`LeftAt`, `Rest`). A guess made and not
  yet written back is owed (`Owed`), and who is about to delete the counter lets both start
  again (`Resets`), which is only after a code was replaced or spent. A counter left from
  an earlier code expires before this one and shows nothing (`Shown`). That there are at
  most two clients is part of the property.
- `ImageInv`: objects belong to the user whose request put them (`Owned`) and an object
  put but not yet in a row is new to all (`NewIsUnknown`), so no request deletes what
  another one has stored. Its `SerialInv` follows the one request of an undisturbed user
  through its calls.
- `NameInv` has `FetchInv` for every game: the requests about to publish its fetch
  (`Starting`) and the tasks that carry one (`Running`) are at most one altogether
  (`Alone`) and have the lock, unless the history variables say that the lock expired
  or the message was delivered twice; and a lock without any of them was left behind.
- `KeepInv` of `NameKo`: while the writers of a game do not mix there is one at most, and
  the hash still is as it found it (`WriteInv`): without a name unless the writer is the
  command, and not answered within the week if it is the backfill. Answers set name and
  slug together (`HashInv`).
- `ReplaceInv` of `RowReplacement`: a transaction has inserted what it wants or is still to
  (`InsertsWanted`); a row it has not deleted is in a table it will come to, or belongs to
  a transaction under way beside it (`DeletesAll`); and any two under way know of each
  other (`KnowsOthers`). So at the commit nothing older is left. `KeyInv` has the unique
  constraints, of rows committed and rows that may be.
- `CosineInv` of `GameSimilarity`: what a rebuild under way or committed wants are the
  nearest games of the log it read (`Nearest`), settled as it begins (`WantedIsSettled`).
  `UsersAreCounted` and `CommonUsersAreCounted` say that the loops over users count sets of
  users; `PairScoresAreCosines` that the table before the cut is the cosine of every pair of
  games with a common user, both ways; `TopsAreNearest` that the cut keeps the best of them.
- `BudgetInv` of `IgdbClient` counts the requests for the page in hand by where the
  client is (`SentBound`), and says that an iteration has received as many rows as its
  offset. `FollowInv` names the rows a walk has passed without receiving them (`Missed`) and
  those it will meet again (`Again`): a deletion adds at most one to the first, a move at
  most one to the second, a page none to either.
- `RecentInv`: the list follows the history of searches in its order (`Follows`), and a
  keyword that is neither listed nor deleted is beyond `HistorySize` there: a search
  pushes every other one back by one at most, which is when the list is cut.
- `CompleteInv`: a game that has fitted in the same way since the scan began has yet to be
  returned or is among the matches with its priority (`ScanSound`). The answer is then a
  matter of lists: a stable sort by priority, distinct places, and a cut keep order and
  completeness (`AnswerIsBest`).
- `GameInv`: an entry was stored by a request that had asked IGDB at most `Slow` before
  (`EntriesAreFresh`), and a lookup has a game in hand, or has it still to look for, to
  fetch or to store, or IGDB did not have it all the while (`LooksUp`).
- `ListPagesInv`: at most one request is the reader's, for the page he has come to, and
  what he has seen, if it is of one edition, is its part before that page, without adult
  games if he may not see them (`BeforePage`). `PageIsRead` and `LastPageIsRead` are the
  two steps of a reader: a full page makes that part longer, the last one ends it.
- Lists: what `Kept` leaves is an increasing choice of places (`KeptMap`), complete for the
  elements that stay. Filters, `LREM`, sorts and answers in the order asked all rest on it.

Only model-checked are the two liveness properties (`JobsFinish`, `RunningStatusEnds`):
liveness under fairness, and anything that needs `ENABLED`, is out of reach of the prover.
Induction over data is out of reach as a rule applied to a formula; where a fold over the
users had to be known for every log (`StepsCount`), the proof takes a smallest set that is
counted wrong, by the well-foundedness of inclusion among finite sets, and finds a smaller
one. No module declares a recursive operator.

## 7. What is not modelled

- Most of the IGDB converters and the response builder: they rename and format fields
  without state. The age limit (`AgeRatings`) and the Korean name (`NameKo`) are modelled,
  since they decide what is shown.
- Genres, platforms, tags and screenshots views: queries of lookup tables. The cached map
  of genre names has no caller.
- Error bodies, cookies and CSRF, pagination of lists, URL tables, settings and
  deployment: form and configuration. Settings that decide behaviour (late
  acknowledgement, the beat schedule, token lifetimes) are constants or assumptions of the
  modules they concern.
- Scores and the candidate queries of a recommendation, which are inputs
  (`CandidateLists`). The rating a recommended game is shown with comes from the entry
  (`GameEntries`).
- Nickname choice, which never fails; the text of Korean names, edition suffixes and
  first consonants; the checks of an image's format and size, which refuse a request
  before it changes anything.
- Access tokens, which are never stored and last minutes.
- Reads that come between two others and change nothing: a pipeline of Redis reads in
  the autocompletion is one step.
- Behaviour that is in the models and that no property names or excludes: the OAuth state
  used twice, two patches of one weight rule, the purge of an account restored after the
  selection, a social login that ends in an error for an address with capitals in its
  domain (section 5).
- Dispatches of a job whose user was purged after the claim are in `RefreshSystem`, but its
  run has one dispatcher and two jobs only.
