----------------------------- MODULE NameKoProofs -----------------------------
(***************************************************************************)
(* Proofs about NameKo, for any number of games, requests and fetches: its *)
(* types, that a lock is held for a fetch unless one was left behind, that *)
(* the lock keeps a game from having two fetches in flight, and what a     *)
(* name, once stored, has to fear from other writers.                      *)
(***************************************************************************)
EXTENDS NameKo, FiniteSetTheorems, TLAPS

LEMMA FailedStaysBounded ==
    ASSUME NEW n \in 0..MaxFailed
    PROVE  Min({n + 1, MaxFailed}) \in 0..MaxFailed
  <1> DEFINE m == IF n + 1 <= MaxFailed THEN n + 1 ELSE MaxFailed
  <1>1. m \in {n + 1, MaxFailed} /\ m \in 0..MaxFailed /\ \A y \in {n + 1, MaxFailed} : m <= y
    BY NameKoAssumption
  <1>2. \A x \in {n + 1, MaxFailed} : (\A y \in {n + 1, MaxFailed} : x <= y) => x = m
    BY NameKoAssumption
  <1> HIDE DEF m
  <1>3. Min({n + 1, MaxFailed}) = m
    BY <1>1, <1>2 DEF Min
  <1>4. QED BY <1>1, <1>3

LEMMA CountedTypes ==
    ASSUME NameKoTypeOK, NEW g \in Games
    PROVE  Counted(g) \in [Games -> Entry]
  <1>1. entry[g] \in Entry /\ entry[g].failed \in 0..MaxFailed
    BY DEF NameKoTypeOK, Entry
  <1> DEFINE n == Min({entry[g].failed + 1, MaxFailed})
  <1>2. n \in 0..MaxFailed
    BY <1>1, FailedStaysBounded
  <1> HIDE DEF n
  <1>3. [entry[g] EXCEPT !.failed = n] \in Entry
    BY <1>1, <1>2 DEF Entry
  <1>4. Counted(g) = [entry EXCEPT ![g] = [entry[g] EXCEPT !.failed = n]]
    BY DEF Counted, n
  <1>5. QED BY <1>3, <1>4 DEF NameKoTypeOK

LEMMA SavedTypes ==
    ASSUME NameKoTypeOK, NEW g \in Games, NEW found \in BOOLEAN
    PROVE  Saved(g, found) \in [Games -> Entry]
  <1>1. entry[g] \in Entry
    BY DEF NameKoTypeOK
  <1> DEFINE ent == [entry[g] EXCEPT !.named = found, !.slug = TRUE, !.fetched = "recent"]
  <1>2. ent \in Entry
    BY <1>1 DEF Entry, Ages
  <1>3. Saved(g, found) = [entry EXCEPT ![g] = ent]
    BY DEF Saved, NameKoTypeOK
  <1>4. QED BY <1>2, <1>3 DEF NameKoTypeOK

\* what an answer is
LEMMA AnswersAreBoolean ==
    ASSUME NEW p \in BOOLEAN, NEW found \in {FALSE, p}
    PROVE  found \in BOOLEAN
  OBVIOUS
LEMMA MembershipIsBoolean ==
    ASSUME NEW x, NEW S
    PROVE  (x \in S) \in BOOLEAN
  <1>1. CASE x \in S
    BY <1>1
  <1>2. CASE x \notin S
    BY <1>2
  <1>3. QED BY <1>1, <1>2

LEMMA StateTypes ==
    ASSUME NameKoTypeOK
    PROVE  /\ \A r \in Requests : request[r].pc # "idle" =>
                 /\ request[r] \in RequestState \ {Idle} /\ request[r].game \in Asked
           /\ \A t \in Tasks : task[t].pc # "idle" =>
                 /\ task[t] \in TaskState \ {Idle} /\ task[t].game \in Asked
                 /\ task[t].retries \in 0..MaxRetries
           /\ \A b \in Bulks : bulk[b].pc # "idle" =>
                 /\ bulk[b] \in BulkState \ {Idle}
                 /\ bulk[b].todo \subseteq Games /\ bulk[b].chunk \subseteq Games
                 /\ bulk[b].found \subseteq Games /\ bulk[b].missed \subseteq Games
           /\ Idle.pc = "idle" /\ Asked \subseteq Games
  BY NameKoAssumption DEF NameKoTypeOK, RequestState, TaskState, BulkState, Idle

LEMMA NamesHoldInitially == NameKoInit => NameKoTypeOK
  BY NameKoAssumption
     DEF NameKoInit, NameKoTypeOK, Entry, Ages, Absent, RequestState, TaskState, BulkState

\* the steps of the hash and of the lock by themselves
LEMMA AgeingTypes ==
    ASSUME NameKoTypeOK, NEW g \in Games, EntryAges(g) \/ EntryExpires(g) \/ LockExpires(g)
    PROVE  /\ entry' \in [Games -> Entry] /\ lock' \subseteq Asked
           /\ UNCHANGED <<request, task, bulk>>
  <1>1. entry[g] \in Entry /\ Absent \in Entry
    BY NameKoAssumption DEF NameKoTypeOK, Absent, Entry, Ages
  <1>2. [entry[g] EXCEPT !.fetched = "old"] \in Entry
    BY <1>1 DEF Entry, Ages
  <1>3. QED BY <1>1, <1>2 DEF EntryAges, EntryExpires, LockExpires, NameKoTypeOK

\* a request
LEMMA RequestTypes ==
    ASSUME NameKoTypeOK, NEW r \in Requests,
           \/ \E g \in Asked : ReadName(r, g)
           \/ ReadParent(r) \/ ReadInferred(r) \/ ReadCount(r) \/ AcquireLock(r)
           \/ RequestDies(r)
    PROVE  /\ request' \in [Requests -> RequestState] /\ lock' \subseteq Asked
           /\ UNCHANGED <<entry, task, bulk>>
  <1>1. \A pc \in {"parent", "infer", "count", "lock", "publish"} :
          request[r].pc # "idle" => [request[r] EXCEPT !.pc = pc] \in RequestState
    BY StateTypes DEF RequestState
  <1>2. /\ Idle \in RequestState
        /\ \A g \in Asked : [pc |-> "parent", game |-> g] \in RequestState
    BY DEF RequestState
  <1>3. \A state \in RequestState : Become(r, state) => request' \in [Requests -> RequestState]
    BY DEF Become, NameKoTypeOK
  <1>4. \A g \in Asked : ReadName(r, g) => request' \in [Requests -> RequestState]
    BY <1>2, <1>3 DEF ReadName
  <1>5. ReadParent(r) \/ ReadInferred(r) => request' \in [Requests -> RequestState]
    BY <1>1, <1>2, <1>3 DEF ReadParent, ReadInferred
  <1>6. ReadCount(r) \/ AcquireLock(r) => request' \in [Requests -> RequestState]
    BY <1>1, <1>2, <1>3 DEF ReadCount, AcquireLock
  <1>7. RequestDies(r) => request' \in [Requests -> RequestState]
    BY <1>2, <1>3 DEF RequestDies
  <1>8. lock' \subseteq Asked /\ UNCHANGED <<entry, task, bulk>>
    BY StateTypes DEF ReadName, ReadParent, ReadInferred, ReadCount, AcquireLock, RequestDies,
       NameKoTypeOK
  <1>9. QED BY <1>4, <1>5, <1>6, <1>7, <1>8

LEMMA MessageTypes ==
    \A g \in Asked, n \in 0..MaxRetries :
        Message(g, n) \in TaskState /\ Message(g, n).pc = "queued" /\ Message(g, n).game = g
  BY DEF Message, TaskState

\* a fetch
LEMMA TaskTypes ==
    ASSUME NameKoTypeOK, NEW t \in Tasks,
           \/ Ask(t) \/ Save(t) \/ Release(t) \/ CountFailure(t)
           \/ \E s \in Tasks : Retry(t, s)
           \/ GiveUp(t) \/ Ack(t) \/ TaskKilled(t)
    PROVE  /\ task' \in [Tasks -> TaskState] /\ lock' \subseteq Asked
           /\ entry' \in [Games -> Entry] /\ UNCHANGED <<request, bulk>>
  <1>1. /\ task[t].pc # "idle" /\ task[t] \in TaskState \ {Idle} /\ task[t].game \in Asked
        /\ task[t].game \in Games /\ task[t].retries \in 0..MaxRetries
    BY StateTypes, NameKoAssumption
       DEF Ask, Save, Release, CountFailure, Retry, GiveUp, Ack, TaskKilled
  <1>2. \A pc \in {"queued", "save", "release", "fail", "retry", "ack", "raised"},
           found \in BOOLEAN :
          /\ [task[t] EXCEPT !.pc = pc] \in TaskState
          /\ [task[t] EXCEPT !.pc = pc, !.found = found] \in TaskState
    BY <1>1 DEF TaskState
  <1>3. Idle \in TaskState
    BY DEF TaskState
  <1>4. \A state \in TaskState : [task EXCEPT ![t] = state] \in [Tasks -> TaskState]
    BY DEF NameKoTypeOK
  <1>5. \A pc \in {"save", "release", "fail", "retry", "ack", "raised"} :
          AdvanceTask(t, pc) => task' \in [Tasks -> TaskState]
    BY <1>2, <1>4 DEF AdvanceTask
  <1>6. CASE Ask(t)
    <2>1. CASE AdvanceTask(t, "fail")
      BY <1>5, <1>6, <2>1 DEF Ask, NameKoTypeOK
    <2>2. CASE \E found \in {FALSE, task[t].game \in Named} :
                 task' = [task EXCEPT ![t].pc = "save", ![t].found = found]
      <3> PICK found \in {FALSE, task[t].game \in Named} :
              task' = [task EXCEPT ![t].pc = "save", ![t].found = found]
        BY <2>2
      <3>0. found \in BOOLEAN
        BY AnswersAreBoolean, MembershipIsBoolean
      <3>1. task' = [task EXCEPT ![t] = [task[t] EXCEPT !.pc = "save", !.found = found]]
        BY DEF NameKoTypeOK
      <3>2. task' \in [Tasks -> TaskState]
        BY ZenonT(40), <1>2, <1>4, <3>0, <3>1
      <3>3. UNCHANGED <<entry, lock, request, bulk>>
        BY <1>6 DEF Ask
      <3>4. QED BY <3>2, <3>3 DEF NameKoTypeOK
    <2>3. QED BY <1>6, <2>1, <2>2 DEF Ask
  <1>7. CASE Save(t)
    <2>1. task[t].found \in BOOLEAN
      BY <1>1 DEF TaskState
    <2>2. entry' \in [Games -> Entry]
      BY <1>1, <1>7, <2>1, SavedTypes DEF Save, NameKoTypeOK
    <2>3. task' = [task EXCEPT ![t] = [task[t] EXCEPT !.pc = "release", !.found = FALSE]]
      BY <1>7 DEF Save, NameKoTypeOK
    <2>4. QED BY <1>2, <1>4, <1>7, <2>2, <2>3 DEF Save, NameKoTypeOK
  <1>8. CASE Release(t)
    BY <1>5, <1>8 DEF Release, NameKoTypeOK
  <1>9. CASE CountFailure(t) \/ GiveUp(t)
    BY <1>1, <1>5, <1>9, CountedTypes DEF CountFailure, GiveUp, NameKoTypeOK
  <1>10. ASSUME NEW s \in Tasks, Retry(t, s) PROVE task' \in [Tasks -> TaskState]
    <2>1. task[t].retries + 1 \in 0..MaxRetries
      BY <1>1, <1>10, NameKoAssumption DEF Retry
    <2>2. Message(task[t].game, task[t].retries + 1) \in TaskState
      BY <1>1, <2>1, MessageTypes
    <2>3. QED BY <1>2, <1>10, <2>2 DEF Retry, NameKoTypeOK
  <1>11. CASE \E s \in Tasks : Retry(t, s)
    BY <1>10, <1>11 DEF Retry, NameKoTypeOK
  <1>12. CASE Ack(t)
    BY <1>3, <1>4, <1>12 DEF Ack, NameKoTypeOK
  <1>13. CASE TaskKilled(t)
    BY <1>1, <1>4, <1>13, MessageTypes DEF TaskKilled, NameKoTypeOK
  <1>14. QED BY <1>6, <1>7, <1>8, <1>9, <1>11, <1>12, <1>13

LEMMA PublishTypes ==
    ASSUME NameKoTypeOK, NEW r \in Requests, NEW t \in Tasks, Publish(r, t)
    PROVE  /\ request' \in [Requests -> RequestState] /\ task' \in [Tasks -> TaskState]
           /\ UNCHANGED <<entry, lock, bulk>>
  <1>1. Message(request[r].game, 0) \in TaskState
    BY StateTypes, MessageTypes, NameKoAssumption DEF Publish
  <1>2. Idle \in RequestState
    BY DEF RequestState
  <1>3. QED BY <1>1, <1>2 DEF Publish, Become, NameKoTypeOK

LEMMA ChunksAreSubsets ==
    ASSUME NEW n, NEW ids, NEW chunk \in UpTo(n, ids)
    PROVE  chunk \subseteq ids
  BY DEF UpTo, kSubset

LEMMA BulkIsState ==
    ASSUME NEW pc \in {"slugs", "query", "clean", "save", "count"}, NEW back \in BOOLEAN,
           NEW ids \in SUBSET Games
    PROVE  Bulk(pc, back, ids) \in BulkState
  BY DEF Bulk, BulkState

\* a backfill or a command that reads
LEMMA ReadingBulkTypes ==
    ASSUME NameKoTypeOK, NEW b \in Bulks,
           \/ BackfillScan(b) \/ BackfillSlugs(b) \/ FillNames(b)
           \/ QueryChunk(b) \/ QueryCleaned(b) \/ BulkDies(b)
    PROVE  bulk' \in [Bulks -> BulkState] /\ UNCHANGED <<entry, lock, request, task>>
  <1>1. \A state \in BulkState : AdvanceBulk(b, state) => bulk' \in [Bulks -> BulkState]
    BY DEF AdvanceBulk, NameKoTypeOK
  <1>2. Idle \in BulkState
    BY DEF BulkState
  <1>3. UNCHANGED <<entry, lock, request, task>>
    BY DEF BackfillScan, BackfillSlugs, FillNames, QueryChunk, QueryCleaned, BulkDies
  <1>4. CASE BackfillScan(b)
    <2> PICK scanned \in UpTo(2 * BatchSize, Pending \cup Due) :
            \E pending \in UpTo(BatchSize, scanned \cap Pending),
               due \in UpTo(BatchSize, scanned \cap Due) :
              AdvanceBulk(b, Bulk("slugs", TRUE, pending \cup due))
      BY <1>4 DEF BackfillScan
    <2> PICK pending \in UpTo(BatchSize, scanned \cap Pending),
             due \in UpTo(BatchSize, scanned \cap Due) :
            AdvanceBulk(b, Bulk("slugs", TRUE, pending \cup due))
      OBVIOUS
    <2>1. pending \cup due \subseteq Games
      <3>1. pending \subseteq Pending /\ due \subseteq Due
        BY ChunksAreSubsets
      <3>2. QED BY <3>1 DEF Pending, Due
    <2>2. QED BY <1>1, <1>3, <2>1, BulkIsState
  <1>5. CASE BackfillSlugs(b)
    <2>1. WithSlug(bulk[b].todo) \subseteq Games
      BY <1>5, StateTypes DEF BackfillSlugs, WithSlug
    <2>2. Bulk("query", TRUE, WithSlug(bulk[b].todo)) \in BulkState
      BY <2>1, BulkIsState
    <2>3. QED BY <1>1, <1>2, <1>3, <1>5, <2>2 DEF BackfillSlugs
  <1>6. CASE FillNames(b)
    BY <1>1, <1>3, <1>6, BulkIsState DEF FillNames
  <1>7. CASE QueryChunk(b)
    <2>1. bulk[b] \in BulkState \ {Idle} /\ bulk[b].todo \subseteq Games
      BY <1>7, StateTypes DEF QueryChunk
    <2> PICK chunk \in UpTo(ChunkSize, bulk[b].todo) :
            \E found \in SUBSET (chunk \cap Named) :
              AdvanceBulk(b, [bulk[b] EXCEPT
                  !.pc = IF Cleanable(chunk \ found) = {} THEN "save" ELSE "clean",
                  !.todo = @ \ chunk, !.chunk = chunk, !.found = found])
      BY <1>7 DEF QueryChunk
    <2> PICK found \in SUBSET (chunk \cap Named) :
            AdvanceBulk(b, [bulk[b] EXCEPT
                !.pc = IF Cleanable(chunk \ found) = {} THEN "save" ELSE "clean",
                !.todo = @ \ chunk, !.chunk = chunk, !.found = found])
      OBVIOUS
    <2>2. chunk \subseteq Games /\ found \subseteq Games
      BY <2>1, ChunksAreSubsets, NameKoAssumption
    <2>3. \A pc \in {"save", "clean"} :
            [bulk[b] EXCEPT !.pc = pc, !.todo = @ \ chunk, !.chunk = chunk, !.found = found]
              \in BulkState
      BY <2>1, <2>2 DEF BulkState
    <2>4. QED BY <1>1, <1>3, <2>3
  <1>8. CASE QueryCleaned(b)
    <2>1. bulk[b] \in BulkState \ {Idle} /\ bulk[b].found \subseteq Games
      BY <1>8, StateTypes DEF QueryCleaned
    <2> PICK found \in SUBSET CleanNamed :
            AdvanceBulk(b, [bulk[b] EXCEPT !.pc = "save", !.found = @ \cup found])
      BY <1>8 DEF QueryCleaned
    <2>2. found \subseteq Games
      BY NameKoAssumption
    <2>3. [bulk[b] EXCEPT !.pc = "save", !.found = @ \cup found] \in BulkState
      BY <2>1, <2>2 DEF BulkState
    <2>4. QED BY <1>1, <1>3, <2>3
  <1>9. CASE BulkDies(b)
    BY <1>1, <1>2, <1>3, <1>9 DEF BulkDies
  <1>10. QED BY <1>4, <1>5, <1>6, <1>7, <1>8, <1>9

\* a backfill or a command that writes
LEMMA WritingBulkTypes ==
    ASSUME NameKoTypeOK, NEW b \in Bulks, NEW g \in Games, SaveNext(b, g) \/ CountMiss(b, g)
    PROVE  /\ bulk' \in [Bulks -> BulkState] /\ entry' \in [Games -> Entry]
           /\ UNCHANGED <<lock, request, task>>
  <1>1. \A state \in BulkState : AdvanceBulk(b, state) => bulk' \in [Bulks -> BulkState]
    BY DEF AdvanceBulk, NameKoTypeOK
  <1>2. Idle \in BulkState /\ bulk[b] \in BulkState \ {Idle}
    BY StateTypes DEF SaveNext, CountMiss, BulkState
  <1>3. CASE SaveNext(b, g)
    <2>1. entry' \in [Games -> Entry]
      <3> DEFINE found == g \in bulk[b].found
      <3>1. found \in BOOLEAN
        BY MembershipIsBoolean
      <3>2. entry' = Saved(g, found)
        BY <1>3 DEF SaveNext
      <3> HIDE DEF found
      <3>3. QED BY <3>1, <3>2, SavedTypes
    <2> DEFINE state == [bulk[b] EXCEPT
           !.chunk = @ \ {g},
           !.missed = IF bulk[b].backfill /\ g \notin bulk[b].found THEN @ \cup {g} ELSE @]
    <2>2. state \in BulkState
      BY <1>2 DEF BulkState
    <2>3. \A pc \in {"query", "count"} : [state EXCEPT !.pc = pc, !.found = {}] \in BulkState
      <3>1. state # Idle
        BY <1>2 DEF Idle, BulkState
      <3> HIDE DEF state
      <3>2. QED BY <2>2, <3>1 DEF BulkState
    <2>4. AdvanceBulk(b, AfterSave(state))
      BY <1>3 DEF SaveNext
    <2>5. AfterSave(state) \in BulkState
      <3> HIDE DEF state
      <3>1. QED BY <1>2, <2>2, <2>3 DEF AfterSave
    <2>6. UNCHANGED <<lock, request, task>>
      BY <1>3 DEF SaveNext
    <2>7. QED BY <1>1, <2>1, <2>4, <2>5, <2>6
  <1>4. CASE CountMiss(b, g)
    <2>1. [bulk[b] EXCEPT !.missed = @ \ {g}] \in BulkState
      BY <1>2 DEF BulkState
    <2>2. QED BY <1>1, <1>2, <1>4, <2>1, CountedTypes DEF CountMiss
  <1>5. QED BY <1>3, <1>4

\* Every step preserves the types.
LEMMA NamesArePreserved ==
    ASSUME NameKoTypeOK, [NameKoNext]_<<nameVars, nameHistory>>
    PROVE  NameKoTypeOK'
  <1>1. CASE UNCHANGED <<nameVars, nameHistory>>
    BY <1>1 DEF nameVars, nameHistory, NameKoTypeOK
  <1>2. CASE NameKoNext
    <2>1. mixed' \subseteq Games /\ lapsed' \subseteq Games /\ leaked' \subseteq Games
      BY <1>2 DEF NameKoNext, Note
    <2>2. SUFFICES /\ entry' \in [Games -> Entry] /\ lock' \subseteq Asked
                   /\ request' \in [Requests -> RequestState] /\ task' \in [Tasks -> TaskState]
                   /\ bulk' \in [Bulks -> BulkState]
      BY <2>1 DEF NameKoTypeOK
    <2>3. ASSUME NEW g \in Games, EntryAges(g) \/ EntryExpires(g) \/ LockExpires(g)
          PROVE  /\ entry' \in [Games -> Entry] /\ lock' \subseteq Asked
                 /\ request' \in [Requests -> RequestState] /\ task' \in [Tasks -> TaskState]
                 /\ bulk' \in [Bulks -> BulkState]
      BY <2>3, AgeingTypes DEF NameKoTypeOK
    <2>4. ASSUME NEW r \in Requests,
                 \/ \E g \in Asked : ReadName(r, g)
                 \/ ReadParent(r) \/ ReadInferred(r) \/ ReadCount(r) \/ AcquireLock(r)
                 \/ RequestDies(r)
          PROVE  /\ entry' \in [Games -> Entry] /\ lock' \subseteq Asked
                 /\ request' \in [Requests -> RequestState] /\ task' \in [Tasks -> TaskState]
                 /\ bulk' \in [Bulks -> BulkState]
      BY <2>4, RequestTypes DEF NameKoTypeOK
    <2>5. ASSUME NEW r \in Requests, NEW t \in Tasks, Publish(r, t)
          PROVE  /\ entry' \in [Games -> Entry] /\ lock' \subseteq Asked
                 /\ request' \in [Requests -> RequestState] /\ task' \in [Tasks -> TaskState]
                 /\ bulk' \in [Bulks -> BulkState]
      BY <2>5, PublishTypes DEF NameKoTypeOK
    <2>6. ASSUME NEW t \in Tasks,
                 \/ Ask(t) \/ Save(t) \/ Release(t) \/ CountFailure(t)
                 \/ \E s \in Tasks : Retry(t, s)
                 \/ GiveUp(t) \/ Ack(t) \/ TaskKilled(t)
          PROVE  /\ entry' \in [Games -> Entry] /\ lock' \subseteq Asked
                 /\ request' \in [Requests -> RequestState] /\ task' \in [Tasks -> TaskState]
                 /\ bulk' \in [Bulks -> BulkState]
      BY <2>6, TaskTypes DEF NameKoTypeOK
    <2>7. ASSUME NEW b \in Bulks,
                 \/ BackfillScan(b) \/ BackfillSlugs(b) \/ FillNames(b)
                 \/ QueryChunk(b) \/ QueryCleaned(b) \/ BulkDies(b)
          PROVE  /\ entry' \in [Games -> Entry] /\ lock' \subseteq Asked
                 /\ request' \in [Requests -> RequestState] /\ task' \in [Tasks -> TaskState]
                 /\ bulk' \in [Bulks -> BulkState]
      BY <2>7, ReadingBulkTypes DEF NameKoTypeOK
    <2>8. ASSUME NEW b \in Bulks, NEW g \in Games, SaveNext(b, g) \/ CountMiss(b, g)
          PROVE  /\ entry' \in [Games -> Entry] /\ lock' \subseteq Asked
                 /\ request' \in [Requests -> RequestState] /\ task' \in [Tasks -> TaskState]
                 /\ bulk' \in [Bulks -> BulkState]
      BY <2>8, WritingBulkTypes DEF NameKoTypeOK
    <2>9. QED BY <1>2, <2>3, <2>4, <2>5, <2>6, <2>7, <2>8 DEF NameKoNext, NameStep
  <1>3. QED BY <1>1, <1>2

\* Every state of every behaviour has the types NameKoTypeOK says.
THEOREM NameTypes == NameKoSpec => []NameKoTypeOK
  BY NamesHoldInitially, NamesArePreserved, PTL DEF NameKoSpec

-----------------------------------------------------------------------------
(* The lock of a game and its fetches *)

\* the requests and the tasks that hold the fetch of a game
Starting(g) == {r \in Requests : request[r].pc = "publish" /\ request[r].game = g}
Running(g) == {t \in Tasks : task[t].pc \notin {"idle", "ack", "raised"} /\ task[t].game = g}

Alone(g) ==
    /\ \A r, q \in Starting(g) : r = q
    /\ \A t, s \in Running(g) : t = s
    /\ Starting(g) = {} \/ Running(g) = {}

\* While nothing went wrong, a fetch is alone and the lock is there for it.
FetchInv(g) ==
    /\ g \in lock => Starting(g) \cup Running(g) # {} \/ g \in leaked
    /\ g \notin lapsed => Alone(g) /\ (Starting(g) \cup Running(g) # {} => g \in lock)

NameInv == NameKoTypeOK /\ \A g \in Games : FetchInv(g)

LEMMA FetchingIs == \A g : Fetching(g) = Starting(g) \cup Running(g)
  BY DEF Fetching, Starting, Running

LEMMA FetchesHoldInitially == NameKoInit => NameInv
  <1> SUFFICES ASSUME NameKoInit PROVE NameInv
    OBVIOUS
  <1>1. \A g \in Games : Starting(g) = {} /\ Running(g) = {}
    BY DEF NameKoInit, Starting, Running, Idle
  <1>2. QED BY <1>1, NamesHoldInitially DEF NameKoInit, NameInv, FetchInv, Alone

\* what the history says after a step
LEMMA NoteSays ==
    ASSUME NameKoTypeOK, Note, NEW g \in Games
    PROVE  /\ g \notin lapsed' /\ Starting(g)' \cup Running(g)' # {} =>
                g \notin lapsed /\ ~Redelivered(g) /\ ~Expired(g)
           /\ g \in lock' /\ (g \in leaked \/ LeftBehind(g)) => g \in leaked'
  <1>1. Fetching(g)' = Starting(g)' \cup Running(g)'
    BY FetchingIs DEF Fetching, Starting, Running
  <1>2. QED BY <1>1 DEF Note

\* a step that does not touch the lock of a game or its fetches
LEMMA UntouchedFetches ==
    ASSUME NameInv, Note, NEW g \in Games, Starting(g)' = Starting(g), Running(g)' = Running(g),
           g \in lock' <=> g \in lock
    PROVE  FetchInv(g)'
  BY NoteSays DEF NameInv, FetchInv, Alone

\* the requests after one of them has moved
LEMMA StartingAfter ==
    ASSUME NameKoTypeOK, NEW r \in Requests, NEW state, Become(r, state), NEW g
    PROVE  Starting(g)' = (Starting(g) \ {r}) \cup
                          (IF state.pc = "publish" /\ state.game = g THEN {r} ELSE {})
  <1>1. \A q \in Requests : request'[q] = IF q = r THEN state ELSE request[q]
    BY DEF Become, NameKoTypeOK
  <1>2. QED BY <1>1 DEF Starting

\* the tasks after one of them has moved
LEMMA RunningAfter ==
    ASSUME NameKoTypeOK, NEW t \in Tasks, NEW state, task' = [task EXCEPT ![t] = state], NEW g
    PROVE  Running(g)' = (Running(g) \ {t}) \cup
                         (IF state.pc \notin {"idle", "ack", "raised"} /\ state.game = g
                            THEN {t} ELSE {})
  <1>1. \A s \in Tasks : task'[s] = IF s = t THEN state ELSE task[s]
    BY DEF NameKoTypeOK
  <1>2. QED BY <1>1 DEF Running

LEMMA AdvancedFields ==
    ASSUME NameKoTypeOK, NEW t \in Tasks, task[t].pc # "idle",
           NEW pc \in {"save", "release", "fail", "retry", "ack", "raised"}
    PROVE  [task[t] EXCEPT !.pc = pc].pc = pc /\ [task[t] EXCEPT !.pc = pc].game = task[t].game
  BY StateTypes DEF TaskState

\* A lock that expires under a fetch is on record.
LEMMA FetchesOutliveExpiry ==
    ASSUME NameInv, Note, NEW g \in Games,
           EntryAges(g) \/ EntryExpires(g) \/ LockExpires(g), NEW x \in Games
    PROVE  FetchInv(x)'
  <1>1. UNCHANGED <<request, task>> /\ Starting(x)' = Starting(x) /\ Running(x)' = Running(x)
    BY DEF EntryAges, EntryExpires, LockExpires, Starting, Running
  <1>2. CASE x \in lock' <=> x \in lock
    BY <1>1, <1>2, UntouchedFetches
  <1>3. CASE ~(x \in lock' <=> x \in lock)
    <2>1. x \in lock /\ x \notin lock'
      BY <1>3 DEF EntryAges, EntryExpires, LockExpires
    <2>2. Expired(x)
      BY <1>1, <2>1 DEF Expired
    <2>3. QED BY <1>1, <2>1, <2>2, NoteSays DEF NameInv, FetchInv, Alone
  <1>4. QED BY <1>2, <1>3

LEMMA FetchesOutliveRequests ==
    ASSUME NameInv, Note, NEW r \in Requests,
           \/ \E g \in Asked : ReadName(r, g)
           \/ ReadParent(r) \/ ReadInferred(r) \/ ReadCount(r),
           NEW x \in Games
    PROVE  FetchInv(x)'
  <1>1. UNCHANGED <<lock, task>> /\ Running(x)' = Running(x)
    BY DEF ReadName, ReadParent, ReadInferred, ReadCount, Running
  <1>2. request[r].pc # "publish"
    BY DEF ReadName, ReadParent, ReadInferred, ReadCount
  <1>3. request'[r].pc # "publish" /\ \A q \in Requests \ {r} : request'[q] = request[q]
    <2>1. \A pc \in {"infer", "count", "lock"} :
            request[r].pc # "idle" => [request[r] EXCEPT !.pc = pc].pc = pc
      BY StateTypes DEF NameInv, RequestState
    <2>2. \A state : Become(r, state) /\ state.pc # "publish" =>
            request'[r].pc # "publish" /\ \A q \in Requests \ {r} : request'[q] = request[q]
      BY DEF Become, NameInv, NameKoTypeOK
    <2>3. Idle.pc # "publish"
      BY DEF Idle
    <2>4. ASSUME NEW g \in Asked, ReadName(r, g)
          PROVE  request'[r].pc # "publish" /\ \A q \in Requests \ {r} : request'[q] = request[q]
      BY <2>2, <2>4 DEF ReadName
    <2>5. CASE ReadParent(r)
      BY <2>1, <2>2, <2>3, <2>5 DEF ReadParent
    <2>6. CASE ReadInferred(r)
      BY <2>1, <2>2, <2>3, <2>6 DEF ReadInferred
    <2>7. CASE ReadCount(r)
      BY <2>1, <2>2, <2>3, <2>7 DEF ReadCount
    <2>8. QED BY <2>4, <2>5, <2>6, <2>7
  <1>4. Starting(x)' = Starting(x)
    BY <1>2, <1>3 DEF Starting
  <1>5. QED BY <1>1, <1>4, UntouchedFetches

\* Who takes the lock finds no fetch: while nothing went wrong, each one has its lock.
LEMMA FetchesOutliveLocking ==
    ASSUME NameInv, Note, NEW r \in Requests, AcquireLock(r), NEW x \in Games
    PROVE  FetchInv(x)'
  <1> PICK g \in Games : g = request[r].game
    BY StateTypes DEF AcquireLock, NameInv
  <1>1. UNCHANGED <<entry, task, bulk>> /\ Running(x)' = Running(x) /\ lock' = lock \cup {g}
        /\ request[r].pc = "lock" /\ r \notin Starting(x)
    BY DEF AcquireLock, Running, Starting
  <1>2. CASE g \in lock
    <2>1. Become(r, Idle)
      BY <1>2 DEF AcquireLock
    <2>2. Starting(x)' = Starting(x)
      BY <1>1, <2>1, StartingAfter DEF Idle, NameInv
    <2>3. QED BY <1>1, <1>2, <2>2, UntouchedFetches
  <1>3. CASE g \notin lock
    <2> PICK state : state = [request[r] EXCEPT !.pc = "publish"]
      OBVIOUS
    <2>1. state.pc = "publish" /\ state.game = g /\ Become(r, state)
      BY <1>1, <1>3, StateTypes DEF AcquireLock, NameInv, RequestState
    <2>2. Starting(x)' = Starting(x) \cup (IF x = g THEN {r} ELSE {})
      <3>1. Starting(x)' = (Starting(x) \ {r}) \cup
                           (IF state.pc = "publish" /\ state.game = x THEN {r} ELSE {})
        BY <2>1, StartingAfter DEF NameInv
      <3>2. QED BY <1>1, <2>1, <3>1
    <2>3. CASE x = g
      BY <1>1, <1>3, <2>2, <2>3, NoteSays DEF NameInv, FetchInv, Alone
    <2>4. CASE x # g
      BY <1>1, <2>2, <2>4, UntouchedFetches
    <2>5. QED BY <2>3, <2>4
  <1>4. QED BY <1>2, <1>3

LEMMA FetchesOutlivePublishing ==
    ASSUME NameInv, Note, NEW r \in Requests, NEW t \in Tasks, Publish(r, t), NEW x \in Games
    PROVE  FetchInv(x)'
  <1> PICK g \in Games : g = request[r].game
    BY StateTypes DEF Publish, NameInv
  <1>1. /\ UNCHANGED lock /\ request[r].pc = "publish" /\ task[t].pc = "idle" /\ g \in Asked
        /\ Become(r, Idle) /\ task' = [task EXCEPT ![t] = Message(g, 0)]
    BY StateTypes DEF Publish, NameInv
  <1>2. Message(g, 0).pc = "queued" /\ Message(g, 0).game = g
    BY DEF Message
  <1>3. Starting(x)' = Starting(x) \ {r}
    BY <1>1, StartingAfter DEF Idle, NameInv
  <1>4. Running(x)' = Running(x) \cup (IF x = g THEN {t} ELSE {})
    <2>1. t \notin Running(x)
      BY <1>1 DEF Running
    <2> PICK state : state = Message(g, 0)
      OBVIOUS
    <2>2. Running(x)' = (Running(x) \ {t}) \cup
                        (IF state.pc \notin {"idle", "ack", "raised"} /\ state.game = x
                           THEN {t} ELSE {})
      BY <1>1, RunningAfter DEF NameInv
    <2>3. QED BY <1>2, <2>1, <2>2
  <1>5. CASE x = g
    <2>1. r \in Starting(g)
      BY <1>1 DEF Starting
    <2>2. QED BY <1>1, <1>3, <1>4, <1>5, <2>1, NoteSays DEF NameInv, FetchInv, Alone
  <1>6. CASE x # g
    <2>1. r \notin Starting(x)
      BY <1>6 DEF Starting
    <2>2. QED BY <1>1, <1>3, <1>4, <1>6, <2>1, UntouchedFetches
  <1>7. QED BY <1>5, <1>6

\* A request that dies with the lock leaves it behind.
LEMMA FetchesOutliveDeath ==
    ASSUME NameInv, Note, NEW r \in Requests, RequestDies(r), NEW x \in Games
    PROVE  FetchInv(x)'
  <1>1. /\ UNCHANGED <<lock, task>> /\ Running(x)' = Running(x) /\ Become(r, Idle)
        /\ Idle.pc = "idle"
    BY DEF RequestDies, Running, Idle
  <1>2. Starting(x)' = Starting(x) \ {r} /\ request'[r].pc = "idle"
    <2>1. Starting(x)' = (Starting(x) \ {r}) \cup
                         (IF Idle.pc = "publish" /\ Idle.game = x THEN {r} ELSE {})
      BY <1>1, StartingAfter DEF NameInv
    <2>2. request'[r].pc = "idle"
      BY <1>1 DEF NameInv, Become, NameKoTypeOK
    <2>3. QED BY <1>1, <2>1, <2>2
  <1>3. CASE r \in Starting(x)
    <2>1. LeftBehind(x)
      BY <1>1, <1>2, <1>3 DEF LeftBehind, Starting
    <2>2. QED BY <1>1, <1>2, <1>3, <2>1, NoteSays DEF NameInv, FetchInv, Alone
  <1>4. CASE r \notin Starting(x)
    BY <1>1, <1>2, <1>4, UntouchedFetches
  <1>5. QED BY <1>3, <1>4

LEMMA FetchesOutliveTasks ==
    ASSUME NameInv, Note, NEW t \in Tasks, Ask(t) \/ Save(t) \/ CountFailure(t) \/ Ack(t),
           NEW x \in Games
    PROVE  FetchInv(x)'
  <1>1. UNCHANGED <<lock, request>> /\ Starting(x)' = Starting(x) /\ task[t].pc # "idle"
        /\ task[t] \in TaskState \ {Idle} /\ t \in DOMAIN task
    BY StateTypes DEF Ask, Save, CountFailure, Ack, Starting, NameInv, NameKoTypeOK
  <1>2. Running(x)' = Running(x)
    <2>1. CASE Ack(t)
      <3>1. task[t].pc \in {"ack", "raised"} /\ task'[t].pc = "idle"
            /\ \A s \in Tasks \ {t} : task'[s] = task[s]
        BY <1>1, <2>1 DEF Ack, Idle, NameInv, NameKoTypeOK
      <3>2. QED BY <3>1 DEF Running
    <2>2. CASE Ask(t) \/ Save(t) \/ CountFailure(t)
      <3>1. /\ task'[t].pc \notin {"idle", "ack", "raised"} /\ task'[t].game = task[t].game
            /\ task[t].pc \notin {"idle", "ack", "raised"}
            /\ \A s \in Tasks \ {t} : task'[s] = task[s]
        BY <1>1, <2>2 DEF Ask, Save, CountFailure, AdvanceTask, TaskState, NameInv, NameKoTypeOK
      <3>2. QED BY <3>1 DEF Running
    <2>3. QED BY <2>1, <2>2
  <1>3. QED BY <1>1, <1>2, UntouchedFetches

\* A fetch that ends releases the lock, or raises and leaves it behind.
LEMMA FetchesOutliveEnds ==
    ASSUME NameInv, Note, NEW t \in Tasks, Release(t) \/ GiveUp(t), NEW x \in Games
    PROVE  FetchInv(x)'
  <1> PICK g \in Games : g = task[t].game
    BY StateTypes DEF Release, GiveUp, NameInv
  <1> PICK end \in {"ack", "raised"} :
          AdvanceTask(t, end) /\ (end = "raised" <=> GiveUp(t))
    BY DEF Release, GiveUp, AdvanceTask, NameInv, NameKoTypeOK
  <1>1. /\ UNCHANGED request /\ Starting(x)' = Starting(x)
        /\ task[t].pc \notin {"idle", "ack", "raised"}
    BY DEF Release, GiveUp, Starting
  <1>2. task'[t].pc = end /\ \A s \in Tasks \ {t} : task'[s] = task[s]
    <2>1. task[t] \in TaskState \ {Idle}
      BY <1>1, StateTypes DEF NameInv
    <2>2. QED BY <1>1, <2>1 DEF AdvanceTask, TaskState, NameInv, NameKoTypeOK
  <1>3. Running(x)' = Running(x) \ {t}
    BY <1>2 DEF Running
  <1>4. CASE x # g
    <2>1. t \notin Running(x)
      BY <1>4 DEF Running
    <2>2. x \in lock' <=> x \in lock
      BY <1>4 DEF Release, GiveUp
    <2>3. QED BY <1>1, <1>3, <2>1, <2>2, UntouchedFetches
  <1>5. CASE x = g
    <2>1. t \in Running(x)
      BY <1>1, <1>5 DEF Running
    <2>2. x \notin lock' \/ LeftBehind(x)
      <3>1. CASE Release(t)
        BY <1>5, <3>1 DEF Release
      <3>2. CASE GiveUp(t)
        BY <1>1, <1>2, <1>5, <3>2 DEF LeftBehind
      <3>3. QED BY <3>1, <3>2
    <2>3. x \in lock' => x \in leaked'
      BY <2>2, NoteSays DEF NameInv
    <2>4. x \notin lapsed' => Starting(x)' \cup Running(x)' = {}
      <3> SUFFICES ASSUME x \notin lapsed', Starting(x)' \cup Running(x)' # {} PROVE FALSE
        OBVIOUS
      <3>1. Alone(x)
        BY NoteSays DEF NameInv, FetchInv
      <3>2. QED BY <1>1, <1>3, <2>1, <3>1 DEF Alone
    <2>5. QED BY <2>3, <2>4 DEF FetchInv, Alone
  <1>6. QED BY <1>4, <1>5

\* A retry hands the fetch, and with it the lock, to the next message.
LEMMA FetchesOutliveRetries ==
    ASSUME NameInv, Note, NEW t \in Tasks, NEW s \in Tasks, Retry(t, s), NEW x \in Games
    PROVE  FetchInv(x)'
  <1> PICK g \in Games : g = task[t].game
    BY StateTypes DEF Retry, NameInv
  <1>1. /\ UNCHANGED <<lock, request>> /\ Starting(x)' = Starting(x)
        /\ task[t].pc = "retry" /\ task[s].pc = "idle" /\ s # t
    BY DEF Retry, Starting
  <1>2. /\ task'[t].pc = "ack" /\ task'[s].pc = "queued" /\ task'[s].game = g
        /\ \A v \in Tasks \ {t, s} : task'[v] = task[v]
    <2>1. task[t] \in TaskState \ {Idle}
      BY <1>1, StateTypes DEF NameInv
    <2>2. [task[t] EXCEPT !.pc = "ack"].pc = "ack"
      BY <2>1 DEF TaskState
    <2> PICK message : message = Message(g, task[t].retries + 1)
      OBVIOUS
    <2>3. message.pc = "queued" /\ message.game = g
      BY DEF Message
    <2>4. task' = [task EXCEPT ![t].pc = "ack", ![s] = message]
      BY DEF Retry
    <2>5. QED BY <1>1, <2>2, <2>3, <2>4 DEF NameInv, NameKoTypeOK
  <1>3. t \notin Running(x)' /\ (s \in Running(x)' <=> x = g)
        /\ \A v \in Tasks \ {t, s} : v \in Running(x)' <=> v \in Running(x)
    BY <1>2 DEF Running
  <1>4. (t \in Running(x) <=> x = g) /\ s \notin Running(x) /\ Running(x) \subseteq Tasks
        /\ Running(x)' \subseteq Tasks
    BY <1>1 DEF Running
  <1>5. CASE x # g
    <2>1. Running(x)' = Running(x)
      BY <1>3, <1>4, <1>5
    <2>2. QED BY <1>1, <2>1, UntouchedFetches
  <1>6. CASE x = g
    <2>1. Running(x)' = (Running(x) \ {t}) \cup {s}
      BY <1>3, <1>4, <1>6
    <2>2. QED BY <1>1, <1>4, <1>6, <2>1, NoteSays DEF NameInv, FetchInv, Alone
  <1>7. QED BY <1>5, <1>6

\* A message that is delivered again is on record.
LEMMA FetchesOutliveKills ==
    ASSUME NameInv, Note, NEW t \in Tasks, TaskKilled(t), NEW x \in Games
    PROVE  FetchInv(x)'
  <1> PICK g \in Games : g = task[t].game
    BY StateTypes DEF TaskKilled, NameInv
  <1>1. /\ UNCHANGED <<lock, request>> /\ Starting(x)' = Starting(x)
        /\ task[t].pc \notin {"idle", "queued"}
    BY DEF TaskKilled, Starting
  <1>2. /\ task'[t].pc = "queued" /\ task'[t].game = g
        /\ \A v \in Tasks \ {t} : task'[v] = task[v]
    BY DEF TaskKilled, Message, NameInv, NameKoTypeOK
  <1>3. Running(x)' = IF x = g THEN Running(x) \cup {t} ELSE Running(x)
    BY <1>2 DEF Running
  <1>4. CASE x # g
    BY <1>1, <1>3, <1>4, UntouchedFetches
  <1>5. CASE x = g
    <2>1. Redelivered(x)
      BY <1>1, <1>2, <1>5 DEF Redelivered
    <2>2. QED BY <1>1, <1>3, <1>5, <2>1, NoteSays DEF NameInv, FetchInv
  <1>6. QED BY <1>4, <1>5

\* Every step preserves the invariant.
LEMMA FetchesArePreserved ==
    ASSUME NameInv, [NameKoNext]_<<nameVars, nameHistory>>
    PROVE  NameInv'
  <1>1. NameKoTypeOK'
    BY NamesArePreserved DEF NameInv
  <1>2. ASSUME NEW x \in Games, UNCHANGED <<nameVars, nameHistory>> PROVE FetchInv(x)'
    BY <1>2 DEF nameVars, nameHistory, NameInv, FetchInv, Alone, Starting, Running
  <1>3. ASSUME NEW x \in Games, NameKoNext PROVE FetchInv(x)'
    <2>1. Note
      BY <1>3 DEF NameKoNext
    <2>2. ASSUME NEW g \in Games, EntryAges(g) \/ EntryExpires(g) \/ LockExpires(g)
          PROVE  FetchInv(x)'
      BY <2>1, <2>2, FetchesOutliveExpiry
    <2>3. ASSUME NEW r \in Requests,
                 \/ \E g \in Asked : ReadName(r, g)
                 \/ ReadParent(r) \/ ReadInferred(r) \/ ReadCount(r) \/ AcquireLock(r)
                 \/ \E t \in Tasks : Publish(r, t)
                 \/ RequestDies(r)
          PROVE  FetchInv(x)'
      BY <2>1, <2>3, FetchesOutliveRequests, FetchesOutliveLocking, FetchesOutlivePublishing,
         FetchesOutliveDeath
    <2>4. ASSUME NEW t \in Tasks,
                 \/ Ask(t) \/ Save(t) \/ Release(t) \/ CountFailure(t)
                 \/ \E s \in Tasks : Retry(t, s)
                 \/ GiveUp(t) \/ Ack(t) \/ TaskKilled(t)
          PROVE  FetchInv(x)'
      BY <2>1, <2>4, FetchesOutliveTasks, FetchesOutliveEnds, FetchesOutliveRetries,
         FetchesOutliveKills
    <2>5. ASSUME NEW b \in Bulks,
                 \/ BackfillScan(b) \/ BackfillSlugs(b) \/ FillNames(b)
                 \/ QueryChunk(b) \/ QueryCleaned(b)
                 \/ \E g \in Games : SaveNext(b, g) \/ CountMiss(b, g)
                 \/ BulkDies(b)
          PROVE  FetchInv(x)'
      <3>1. UNCHANGED <<lock, request, task>>
        BY <2>5 DEF BackfillScan, BackfillSlugs, FillNames, QueryChunk, QueryCleaned, SaveNext,
           CountMiss, BulkDies
      <3>2. Starting(x)' = Starting(x) /\ Running(x)' = Running(x)
        BY <3>1 DEF Starting, Running
      <3>3. QED BY <2>1, <3>1, <3>2, UntouchedFetches
    <2>6. QED BY <1>3, <2>2, <2>3, <2>4, <2>5 DEF NameKoNext, NameStep
  <1>4. QED BY <1>1, <1>2, <1>3 DEF NameInv

LEMMA AtMostOne ==
    ASSUME NEW S, \A x, y \in S : x = y
    PROVE  ~(Cardinality(S) > 1)
  <1>1. CASE S = {}
    BY <1>1, FS_EmptySet
  <1>2. CASE S # {}
    <2> PICK x : x \in S
      BY <1>2
    <2>1. S = {x}
      OBVIOUS
    <2>2. QED BY <2>1, FS_Singleton
  <1>3. QED BY <1>1, <1>2

\* A lock is held for a fetch that will release it, unless the request died with it or the
\* last retry failed.
THEOREM LocksHaveFetches == NameKoSpec => []LockHasFetch
  <1>1. NameInv => LockHasFetch
    BY FetchingIs, NameKoAssumption DEF NameInv, FetchInv, LockHasFetch, NameKoTypeOK
  <1>2. QED BY <1>1, FetchesHoldInitially, FetchesArePreserved, PTL DEF NameKoSpec

\* The lock keeps a game from having two fetches in flight, retries included, unless it
\* expires under a fetch or a fetch is delivered twice.
THEOREM FetchesAreSingle == NameKoSpec => []OneFetchPerGame
  <1>1. NameInv => OneFetchPerGame
    <2> SUFFICES ASSUME NameInv, NEW g \in Games, g \notin lapsed
                 PROVE  ~(Cardinality(Fetching(g)) > 1)
      BY DEF OneFetchPerGame
    <2>1. \A x, y \in Starting(g) \cup Running(g) : x = y
      BY DEF NameInv, FetchInv, Alone
    <2>2. QED BY <2>1, FetchingIs, AtMostOne
  <1>2. QED BY <1>1, FetchesHoldInitially, FetchesArePreserved, PTL DEF NameKoSpec

\* Lock and fetch come and go together, one of each for a game.
THEOREM LocksAreFetches == NameKoSpec => []LockMeansFetch
  <1>1. OneFetchPerGame /\ LockHasFetch => LockMeansFetch
    BY DEF LockMeansFetch
  <1>2. QED BY <1>1, FetchesAreSingle, LocksHaveFetches, PTL

-----------------------------------------------------------------------------
(* The name of a game and its writers *)

\* the writers of a game, by what they are
Resolving(g) == {r \in Requests : request[r].pc # "idle" /\ request[r].game = g}
Answering(g) ==
    {t \in Tasks : task[t].pc \in {"queued", "save", "fail", "retry"} /\ task[t].game = g}
Bulking(g) == {b \in Bulks : bulk[b].pc # "idle" /\ g \in bulk[b].todo \cup bulk[b].chunk}
Backfilling(g) == {b \in Bulking(g) : bulk[b].backfill}

\* Those that started from a hash without a name: all but the command.
Expecting(g) == Resolving(g) \cup Answering(g) \cup Backfilling(g)

\* An answer sets all the fields together.
HashInv(g) == entry[g].fetched = "never" => ~entry[g].named /\ ~entry[g].slug

\* A game is asked about once, and only the backfill reads slugs.
BulkInv(b) ==
    bulk[b].pc # "idle" =>
        /\ bulk[b].todo \cap bulk[b].chunk = {}
        /\ bulk[b].pc = "slugs" => bulk[b].backfill

\* While writers of a game do not mix there is one at most, and the hash is as it found it.
WriteInv(g) ==
    g \notin mixed =>
        /\ \A x, y \in Writers(g) : x = y
        /\ Expecting(g) # {} => ~entry[g].named
        /\ Backfilling(g) # {} => entry[g].fetched # "recent"

KeepInv ==
    /\ NameKoTypeOK
    /\ \A g \in Games : HashInv(g) /\ WriteInv(g)
    /\ \A b \in Bulks : BulkInv(b)

LEMMA WritersAre == \A g : Writers(g) = Resolving(g) \cup Answering(g) \cup Bulking(g)
  BY DEF Writers, Resolving, Answering, Bulking

LEMMA KeepHoldsInitially == NameKoInit => KeepInv
  <1> SUFFICES ASSUME NameKoInit PROVE KeepInv
    OBVIOUS
  <1>1. \A g \in Games : Resolving(g) = {} /\ Answering(g) = {} /\ Bulking(g) = {}
    BY DEF NameKoInit, Resolving, Answering, Bulking, Idle
  <1>2. \A g \in Games : HashInv(g)
    BY DEF NameKoInit, HashInv, Absent
  <1>3. \A b \in Bulks : BulkInv(b)
    BY DEF NameKoInit, BulkInv, Idle
  <1>4. \A g \in Games : WriteInv(g)
    BY <1>1, WritersAre DEF WriteInv, Expecting, Backfilling
  <1> QED
    BY <1>2, <1>3, <1>4, NamesHoldInitially DEF KeepInv

\* A finite set without more than one element has one or none.
LEMMA NotMoreThanOne ==
    ASSUME NEW S, IsFiniteSet(S), ~(Cardinality(S) > 1), NEW x \in S, NEW y \in S
    PROVE  x = y
  <1> SUFFICES ASSUME x # y PROVE FALSE
    OBVIOUS
  <1>1. Cardinality({x}) = 1
    BY FS_Singleton
  <1>2. IsFiniteSet(S \ {y}) /\ Cardinality(S \ {y}) = Cardinality(S) - 1
    BY FS_RemoveElement
  <1>3. {x} \subseteq S \ {y}
    OBVIOUS
  <1>4. Cardinality({x}) <= Cardinality(S \ {y})
    BY <1>2, <1>3, FS_Subset
  <1>5. Cardinality(S) \in Nat
    BY FS_CardinalityType
  <1> QED
    BY <1>1, <1>2, <1>4, <1>5

\* what the history says of the writers after a step
LEMMA NoteSaysOfWriters ==
    ASSUME Note, NEW g \in Games, g \notin mixed', Writers(g)' # {}
    PROVE  /\ g \notin mixed /\ ~Redelivered(g)
           /\ \A x, y \in Writers(g)' : x = y
  <1>1. g \notin mixed /\ ~Redelivered(g) /\ ~(Cardinality(Writers(g)') > 1)
    BY DEF Note
  <1>2. IsFiniteSet(Requests \cup Tasks \cup Bulks)
    BY NameKoAssumption, FS_Union
  <1>3. Writers(g)' \subseteq Requests \cup Tasks \cup Bulks
    BY DEF Writers
  <1>4. IsFiniteSet(Writers(g)')
    BY <1>2, <1>3, FS_Subset
  <1> QED
    BY <1>1, <1>4, NotMoreThanOne

\* A writer that is done leaves no other behind, unless they mix.
LEMMA WriterLeaves ==
    ASSUME Note, NEW g \in Games, WriteInv(g), NEW y \in Writers(g),
           Writers(g)' \subseteq Writers(g) \ {y}
    PROVE  WriteInv(g)'
  <1>1. g \notin mixed' => Writers(g)' = {}
    BY NoteSaysOfWriters DEF WriteInv
  <1>2. Writers(g)' = Resolving(g)' \cup Answering(g)' \cup Bulking(g)'
    BY WritersAre DEF Writers, Resolving, Answering, Bulking
  <1> QED
    BY <1>1, <1>2 DEF WriteInv, Expecting, Backfilling

\* Any other step gives the hash no name and no answer, and a writer that expects no name
\* comes from another one or has just read that there is none.
LEMMA WriterStays ==
    ASSUME Note, NEW g \in Games, WriteInv(g),
           entry'[g].named => entry[g].named,
           entry'[g].fetched = "recent" => entry[g].fetched = "recent",
           Expecting(g)' # {} => Expecting(g) # {} \/ ~entry'[g].named \/ Redelivered(g),
           Backfilling(g)' # {} => Backfilling(g) # {} \/ entry'[g].fetched # "recent"
    PROVE  WriteInv(g)'
  <1>1. Writers(g)' = Resolving(g)' \cup Answering(g)' \cup Bulking(g)'
    BY WritersAre DEF Writers, Resolving, Answering, Bulking
  <1>2. CASE Writers(g)' = {}
    BY <1>1, <1>2 DEF WriteInv, Expecting, Backfilling
  <1>3. CASE Writers(g)' # {} /\ g \notin mixed'
    <2>1. g \notin mixed /\ ~Redelivered(g) /\ \A x, y \in Writers(g)' : x = y
      BY <1>3, NoteSaysOfWriters
    <2> QED
      BY <2>1 DEF WriteInv
  <1> QED
    BY <1>2, <1>3 DEF WriteInv

\* the writers after a request, a task or a bulk has moved
LEMMA ResolvingAfter ==
    ASSUME NameKoTypeOK, NEW r \in Requests, NEW state, Become(r, state), NEW g
    PROVE  Resolving(g)' = (Resolving(g) \ {r}) \cup
                           (IF state.pc # "idle" /\ state.game = g THEN {r} ELSE {})
  <1>1. \A q \in Requests : request'[q] = IF q = r THEN state ELSE request[q]
    BY DEF Become, NameKoTypeOK
  <1> QED
    BY <1>1 DEF Resolving

LEMMA AnsweringAfter ==
    ASSUME NameKoTypeOK, NEW t \in Tasks, NEW state, task' = [task EXCEPT ![t] = state], NEW g
    PROVE  Answering(g)' = (Answering(g) \ {t}) \cup
                           (IF state.pc \in {"queued", "save", "fail", "retry"} /\ state.game = g
                              THEN {t} ELSE {})
  <1>1. \A s \in Tasks : task'[s] = IF s = t THEN state ELSE task[s]
    BY DEF NameKoTypeOK
  <1> QED
    BY <1>1 DEF Answering

LEMMA BulkingAfter ==
    ASSUME NameKoTypeOK, NEW b \in Bulks, NEW state, AdvanceBulk(b, state), NEW g
    PROVE  Bulking(g)' = (Bulking(g) \ {b}) \cup
                         (IF state.pc # "idle" /\ g \in state.todo \cup state.chunk
                            THEN {b} ELSE {})
  <1>1. \A c \in Bulks : bulk'[c] = IF c = b THEN state ELSE bulk[c]
    BY DEF AdvanceBulk, NameKoTypeOK
  <1> QED
    BY <1>1 DEF Bulking

LEMMA BackfillingAfter ==
    ASSUME NameKoTypeOK, NEW b \in Bulks, NEW state, AdvanceBulk(b, state), NEW g
    PROVE  Backfilling(g)' \subseteq
               (Backfilling(g) \ {b}) \cup
               (IF state.pc # "idle" /\ state.backfill /\ g \in state.todo \cup state.chunk
                  THEN {b} ELSE {})
  <1>1. \A c \in Bulks : bulk'[c] = IF c = b THEN state ELSE bulk[c]
    BY DEF AdvanceBulk, NameKoTypeOK
  <1> QED
    BY <1>1 DEF Backfilling, Bulking

\* Which requests, tasks and bulks write a game depends on nothing else.
LEMMA WritersUnmoved ==
    ASSUME NEW g
    PROVE  /\ UNCHANGED request => Resolving(g)' = Resolving(g)
           /\ UNCHANGED task => Answering(g)' = Answering(g)
           /\ UNCHANGED bulk => Bulking(g)' = Bulking(g) /\ Backfilling(g)' = Backfilling(g)
  BY DEF Resolving, Answering, Bulking, Backfilling

LEMMA WritersAreNext ==
    ASSUME NEW g
    PROVE  Writers(g)' = Resolving(g)' \cup Answering(g)' \cup Bulking(g)'
  BY WritersAre DEF Writers, Resolving, Answering, Bulking

\* A hash that ages or expires has no more of a name than before.
LEMMA NamesOutliveAgeing ==
    ASSUME KeepInv, Note, NEW g \in Games,
           EntryAges(g) \/ EntryExpires(g) \/ LockExpires(g), NEW x \in Games
    PROVE  HashInv(x)' /\ WriteInv(x)'
  <1>1. UNCHANGED <<request, task, bulk>>
    BY DEF EntryAges, EntryExpires, LockExpires
  <1>2. Expecting(x)' = Expecting(x) /\ Backfilling(x)' = Backfilling(x)
    BY <1>1, WritersUnmoved DEF Expecting
  <1>3. entry'[x] = entry[x] \/ entry'[x] = Absent
          \/ (entry'[x] = [entry[x] EXCEPT !.fetched = "old"])
    BY DEF EntryAges, EntryExpires, LockExpires, KeepInv, NameKoTypeOK
  <1>4. entry[x] \in Entry
    BY DEF KeepInv, NameKoTypeOK
  <1>5. /\ entry'[x].named => entry[x].named
        /\ entry'[x].fetched = "recent" => entry[x].fetched = "recent"
    BY <1>3, <1>4 DEF Absent, Entry
  <1>6. HashInv(x)'
    BY <1>3, <1>4 DEF KeepInv, HashInv, Absent, Entry
  <1> QED
    BY <1>2, <1>5, <1>6, WriterStays DEF KeepInv

\* A request begins to resolve a game when there is no name for it.
LEMMA NamesOutliveRequests ==
    ASSUME KeepInv, Note, NEW r \in Requests,
           \/ \E g \in Asked : ReadName(r, g)
           \/ ReadParent(r) \/ ReadInferred(r) \/ ReadCount(r) \/ AcquireLock(r)
           \/ RequestDies(r),
           NEW x \in Games
    PROVE  HashInv(x)' /\ WriteInv(x)'
  <1>1. UNCHANGED <<entry, task, bulk>>
    BY DEF ReadName, ReadParent, ReadInferred, ReadCount, AcquireLock, RequestDies
  <1>2. HashInv(x)'
    BY <1>1 DEF KeepInv, HashInv
  <1>3. NameKoTypeOK
    BY DEF KeepInv
  <1>4. Idle.pc = "idle"
    BY DEF Idle
  <1>5. \A pc \in {"infer", "count", "lock", "publish"} : request[r].pc # "idle" =>
          [request[r] EXCEPT !.pc = pc].game = request[r].game
    BY <1>3, StateTypes DEF RequestState
  <1>6. Resolving(x)' # {} => Resolving(x) # {} \/ ~entry[x].named
    <2>1. ASSUME NEW g \in Asked, ReadName(r, g)
          PROVE  Resolving(x)' # {} => Resolving(x) # {} \/ ~entry[x].named
      <3> DEFINE state == [pc |-> "parent", game |-> g]
      <3>1. Become(r, state) /\ ~entry[g].named /\ state.game = g
        BY <2>1 DEF ReadName
      <3> HIDE DEF state
      <3> QED
        BY <1>3, <3>1, ResolvingAfter
    <2>2. CASE ReadParent(r) \/ ReadInferred(r) \/ ReadCount(r) \/ AcquireLock(r) \/ RequestDies(r)
      <3> PICK state : /\ Become(r, state)
                       /\ state.pc = "idle" \/ state.game = request[r].game
        BY <1>4, <1>5, <2>2
           DEF ReadParent, ReadInferred, ReadCount, AcquireLock, RequestDies
      <3>1. request[r].pc # "idle"
        BY <2>2 DEF ReadParent, ReadInferred, ReadCount, AcquireLock, RequestDies
      <3> QED
        BY <1>3, <3>1, ResolvingAfter DEF Resolving
    <2> QED
      BY <2>1, <2>2
  <1> QED
    BY <1>1, <1>2, <1>6, WritersUnmoved, WriterStays DEF KeepInv, Expecting

\* The message carries on what the request began.
LEMMA NamesOutlivePublishing ==
    ASSUME KeepInv, Note, NEW r \in Requests, NEW t \in Tasks, Publish(r, t), NEW x \in Games
    PROVE  HashInv(x)' /\ WriteInv(x)'
  <1>1. UNCHANGED <<entry, bulk>> /\ request[r].pc # "idle" /\ Become(r, Idle)
    BY DEF Publish
  <1>2. NameKoTypeOK
    BY DEF KeepInv
  <1> PICK state : state = Message(request[r].game, 0)
    OBVIOUS
  <1>3. /\ task' = [task EXCEPT ![t] = state]
        /\ state.game = request[r].game /\ state.pc = "queued"
    BY DEF Publish, Message
  <1>4. Resolving(x)' \subseteq Resolving(x)
    BY <1>1, <1>2, ResolvingAfter DEF Idle
  <1>5. Answering(x)' \subseteq Answering(x) \cup (IF request[r].game = x THEN {t} ELSE {})
    <2>1. Answering(x)' = (Answering(x) \ {t}) \cup
                          (IF state.pc \in {"queued", "save", "fail", "retry"} /\ state.game = x
                             THEN {t} ELSE {})
      BY ZenonT(40), <1>2, <1>3, AnsweringAfter
    <2> QED
      BY <1>3, <2>1
  <1>6. request[r].game = x => r \in Resolving(x)
    BY <1>1 DEF Resolving
  <1>7. HashInv(x)'
    BY <1>1 DEF KeepInv, HashInv
  <1> QED
    BY <1>1, <1>4, <1>5, <1>6, <1>7, WritersUnmoved, WriterStays DEF KeepInv, Expecting

\* the games other than the one a step writes
LEMMA OtherNames ==
    ASSUME KeepInv, Note, NEW x \in Games, UNCHANGED request, entry'[x] = entry[x],
           Answering(x)' \subseteq Answering(x) \/ Redelivered(x),
           Bulking(x)' \subseteq Bulking(x), Backfilling(x)' \subseteq Backfilling(x)
    PROVE  HashInv(x)' /\ WriteInv(x)'
  <1>1. HashInv(x)'
    BY DEF KeepInv, HashInv
  <1> QED
    BY <1>1, WritersUnmoved, WriterStays DEF KeepInv, Expecting

\* A fetch that asks, fails or ends writes no name and no answer.
LEMMA NamesOutliveTasks ==
    ASSUME KeepInv, Note, NEW t \in Tasks,
           Ask(t) \/ Release(t) \/ CountFailure(t) \/ GiveUp(t) \/ Ack(t), NEW x \in Games
    PROVE  HashInv(x)' /\ WriteInv(x)'
  <1>1. NameKoTypeOK /\ UNCHANGED <<request, bulk>> /\ task[t].pc # "idle"
    BY DEF KeepInv, Ask, Release, CountFailure, GiveUp, Ack
  <1>2. /\ entry'[x].named = entry[x].named /\ entry'[x].slug = entry[x].slug
        /\ entry'[x].fetched = entry[x].fetched
    <2>1. CASE entry' = Counted(task[t].game)
      <3>1. entry[x] \in Entry
        BY <1>1 DEF NameKoTypeOK
      <3> PICK n : n = Min({entry[task[t].game].failed + 1, MaxFailed})
        OBVIOUS
      <3>2. entry' = [entry EXCEPT ![task[t].game].failed = n]
        BY <2>1 DEF Counted
      <3>3. entry'[x] = IF x = task[t].game THEN [entry[x] EXCEPT !.failed = n] ELSE entry[x]
        BY <1>1, <3>2 DEF NameKoTypeOK
      <3> QED
        BY <3>1, <3>3 DEF Entry
    <2>2. CASE UNCHANGED entry
      BY <2>2
    <2> QED
      BY <2>1, <2>2 DEF Ask, Release, CountFailure, GiveUp, Ack
  <1>3. Answering(x)' \subseteq Answering(x)
    <2>1. task[t] \in TaskState \ {Idle}
      BY <1>1, StateTypes
    <2>2. CASE Ask(t) \/ CountFailure(t)
      <3>1. /\ task'[t].game = task[t].game /\ task[t].pc \in {"queued", "fail"}
            /\ \A s \in Tasks \ {t} : task'[s] = task[s]
        BY <1>1, <2>1, <2>2 DEF Ask, CountFailure, AdvanceTask, TaskState, NameKoTypeOK
      <3> QED
        BY <3>1 DEF Answering
    <2>3. CASE Release(t) \/ GiveUp(t) \/ Ack(t)
      <3>1. /\ task'[t].pc \in {"ack", "raised", "idle"}
            /\ \A s \in Tasks \ {t} : task'[s] = task[s]
        BY <1>1, <2>1, <2>3 DEF Release, GiveUp, Ack, AdvanceTask, TaskState, Idle, NameKoTypeOK
      <3> QED
        BY <3>1 DEF Answering
    <2> QED
      BY <2>2, <2>3
  <1>4. HashInv(x)'
    BY <1>2 DEF KeepInv, HashInv
  <1> QED
    BY <1>1, <1>2, <1>3, <1>4, WritersUnmoved, WriterStays DEF KeepInv, Expecting

\* Retries carry on the same fetch, and one that is delivered again is on record.
LEMMA NamesOutliveRetries ==
    ASSUME KeepInv, Note, NEW t \in Tasks,
           (\E s \in Tasks : Retry(t, s)) \/ TaskKilled(t), NEW x \in Games
    PROVE  HashInv(x)' /\ WriteInv(x)'
  <1>1. NameKoTypeOK /\ UNCHANGED <<entry, request, bulk>> /\ HashInv(x)'
    BY DEF KeepInv, Retry, TaskKilled, HashInv
  <1>2. CASE TaskKilled(t)
    <2> PICK state : state = Message(task[t].game, task[t].retries)
      OBVIOUS
    <2>1. /\ task' = [task EXCEPT ![t] = state]
          /\ state.game = task[t].game /\ state.pc = "queued"
      BY <1>2 DEF TaskKilled, Message
    <2>2. CASE task[t].game = x
      <3>1. Redelivered(x)
        BY <1>1, <1>2, <2>1, <2>2 DEF Redelivered, TaskKilled, NameKoTypeOK
      <3> QED
        BY <1>1, <3>1, WritersUnmoved, OtherNames
    <2>3. CASE task[t].game # x
      <3>1. Answering(x)' = (Answering(x) \ {t}) \cup
                            (IF state.pc \in {"queued", "save", "fail", "retry"} /\ state.game = x
                               THEN {t} ELSE {})
        BY <1>1, <2>1, AnsweringAfter
      <3>2. Answering(x)' \subseteq Answering(x)
        BY <2>1, <2>3, <3>1
      <3> QED
        BY <1>1, <3>2, WritersUnmoved, OtherNames
    <2> QED
      BY <2>2, <2>3
  <1>3. ASSUME NEW s \in Tasks, Retry(t, s) PROVE HashInv(x)' /\ WriteInv(x)'
    <2> PICK message : message = Message(task[t].game, task[t].retries + 1)
      OBVIOUS
    <2>1. /\ task' = [task EXCEPT ![t].pc = "ack", ![s] = message]
          /\ message.game = task[t].game /\ task[t].pc = "retry" /\ task[s].pc = "idle"
      BY <1>3 DEF Retry, Message
    <2>2. task[t] \in TaskState \ {Idle} /\ s # t
      BY <1>1, <2>1, StateTypes
    <2>3. /\ task'[t].pc = "ack" /\ task'[s] = message
          /\ \A v \in Tasks \ {t, s} : task'[v] = task[v]
      BY <1>1, <2>1, <2>2 DEF TaskState, NameKoTypeOK
    <2>4. Answering(x)' # {} => Answering(x) # {}
      <3>1. s \in Answering(x)' => t \in Answering(x)
        BY <2>1, <2>3 DEF Answering
      <3>2. t \notin Answering(x)'
        BY <2>3 DEF Answering
      <3>3. \A v \in Tasks \ {t, s} : v \in Answering(x)' => v \in Answering(x)
        BY <2>3 DEF Answering
      <3>4. Answering(x)' \subseteq Tasks
        BY DEF Answering
      <3> QED
        BY <3>1, <3>2, <3>3, <3>4
    <2> QED
      BY <1>1, <2>4, WritersUnmoved, WriterStays DEF KeepInv, Expecting
  <1> QED
    BY <1>2, <1>3

\* The fields of a game after an answer, and those of the others.
LEMMA SavedFields ==
    ASSUME NameKoTypeOK, NEW g \in Games, NEW found, entry' = Saved(g, found), NEW x \in Games
    PROVE  /\ x # g => entry'[x] = entry[x]
           /\ entry'[g].fetched = "recent" /\ entry'[g].named = found
  <1>1. entry[g] \in Entry
    BY DEF NameKoTypeOK
  <1>2. entry' = [entry EXCEPT ![g] =
                     [entry[g] EXCEPT !.named = found, !.slug = TRUE, !.fetched = "recent"]]
    BY DEF Saved, NameKoTypeOK
  <1> QED
    BY <1>1, <1>2 DEF NameKoTypeOK, Entry

\* A fetch that saves its answer leaves the writers.
LEMMA NamesOutliveSaves ==
    ASSUME KeepInv, Note, NEW t \in Tasks, Save(t), NEW x \in Games
    PROVE  HashInv(x)' /\ WriteInv(x)'
  <1>1. NameKoTypeOK /\ UNCHANGED <<request, bulk>> /\ task[t].pc = "save"
    BY DEF KeepInv, Save
  <1>2. task[t] \in TaskState \ {Idle} /\ task[t].game \in Games
    BY <1>1, StateTypes
  <1>3. task'[t].pc = "release" /\ \A s \in Tasks \ {t} : task'[s] = task[s]
    BY <1>1, <1>2 DEF Save, TaskState, NameKoTypeOK
  <1>4. Answering(x)' = Answering(x) \ {t}
    BY <1>1, <1>3 DEF Answering
  <1>5. CASE x # task[t].game
    <2>1. entry'[x] = entry[x]
      BY <1>1, <1>2, <1>5, SavedFields DEF Save
    <2> QED
      BY <1>1, <1>4, <2>1, WritersUnmoved, OtherNames
  <1>6. CASE x = task[t].game
    <2>1. HashInv(x)'
      BY <1>1, <1>2, <1>6, SavedFields DEF Save, KeepInv, HashInv
    <2>2. t \in Answering(x)
      BY <1>1, <1>6 DEF Answering
    <2>3. Writers(x)' = Resolving(x) \cup (Answering(x) \ {t}) \cup Bulking(x)
      BY <1>1, <1>4, WritersUnmoved, WritersAreNext
    <2>4. t \notin Resolving(x) /\ t \notin Bulking(x)
      BY NameKoAssumption DEF Resolving, Bulking
    <2>5. t \in Writers(x) /\ Writers(x)' \subseteq Writers(x) \ {t}
      BY <2>2, <2>3, <2>4, WritersAre
    <2> QED
      BY <2>1, <2>5, WriterLeaves DEF KeepInv
  <1> QED
    BY <1>5, <1>6

\* the fields of a run that begins
LEMMA BulkFields ==
    \A pc, back, ids :
        /\ Bulk(pc, back, ids).pc = pc /\ Bulk(pc, back, ids).backfill = back
        /\ Bulk(pc, back, ids).todo = ids /\ Bulk(pc, back, ids).chunk = {}
  BY DEF Bulk

\* A run that reads: it begins without overlap among its games, and a backfill begins from
\* games without a name whose answer is not of the last week.
LEMMA NamesOutliveScans ==
    ASSUME KeepInv, Note, NEW b \in Bulks, BackfillScan(b) \/ FillNames(b)
    PROVE  /\ \A c \in Bulks : BulkInv(c)'
           /\ \A x \in Games : HashInv(x)' /\ WriteInv(x)'
  <1>1. NameKoTypeOK /\ UNCHANGED <<entry, request, task>>
    BY DEF KeepInv, BackfillScan, FillNames
  <1> PICK pc, back, ids :
        /\ AdvanceBulk(b, Bulk(pc, back, ids)) /\ (pc = "slugs" => back)
        /\ back => \A x \in ids : ~entry[x].named /\ entry[x].fetched # "recent"
    <2>1. CASE FillNames(b)
      <3> PICK ids \in SUBSET Games : AdvanceBulk(b, Bulk("query", FALSE, ids))
        BY <2>1 DEF FillNames
      <3> WITNESS "query", FALSE, ids
      <3> QED
        OBVIOUS
    <2>2. CASE BackfillScan(b)
      <3> PICK scanned \in UpTo(2 * BatchSize, Pending \cup Due) :
              \E pending \in UpTo(BatchSize, scanned \cap Pending),
                 due \in UpTo(BatchSize, scanned \cap Due) :
                AdvanceBulk(b, Bulk("slugs", TRUE, pending \cup due))
        BY <2>2 DEF BackfillScan
      <3> PICK pending \in UpTo(BatchSize, scanned \cap Pending),
               due \in UpTo(BatchSize, scanned \cap Due) :
              AdvanceBulk(b, Bulk("slugs", TRUE, pending \cup due))
        OBVIOUS
      <3>1. pending \subseteq Pending /\ due \subseteq Due
        BY ChunksAreSubsets
      <3>2. \A x \in pending \cup due : ~entry[x].named /\ entry[x].fetched # "recent"
        BY <3>1 DEF Pending, Due, KeepInv, HashInv
      <3> WITNESS "slugs", TRUE, pending \cup due
      <3> QED
        BY <3>2
    <2> QED
      BY <2>1, <2>2
  <1> PICK state : state = Bulk(pc, back, ids)
    OBVIOUS
  <1>2. /\ AdvanceBulk(b, state) /\ state.pc = pc /\ state.backfill = back
        /\ state.todo = ids /\ state.chunk = {}
    BY BulkFields
  <1>3. \A c \in Bulks : BulkInv(c)'
    <2>1. \A c \in Bulks : bulk'[c] = IF c = b THEN state ELSE bulk[c]
      BY <1>1, <1>2 DEF AdvanceBulk, NameKoTypeOK
    <2> QED
      BY <1>2, <2>1 DEF KeepInv, BulkInv
  <1> SUFFICES ASSUME NEW x \in Games PROVE HashInv(x)' /\ WriteInv(x)'
    BY <1>3
  <1>4. Backfilling(x)' # {} =>
          Backfilling(x) # {} \/ (~entry[x].named /\ entry[x].fetched # "recent")
    BY <1>1, <1>2, BackfillingAfter
  <1>5. HashInv(x)'
    BY <1>1 DEF KeepInv, HashInv
  <1> QED
    BY <1>1, <1>4, <1>5, WritersUnmoved, WriterStays DEF KeepInv, Expecting

\* A run whose games become fewer, and which stays a backfill
LEMMA FewerGames ==
    ASSUME KeepInv, Note, NEW b \in Bulks, bulk[b].pc # "idle",
           UNCHANGED <<entry, request, task>>, NEW state, AdvanceBulk(b, state),
           state.pc # "idle" =>
               /\ state.todo \cup state.chunk \subseteq bulk[b].todo \cup bulk[b].chunk
               /\ state.todo \cap state.chunk = {}
               /\ state.backfill => bulk[b].backfill
               /\ state.pc # "slugs"
    PROVE  /\ \A c \in Bulks : BulkInv(c)'
           /\ \A x \in Games : HashInv(x)' /\ WriteInv(x)'
  <1>1. NameKoTypeOK
    BY DEF KeepInv
  <1>2. \A c \in Bulks : bulk'[c] = IF c = b THEN state ELSE bulk[c]
    BY <1>1 DEF AdvanceBulk, NameKoTypeOK
  <1>3. \A c \in Bulks : BulkInv(c)'
    BY <1>2 DEF KeepInv, BulkInv
  <1> SUFFICES ASSUME NEW x \in Games PROVE HashInv(x)' /\ WriteInv(x)'
    BY <1>3
  <1>4. Bulking(x)' \subseteq Bulking(x)
    BY <1>2 DEF Bulking
  <1>5. Backfilling(x)' \subseteq Backfilling(x)
    BY <1>2 DEF Bulking, Backfilling
  <1> QED
    BY <1>4, <1>5, WritersUnmoved, OtherNames

LEMMA NamesOutliveQueries ==
    ASSUME KeepInv, Note, NEW b \in Bulks,
           BackfillSlugs(b) \/ QueryChunk(b) \/ QueryCleaned(b) \/ BulkDies(b)
    PROVE  /\ \A c \in Bulks : BulkInv(c)'
           /\ \A x \in Games : HashInv(x)' /\ WriteInv(x)'
  <1>1. /\ NameKoTypeOK /\ UNCHANGED <<entry, request, task>> /\ bulk[b].pc # "idle"
        /\ bulk[b] \in BulkState \ {Idle} /\ BulkInv(b)
    BY StateTypes DEF KeepInv, BackfillSlugs, QueryChunk, QueryCleaned, BulkDies
  <1> PICK state :
        /\ AdvanceBulk(b, state)
        /\ state.pc # "idle" =>
               /\ state.todo \cup state.chunk \subseteq bulk[b].todo \cup bulk[b].chunk
               /\ state.todo \cap state.chunk = {}
               /\ state.backfill => bulk[b].backfill
               /\ state.pc # "slugs"
    <2>1. Idle.pc = "idle"
      BY DEF Idle
    <2>2. CASE BulkDies(b)
      BY <2>1, <2>2 DEF BulkDies
    <2>3. CASE BackfillSlugs(b)
      <3>1. WithSlug(bulk[b].todo) \subseteq bulk[b].todo
        BY DEF WithSlug
      <3>2. bulk[b].backfill /\ bulk[b].pc = "slugs"
        BY <1>1, <2>3 DEF BackfillSlugs, BulkInv
      <3>3. CASE WithSlug(bulk[b].todo) = {}
        BY <2>1, <2>3, <3>3 DEF BackfillSlugs
      <3>4. CASE WithSlug(bulk[b].todo) # {}
        <4> DEFINE next == Bulk("query", TRUE, WithSlug(bulk[b].todo))
        <4>1. AdvanceBulk(b, next)
          BY <2>3, <3>4 DEF BackfillSlugs
        <4>2. /\ next.todo = WithSlug(bulk[b].todo) /\ next.chunk = {} /\ next.pc = "query"
          BY DEF Bulk
        <4> HIDE DEF next
        <4> QED
          BY <3>1, <3>2, <4>1, <4>2
      <3> QED
        BY <3>3, <3>4
    <2>4. CASE QueryChunk(b)
      <3> PICK chunk \in UpTo(ChunkSize, bulk[b].todo) :
            \E found \in SUBSET (chunk \cap Named) :
              AdvanceBulk(b, [bulk[b] EXCEPT
                  !.pc = IF Cleanable(chunk \ found) = {} THEN "save" ELSE "clean",
                  !.todo = @ \ chunk, !.chunk = chunk, !.found = found])
        BY <2>4 DEF QueryChunk
      <3> PICK found \in SUBSET (chunk \cap Named) :
            AdvanceBulk(b, [bulk[b] EXCEPT
                !.pc = IF Cleanable(chunk \ found) = {} THEN "save" ELSE "clean",
                !.todo = @ \ chunk, !.chunk = chunk, !.found = found])
        OBVIOUS
      <3> PICK pc : pc = IF Cleanable(chunk \ found) = {} THEN "save" ELSE "clean"
        OBVIOUS
      <3> DEFINE next == [bulk[b] EXCEPT
              !.pc = pc, !.todo = @ \ chunk, !.chunk = chunk, !.found = found]
      <3>1. chunk \subseteq bulk[b].todo
        BY ChunksAreSubsets
      <3>2. /\ next.todo = bulk[b].todo \ chunk /\ next.chunk = chunk
            /\ next.backfill = bulk[b].backfill /\ next.pc \in {"save", "clean"}
        BY <1>1 DEF BulkState
      <3>3. AdvanceBulk(b, next)
        OBVIOUS
      <3> HIDE DEF next
      <3> QED
        BY <3>1, <3>2, <3>3
    <2>5. CASE QueryCleaned(b)
      <3> PICK found : AdvanceBulk(b, [bulk[b] EXCEPT !.pc = "save", !.found = found])
        BY <2>5 DEF QueryCleaned
      <3> DEFINE next == [bulk[b] EXCEPT !.pc = "save", !.found = found]
      <3>1. /\ next.todo = bulk[b].todo /\ next.chunk = bulk[b].chunk
            /\ next.backfill = bulk[b].backfill /\ next.pc = "save"
        BY <1>1 DEF BulkState
      <3>2. AdvanceBulk(b, next)
        OBVIOUS
      <3> HIDE DEF next
      <3> QED
        BY <1>1, <3>1, <3>2 DEF BulkInv
    <2> QED
      BY <2>2, <2>3, <2>4, <2>5
  <1> QED
    BY <1>1, FewerGames

\* the fields of a run after it has saved a game
LEMMA AfterSaveFields ==
    ASSUME NameKoTypeOK, NEW b \in Bulks, NEW g \in Games, SaveNext(b, g)
    PROVE  \E state :
              /\ AdvanceBulk(b, state)
              /\ state.pc # "idle" =>
                    /\ state.todo = bulk[b].todo /\ state.chunk = bulk[b].chunk \ {g}
                    /\ state.backfill = bulk[b].backfill /\ state.pc # "slugs"
  <1>1. bulk[b] \in BulkState \ {Idle} /\ bulk[b].pc = "save"
    BY StateTypes DEF SaveNext
  <1> DEFINE missed == IF bulk[b].backfill /\ g \notin bulk[b].found
                         THEN bulk[b].missed \cup {g} ELSE bulk[b].missed
             state == [bulk[b] EXCEPT !.chunk = @ \ {g}, !.missed = missed]
  <1>2. AdvanceBulk(b, AfterSave(state))
    BY DEF SaveNext
  <1>3. /\ state.todo = bulk[b].todo /\ state.chunk = bulk[b].chunk \ {g}
        /\ state.backfill = bulk[b].backfill /\ state.pc = "save"
    BY <1>1 DEF BulkState
  <1>4. \A pc \in {"query", "count"} :
          LET next == [state EXCEPT !.pc = pc, !.found = {}]
          IN  /\ next.todo = bulk[b].todo /\ next.chunk = bulk[b].chunk \ {g}
              /\ next.backfill = bulk[b].backfill /\ next.pc = pc
    BY <1>1 DEF BulkState
  <1>5. Idle.pc = "idle"
    BY DEF Idle
  <1> HIDE DEF state
  <1>6. AfterSave(state) \in
          {state, Idle, [state EXCEPT !.pc = "query", !.found = {}],
                        [state EXCEPT !.pc = "count", !.found = {}]}
    BY DEF AfterSave
  <1> PICK next : next = AfterSave(state)
    OBVIOUS
  <1>7. /\ AdvanceBulk(b, next)
        /\ next.pc # "idle" =>
              /\ next.todo = bulk[b].todo /\ next.chunk = bulk[b].chunk \ {g}
              /\ next.backfill = bulk[b].backfill /\ next.pc # "slugs"
    BY <1>2, <1>3, <1>4, <1>5, <1>6
  <1> QED
    BY <1>7

\* A run that saves the answer about a game leaves its writers.
LEMMA NamesOutliveChunks ==
    ASSUME KeepInv, Note, NEW b \in Bulks, NEW g \in Games, SaveNext(b, g)
    PROVE  /\ \A c \in Bulks : BulkInv(c)'
           /\ \A x \in Games : HashInv(x)' /\ WriteInv(x)'
  <1>1. /\ NameKoTypeOK /\ UNCHANGED <<request, task>> /\ BulkInv(b)
        /\ bulk[b].pc = "save" /\ g \in bulk[b].chunk /\ entry' = Saved(g, g \in bulk[b].found)
    BY DEF KeepInv, SaveNext
  <1> PICK state :
        /\ AdvanceBulk(b, state)
        /\ state.pc # "idle" =>
              /\ state.todo = bulk[b].todo /\ state.chunk = bulk[b].chunk \ {g}
              /\ state.backfill = bulk[b].backfill /\ state.pc # "slugs"
    BY <1>1, AfterSaveFields
  <1>2. \A c \in Bulks : bulk'[c] = IF c = b THEN state ELSE bulk[c]
    BY <1>1 DEF AdvanceBulk, NameKoTypeOK
  <1>3. \A c \in Bulks : BulkInv(c)'
    BY <1>1, <1>2 DEF KeepInv, BulkInv
  <1> SUFFICES ASSUME NEW x \in Games PROVE HashInv(x)' /\ WriteInv(x)'
    BY <1>3
  <1>4. Bulking(x)' \subseteq Bulking(x) /\ Backfilling(x)' \subseteq Backfilling(x)
    <2>1. state.pc # "idle" /\ x \in state.todo \cup state.chunk =>
            bulk[b].pc # "idle" /\ x \in bulk[b].todo \cup bulk[b].chunk
      BY <1>1
    <2>2. Bulking(x)' \subseteq Bulking(x)
      BY <1>2, <2>1 DEF Bulking
    <2>3. \A c \in Backfilling(x)' : bulk[c].backfill
      BY <1>2 DEF Bulking, Backfilling
    <2> QED
      BY <2>2, <2>3 DEF Backfilling
  <1> PICK found : found = (g \in bulk[b].found)
    OBVIOUS
  <1>5. /\ x # g => entry'[x] = entry[x]
        /\ entry'[g].fetched = "recent"
    BY <1>1, SavedFields
  <1>6. CASE x # g
    BY <1>1, <1>4, <1>5, <1>6, WritersUnmoved, OtherNames
  <1>7. CASE x = g
    <2>1. HashInv(x)'
      BY <1>5, <1>7 DEF HashInv
    <2>2. b \in Bulking(x) /\ b \notin Bulking(x)'
      BY <1>1, <1>2, <1>7 DEF Bulking, BulkInv
    <2>3. Writers(x)' = Resolving(x) \cup Answering(x) \cup Bulking(x)'
      BY <1>1, WritersUnmoved, WritersAreNext
    <2>4. b \notin Resolving(x) /\ b \notin Answering(x)
      BY NameKoAssumption DEF Resolving, Answering
    <2>5. b \in Writers(x) /\ Writers(x)' \subseteq Writers(x) \ {b}
      BY <1>4, <2>2, <2>3, <2>4, WritersAre
    <2> QED
      BY <2>1, <2>5, WriterLeaves DEF KeepInv
  <1> QED
    BY <1>6, <1>7

\* A run that counts a miss writes no name and no answer.
LEMMA NamesOutliveMisses ==
    ASSUME KeepInv, Note, NEW b \in Bulks, NEW g \in Games, CountMiss(b, g)
    PROVE  /\ \A c \in Bulks : BulkInv(c)'
           /\ \A x \in Games : HashInv(x)' /\ WriteInv(x)'
  <1>1. /\ NameKoTypeOK /\ UNCHANGED <<request, task>> /\ BulkInv(b)
        /\ bulk[b].pc = "count" /\ bulk[b] \in BulkState \ {Idle}
    BY StateTypes DEF KeepInv, CountMiss
  <1> PICK state :
        /\ AdvanceBulk(b, state)
        /\ state.pc # "idle" =>
              /\ state.todo = bulk[b].todo /\ state.chunk = bulk[b].chunk
              /\ state.backfill = bulk[b].backfill /\ state.pc # "slugs"
    <2> DEFINE next == [bulk[b] EXCEPT !.missed = @ \ {g}]
    <2>1. /\ next.todo = bulk[b].todo /\ next.chunk = bulk[b].chunk
          /\ next.backfill = bulk[b].backfill /\ next.pc = "count"
      BY <1>1 DEF BulkState
    <2>2. AdvanceBulk(b, Idle) \/ AdvanceBulk(b, next)
      BY DEF CountMiss
    <2>3. Idle.pc = "idle"
      BY DEF Idle
    <2> HIDE DEF next
    <2> QED
      BY <2>1, <2>2, <2>3
  <1>2. \A c \in Bulks : bulk'[c] = IF c = b THEN state ELSE bulk[c]
    BY <1>1 DEF AdvanceBulk, NameKoTypeOK
  <1>3. \A c \in Bulks : BulkInv(c)'
    BY <1>1, <1>2 DEF KeepInv, BulkInv
  <1> SUFFICES ASSUME NEW x \in Games PROVE HashInv(x)' /\ WriteInv(x)'
    BY <1>3
  <1>4. /\ entry'[x].named = entry[x].named /\ entry'[x].slug = entry[x].slug
        /\ entry'[x].fetched = entry[x].fetched
    <2>1. entry[x] \in Entry
      BY <1>1 DEF NameKoTypeOK
    <2> PICK n : n = Min({entry[g].failed + 1, MaxFailed})
      OBVIOUS
    <2>2. entry' = [entry EXCEPT ![g].failed = n]
      BY DEF CountMiss, Counted
    <2>3. entry'[x] = IF x = g THEN [entry[x] EXCEPT !.failed = n] ELSE entry[x]
      BY <1>1, <2>2 DEF NameKoTypeOK
    <2> QED
      BY <2>1, <2>3 DEF Entry
  <1>5. Backfilling(x)' \subseteq Backfilling(x)
    BY <1>1, <1>2 DEF Bulking, Backfilling
  <1>6. HashInv(x)'
    BY <1>4 DEF KeepInv, HashInv
  <1> QED
    BY <1>1, <1>4, <1>5, <1>6, WritersUnmoved, WriterStays DEF KeepInv, Expecting

\* Every step preserves the invariant.
LEMMA NamesAreKept ==
    ASSUME KeepInv, [NameKoNext]_<<nameVars, nameHistory>>
    PROVE  KeepInv'
  <1>1. NameKoTypeOK'
    BY NamesArePreserved DEF KeepInv
  <1>2. CASE UNCHANGED <<nameVars, nameHistory>>
    <2>1. \A x \in Games : HashInv(x)' /\ WriteInv(x)'
      BY <1>2, WritersUnmoved
         DEF nameVars, nameHistory, KeepInv, HashInv, WriteInv, Expecting, Writers, Resolving,
             Answering, Bulking, Backfilling
    <2>2. \A b \in Bulks : BulkInv(b)'
      BY <1>2 DEF nameVars, KeepInv, BulkInv
    <2> QED
      BY <1>1, <2>1, <2>2 DEF KeepInv
  <1>3. CASE NameKoNext
    <2>1. Note
      BY <1>3 DEF NameKoNext
    <2>2. ASSUME UNCHANGED bulk PROVE \A b \in Bulks : BulkInv(b)'
      BY <2>2 DEF KeepInv, BulkInv
    <2>3. ASSUME NEW g \in Games, EntryAges(g) \/ EntryExpires(g) \/ LockExpires(g)
          PROVE  KeepInv'
      <3>1. UNCHANGED bulk
        BY <2>3 DEF EntryAges, EntryExpires, LockExpires
      <3> QED
        BY <1>1, <2>1, <2>2, <2>3, <3>1, NamesOutliveAgeing DEF KeepInv
    <2>4. ASSUME NEW r \in Requests,
                 \/ \E g \in Asked : ReadName(r, g)
                 \/ ReadParent(r) \/ ReadInferred(r) \/ ReadCount(r) \/ AcquireLock(r)
                 \/ \E t \in Tasks : Publish(r, t)
                 \/ RequestDies(r)
          PROVE  KeepInv'
      <3>1. UNCHANGED bulk
        BY <2>4 DEF ReadName, ReadParent, ReadInferred, ReadCount, AcquireLock, Publish,
           RequestDies
      <3>2. \A x \in Games : HashInv(x)' /\ WriteInv(x)'
        BY <2>1, <2>4, NamesOutliveRequests, NamesOutlivePublishing
      <3> QED
        BY <1>1, <2>2, <3>1, <3>2 DEF KeepInv
    <2>5. ASSUME NEW t \in Tasks,
                 \/ Ask(t) \/ Save(t) \/ Release(t) \/ CountFailure(t)
                 \/ \E s \in Tasks : Retry(t, s)
                 \/ GiveUp(t) \/ Ack(t) \/ TaskKilled(t)
          PROVE  KeepInv'
      <3>1. UNCHANGED bulk
        BY <2>5 DEF Ask, Save, Release, CountFailure, Retry, GiveUp, Ack, TaskKilled
      <3>2. \A x \in Games : HashInv(x)' /\ WriteInv(x)'
        BY <2>1, <2>5, NamesOutliveTasks, NamesOutliveRetries, NamesOutliveSaves
      <3> QED
        BY <1>1, <2>2, <3>1, <3>2 DEF KeepInv
    <2>6. ASSUME NEW b \in Bulks,
                 \/ BackfillScan(b) \/ BackfillSlugs(b) \/ FillNames(b)
                 \/ QueryChunk(b) \/ QueryCleaned(b)
                 \/ \E g \in Games : SaveNext(b, g) \/ CountMiss(b, g)
                 \/ BulkDies(b)
          PROVE  KeepInv'
      <3>1. /\ \A c \in Bulks : BulkInv(c)'
            /\ \A x \in Games : HashInv(x)' /\ WriteInv(x)'
        BY <2>1, <2>6, NamesOutliveScans, NamesOutliveQueries, NamesOutliveChunks,
           NamesOutliveMisses
      <3> QED
        BY <1>1, <3>1 DEF KeepInv
    <2> QED
      BY <1>3, <2>3, <2>4, <2>5, <2>6 DEF NameKoNext, NameStep
  <1> QED
    BY <1>2, <1>3

\* A Korean name is replaced by an empty answer only by a command, or while the writers of
\* the game mix: who else answers is alone, and found no name.
THEOREM NamesStay == NameKoSpec => NameIsKept
  <1> DEFINE Kept == \A g \in Games :
                        (entry[g].named /\ ~entry'[g].named /\ entry'[g] # Absent) =>
                           \/ g \in mixed
                           \/ \E b \in Bulks : bulk[b].pc = "save" /\ ~bulk[b].backfill
                                                 /\ g \in bulk[b].chunk
  <1>1. ASSUME KeepInv, NameStep PROVE Kept
    <2> SUFFICES ASSUME NEW g \in Games, entry[g].named, ~entry'[g].named, entry'[g] # Absent,
                        g \notin mixed
                 PROVE  \E b \in Bulks : bulk[b].pc = "save" /\ ~bulk[b].backfill
                                           /\ g \in bulk[b].chunk
      OBVIOUS
    <2>1. NameKoTypeOK /\ entry[g] \in Entry /\ Expecting(g) = {}
      BY <1>1 DEF KeepInv, NameKoTypeOK, WriteInv
    <2>2. ASSUME NEW h \in Games, entry' = Counted(h) PROVE FALSE
      <3> PICK n : n = Min({entry[h].failed + 1, MaxFailed})
        OBVIOUS
      <3>1. entry'[g] = IF g = h THEN [entry[g] EXCEPT !.failed = n] ELSE entry[g]
        BY <2>1, <2>2 DEF Counted, NameKoTypeOK
      <3> QED
        BY <2>1, <3>1 DEF Entry
    <2>3. ASSUME NEW h \in Games, EntryAges(h) \/ EntryExpires(h) \/ LockExpires(h)
          PROVE  FALSE
      BY <2>1, <2>3 DEF EntryAges, EntryExpires, LockExpires, Entry, NameKoTypeOK
    <2>4. ASSUME NEW r \in Requests,
                 \/ \E h \in Asked : ReadName(r, h)
                 \/ ReadParent(r) \/ ReadInferred(r) \/ ReadCount(r) \/ AcquireLock(r)
                 \/ \E t \in Tasks : Publish(r, t)
                 \/ RequestDies(r)
          PROVE  FALSE
      BY <2>4 DEF ReadName, ReadParent, ReadInferred, ReadCount, AcquireLock, Publish, RequestDies
    <2>5. ASSUME NEW t \in Tasks,
                 \/ Ask(t) \/ Release(t)
                 \/ \E s \in Tasks : Retry(t, s)
                 \/ Ack(t) \/ TaskKilled(t)
          PROVE  FALSE
      BY <2>5 DEF Ask, Release, Retry, Ack, TaskKilled
    <2>6. ASSUME NEW t \in Tasks, CountFailure(t) \/ GiveUp(t) PROVE FALSE
      BY <2>1, <2>2, <2>6, StateTypes DEF CountFailure, GiveUp
    <2>7. ASSUME NEW t \in Tasks, Save(t) PROVE FALSE
      <3>1. task[t].pc = "save" /\ task[t].game \in Games
        BY <2>1, <2>7, StateTypes DEF Save
      <3>2. task[t].game # g
        BY <2>1, <3>1 DEF Expecting, Answering
      <3>3. entry'[g] = entry[g]
        BY <2>1, <2>7, <3>1, <3>2, SavedFields DEF Save
      <3> QED
        BY <3>3
    <2>8. ASSUME NEW b \in Bulks,
                 \/ BackfillScan(b) \/ BackfillSlugs(b) \/ FillNames(b)
                 \/ QueryChunk(b) \/ QueryCleaned(b) \/ BulkDies(b)
          PROVE  FALSE
      BY <2>8 DEF BackfillScan, BackfillSlugs, FillNames, QueryChunk, QueryCleaned, BulkDies
    <2>9. ASSUME NEW b \in Bulks, NEW h \in Games, CountMiss(b, h) PROVE FALSE
      BY <2>2, <2>9 DEF CountMiss
    <2>10. ASSUME NEW b \in Bulks, NEW h \in Games, SaveNext(b, h)
           PROVE  bulk[b].pc = "save" /\ ~bulk[b].backfill /\ g \in bulk[b].chunk
      <3>1. bulk[b].pc = "save" /\ h \in bulk[b].chunk /\ entry' = Saved(h, h \in bulk[b].found)
        BY <2>10 DEF SaveNext
      <3>2. g # h => entry'[g] = entry[g]
        BY <2>1, <3>1, SavedFields
      <3>3. g = h
        BY <3>2
      <3>4. b \in Bulking(g)
        BY <3>1, <3>3 DEF Bulking
      <3> QED
        BY <2>1, <3>1, <3>3, <3>4 DEF Expecting, Backfilling
    <2> QED
      BY <1>1, <2>3, <2>4, <2>5, <2>6, <2>7, <2>8, <2>9, <2>10 DEF NameStep
  <1>2. ASSUME KeepInv, [NameKoNext]_<<nameVars, nameHistory>> PROVE [Kept]_nameVars
    BY <1>1, <1>2 DEF NameKoNext, nameVars, nameHistory
  <1> QED
    BY <1>2, KeepHoldsInitially, NamesAreKept, PTL DEF NameKoSpec, NameIsKept

\* The backfill overwrites a recent answer only if another writer stored it in the meantime.
THEOREM BackfillWaits == NameKoSpec => BackfillWaitsAWeek
  <1>1. ASSUME KeepInv PROVE [WaitsAWeek]_nameVars
    <2> SUFFICES ASSUME NEW b \in Bulks, NEW g \in Games, bulk[b].pc = "save",
                        bulk[b].backfill, entry[g].fetched = "recent", SaveNext(b, g)
                 PROVE  g \in mixed
      BY DEF WaitsAWeek
    <2>1. b \in Backfilling(g)
      BY DEF SaveNext, Bulking, Backfilling
    <2> QED
      BY <1>1, <2>1 DEF KeepInv, WriteInv
  <1> QED
    BY <1>1, KeepHoldsInitially, NamesAreKept, PTL DEF NameKoSpec, BackfillWaitsAWeek
=============================================================================
