---------------------------- MODULE Interactions ----------------------------
(***************************************************************************)
(* The interaction log, its scoring rules and the affinity rows.  Views,   *)
(* searches and store clicks are scored under the user's row lock with     *)
(* rules read before it; reactions read the affinity row, then write it    *)
(* back as a whole together with their log rows.                           *)
(***************************************************************************)
EXTENDS Naturals, Sequences, FiniteSets, FiniteSetsExt

CONSTANTS
    Users, Games, Sources,
    Details,     \* search queries and stores; a view has NoDetail
    NoDetail,
    Requests,
    Events,      \* the scored interactions clients send
    Reactions,   \* the reaction requests clients send
    InitialRule, \* the seeded row of every action type
    InitialMultiplier,
    Patches, ContextPatches, \* the rule changes administrators send
    MaxRepeat,   \* MAX_EFFECTIVE_REPEAT_COUNT
    WeightLimit, \* numeric(6,4): the first weight that does not fit
    MaxLogs,     \* bound: rows of the log
    MaxTime      \* bound: the clock, in seconds

Scored == {"view", "search", "store_click"}
Likes == {"like", "neutral", "dislike"}
Saves == {"saved_add", "saved_remove"}
Unset == "unset"

Event == [user: Users, game: Games, type: Scored, source: Sources,
          detail: Details \cup {NoDetail}]
Reaction == [user: Users, game: Games, source: Sources,
             reaction: Likes \cup {Unset}, saved: Saves \cup {Unset}]
\* repeat_decay in tenths
Rule == [base: Nat, cooldown: Nat, decay: Nat]

ASSUME InteractionsAssumption ==
    /\ Events \subseteq Event /\ Reactions \subseteq Reaction
    /\ InitialRule \in Rule
    /\ \A p \in Patches : /\ p.type \in Scored
                           /\ DOMAIN p.set \subseteq {"base", "cooldown", "decay"}
                           /\ \A f \in DOMAIN p.set : p.set[f] \in Nat
    /\ InitialMultiplier \in Nat
    /\ ContextPatches \subseteq [source: Sources, multiplier: Nat]
    /\ MaxRepeat \in Nat /\ WeightLimit \in Nat /\ MaxLogs \in Nat /\ MaxTime \in Nat

VARIABLES
    rule,      \* table interaction_weight_rules
    context,   \* table interaction_context_rules: the multiplier of each source
    log,       \* table interaction_logs, in the order of created_at
    affinity,  \* table user_game_affinity
    request,   \* what each web request is doing
    contended, \* history: affinity rows a save has overwritten with an older state
    now

interactionVars == <<rule, context, log, affinity, request, contended, now>>

\* weight: the factors of the stored product; cooldown: history, the one it was checked with
NoWeight == [repeat |-> 0]
Weight == [base: Nat, multiplier: Nat, decay: Nat, repeat: 0..MaxRepeat]
Log == [user: Users, game: Games, type: Scored \cup Likes \cup Saves, source: Sources,
        detail: Details \cup {NoDetail}, weight: Weight \cup {NoWeight},
        cooldown: Nat, at: 0..MaxTime]
\* like_state, and is_saved by the type of log row that sets it
Affinity == [like: Likes, saved: Saves]

Idle == [pc |-> "idle"]
ContextState == [pc: {"context"}, event: Event, rule: Rule]
LockState == [pc: {"lock"}, event: Event, rule: Rule, multiplier: Nat]
InsertState == [pc: {"insert"}, event: Event, row: Log]
SaveState == [pc: {"save"}, type: Scored, row: Rule]
ReactState == [pc: {"react"}, reaction: Reaction, seen: Affinity]
RequestState == ContextState \cup LockState \cup InsertState \cup SaveState
                  \cup ReactState \cup {Idle}

InteractionsTypeOK ==
    /\ rule \in [Scored -> Rule]
    /\ context \in [Sources -> Nat]
    /\ log \in Seq(Log) /\ Len(log) <= MaxLogs
    /\ affinity \in [Users \X Games -> Affinity]
    /\ request \in [Requests -> RequestState]
    /\ contended \subseteq Users \X Games
    /\ now \in 0..MaxTime

InteractionsInit ==
    /\ rule = [t \in Scored |-> InitialRule]
    /\ context = [s \in Sources |-> InitialMultiplier]
    /\ log = <<>>
    /\ affinity = [p \in Users \X Games |-> [like |-> "neutral", saved |-> "saved_remove"]]
    /\ request = [r \in Requests |-> Idle]
    /\ contended = {}
    /\ now = 0

-----------------------------------------------------------------------------
Become(r, rec) == request' = [request EXCEPT ![r] = rec]
Finish(r) == Become(r, Idle)

\* The rows that count as repetitions of an event: a store click repeats per store,
\* a search whatever the query was
\* mutated form: repetitions are counted per page
SameSeriesOnPage(l, e) ==
    /\ <<l.user, l.game, l.type, l.source>> = <<e.user, e.game, e.type, e.source>>
    /\ e.type = "store_click" => l.detail = e.detail
SameSeries(l, e) ==
    /\ <<l.user, l.game, l.type>> = <<e.user, e.game, e.type>>
    /\ e.type = "store_click" => l.detail = e.detail

\* The rows a request may return instead of a new one
SameAction(l, e) ==
    /\ <<l.user, l.game, l.type, l.source>> = <<e.user, e.game, e.type, e.source>>
    /\ l.detail = e.detail
    /\ l.weight # NoWeight

RepeatCount(e) == Cardinality({i \in DOMAIN log : SameSeries(log[i], e)})

\* mutated form: the count is not capped
EffectiveRepeatUncapped(n) == n
EffectiveRepeat(n) == IF n < MaxRepeat THEN n ELSE MaxRepeat

\* the latest reusable row is within the cooldown, hence some row is
InCooldown(e, cooldown) ==
    cooldown > 0 /\ \E i \in DOMAIN log :
                      SameAction(log[i], e) /\ log[i].at + cooldown >= now

\* base_weight * multiplier * repeat_decay ** repeat fits the column
Fits(w) == w.base * w.multiplier * w.decay ^ w.repeat < WeightLimit * 10 ^ w.repeat

-----------------------------------------------------------------------------
(* record_view_interaction, record_search_interaction, record_store_click_... *)

ReadWeightRule(r, e) ==
    /\ request[r].pc = "idle"
    /\ Become(r, [pc |-> "context", event |-> e, rule |-> rule[e.type]])
    /\ UNCHANGED <<rule, context, log, affinity, contended, now>>

ReadContextRule(r) ==
    /\ request[r].pc = "context"
    /\ Become(r, [pc |-> "lock", event |-> request[r].event, rule |-> request[r].rule,
                  multiplier |-> context[request[r].event.source]])
    /\ UNCHANGED <<rule, context, log, affinity, contended, now>>

\* mutated form: the request locks nothing
UserUnlockedAlways(u) == TRUE
UserUnlocked(u) ==
    \A r \in Requests : request[r].pc = "insert" => request[r].event.user # u

\* the row to insert, but for its time
NewLog(r) ==
    LET e == request[r].event
    IN  [user |-> e.user, game |-> e.game, type |-> e.type, source |-> e.source,
         detail |-> e.detail,
         weight |-> [base |-> request[r].rule.base, multiplier |-> request[r].multiplier,
                     decay |-> request[r].rule.decay,
                     repeat |-> EffectiveRepeat(RepeatCount(e))],
         cooldown |-> request[r].rule.cooldown, at |-> 0]

LockAndCheck(r) ==
    /\ request[r].pc = "lock"
    /\ UserUnlocked(request[r].event.user)
    /\ Become(r, IF InCooldown(request[r].event, request[r].rule.cooldown) THEN Idle
                 ELSE [pc |-> "insert", event |-> request[r].event, row |-> NewLog(r)])
    /\ UNCHANGED <<rule, context, log, affinity, contended, now>>

Insert(r) ==
    /\ request[r].pc = "insert"
    /\ Fits(request[r].row.weight)
    /\ Len(log) < MaxLogs
    /\ log' = Append(log, [request[r].row EXCEPT !.at = now])
    /\ Finish(r)
    /\ UNCHANGED <<rule, context, affinity, contended, now>>

\* numeric field overflow: the transaction is rolled back
InsertRefused(r) ==
    /\ request[r].pc = "insert"
    /\ ~Fits(request[r].row.weight)
    /\ Finish(r)
    /\ UNCHANGED <<rule, context, log, affinity, contended, now>>

-----------------------------------------------------------------------------
(* The rules: PATCH reads the row, sets the given fields and saves all of it *)

Given(set, field, old) == IF field \in DOMAIN set THEN set[field] ELSE old
Patched(row, set) ==
    [base |-> Given(set, "base", row.base), cooldown |-> Given(set, "cooldown", row.cooldown),
     decay |-> Given(set, "decay", row.decay)]

LoadRule(r, patch) ==
    /\ request[r].pc = "idle"
    /\ Become(r, [pc |-> "save", type |-> patch.type,
                  row |-> Patched(rule[patch.type], patch.set)])
    /\ UNCHANGED <<rule, context, log, affinity, contended, now>>

SaveRule(r) ==
    /\ request[r].pc = "save"
    /\ rule' = [rule EXCEPT ![request[r].type] = request[r].row]
    /\ Finish(r)
    /\ UNCHANGED <<context, log, affinity, contended, now>>

\* the multiplier is the only field of a context rule
UpdateContextRule(patch) ==
    /\ context' = [context EXCEPT ![patch.source] = patch.multiplier]
    /\ UNCHANGED <<rule, log, affinity, request, contended, now>>

-----------------------------------------------------------------------------
(* update_game_interaction *)

LoadAffinity(r, x) ==
    /\ request[r].pc = "idle"
    /\ Become(r, [pc |-> "react", reaction |-> x, seen |-> affinity[<<x.user, x.game>>]])
    /\ UNCHANGED <<rule, context, log, affinity, contended, now>>

\* the fields a request wants, given the row it has seen
Wanted(x, seen) ==
    [like |-> IF x.reaction = Unset THEN seen.like ELSE x.reaction,
     saved |-> IF x.saved = Unset THEN seen.saved ELSE x.saved]

ReactionLog(x, type) ==
    [user |-> x.user, game |-> x.game, type |-> type, source |-> x.source,
     detail |-> NoDetail, weight |-> NoWeight, cooldown |-> 0, at |-> now]

\* mutated form: a change of the saved flag is not logged
ReactionLogsUnsaved(x, seen) ==
    LET want == Wanted(x, seen)
    IN  IF want.like # seen.like THEN <<ReactionLog(x, want.like)>> ELSE <<>>

\* one row per field that changes
ReactionLogs(x, seen) ==
    LET want == Wanted(x, seen)
    IN  (IF want.like # seen.like THEN <<ReactionLog(x, want.like)>> ELSE <<>>)
          \o (IF want.saved # seen.saved THEN <<ReactionLog(x, want.saved)>> ELSE <<>>)

SaveAffinity(r) ==
    /\ request[r].pc = "react"
    /\ LET x == request[r].reaction
           seen == request[r].seen
           pair == <<x.user, x.game>>
           rows == ReactionLogs(x, seen)
       IN  /\ Len(log) + Len(rows) <= MaxLogs
           /\ rows # <<>> => UserUnlocked(x.user)   \* the foreign key waits for the lock
           /\ log' = log \o rows
           /\ affinity' = IF rows = <<>> THEN affinity
                          ELSE [affinity EXCEPT ![pair] = Wanted(x, seen)]
           /\ contended' = IF rows # <<>> /\ affinity[pair] # seen
                             THEN contended \cup {pair} ELSE contended
    /\ Finish(r)
    /\ UNCHANGED <<rule, context, now>>

-----------------------------------------------------------------------------
Tick ==
    /\ now < MaxTime
    /\ now' = now + 1
    /\ UNCHANGED <<rule, context, log, affinity, request, contended>>

\* the endpoints
ViewLogCreate(r) == \E e \in Events : e.type = "view" /\ ReadWeightRule(r, e)
SearchLogCreate(r) == \E e \in Events : e.type = "search" /\ ReadWeightRule(r, e)
StoreClickLogCreate(r) == \E e \in Events : e.type = "store_click" /\ ReadWeightRule(r, e)

RecordInteraction(r) ==
    \/ ViewLogCreate(r) \/ SearchLogCreate(r) \/ StoreClickLogCreate(r)
    \/ ReadContextRule(r) \/ LockAndCheck(r) \/ Insert(r) \/ InsertRefused(r)

UpdateWeightRule(r) == (\E p \in Patches : LoadRule(r, p)) \/ SaveRule(r)

UpdateGameInteraction(r) == (\E x \in Reactions : LoadAffinity(r, x)) \/ SaveAffinity(r)

InteractionsNext ==
    \/ \E r \in Requests : RecordInteraction(r) \/ UpdateWeightRule(r) \/ UpdateGameInteraction(r)
    \/ \E patch \in ContextPatches : UpdateContextRule(patch)
    \/ Tick

InteractionsSpec == InteractionsInit /\ [][InteractionsNext]_interactionVars

-----------------------------------------------------------------------------
\* Requests that repeat within the cooldown leave one row, also when they overlap
\* (interactions/views.py: a repeated request from the same source within the
\* cooldown returns 200 and the recent row): rows of one action are further apart
\* than the cooldown the later one was checked with.
SpacedByCooldown ==
    \A i, j \in DOMAIN log :
        i < j /\ log[j].cooldown > 0 /\ SameAction(log[i], log[j]) =>
            log[j].at > log[i].at + log[j].cooldown

\* The decay exponent of a scored row is the number of rows of its series before it,
\* capped: no two overlapping requests take the same place in the series.
\* (interactions/views.py: "user + game + store + type" for store clicks).
RepeatIsPlaceInSeries ==
    \A j \in DOMAIN log : log[j].type \in Scored =>
        log[j].weight.repeat =
          Min({MaxRepeat, Cardinality({i \in 1..(j - 1) :
            /\ log[i].user = log[j].user /\ log[i].game = log[j].game
            /\ log[i].type = log[j].type
            /\ log[j].type = "store_click" => log[i].detail = log[j].detail})})

LastOf(pair, types, default) ==
    LET at == {i \in DOMAIN log : <<log[i].user, log[i].game>> = pair /\ log[i].type \in types}
    IN  IF at = {} THEN default ELSE log[Max(at)].type

\* What the affinity row says is what the user did last according to the log,
\* unless a save has overwritten a newer state of the row.
AffinityFollowsLog ==
    \A pair \in (Users \X Games) \ contended :
        /\ affinity[pair].like = LastOf(pair, Likes, "neutral")
        /\ affinity[pair].saved = LastOf(pair, Saves, "saved_remove")
=============================================================================
