------------------------- MODULE InteractionsProofs -------------------------
(***************************************************************************)
(* Proofs about Interactions for any users, games, sources, rules, rule    *)
(* changes, requests and cooldowns, about the rows that Preferences and    *)
(* GameSimilarity replace, for any transactions that overlap, and about    *)
(* the similarities that a rebuild computes from any log.                  *)
(***************************************************************************)
EXTENDS MCPreferences, FiniteSetTheorems, TLAPS

\* No row is from the future.
LogIsPast == \A i \in DOMAIN log : log[i].at <= now

\* A request about to insert holds a row for its event, and no row of that action
\* is within the cooldown it has read.
InsertIsDue ==
    \A r \in Requests : request[r].pc = "insert" =>
        LET e == request[r].event
            row == request[r].row
        IN  /\ <<row.user, row.game, row.type, row.source, row.detail>> =
               <<e.user, e.game, e.type, e.source, e.detail>>
            /\ row.cooldown > 0 => \A i \in DOMAIN log :
                 SameAction(log[i], e) => log[i].at + row.cooldown < now

\* The user's row is locked by one request at most.
LockIsExclusive ==
    \A r, s \in Requests :
        /\ request[r].pc = "insert" /\ request[s].pc = "insert"
        /\ request[r].event.user = request[s].event.user
        => r = s

Inv == InteractionsTypeOK /\ LogIsPast /\ InsertIsDue /\ LockIsExclusive /\ SpacedByCooldown

-----------------------------------------------------------------------------
(* Types *)

\* The program counter tells which kind of state a request is in.
LEMMA KindOfState ==
    ASSUME NEW rec \in RequestState
    PROVE  /\ rec.pc = "context" => rec \in ContextState
           /\ rec.pc = "lock" => rec \in LockState
           /\ rec.pc = "insert" => rec \in InsertState
           /\ rec.pc = "save" => rec \in SaveState
           /\ rec.pc = "react" => rec \in ReactState
  <1>1. CASE rec \in ContextState
    BY <1>1 DEF ContextState
  <1>2. CASE rec \in LockState
    BY <1>2 DEF LockState
  <1>3. CASE rec \in InsertState
    BY <1>3 DEF InsertState
  <1>4. CASE rec \in SaveState
    BY <1>4 DEF SaveState
  <1>5. CASE rec \in ReactState
    BY <1>5 DEF ReactState
  <1>6. CASE rec = Idle
    BY <1>6 DEF Idle
  <1> QED
    BY <1>1, <1>2, <1>3, <1>4, <1>5, <1>6 DEF RequestState

\* Times and cooldowns are numbers.
LEMMA TimesAreNumbers ==
    ASSUME InteractionsTypeOK
    PROVE  /\ now \in Nat
           /\ \A l \in Log : l.at \in Nat /\ l.cooldown \in Nat
           /\ \A i \in DOMAIN log : log[i].at \in Nat
  <1>1. now \in Nat /\ 0..MaxTime \subseteq Nat
    BY InteractionsAssumption DEF InteractionsTypeOK
  <1>2. \A l \in Log : l.at \in Nat /\ l.cooldown \in Nat
    BY <1>1 DEF Log
  <1>3. \A i \in DOMAIN log : log[i] \in Log
    BY DEF InteractionsTypeOK
  <1> QED
    BY <1>1, <1>2, <1>3

\* The number of repetitions is a number.
LEMMA RepeatCountType ==
    ASSUME InteractionsTypeOK, NEW e
    PROVE  RepeatCount(e) \in Nat
  <1> DEFINE S == {i \in DOMAIN log : SameSeries(log[i], e)}
  <1>1. DOMAIN log = 1..Len(log) /\ Len(log) \in Nat
    BY DEF InteractionsTypeOK
  <1>2. IsFiniteSet(1..Len(log))
    BY <1>1, FS_Interval
  <1>3. S \subseteq 1..Len(log)
    BY <1>1
  <1>4. IsFiniteSet(S)
    BY <1>2, <1>3, FS_Subset
  <1> QED
    BY <1>4, FS_CardinalityType DEF RepeatCount

\* The row a request is about to insert is a row of the log, and is about its event.
LEMMA NewLogType ==
    ASSUME InteractionsTypeOK, NEW r \in Requests, request[r].pc = "lock"
    PROVE  /\ NewLog(r) \in Log
           /\ NewLog(r).cooldown = request[r].rule.cooldown
           /\ LET e == request[r].event
                  row == NewLog(r)
              IN  <<row.user, row.game, row.type, row.source, row.detail>> =
                  <<e.user, e.game, e.type, e.source, e.detail>>
  <1> DEFINE e == request[r].event
             w == [base |-> request[r].rule.base, multiplier |-> request[r].multiplier,
                   decay |-> request[r].rule.decay,
                   repeat |-> EffectiveRepeat(RepeatCount(e))]
  <1>1. request[r] \in LockState
    BY KindOfState DEF InteractionsTypeOK
  <1>2. e \in Event /\ request[r].rule \in Rule /\ request[r].multiplier \in Nat
    BY <1>1 DEF LockState
  <1>3. EffectiveRepeat(RepeatCount(e)) \in 0..MaxRepeat
    BY RepeatCountType, InteractionsAssumption DEF EffectiveRepeat
  <1>4. w \in Weight
    BY <1>2, <1>3 DEF Weight, Rule
  <1>5. 0 \in 0..MaxTime
    BY InteractionsAssumption
  <1> HIDE DEF w, e
  <1>6. NewLog(r) = [user |-> e.user, game |-> e.game, type |-> e.type,
                     source |-> e.source, detail |-> e.detail, weight |-> w,
                     cooldown |-> request[r].rule.cooldown, at |-> 0]
    BY DEF NewLog, w, e
  <1>7. NewLog(r) \in Log
    BY <1>2, <1>4, <1>5, <1>6 DEF Event, Log, Rule
  <1>8. NewLog(r).cooldown = request[r].rule.cooldown
    BY <1>6
  <1>9. /\ NewLog(r).user = e.user /\ NewLog(r).game = e.game /\ NewLog(r).type = e.type
        /\ NewLog(r).source = e.source /\ NewLog(r).detail = e.detail
    BY <1>6
  <1> QED
    BY <1>7, <1>8, <1>9 DEF e

\* The rows a reaction appends are unscored rows of the log.
LEMMA ReactionLogsType ==
    ASSUME InteractionsTypeOK, NEW x \in Reaction, NEW seen \in Affinity
    PROVE  /\ ReactionLogs(x, seen) \in Seq(Log)
           /\ Wanted(x, seen) \in Affinity
           /\ \A i \in DOMAIN ReactionLogs(x, seen) :
                /\ ReactionLogs(x, seen)[i].weight = NoWeight
                /\ ReactionLogs(x, seen)[i].cooldown = 0
                /\ ReactionLogs(x, seen)[i].at = now
  <1> DEFINE want == Wanted(x, seen)
             a == IF want.like # seen.like THEN <<ReactionLog(x, want.like)>> ELSE <<>>
             b == IF want.saved # seen.saved THEN <<ReactionLog(x, want.saved)>> ELSE <<>>
  <1>1. want \in Affinity
    BY DEF Wanted, Reaction, Affinity
  <1>2. \A type \in Likes \cup Saves :
           /\ ReactionLog(x, type) \in Log
           /\ ReactionLog(x, type).weight = NoWeight
           /\ ReactionLog(x, type).cooldown = 0
           /\ ReactionLog(x, type).at = now
    BY DEF ReactionLog, Reaction, Log, InteractionsTypeOK
  <1>3. want.like \in Likes /\ want.saved \in Saves
    BY <1>1 DEF Affinity
  <1>4. a \in Seq(Log) /\ b \in Seq(Log)
    BY <1>2, <1>3
  <1>5. /\ \A i \in DOMAIN a : a[i].weight = NoWeight /\ a[i].cooldown = 0 /\ a[i].at = now
        /\ \A i \in DOMAIN b : b[i].weight = NoWeight /\ b[i].cooldown = 0 /\ b[i].at = now
    BY <1>2, <1>3
  <1> HIDE DEF want, a, b
  <1>6. \A i \in DOMAIN (a \o b) :
          \/ i \in DOMAIN a /\ (a \o b)[i] = a[i]
          \/ i - Len(a) \in DOMAIN b /\ (a \o b)[i] = b[i - Len(a)]
    BY <1>4
  <1>7. ReactionLogs(x, seen) = a \o b
    BY DEF ReactionLogs, want, a, b
  <1> QED
    BY <1>1, <1>4, <1>5, <1>6, <1>7 DEF want

-----------------------------------------------------------------------------
(* The invariant is inductive *)

\* The invariant holds initially.
LEMMA InvInit == InteractionsInit => Inv
  <1> SUFFICES ASSUME InteractionsInit PROVE Inv
    OBVIOUS
  <1>1. log = <<>> /\ log \in Seq(Log) /\ Len(log) = 0 /\ DOMAIN log = {}
    BY DEF InteractionsInit
  <1>2. request \in [Requests -> RequestState] /\ \A r \in Requests : request[r].pc = "idle"
    BY DEF InteractionsInit, RequestState, Idle
  <1>3. affinity \in [Users \X Games -> Affinity]
    BY DEF InteractionsInit, Affinity, Likes, Saves
  <1>4. InteractionsTypeOK
    BY <1>1, <1>2, <1>3, InteractionsAssumption DEF InteractionsInit, InteractionsTypeOK
  <1> QED
    BY <1>1, <1>2, <1>4
       DEF Inv, LogIsPast, InsertIsDue, LockIsExclusive, SpacedByCooldown

\* A step of a request that leaves the log alone and takes no lock keeps the invariant.
LEMMA OneRequestMoves ==
    ASSUME Inv, NEW r \in Requests, NEW rec \in RequestState, rec.pc # "insert",
           Become(r, rec), rule' \in [Scored -> Rule],
           UNCHANGED <<context, log, affinity, contended, now>>
    PROVE  Inv'
  <1>1. request' \in [Requests -> RequestState]
    BY DEF Become, Inv, InteractionsTypeOK
  <1>2. \A s \in Requests : request'[s].pc = "insert" => request'[s] = request[s]
    BY DEF Become, Inv, InteractionsTypeOK
  <1>3. InteractionsTypeOK' /\ LogIsPast' /\ SpacedByCooldown'
    BY <1>1 DEF Inv, InteractionsTypeOK, LogIsPast, SpacedByCooldown, SameAction
  <1>4. InsertIsDue'
    BY <1>2 DEF Inv, InsertIsDue, SameAction
  <1>5. LockIsExclusive'
    BY <1>2 DEF Inv, LockIsExclusive
  <1> QED
    BY <1>3, <1>4, <1>5 DEF Inv

\* Idle is a state.
LEMMA IdleType == Idle \in RequestState /\ Idle.pc = "idle"
  BY DEF Idle, RequestState

\* Steps that only read, and the save of a rule, keep the invariant.
LEMMA InvPlain ==
    ASSUME Inv, NEW r \in Requests,
           \/ \E e \in Events : ReadWeightRule(r, e)
           \/ ReadContextRule(r) \/ InsertRefused(r) \/ UpdateWeightRule(r)
           \/ \E x \in Reactions : LoadAffinity(r, x)
    PROVE  Inv'
  <1>0. request[r] \in RequestState /\ rule \in [Scored -> Rule]
    BY DEF Inv, InteractionsTypeOK
  <1>1. ASSUME NEW e \in Events, ReadWeightRule(r, e) PROVE Inv'
    <2> DEFINE rec == [pc |-> "context", event |-> e, rule |-> rule[e.type]]
    <2>1. rec \in RequestState /\ rec.pc # "insert"
      BY <1>0, InteractionsAssumption DEF RequestState, ContextState, Event
    <2>2. Become(r, rec)
      BY <1>1 DEF ReadWeightRule
    <2> HIDE DEF rec
    <2> QED
      BY <1>0, <1>1, <2>1, <2>2, OneRequestMoves DEF ReadWeightRule
  <1>2. CASE ReadContextRule(r)
    <2> DEFINE rec == [pc |-> "lock", event |-> request[r].event, rule |-> request[r].rule,
                       multiplier |-> context[request[r].event.source]]
    <2>1. request[r] \in ContextState
      BY <1>0, <1>2, KindOfState DEF ReadContextRule
    <2>2. request[r].event.source \in Sources
      BY <2>1 DEF ContextState, Event
    <2>3. context[request[r].event.source] \in Nat
      BY <2>2 DEF Inv, InteractionsTypeOK
    <2>4. rec \in RequestState /\ rec.pc # "insert"
      BY <2>1, <2>3 DEF RequestState, LockState, ContextState
    <2>5. Become(r, rec)
      BY <1>2 DEF ReadContextRule
    <2> HIDE DEF rec
    <2> QED
      BY <1>0, <1>2, <2>4, <2>5, OneRequestMoves DEF ReadContextRule
  <1>3. CASE InsertRefused(r)
    BY <1>0, <1>3, IdleType, OneRequestMoves DEF InsertRefused, Finish
  <1>4. ASSUME NEW p \in Patches, LoadRule(r, p) PROVE Inv'
    <2> DEFINE rec == [pc |-> "save", type |-> p.type, row |-> Patched(rule[p.type], p.set)]
    <2>1. p.type \in Scored /\ rule[p.type] \in Rule
      BY <1>0, InteractionsAssumption
    <2>2. \A f : f \in DOMAIN p.set => p.set[f] \in Nat
      BY InteractionsAssumption
    <2>3. Patched(rule[p.type], p.set) \in Rule
      BY <2>1, <2>2 DEF Patched, Given, Rule
    <2>4. rec \in RequestState /\ rec.pc # "insert"
      BY <2>1, <2>3 DEF RequestState, SaveState
    <2>5. Become(r, rec)
      BY <1>4 DEF LoadRule
    <2> HIDE DEF rec
    <2> QED
      BY <1>0, <1>4, <2>4, <2>5, OneRequestMoves DEF LoadRule
  <1>5. CASE SaveRule(r)
    <2>1. request[r] \in SaveState
      BY <1>0, <1>5, KindOfState DEF SaveRule
    <2>2. rule' \in [Scored -> Rule]
      BY <1>0, <1>5, <2>1 DEF SaveRule, SaveState
    <2> QED
      BY <1>5, <2>2, IdleType, OneRequestMoves DEF SaveRule, Finish
  <1>6. ASSUME NEW x \in Reactions, LoadAffinity(r, x) PROVE Inv'
    <2> DEFINE rec == [pc |-> "react", reaction |-> x, seen |-> affinity[<<x.user, x.game>>]]
    <2>1. x \in Reaction /\ x.user \in Users /\ x.game \in Games
      BY InteractionsAssumption DEF Reaction
    <2>2. affinity[<<x.user, x.game>>] \in Affinity
      BY <2>1 DEF Inv, InteractionsTypeOK
    <2>3. rec \in RequestState /\ rec.pc # "insert"
      BY <2>1, <2>2 DEF RequestState, ReactState
    <2>4. Become(r, rec)
      BY <1>6 DEF LoadAffinity
    <2> HIDE DEF rec
    <2> QED
      BY <1>0, <1>6, <2>3, <2>4, OneRequestMoves DEF LoadAffinity
  <1> QED
    BY <1>1, <1>2, <1>3, <1>4, <1>5, <1>6 DEF UpdateWeightRule

\* The check under the lock keeps the invariant: the lock was free, and a row to
\* insert is due.
LEMMA InvLock == ASSUME Inv, NEW r \in Requests, LockAndCheck(r) PROVE Inv'
  <1> DEFINE e == request[r].event
             rec == [pc |-> "insert", event |-> request[r].event, row |-> NewLog(r)]
  <1>0. request[r] \in LockState /\ rule \in [Scored -> Rule]
    BY KindOfState DEF LockAndCheck, Inv, InteractionsTypeOK
  <1>1. CASE InCooldown(e, request[r].rule.cooldown)
    <2>1. Become(r, Idle)
      BY <1>1 DEF LockAndCheck
    <2> QED
      BY <1>0, <2>1, IdleType, OneRequestMoves DEF LockAndCheck
  <1>2. CASE ~InCooldown(e, request[r].rule.cooldown)
    <2>1. Become(r, rec)
      BY <1>2 DEF LockAndCheck
    <2>2. rec \in InsertState /\ rec.pc = "insert" /\ rec.event = e /\ rec.row = NewLog(r)
      BY <1>0, NewLogType DEF LockAndCheck, InsertState, LockState, Inv
    <2> HIDE DEF rec
    <2>3. /\ request' \in [Requests -> RequestState]
          /\ \A s \in Requests : request'[s] = IF s = r THEN rec ELSE request[s]
      BY <2>1, <2>2 DEF Become, Inv, InteractionsTypeOK, RequestState
    <2>4. InteractionsTypeOK' /\ LogIsPast' /\ SpacedByCooldown'
      BY <2>3 DEF LockAndCheck, Inv, InteractionsTypeOK, LogIsPast, SpacedByCooldown, SameAction
    <2>5. \A i \in DOMAIN log : log[i] \in Log
      BY DEF Inv, InteractionsTypeOK
    <2>6. ASSUME NewLog(r).cooldown > 0, NEW i \in DOMAIN log, SameAction(log[i], e)
          PROVE  log[i].at + NewLog(r).cooldown < now
      <3>1. NewLog(r).cooldown = request[r].rule.cooldown
        BY NewLogType DEF LockAndCheck, Inv
      <3>2. ~(log[i].at + request[r].rule.cooldown >= now)
        BY <1>2, <2>6, <3>1 DEF InCooldown
      <3>3. log[i].at \in Nat /\ request[r].rule.cooldown \in Nat /\ now \in Nat
        BY <1>0, TimesAreNumbers DEF LockState, Rule, Inv
      <3> QED
        BY <3>1, <3>2, <3>3
    <2>7. InsertIsDue'
      <3> SUFFICES ASSUME NEW s \in Requests, request'[s].pc = "insert"
                   PROVE  LET f == request'[s].event
                              row == request'[s].row
                          IN  /\ <<row.user, row.game, row.type, row.source, row.detail>> =
                                 <<f.user, f.game, f.type, f.source, f.detail>>
                              /\ row.cooldown > 0 => \A i \in DOMAIN log :
                                   SameAction(log[i], f) => log[i].at + row.cooldown < now
        BY DEF InsertIsDue, LockAndCheck, SameAction
      <3>1. CASE s = r
        BY <2>2, <2>3, <2>6, <3>1, NewLogType DEF LockAndCheck, Inv
      <3>2. CASE s # r
        BY <2>3, <3>2 DEF Inv, InsertIsDue
      <3> QED
        BY <3>1, <3>2
    <2>8. LockIsExclusive'
      BY <2>2, <2>3 DEF LockAndCheck, UserUnlocked, Inv, LockIsExclusive
    <2> QED
      BY <2>4, <2>7, <2>8 DEF Inv
  <1> QED
    BY <1>1, <1>2

\* The insert keeps the invariant: its row was due, and another request that is
\* about to insert holds the lock of another user.
LEMMA InvInsert == ASSUME Inv, NEW r \in Requests, Insert(r) PROVE Inv'
  <1> DEFINE e == request[r].event
             row == request[r].row
             new == [row EXCEPT !.at = now]
  <1>0. request[r] \in InsertState
    BY KindOfState DEF Insert, Inv, InteractionsTypeOK
  <1>1. row \in Log /\ e \in Event
    BY <1>0 DEF InsertState
  <1>2. /\ new \in Log /\ new.at = now /\ new.cooldown = row.cooldown
        /\ new.user = row.user /\ new.game = row.game /\ new.type = row.type
        /\ new.source = row.source /\ new.detail = row.detail
    BY <1>1 DEF Log, Inv, InteractionsTypeOK
  <1>3. /\ row.user = e.user /\ row.game = e.game /\ row.type = e.type
        /\ row.source = e.source /\ row.detail = e.detail
    BY DEF Insert, Inv, InsertIsDue
  <1>4. row.cooldown > 0 => \A i \in DOMAIN log :
          SameAction(log[i], e) => log[i].at + row.cooldown < now
    BY DEF Insert, Inv, InsertIsDue
  <1>d. log' = Append(log, new)
    BY DEF Insert
  <1> HIDE DEF new, row, e
  <1>5. /\ log' \in Seq(Log) /\ Len(log') = Len(log) + 1 /\ Len(log) \in Nat
        /\ DOMAIN log = 1..Len(log) /\ DOMAIN log' = 1..(Len(log) + 1)
        /\ \A i \in DOMAIN log : log'[i] = log[i]
        /\ log'[Len(log) + 1] = new
    BY <1>2, <1>d DEF Inv, InteractionsTypeOK
  <1>6. /\ request' \in [Requests -> RequestState]
        /\ \A s \in Requests : request'[s] = IF s = r THEN Idle ELSE request[s]
    BY IdleType DEF Insert, Finish, Become, Inv, InteractionsTypeOK
  <1>7. InteractionsTypeOK'
    BY <1>5, <1>6, InteractionsAssumption DEF Insert, Inv, InteractionsTypeOK
  <1>8. LogIsPast'
    <2>1. now \in Nat
      BY InteractionsAssumption DEF Inv, InteractionsTypeOK
    <2> QED
      BY <1>2, <1>5, <2>1 DEF Insert, Inv, LogIsPast
  <1>9. LockIsExclusive'
    BY <1>6, IdleType DEF Inv, LockIsExclusive
  <1>10. InsertIsDue'
    <2> SUFFICES ASSUME NEW s \in Requests, request'[s].pc = "insert"
                 PROVE  LET f == request'[s].event
                            q == request'[s].row
                        IN  /\ <<q.user, q.game, q.type, q.source, q.detail>> =
                               <<f.user, f.game, f.type, f.source, f.detail>>
                            /\ q.cooldown > 0 => \A i \in DOMAIN log' :
                                 SameAction(log'[i], f) => log'[i].at + q.cooldown < now
      BY DEF InsertIsDue, Insert, SameAction
    <2>1. s # r /\ request'[s] = request[s] /\ request[s].pc = "insert"
      BY <1>6, IdleType
    <2>2. request[s].event.user # e.user
      BY <2>1 DEF Inv, LockIsExclusive, Insert, e
    <2>3. ~SameAction(new, request[s].event)
      BY <1>2, <1>3, <2>2 DEF SameAction
    <2>4. request[s].row.cooldown > 0 => \A i \in DOMAIN log :
            SameAction(log[i], request[s].event) => log[i].at + request[s].row.cooldown < now
      BY <2>1 DEF Inv, InsertIsDue
    <2>5. request[s].row.cooldown > 0 => \A i \in DOMAIN log' :
            SameAction(log'[i], request[s].event) => log'[i].at + request[s].row.cooldown < now
      BY <1>5, <2>3, <2>4
    <2> QED
      BY <2>1, <2>5 DEF Inv, InsertIsDue
  <1>11. SpacedByCooldown'
    <2> SUFFICES ASSUME NEW i \in DOMAIN log', NEW j \in DOMAIN log', i < j,
                        log'[j].cooldown > 0, SameAction(log'[i], log'[j])
                 PROVE  log'[j].at > log'[i].at + log'[j].cooldown
      BY DEF SpacedByCooldown, SameAction
    <2>1. i \in DOMAIN log
      BY <1>5
    <2>2. CASE j \in DOMAIN log
      BY <1>5, <2>1, <2>2 DEF Inv, SpacedByCooldown
    <2>3. CASE j = Len(log) + 1
      <3>1. SameAction(log[i], e)
        BY <1>2, <1>3, <1>5, <2>1, <2>3 DEF SameAction
      <3>2. log[i].at + row.cooldown < now
        BY <1>2, <1>4, <1>5, <2>1, <2>3, <3>1
      <3>3. log[i].at \in Nat /\ row.cooldown \in Nat /\ now \in Nat
        BY <1>1, <2>1, TimesAreNumbers DEF Inv
      <3> QED
        BY <1>2, <1>5, <2>1, <2>3, <3>2, <3>3
    <2> QED
      BY <1>5, <2>2, <2>3
  <1> QED
    BY <1>7, <1>8, <1>9, <1>10, <1>11 DEF Inv

\* A reaction keeps the invariant: its rows are unscored, so they are no rows that a
\* waiting request could have reused.
LEMMA InvReact == ASSUME Inv, NEW r \in Requests, SaveAffinity(r) PROVE Inv'
  <1> DEFINE x == request[r].reaction
             seen == request[r].seen
             fresh == ReactionLogs(x, seen)
  <1>0. request[r] \in ReactState
    BY KindOfState DEF SaveAffinity, Inv, InteractionsTypeOK
  <1>1. x \in Reaction /\ seen \in Affinity /\ <<x.user, x.game>> \in Users \X Games
    BY <1>0 DEF ReactState, Reaction
  <1>2. /\ fresh \in Seq(Log) /\ Wanted(x, seen) \in Affinity
        /\ \A i \in DOMAIN fresh : /\ fresh[i].weight = NoWeight
                                  /\ fresh[i].cooldown = 0
                                  /\ fresh[i].at = now
    BY <1>1, ReactionLogsType DEF Inv
  <1>3. /\ log' = log \o fresh /\ Len(log) + Len(fresh) <= MaxLogs
        /\ affinity' = IF fresh = <<>> THEN affinity
                       ELSE [affinity EXCEPT ![<<x.user, x.game>>] = Wanted(x, seen)]
        /\ contended' \subseteq contended \cup {<<x.user, x.game>>}
        /\ Finish(r) /\ UNCHANGED <<rule, context, now>>
    BY DEF SaveAffinity
  <1> HIDE DEF x, seen, fresh
  <1>4. /\ log \in Seq(Log) /\ log' \in Seq(Log)
        /\ Len(log') = Len(log) + Len(fresh) /\ Len(log) \in Nat /\ Len(fresh) \in Nat
        /\ DOMAIN log = 1..Len(log) /\ DOMAIN log' = 1..(Len(log) + Len(fresh))
        /\ \A i \in DOMAIN log : log'[i] = log[i]
    BY <1>2, <1>3 DEF Inv, InteractionsTypeOK
  <1>5. \A i \in DOMAIN log' : i \notin DOMAIN log =>
          /\ log'[i].weight = NoWeight /\ log'[i].cooldown = 0 /\ log'[i].at = now
    <2> SUFFICES ASSUME NEW i \in DOMAIN log', i \notin DOMAIN log
                 PROVE  /\ log'[i].weight = NoWeight
                        /\ log'[i].cooldown = 0
                        /\ log'[i].at = now
      OBVIOUS
    <2>1. i - Len(log) \in DOMAIN fresh /\ log'[i] = fresh[i - Len(log)]
      BY <1>2, <1>3, <1>4
    <2> QED
      BY <1>2, <2>1
  <1>6. /\ request' \in [Requests -> RequestState]
        /\ \A s \in Requests : request'[s] = IF s = r THEN Idle ELSE request[s]
    BY <1>3, IdleType DEF Finish, Become, Inv, InteractionsTypeOK
  <1>7. InteractionsTypeOK'
    <2>1. affinity' \in [Users \X Games -> Affinity] /\ contended' \subseteq Users \X Games
      BY <1>1, <1>2, <1>3 DEF Inv, InteractionsTypeOK
    <2> QED
      BY <1>3, <1>4, <1>6, <2>1 DEF Inv, InteractionsTypeOK
  <1>8. LogIsPast'
    <2>1. now \in Nat
      BY TimesAreNumbers DEF Inv
    <2> QED
      BY <1>3, <1>4, <1>5, <2>1 DEF Inv, LogIsPast
  <1>9. LockIsExclusive'
    BY <1>6, IdleType DEF Inv, LockIsExclusive
  <1>10. \A f : \A i \in DOMAIN log' : SameAction(log'[i], f) => i \in DOMAIN log /\ log'[i] = log[i]
    BY <1>4, <1>5 DEF SameAction
  <1>11. InsertIsDue'
    <2> SUFFICES ASSUME NEW s \in Requests, request'[s].pc = "insert"
                 PROVE  LET f == request'[s].event
                            q == request'[s].row
                        IN  /\ <<q.user, q.game, q.type, q.source, q.detail>> =
                               <<f.user, f.game, f.type, f.source, f.detail>>
                            /\ q.cooldown > 0 => \A i \in DOMAIN log' :
                                 SameAction(log'[i], f) => log'[i].at + q.cooldown < now'
      BY DEF InsertIsDue, SameAction
    <2>1. request'[s] = request[s] /\ request[s].pc = "insert"
      BY <1>6, IdleType
    <2> QED
      BY ZenonT(40), <1>3, <1>10, <2>1 DEF Inv, InsertIsDue
  <1>12. SpacedByCooldown'
    <2> SUFFICES ASSUME NEW i \in DOMAIN log', NEW j \in DOMAIN log', i < j,
                        log'[j].cooldown > 0, SameAction(log'[i], log'[j])
                 PROVE  log'[j].at > log'[i].at + log'[j].cooldown
      BY DEF SpacedByCooldown, SameAction
    <2>1. i \in DOMAIN log /\ log'[i] = log[i]
      BY <1>10
    <2>2. j \in DOMAIN log
      BY <1>5
    <2> QED
      BY <1>4, <2>1, <2>2 DEF Inv, SpacedByCooldown
  <1> QED
    BY <1>7, <1>8, <1>9, <1>11, <1>12 DEF Inv

\* The clock and a change of a multiplier keep the invariant.
LEMMA InvRest ==
    ASSUME Inv, Tick \/ (\E p \in ContextPatches : UpdateContextRule(p))
               \/ UNCHANGED interactionVars
    PROVE  Inv'
  <1>0. now \in Nat /\ \A i \in DOMAIN log : log[i].at \in Nat
    BY TimesAreNumbers DEF Inv
  <1>1. CASE Tick
    <2>1. InteractionsTypeOK'
      BY <1>0, <1>1, InteractionsAssumption DEF Tick, Inv, InteractionsTypeOK
    <2>2. LogIsPast' /\ LockIsExclusive' /\ SpacedByCooldown'
      BY <1>0, <1>1 DEF Tick, Inv, LogIsPast, LockIsExclusive, SpacedByCooldown, SameAction
    <2>3. ASSUME NEW r \in Requests, request[r].pc = "insert"
          PROVE  request[r].row.cooldown \in Nat
      <3>1. request[r] \in InsertState
        BY <2>3, KindOfState DEF Inv, InteractionsTypeOK
      <3> QED
        BY <3>1, TimesAreNumbers DEF Inv, InsertState
    <2>4. InsertIsDue'
      BY <1>0, <1>1, <2>3 DEF Tick, Inv, InsertIsDue, SameAction
    <2> QED
      BY <2>1, <2>2, <2>4 DEF Inv
  <1>2. ASSUME NEW p \in ContextPatches, UpdateContextRule(p) PROVE Inv'
    <2>1. context' \in [Sources -> Nat]
      BY <1>2, InteractionsAssumption DEF UpdateContextRule, Inv, InteractionsTypeOK
    <2> QED
      BY <1>2, <2>1 DEF UpdateContextRule, Inv, InteractionsTypeOK, LogIsPast, InsertIsDue,
                        LockIsExclusive, SpacedByCooldown, SameAction
  <1>3. CASE UNCHANGED interactionVars
    BY <1>3 DEF interactionVars, Inv, InteractionsTypeOK, LogIsPast, InsertIsDue,
                LockIsExclusive, SpacedByCooldown, SameAction
  <1> QED
    BY <1>1, <1>2, <1>3

\* The invariant is inductive.
LEMMA InvNext == Inv /\ [InteractionsNext]_interactionVars => Inv'
  BY InvPlain, InvLock, InvInsert, InvReact, InvRest
     DEF InteractionsNext, RecordInteraction, UpdateGameInteraction, ViewLogCreate,
         SearchLogCreate, StoreClickLogCreate

-----------------------------------------------------------------------------
\* Every reachable state is type correct: in particular the decay exponent is capped.
THEOREM InteractionTypes == InteractionsSpec => []InteractionsTypeOK
  <1>1. Inv => InteractionsTypeOK
    BY DEF Inv
  <1> QED
    BY <1>1, InvInit, InvNext, PTL DEF InteractionsSpec

\* Repeated requests never leave two rows of one action within the cooldown,
\* however they overlap with each other, with rule changes and with reactions.
THEOREM CooldownIsKept == InteractionsSpec => []SpacedByCooldown
  <1>1. Inv => SpacedByCooldown
    BY DEF Inv
  <1> QED
    BY <1>1, InvInit, InvNext, PTL DEF InteractionsSpec

-----------------------------------------------------------------------------
(* Every row has its place in its series *)

\* the rows of l before row j that are of its series
Place(l, j) == {i \in 1..(j - 1) : /\ l[i].user = l[j].user /\ l[i].game = l[j].game
                                   /\ l[i].type = l[j].type
                                   /\ l[j].type = "store_click" => l[i].detail = l[j].detail}

\* the repetitions of e in l
Count(l, e) == Cardinality({i \in DOMAIN l : SameSeries(l[i], e)})

\* the property, by means of the function of the code
PlacesFit ==
    \A j \in DOMAIN log : log[j].type \in Scored =>
        log[j].weight.repeat = EffectiveRepeat(Cardinality(Place(log, j)))

\* the row a request is about to insert still has the right place
PlaceIsHeld ==
    \A r \in Requests : request[r].pc = "insert" =>
        request[r].row.weight.repeat = EffectiveRepeat(Count(log, request[r].event))

PlaceInv == PlacesFit /\ PlaceIsHeld

\* l is the beginning of m
Extends(l, m) == /\ l \in Seq(Log) /\ m \in Seq(Log) /\ Len(l) <= Len(m)
                 /\ \A i \in DOMAIN l : m[i] = l[i]

\* A longer log does not move its old rows.
LEMMA PlaceStays ==
    ASSUME NEW l, NEW m, Extends(l, m), NEW j \in DOMAIN l
    PROVE  Place(m, j) = Place(l, j)
  <1>1. DOMAIN l = 1..Len(l) /\ Len(l) \in Nat
    BY DEF Extends
  <1>2. \A i \in 1..(j - 1) : m[i] = l[i]
    BY <1>1 DEF Extends
  <1>3. m[j] = l[j]
    BY DEF Extends
  <1>4. QED BY <1>2, <1>3 DEF Place

\* Rows of other series do not repeat e.
LEMMA CountStays ==
    ASSUME NEW l, NEW m, Extends(l, m), NEW e,
           \A i \in DOMAIN m : i \notin DOMAIN l => ~SameSeries(m[i], e)
    PROVE  Count(m, e) = Count(l, e)
  <1>1. DOMAIN l \subseteq DOMAIN m
    BY DEF Extends
  <1>2. {i \in DOMAIN m : SameSeries(m[i], e)} = {i \in DOMAIN l : SameSeries(l[i], e)}
    BY <1>1 DEF Extends
  <1>3. QED BY <1>2 DEF Count

\* The log stays, and no request begins to insert.
LEMMA PlaceMove ==
    ASSUME Inv, PlaceInv, log' = log,
           \A r \in Requests : request'[r].pc = "insert" => request'[r] = request[r]
    PROVE  PlaceInv'
  BY DEF PlaceInv, PlacesFit, PlaceIsHeld

\* The place is taken under the lock.
LEMMA PlaceLock == ASSUME Inv, PlaceInv, NEW r \in Requests, LockAndCheck(r) PROVE PlaceInv'
  <1>1. PICK row : row = NewLog(r)
    OBVIOUS
  <1>2. PICK e : e = request[r].event
    OBVIOUS
  <1>3. row.weight.repeat = EffectiveRepeat(Count(log, e))
    BY <1>1, <1>2 DEF NewLog, RepeatCount, Count
  <1>4. PICK rec : /\ Become(r, rec)
                   /\ rec = Idle \/ rec = [pc |-> "insert", event |-> e, row |-> row]
    BY <1>1, <1>2 DEF LockAndCheck
  <1>5. \A s \in Requests : request'[s] = IF s = r THEN rec ELSE request[s]
    BY <1>4 DEF Become, Inv, InteractionsTypeOK
  <1>6. PlaceIsHeld'
    BY <1>3, <1>4, <1>5, IdleType DEF LockAndCheck, PlaceInv, PlaceIsHeld
  <1>7. PlacesFit'
    BY DEF LockAndCheck, PlaceInv, PlacesFit
  <1>8. QED BY <1>6, <1>7 DEF PlaceInv

\* The row goes where its place was counted; other requests that hold the lock of their
\* user hold that of another user.
LEMMA PlaceInsert == ASSUME Inv, PlaceInv, NEW r \in Requests, Insert(r) PROVE PlaceInv'
  <1>1. PICK e : e = request[r].event
    OBVIOUS
  <1>2. PICK new : new = [request[r].row EXCEPT !.at = now]
    OBVIOUS
  <1>3. request[r] \in InsertState /\ e \in Event /\ now \in 0..MaxTime
    BY <1>1, KindOfState DEF Insert, Inv, InteractionsTypeOK, InsertState
  <1>4. /\ new.user = e.user /\ new.game = e.game /\ new.type = e.type
        /\ new.detail = e.detail /\ new.weight = request[r].row.weight /\ new \in Log
    BY <1>1, <1>2, <1>3 DEF Insert, Inv, InsertIsDue, InsertState, Log
  <1>5. PICK n : n = Len(log) + 1
    OBVIOUS
  <1>6. /\ Extends(log, log') /\ log'[n] = new /\ n \notin DOMAIN log
        /\ DOMAIN log = 1..(n - 1) /\ DOMAIN log' = 1..n /\ n \in Nat
    BY <1>2, <1>4, <1>5 DEF Insert, Extends, Inv, InteractionsTypeOK
  <1>7. \A s \in Requests : request'[s] = IF s = r THEN Idle ELSE request[s]
    BY IdleType DEF Insert, Finish, Become, Inv, InteractionsTypeOK
  <1>8. Place(log', n) = {i \in DOMAIN log : SameSeries(log[i], e)}
    <2>1. \A i \in DOMAIN log : log'[i] = log[i]
      BY <1>6 DEF Extends
    <2>2. \A i \in DOMAIN log : SameSeries(log[i], e) <=>
             /\ log'[i].user = log'[n].user /\ log'[i].game = log'[n].game
             /\ log'[i].type = log'[n].type
             /\ log'[n].type = "store_click" => log'[i].detail = log'[n].detail
      BY <1>4, <1>6, <2>1 DEF SameSeries
    <2>3. QED BY <1>6, <2>2 DEF Place
  <1>9. PlacesFit'
    <2> SUFFICES ASSUME NEW j \in DOMAIN log', log'[j].type \in Scored
                 PROVE  log'[j].weight.repeat = EffectiveRepeat(Cardinality(Place(log', j)))
      BY DEF PlacesFit, EffectiveRepeat
    <2>1. CASE j \in DOMAIN log
      BY <1>6, <2>1, PlaceStays DEF Extends, PlaceInv, PlacesFit
    <2>2. CASE j = n
      BY <1>1, <1>4, <1>6, <1>8, <2>2 DEF Insert, PlaceInv, PlaceIsHeld, Count
    <2>3. QED BY <1>6, <2>1, <2>2
  <1>10. PlaceIsHeld'
    <2> SUFFICES ASSUME NEW s \in Requests, request'[s].pc = "insert"
                 PROVE  request'[s].row.weight.repeat =
                           EffectiveRepeat(Count(log', request'[s].event))
      BY DEF PlaceIsHeld, EffectiveRepeat
    <2>1. s # r /\ request'[s] = request[s]
      BY <1>7, IdleType
    <2>2. request[s].event.user # e.user
      BY <1>1, <2>1 DEF Insert, Inv, LockIsExclusive
    <2>3. \A i \in DOMAIN log' : i \notin DOMAIN log => ~SameSeries(log'[i], request[s].event)
      BY <1>4, <1>6, <2>2 DEF SameSeries
    <2>4. Count(log', request[s].event) = Count(log, request[s].event)
      BY <1>6, <2>3, CountStays
    <2>5. QED BY <2>1, <2>4 DEF PlaceInv, PlaceIsHeld
  <1>11. QED BY <1>9, <1>10 DEF PlaceInv

-----------------------------------------------------------------------------
(* The affinity row follows the log *)

RowsAbout(row, pair, types) == <<row.user, row.game>> = pair /\ row.type \in types

\* v is the type of the last row of l about the pair, d if there is none
LastIs(l, pair, types, v, d) ==
    \/ v = d /\ \A i \in DOMAIN l : ~RowsAbout(l[i], pair, types)
    \/ \E i \in DOMAIN l : /\ RowsAbout(l[i], pair, types) /\ l[i].type = v
                           /\ \A j \in DOMAIN l : RowsAbout(l[j], pair, types) => j <= i

FollowInv ==
    \A pair \in (Users \X Games) \ contended :
        /\ LastIs(log, pair, Likes, affinity[pair].like, "neutral")
        /\ LastIs(log, pair, Saves, affinity[pair].saved, "saved_remove")

\* The last row is the one at the greatest position.
LEMMA LastIsLast ==
    ASSUME log \in Seq(Log), NEW pair, NEW types, NEW v, NEW d, LastIs(log, pair, types, v, d)
    PROVE  LastOf(pair, types, d) = v
  <1>1. PICK at : at = {i \in DOMAIN log : <<log[i].user, log[i].game>> = pair
                                           /\ log[i].type \in types}
    OBVIOUS
  <1>2. LastOf(pair, types, d) = IF at = {} THEN d ELSE log[Max(at)].type
    BY <1>1 DEF LastOf
  <1>3. DOMAIN log = 1..Len(log) /\ Len(log) \in Nat
    OBVIOUS
  <1>4. CASE at = {}
    BY <1>1, <1>2, <1>4 DEF LastIs, RowsAbout
  <1>5. CASE at # {}
    <2>1. PICK i \in DOMAIN log : /\ RowsAbout(log[i], pair, types) /\ log[i].type = v
                                  /\ \A j \in DOMAIN log : RowsAbout(log[j], pair, types) => j <= i
      BY <1>1, <1>5 DEF LastIs, RowsAbout
    <2>2. i \in at /\ \A j \in at : i >= j
      BY <1>1, <1>3, <2>1 DEF RowsAbout
    <2>3. Max(at) \in at /\ \A j \in at : Max(at) >= j
      BY <2>2 DEF Max
    <2>a. Max(at) \in Nat /\ i \in Nat
      BY <1>1, <1>3, <2>3
    <2>b. i >= Max(at) /\ Max(at) >= i
      BY <2>2, <2>3
    <2>4. Max(at) = i
      BY <2>a, <2>b
    <2>5. QED BY <1>2, <1>5, <2>1, <2>4
  <1>6. QED BY <1>4, <1>5

\* Rows are appended: one of them is the last about the pair now, or the last stays.
LEMMA LastAfter ==
    ASSUME NEW l, NEW m, Extends(l, m), NEW pair, NEW types, NEW v, NEW w, NEW d,
           LastIs(l, pair, types, v, d),
           \/ w = v /\ \A i \in DOMAIN m : i \notin DOMAIN l => ~RowsAbout(m[i], pair, types)
           \/ \E i \in DOMAIN m :
                /\ i \notin DOMAIN l /\ RowsAbout(m[i], pair, types) /\ m[i].type = w
                /\ \A j \in DOMAIN m : j \notin DOMAIN l /\ RowsAbout(m[j], pair, types) => j <= i
    PROVE  LastIs(m, pair, types, w, d)
  <1>1. /\ DOMAIN l = 1..Len(l) /\ Len(l) \in Nat /\ DOMAIN m = 1..Len(m) /\ Len(m) \in Nat
        /\ Len(l) <= Len(m) /\ \A i \in DOMAIN l : m[i] = l[i]
    BY DEF Extends
  <1>2. CASE w = v /\ \A i \in DOMAIN m : i \notin DOMAIN l => ~RowsAbout(m[i], pair, types)
    BY <1>1, <1>2 DEF LastIs
  <1>3. CASE \E i \in DOMAIN m :
                /\ i \notin DOMAIN l /\ RowsAbout(m[i], pair, types) /\ m[i].type = w
                /\ \A j \in DOMAIN m : j \notin DOMAIN l /\ RowsAbout(m[j], pair, types) => j <= i
    <2>1. PICK i \in DOMAIN m :
                /\ i \notin DOMAIN l /\ RowsAbout(m[i], pair, types) /\ m[i].type = w
                /\ \A j \in DOMAIN m : j \notin DOMAIN l /\ RowsAbout(m[j], pair, types) => j <= i
      BY <1>3
    <2>2. \A j \in DOMAIN m : RowsAbout(m[j], pair, types) => j <= i
      BY <1>1, <2>1
    <2>3. QED BY <2>1, <2>2 DEF LastIs
  <1>4. QED BY <1>2, <1>3

\* A reaction appends one row per field that changes.
LEMMA ReactionRows ==
    ASSUME InteractionsTypeOK, NEW x \in Reaction, NEW seen \in Affinity,
           NEW fresh, fresh = ReactionLogs(x, seen), NEW want, want = Wanted(x, seen)
    PROVE  /\ \A i \in DOMAIN fresh : /\ fresh[i].user = x.user /\ fresh[i].game = x.game
                                     /\ fresh[i].type \in Likes \cup Saves
           /\ \/ want.like = seen.like /\ \A i \in DOMAIN fresh : fresh[i].type \notin Likes
              \/ \E i \in DOMAIN fresh :
                   /\ fresh[i].type = want.like
                   /\ \A j \in DOMAIN fresh : fresh[j].type \in Likes => j <= i
           /\ \/ want.saved = seen.saved /\ \A i \in DOMAIN fresh : fresh[i].type \notin Saves
              \/ \E i \in DOMAIN fresh :
                   /\ fresh[i].type = want.saved
                   /\ \A j \in DOMAIN fresh : fresh[j].type \in Saves => j <= i
  <1>1. want.like \in Likes /\ want.saved \in Saves
    BY DEF Wanted, Reaction, Affinity
  <1>2. PICK a : a = ReactionLog(x, want.like)
    OBVIOUS
  <1>3. PICK b : b = ReactionLog(x, want.saved)
    OBVIOUS
  <1>4. /\ a.user = x.user /\ a.game = x.game /\ a.type = want.like
        /\ b.user = x.user /\ b.game = x.game /\ b.type = want.saved
    BY <1>2, <1>3 DEF ReactionLog
  <1>5. Likes \cap Saves = {}
    BY DEF Likes, Saves
  <1>6. fresh = (IF want.like # seen.like THEN <<a>> ELSE <<>>)
               \o (IF want.saved # seen.saved THEN <<b>> ELSE <<>>)
    BY <1>2, <1>3 DEF ReactionLogs
  <1>7. CASE want.like = seen.like /\ want.saved = seen.saved
    <2>1. fresh = <<>>
      BY <1>6, <1>7
    <2>2. QED BY <1>7, <2>1
  <1>8. CASE want.like # seen.like /\ want.saved = seen.saved
    <2>1. fresh = <<a>>
      BY <1>6, <1>8
    <2>2. DOMAIN fresh = {1} /\ fresh[1] = a
      BY <2>1
    <2>3. QED BY <1>1, <1>4, <1>5, <1>8, <2>2
  <1>9. CASE want.like = seen.like /\ want.saved # seen.saved
    <2>1. fresh = <<b>>
      BY <1>6, <1>9
    <2>2. DOMAIN fresh = {1} /\ fresh[1] = b
      BY <2>1
    <2>3. QED BY <1>1, <1>4, <1>5, <1>9, <2>2
  <1>10. CASE want.like # seen.like /\ want.saved # seen.saved
    <2>1. fresh = <<a>> \o <<b>>
      BY <1>6, <1>10
    <2>a. <<a>> \in Seq({a, b}) /\ <<b>> \in Seq({a, b}) /\ Len(<<a>>) = 1 /\ Len(<<b>>) = 1
      OBVIOUS
    <2>2. DOMAIN fresh = {1, 2} /\ fresh[1] = a /\ fresh[2] = b
      BY <2>1, <2>a
    <2>3. QED BY <1>1, <1>4, <1>5, <1>10, <2>2
  <1>11. QED BY <1>7, <1>8, <1>9, <1>10

-----------------------------------------------------------------------------
(* Both are kept *)

\* Every other step leaves the log and the affinity rows alone, and no request begins
\* to insert.
LEMMA OtherSteps ==
    ASSUME Inv, InteractionsNext,
           ~ \E r \in Requests : LockAndCheck(r) \/ Insert(r) \/ SaveAffinity(r)
    PROVE  /\ log' = log /\ affinity' = affinity /\ contended' = contended
           /\ \A r \in Requests : request'[r].pc = "insert" => request'[r] = request[r]
  <1>1. ASSUME NEW r \in Requests, NEW rec, Become(r, rec), rec.pc # "insert"
        PROVE  \A s \in Requests : request'[s].pc = "insert" => request'[s] = request[s]
    BY <1>1 DEF Become, Inv, InteractionsTypeOK
  <1>2. ASSUME NEW r \in Requests, NEW e \in Events, ReadWeightRule(r, e)
        PROVE  \A s \in Requests : request'[s].pc = "insert" => request'[s] = request[s]
    <2>1. PICK rec : rec = [pc |-> "context", event |-> e, rule |-> rule[e.type]]
      OBVIOUS
    <2>2. QED BY <1>1, <1>2, <2>1 DEF ReadWeightRule
  <1>3. ASSUME NEW r \in Requests, ReadContextRule(r)
        PROVE  \A s \in Requests : request'[s].pc = "insert" => request'[s] = request[s]
    <2>1. PICK rec : rec = [pc |-> "lock", event |-> request[r].event,
                            rule |-> request[r].rule,
                            multiplier |-> context[request[r].event.source]]
      OBVIOUS
    <2>2. QED BY <1>1, <1>3, <2>1 DEF ReadContextRule
  <1>4. ASSUME NEW r \in Requests, InsertRefused(r) \/ SaveRule(r)
        PROVE  \A s \in Requests : request'[s].pc = "insert" => request'[s] = request[s]
    BY <1>1, <1>4, IdleType DEF InsertRefused, SaveRule, Finish
  <1>5. ASSUME NEW r \in Requests, NEW p \in Patches, LoadRule(r, p)
        PROVE  \A s \in Requests : request'[s].pc = "insert" => request'[s] = request[s]
    <2>1. PICK rec : rec = [pc |-> "save", type |-> p.type,
                            row |-> Patched(rule[p.type], p.set)]
      OBVIOUS
    <2>2. QED BY <1>1, <1>5, <2>1 DEF LoadRule
  <1>6. ASSUME NEW r \in Requests, NEW x \in Reactions, LoadAffinity(r, x)
        PROVE  \A s \in Requests : request'[s].pc = "insert" => request'[s] = request[s]
    <2>1. PICK rec : rec = [pc |-> "react", reaction |-> x,
                            seen |-> affinity[<<x.user, x.game>>]]
      OBVIOUS
    <2>2. QED BY <1>1, <1>6, <2>1 DEF LoadAffinity
  <1>7. \/ \E r \in Requests :
             \/ \E e \in Events : ReadWeightRule(r, e)
             \/ ReadContextRule(r) \/ InsertRefused(r) \/ SaveRule(r)
             \/ \E p \in Patches : LoadRule(r, p)
             \/ \E x \in Reactions : LoadAffinity(r, x)
        \/ \E patch \in ContextPatches : UpdateContextRule(patch)
        \/ Tick
    BY DEF InteractionsNext, RecordInteraction, ViewLogCreate, SearchLogCreate,
       StoreClickLogCreate, UpdateWeightRule, UpdateGameInteraction
  <1>8. log' = log /\ affinity' = affinity /\ contended' = contended
    BY <1>7 DEF ReadWeightRule, ReadContextRule, InsertRefused, SaveRule, LoadRule,
       LoadAffinity, UpdateContextRule, Tick
  <1>9. CASE (\E patch \in ContextPatches : UpdateContextRule(patch)) \/ Tick
    BY <1>8, <1>9 DEF UpdateContextRule, Tick
  <1>10. QED BY <1>2, <1>3, <1>4, <1>5, <1>6, <1>7, <1>8, <1>9

\* What a reaction appends: rows about its pair, of its types, and nothing scored.
LEMMA ReactionAppends ==
    ASSUME Inv, NEW r \in Requests, SaveAffinity(r)
    PROVE  \E x \in Reaction, seen \in Affinity, want \in Affinity, fresh \in Seq(Log) :
             /\ fresh = ReactionLogs(x, seen) /\ want = Wanted(x, seen)
             /\ <<x.user, x.game>> \in Users \X Games
             /\ log' = log \o fresh
             /\ affinity' = IF fresh = <<>> THEN affinity
                            ELSE [affinity EXCEPT ![<<x.user, x.game>>] = want]
             /\ contended' = IF fresh # <<>> /\ affinity[<<x.user, x.game>>] # seen
                               THEN contended \cup {<<x.user, x.game>>} ELSE contended
             /\ Finish(r)
  <1>1. request[r] \in ReactState
    BY KindOfState DEF SaveAffinity, Inv, InteractionsTypeOK
  <1>2. PICK x : x = request[r].reaction
    OBVIOUS
  <1>3. PICK seen : seen = request[r].seen
    OBVIOUS
  <1>4. x \in Reaction /\ seen \in Affinity /\ <<x.user, x.game>> \in Users \X Games
    BY <1>1, <1>2, <1>3 DEF ReactState, Reaction
  <1>5. PICK fresh : fresh = ReactionLogs(x, seen)
    OBVIOUS
  <1>6. PICK want : want = Wanted(x, seen)
    OBVIOUS
  <1>7. fresh \in Seq(Log) /\ want \in Affinity
    BY <1>4, <1>5, <1>6, ReactionLogsType DEF Inv
  <1>8. /\ log' = log \o fresh
        /\ affinity' = IF fresh = <<>> THEN affinity
                       ELSE [affinity EXCEPT ![<<x.user, x.game>>] = want]
        /\ contended' = IF fresh # <<>> /\ affinity[<<x.user, x.game>>] # seen
                          THEN contended \cup {<<x.user, x.game>>} ELSE contended
        /\ Finish(r)
    BY <1>2, <1>3, <1>5, <1>6 DEF SaveAffinity
  <1>9. QED BY <1>4, <1>5, <1>6, <1>7, <1>8

\* Unscored rows take nobody's place, and what they say is what the affinity row says.
LEMMA ReactionKeepsLog ==
    ASSUME Inv, PlaceInv, FollowInv, NEW r \in Requests, SaveAffinity(r)
    PROVE  PlaceInv' /\ FollowInv'
  <1>1. PICK x \in Reaction, seen \in Affinity, want \in Affinity, fresh \in Seq(Log) :
             /\ fresh = ReactionLogs(x, seen) /\ want = Wanted(x, seen)
             /\ <<x.user, x.game>> \in Users \X Games
             /\ log' = log \o fresh
             /\ affinity' = IF fresh = <<>> THEN affinity
                            ELSE [affinity EXCEPT ![<<x.user, x.game>>] = want]
             /\ contended' = IF fresh # <<>> /\ affinity[<<x.user, x.game>>] # seen
                               THEN contended \cup {<<x.user, x.game>>} ELSE contended
             /\ Finish(r)
    BY ReactionAppends
  <1>2. /\ \A i \in DOMAIN fresh : /\ fresh[i].user = x.user /\ fresh[i].game = x.game
                                  /\ fresh[i].type \in Likes \cup Saves
        /\ \/ want.like = seen.like /\ \A i \in DOMAIN fresh : fresh[i].type \notin Likes
           \/ \E i \in DOMAIN fresh :
                /\ fresh[i].type = want.like
                /\ \A j \in DOMAIN fresh : fresh[j].type \in Likes => j <= i
        /\ \/ want.saved = seen.saved /\ \A i \in DOMAIN fresh : fresh[i].type \notin Saves
           \/ \E i \in DOMAIN fresh :
                /\ fresh[i].type = want.saved
                /\ \A j \in DOMAIN fresh : fresh[j].type \in Saves => j <= i
    <2>1. InteractionsTypeOK /\ fresh = ReactionLogs(x, seen) /\ want = Wanted(x, seen)
      BY <1>1 DEF Inv
    <2>2. QED BY <2>1, ReactionRows
  <1>3. PICK n : n = Len(log)
    OBVIOUS
  <1>4. /\ n \in Nat /\ DOMAIN log = 1..n /\ DOMAIN fresh = 1..Len(fresh) /\ Len(fresh) \in Nat
        /\ DOMAIN log' = 1..(n + Len(fresh)) /\ Extends(log, log')
        /\ \A i \in DOMAIN fresh : log'[n + i] = fresh[i]
    BY <1>1, <1>3 DEF Extends, Inv, InteractionsTypeOK
  <1>5. \A j \in DOMAIN log' : j \notin DOMAIN log =>
           j - n \in DOMAIN fresh /\ log'[j] = fresh[j - n]
    <2> SUFFICES ASSUME NEW j \in DOMAIN log', j \notin DOMAIN log
                 PROVE  j - n \in DOMAIN fresh /\ log'[j] = fresh[j - n]
      OBVIOUS
    <2>1. j - n \in DOMAIN fresh /\ n + (j - n) = j
      BY <1>4
    <2>2. log'[n + (j - n)] = fresh[j - n]
      BY <1>4, <2>1
    <2>3. QED BY <2>1, <2>2
  <1>6. \A s \in Requests : request'[s] = IF s = r THEN Idle ELSE request[s]
    BY <1>1, IdleType DEF Finish, Become, Inv, InteractionsTypeOK
  <1>7. Scored \cap (Likes \cup Saves) = {}
    BY DEF Scored, Likes, Saves
  <1>8. PlaceInv'
    <2>1. PlacesFit'
      <3> SUFFICES ASSUME NEW j \in DOMAIN log', log'[j].type \in Scored
                   PROVE  log'[j].weight.repeat = EffectiveRepeat(Cardinality(Place(log', j)))
        BY DEF PlacesFit, EffectiveRepeat
      <3>1. j \in DOMAIN log
        BY <1>2, <1>5, <1>7
      <3>2. QED BY <1>4, <3>1, PlaceStays DEF Extends, PlaceInv, PlacesFit
    <2>2. PlaceIsHeld'
      <3> SUFFICES ASSUME NEW s \in Requests, request'[s].pc = "insert"
                   PROVE  request'[s].row.weight.repeat =
                             EffectiveRepeat(Count(log', request'[s].event))
        BY DEF PlaceIsHeld, EffectiveRepeat
      <3>1. request'[s] = request[s] /\ request[s].pc = "insert"
        BY <1>6, IdleType
      <3>2. PICK e : e = request[s].event
        OBVIOUS
      <3>3. request[s] \in InsertState /\ e \in Event
        BY <3>1, <3>2, KindOfState DEF Inv, InteractionsTypeOK, InsertState
      <3>4. \A i \in DOMAIN log' : i \notin DOMAIN log => ~SameSeries(log'[i], e)
        BY <1>2, <1>5, <1>7, <3>3 DEF SameSeries, Event
      <3>5. Count(log', e) = Count(log, e)
        BY <1>4, <3>4, CountStays
      <3>6. QED BY <3>1, <3>2, <3>5 DEF PlaceInv, PlaceIsHeld
    <2>3. QED BY <2>1, <2>2 DEF PlaceInv
  <1>9. FollowInv'
    <2> SUFFICES ASSUME NEW pair \in (Users \X Games) \ contended'
                 PROVE  /\ LastIs(log', pair, Likes, affinity'[pair].like, "neutral")
                        /\ LastIs(log', pair, Saves, affinity'[pair].saved, "saved_remove")
      BY DEF FollowInv, LastIs, RowsAbout, Likes, Saves
    <2>1. /\ pair \notin contended
          /\ LastIs(log, pair, Likes, affinity[pair].like, "neutral")
          /\ LastIs(log, pair, Saves, affinity[pair].saved, "saved_remove")
      BY <1>1 DEF FollowInv
    <2>2. CASE pair = <<x.user, x.game>>
      <3>1. \A i \in DOMAIN fresh : <<fresh[i].user, fresh[i].game>> = pair
        BY <1>2, <2>2
      <3>2. CASE fresh = <<>>
        <4>1. log' = log /\ affinity' = affinity
          BY <1>1, <3>2 DEF Inv, InteractionsTypeOK
        <4>2. QED BY <2>1, <4>1
      <3>3. CASE fresh # <<>>
        <4>1. affinity[pair] = seen /\ affinity'[pair] = want
          BY <1>1, <2>2, <3>3 DEF Inv, InteractionsTypeOK
        <4>2. LastIs(log', pair, Likes, want.like, "neutral")
          <5>1. CASE want.like = seen.like /\ \A i \in DOMAIN fresh : fresh[i].type \notin Likes
            <6>1. \A i \in DOMAIN log' : i \notin DOMAIN log => ~RowsAbout(log'[i], pair, Likes)
              BY <1>5, <5>1 DEF RowsAbout
            <6>2. QED BY <1>4, <2>1, <4>1, <5>1, <6>1, LastAfter
          <5>2. CASE \E i \in DOMAIN fresh :
                        /\ fresh[i].type = want.like
                        /\ \A j \in DOMAIN fresh : fresh[j].type \in Likes => j <= i
            <6>1. PICK i \in DOMAIN fresh :
                        /\ fresh[i].type = want.like
                        /\ \A j \in DOMAIN fresh : fresh[j].type \in Likes => j <= i
              BY <5>2
            <6>2. want.like \in Likes
              BY DEF Affinity
            <6>3. /\ n + i \in DOMAIN log' /\ n + i \notin DOMAIN log
                  /\ RowsAbout(log'[n + i], pair, Likes) /\ log'[n + i].type = want.like
              BY <1>4, <3>1, <6>1, <6>2 DEF RowsAbout
            <6>4. \A j \in DOMAIN log' :
                     j \notin DOMAIN log /\ RowsAbout(log'[j], pair, Likes) => j <= n + i
              BY <1>4, <1>5, <6>1 DEF RowsAbout
            <6>5. QED BY <1>4, <2>1, <6>3, <6>4, LastAfter
          <5>3. QED BY <1>2, <5>1, <5>2
        <4>3. LastIs(log', pair, Saves, want.saved, "saved_remove")
          <5>1. CASE want.saved = seen.saved /\ \A i \in DOMAIN fresh : fresh[i].type \notin Saves
            <6>1. \A i \in DOMAIN log' : i \notin DOMAIN log => ~RowsAbout(log'[i], pair, Saves)
              BY <1>5, <5>1 DEF RowsAbout
            <6>2. QED BY <1>4, <2>1, <4>1, <5>1, <6>1, LastAfter
          <5>2. CASE \E i \in DOMAIN fresh :
                        /\ fresh[i].type = want.saved
                        /\ \A j \in DOMAIN fresh : fresh[j].type \in Saves => j <= i
            <6>1. PICK i \in DOMAIN fresh :
                        /\ fresh[i].type = want.saved
                        /\ \A j \in DOMAIN fresh : fresh[j].type \in Saves => j <= i
              BY <5>2
            <6>2. want.saved \in Saves
              BY DEF Affinity
            <6>3. /\ n + i \in DOMAIN log' /\ n + i \notin DOMAIN log
                  /\ RowsAbout(log'[n + i], pair, Saves) /\ log'[n + i].type = want.saved
              BY <1>4, <3>1, <6>1, <6>2 DEF RowsAbout
            <6>4. \A j \in DOMAIN log' :
                     j \notin DOMAIN log /\ RowsAbout(log'[j], pair, Saves) => j <= n + i
              BY <1>4, <1>5, <6>1 DEF RowsAbout
            <6>5. QED BY <1>4, <2>1, <6>3, <6>4, LastAfter
          <5>3. QED BY <1>2, <5>1, <5>2
        <4>4. QED BY <4>1, <4>2, <4>3
      <3>4. QED BY <3>2, <3>3
    <2>3. CASE pair # <<x.user, x.game>>
      <3>1. affinity'[pair] = affinity[pair]
        BY <1>1, <2>3 DEF Inv, InteractionsTypeOK
      <3>2. \A types : \A i \in DOMAIN log' : i \notin DOMAIN log => ~RowsAbout(log'[i], pair, types)
        BY <1>2, <1>5, <2>3 DEF RowsAbout
      <3>3. LastIs(log', pair, Likes, affinity'[pair].like, "neutral")
        BY <1>4, <2>1, <3>1, <3>2, LastAfter
      <3>4. LastIs(log', pair, Saves, affinity'[pair].saved, "saved_remove")
        BY <1>4, <2>1, <3>1, <3>2, LastAfter
      <3>5. QED BY <3>3, <3>4
    <2>4. QED BY <2>2, <2>3
  <1>10. QED BY <1>8, <1>9

\* A scored row says nothing about reactions.
LEMMA InsertKeepsAffinity ==
    ASSUME Inv, FollowInv, NEW r \in Requests, Insert(r) PROVE FollowInv'
  <1>1. PICK new : new = [request[r].row EXCEPT !.at = now]
    OBVIOUS
  <1>2. request[r] \in InsertState /\ now \in 0..MaxTime
    BY KindOfState DEF Insert, Inv, InteractionsTypeOK
  <1>3. new \in Log /\ new.type \in Scored
    BY <1>1, <1>2 DEF Insert, Inv, InsertIsDue, InsertState, Log, Event
  <1>4. /\ Extends(log, log') /\ affinity' = affinity /\ contended' = contended
        /\ \A i \in DOMAIN log' : i \notin DOMAIN log => log'[i] = new
    BY <1>1, <1>3 DEF Insert, Extends, Inv, InteractionsTypeOK
  <1>5. \A pair : \A i \in DOMAIN log' : i \notin DOMAIN log =>
           ~RowsAbout(log'[i], pair, Likes) /\ ~RowsAbout(log'[i], pair, Saves)
    BY <1>3, <1>4 DEF RowsAbout, Scored, Likes, Saves
  <1>6. ASSUME NEW pair \in (Users \X Games) \ contended
        PROVE  /\ LastIs(log', pair, Likes, affinity[pair].like, "neutral")
               /\ LastIs(log', pair, Saves, affinity[pair].saved, "saved_remove")
    BY <1>4, <1>5, LastAfter DEF FollowInv
  <1>7. QED BY <1>4, <1>6 DEF FollowInv, LastIs, RowsAbout, Likes, Saves

\* The invariants hold at first.
LEMMA LogInvInit == InteractionsInit => PlaceInv /\ FollowInv
  <1> SUFFICES ASSUME InteractionsInit PROVE PlaceInv /\ FollowInv
    OBVIOUS
  <1>1. DOMAIN log = {} /\ \A r \in Requests : request[r].pc # "insert"
    BY IdleType DEF InteractionsInit
  <1>2. \A pair \in Users \X Games :
           affinity[pair].like = "neutral" /\ affinity[pair].saved = "saved_remove"
    BY DEF InteractionsInit
  <1>3. QED
    BY <1>1, <1>2 DEF PlaceInv, PlacesFit, PlaceIsHeld, FollowInv, LastIs

\* Every step keeps them.
LEMMA LogInvNext ==
    ASSUME Inv, PlaceInv, FollowInv, [InteractionsNext]_interactionVars
    PROVE  PlaceInv' /\ FollowInv'
  <1>1. ASSUME log' = log, affinity' = affinity, contended' = contended PROVE FollowInv'
    BY <1>1 DEF FollowInv, LastIs, RowsAbout, Likes, Saves
  <1>2. ASSUME NEW r \in Requests, LockAndCheck(r) PROVE PlaceInv' /\ FollowInv'
    BY <1>1, <1>2, PlaceLock DEF LockAndCheck
  <1>3. ASSUME NEW r \in Requests, Insert(r) PROVE PlaceInv' /\ FollowInv'
    BY <1>3, PlaceInsert, InsertKeepsAffinity
  <1>4. ASSUME NEW r \in Requests, SaveAffinity(r) PROVE PlaceInv' /\ FollowInv'
    BY <1>4, ReactionKeepsLog
  <1>5. CASE InteractionsNext
             /\ ~ \E r \in Requests : LockAndCheck(r) \/ Insert(r) \/ SaveAffinity(r)
    BY <1>1, <1>5, OtherSteps, PlaceMove
  <1>6. CASE UNCHANGED interactionVars
    BY <1>1, <1>6, PlaceMove DEF interactionVars
  <1>7. QED BY <1>2, <1>3, <1>4, <1>5, <1>6

\* The decay exponent of a scored row is its place in its series, also when requests
\* of the user overlap: the place is counted under the lock that the insert still holds.
THEOREM RepeatsAreCounted == InteractionsSpec => []RepeatIsPlaceInSeries
  <1>1. Inv /\ PlaceInv => RepeatIsPlaceInSeries
    <2> SUFFICES ASSUME Inv, PlaceInv, NEW j \in DOMAIN log, log[j].type \in Scored
                 PROVE  log[j].weight.repeat = Min({MaxRepeat, Cardinality(Place(log, j))})
      BY DEF RepeatIsPlaceInSeries, Place
    <2>1. PICK c : c = Cardinality(Place(log, j))
      OBVIOUS
    <2>2. c \in Nat
      <3>1. j \in Nat /\ Place(log, j) \subseteq 1..(j - 1)
        BY DEF Inv, InteractionsTypeOK, Place
      <3>2. IsFiniteSet(1..(j - 1))
        BY <3>1, FS_Interval
      <3>3. QED BY <2>1, <3>1, <3>2, FS_Subset, FS_CardinalityType
    <2>3. PICK m : m = Min({MaxRepeat, c})
      OBVIOUS
    <2>4. EffectiveRepeat(c) \in {MaxRepeat, c} /\ EffectiveRepeat(c) <= MaxRepeat
          /\ EffectiveRepeat(c) <= c
      BY <2>2, InteractionsAssumption DEF EffectiveRepeat
    <2>5. m \in {MaxRepeat, c} /\ m <= MaxRepeat /\ m <= c
      BY <2>3, <2>4 DEF Min
    <2>6. m = EffectiveRepeat(c)
      BY <2>2, <2>5, InteractionsAssumption DEF EffectiveRepeat
    <2>7. QED BY <2>1, <2>3, <2>6 DEF PlaceInv, PlacesFit
  <1> QED
    BY <1>1, InvInit, InvNext, LogInvInit, LogInvNext, PTL DEF InteractionsSpec

\* What the affinity row says is what the user did last according to the log, unless a
\* save has overwritten a newer state of the row.
THEOREM AffinityIsLogged == InteractionsSpec => []AffinityFollowsLog
  <1>1. Inv /\ FollowInv => AffinityFollowsLog
    BY LastIsLast DEF Inv, InteractionsTypeOK, FollowInv, AffinityFollowsLog
  <1> QED
    BY <1>1, InvInit, InvNext, LogInvInit, LogInvNext, PTL DEF InteractionsSpec

-----------------------------------------------------------------------------
(* Rows that are replaced by transactions which overlap *)

\* T: the tables; D: the statements that insert; R: the rows; S: what they come from
Committed(R) == [row: R, by: 1..Numbers]
Transaction(T, D, R, S) ==
    [pc: {"delete", "lock", "insert"}, tables: Seq(T), new: [D -> Seq(R)],
     aim: SUBSET Committed(R), deleted: SUBSET Committed(R), inserted: SUBSET Committed(R),
     number: 1..Numbers, all: Seq(T), source: S, wanted: SUBSET R, beside: SUBSET (1..Numbers)]

ReplacementTypes(T, D, R, S) ==
    /\ rows \subseteq Committed(R)
    /\ writer \in [Writers -> Transaction(T, D, R, S) \cup {NoWrite}]
    /\ last.number \in 0..Numbers

\* A transaction inserts what it wants and nothing else, ...
InsertsWanted(w) ==
    /\ \A r \in w.inserted : r.by = w.number
    /\ \A x \in w.wanted :
         Written(x, w.number) \in w.inserted \/ \E i \in DOMAIN w.new : x \in ToSet(w.new[i])

\* ... and a row it has not deleted is in a table it will come to, or of a transaction that
\* was under way beside it.
DeletesAll(w) ==
    /\ w.tables = <<>> <=> w.pc = "insert"
    /\ \A r \in rows \ w.deleted : r.by \in w.beside \/ r.row.table \in ToSet(w.tables)
    /\ w.pc = "lock" =>
         \A r \in rows : r.row.table = Head(w.tables) => r \in w.aim \/ r.by \in w.beside

\* Two transactions under way know of each other.
KnowsOthers(p) ==
    \A q \in Writers \ {p} : writer[q] # NoWrite => writer[q].number \in writer[p].beside

ReplaceInv(T, D, R, S) ==
    /\ ReplacementTypes(T, D, R, S)
    /\ \A p \in Writers : writer[p] # NoWrite =>
         InsertsWanted(writer[p]) /\ DeletesAll(writer[p]) /\ KnowsOthers(p)
    /\ ReplacementIsWhole

LEMMA NoWriteIsNone ==
    ASSUME NEW T, NEW D, NEW R, NEW S
    PROVE  NoWrite \notin Transaction(T, D, R, S) /\ NoWrite.pc = "free"
  BY DEF NoWrite, Transaction

LEMMA ReplaceHoldsInitially ==
    ASSUME NEW T, NEW D, NEW R, NEW S, RowReplacementInit
    PROVE  ReplaceInv(T, D, R, S)
  <1>1. ReplacementTypes(T, D, R, S)
    BY RowReplacementAssumption DEF RowReplacementInit, ReplacementTypes, NothingYet
  <1>2. ReplacementIsWhole
    BY DEF RowReplacementInit, ReplacementIsWhole, LastIsWhole, LeftoversAreConcurrent, NothingYet
  <1> QED
    BY <1>1, <1>2 DEF ReplaceInv, RowReplacementInit

\* The rows of a table are in the first one or in one of the others.
LEMMA RestOfTables ==
    ASSUME NEW T, NEW s \in Seq(T), s # <<>>
    PROVE  /\ Tail(s) \in Seq(T) /\ Head(s) \in T
           /\ \A t \in ToSet(s) : t = Head(s) \/ t \in ToSet(Tail(s))
           /\ Len(s) = 1 <=> Tail(s) = <<>>
  <1>1. /\ Tail(s) \in Seq(T) /\ Head(s) \in T /\ Head(s) = s[1]
        /\ Len(s) \in Nat \ {0} /\ Len(Tail(s)) = Len(s) - 1
        /\ \A i \in 1..Len(s) - 1 : Tail(s)[i] = s[i + 1]
    OBVIOUS
  <1>2. ASSUME NEW i \in DOMAIN s, i # 1 PROVE s[i] \in ToSet(Tail(s))
    <2>1. i - 1 \in DOMAIN Tail(s) /\ Tail(s)[i - 1] = s[i]
      BY <1>1, <1>2
    <2> QED
      BY <2>1 DEF ToSet
  <1>3. \A t \in ToSet(s) : t = Head(s) \/ t \in ToSet(Tail(s))
    BY <1>1, <1>2 DEF ToSet
  <1>4. Len(s) = 1 <=> Tail(s) = <<>>
    <2>1. Len(Tail(s)) = 0 <=> Tail(s) = <<>>
      <3>1. \A u \in Seq(T) : Len(u) = 0 <=> u = <<>>
        OBVIOUS
      <3> QED
        BY <1>1, <3>1
    <2> QED
      BY <1>1, <2>1
  <1> QED
    BY <1>1, <1>3, <1>4

\* A step of one transaction that shows nothing to the others
LEMMA OneWriterMoves ==
    ASSUME NEW T, NEW D, NEW R, NEW S, ReplaceInv(T, D, R, S), NEW p \in Writers,
           writer[p] # NoWrite, NEW w, w \in Transaction(T, D, R, S) \cup {NoWrite},
           writer' = [writer EXCEPT ![p] = w], UNCHANGED <<rows, last>>,
           w # NoWrite => /\ InsertsWanted(w) /\ DeletesAll(w)
                          /\ w.number = writer[p].number /\ w.beside = writer[p].beside
    PROVE  ReplaceInv(T, D, R, S)'
  <1>1. ReplacementTypes(T, D, R, S)'
    BY DEF ReplaceInv, ReplacementTypes
  <1>2. ReplacementIsWhole'
    BY DEF ReplaceInv, ReplacementIsWhole, LastIsWhole, LeftoversAreConcurrent
  <1>3. \A q \in Writers : writer'[q] = IF q = p THEN w ELSE writer[q]
    BY DEF ReplaceInv, ReplacementTypes
  <1>4. ASSUME NEW q \in Writers, writer'[q] # NoWrite
        PROVE  InsertsWanted(writer[q])' /\ DeletesAll(writer[q])' /\ KnowsOthers(q)'
    <2>1. InsertsWanted(writer[q])' /\ DeletesAll(writer[q])'
      BY <1>3, <1>4 DEF ReplaceInv, InsertsWanted, DeletesAll
    <2>2. KnowsOthers(q)'
      BY <1>3, <1>4 DEF ReplaceInv, KnowsOthers
    <2> QED
      BY <2>1, <2>2
  <1> QED
    BY <1>1, <1>2, <1>4 DEF ReplaceInv

\* the transactions of a state and their fields
LEMMA WriterFields ==
    ASSUME NEW T, NEW D, NEW R, NEW S, ReplacementTypes(T, D, R, S), NEW p \in Writers,
           writer[p] # NoWrite
    PROVE  /\ writer[p] \in Transaction(T, D, R, S)
           /\ writer[p].new \in [D -> Seq(R)] /\ writer[p].tables \in Seq(T)
           /\ writer[p].inserted \subseteq Committed(R)
           /\ writer[p].number \in 1..Numbers
  BY DEF ReplacementTypes, Transaction

LEMMA AimKeepsReplacement ==
    ASSUME NEW T, NEW D, NEW R, NEW S, ReplaceInv(T, D, R, S), NEW p \in Writers, AimDelete(p)
    PROVE  ReplaceInv(T, D, R, S)'
  <1>1. ReplacementTypes(T, D, R, S) /\ writer[p] # NoWrite /\ writer[p].pc = "delete"
    BY NoWriteIsNone DEF ReplaceInv, AimDelete
  <1> DEFINE aim == {r \in rows : r.row.table = Head(writer[p].tables)}
             w == [writer[p] EXCEPT !.pc = "lock", !.aim = aim]
  <1>2. writer[p] \in Transaction(T, D, R, S) /\ InsertsWanted(writer[p]) /\ DeletesAll(writer[p])
    BY <1>1, WriterFields DEF ReplaceInv
  <1>3. aim \subseteq Committed(R)
    BY <1>1 DEF ReplacementTypes
  <1>4. w \in Transaction(T, D, R, S)
    BY <1>2, <1>3 DEF Transaction
  <1>5. /\ w.pc = "lock" /\ w.aim = aim /\ w.number = writer[p].number
        /\ w.beside = writer[p].beside /\ w.tables = writer[p].tables
        /\ w.deleted = writer[p].deleted /\ w.inserted = writer[p].inserted
        /\ w.wanted = writer[p].wanted /\ w.new = writer[p].new
    BY <1>2 DEF Transaction
  <1>6. InsertsWanted(w) /\ DeletesAll(w)
    BY <1>1, <1>2, <1>5 DEF InsertsWanted, DeletesAll
  <1>7. writer' = [writer EXCEPT ![p] = w] /\ UNCHANGED <<rows, last>>
    BY <1>1 DEF AimDelete, ReplacementTypes
  <1> HIDE DEF w
  <1> QED
    BY <1>1, <1>4, <1>5, <1>6, <1>7, OneWriterMoves

LEMMA DeleteKeepsReplacement ==
    ASSUME NEW T, NEW D, NEW R, NEW S, ReplaceInv(T, D, R, S), NEW p \in Writers, Delete(p)
    PROVE  ReplaceInv(T, D, R, S)'
  <1>1. ReplacementTypes(T, D, R, S) /\ writer[p] # NoWrite /\ writer[p].pc = "lock"
    BY NoWriteIsNone DEF ReplaceInv, Delete
  <1> DEFINE old == writer[p]
             pc == IF Len(old.tables) = 1 THEN "insert" ELSE "delete"
             w == [old EXCEPT !.pc = pc, !.tables = Tail(@), !.aim = {},
                              !.deleted = @ \cup (old.aim \cap rows)]
  <1>2. old \in Transaction(T, D, R, S) /\ InsertsWanted(old) /\ DeletesAll(old)
    BY <1>1, WriterFields DEF ReplaceInv
  <1>3. old.tables \in Seq(T) /\ old.tables # <<>>
    BY <1>1, <1>2 DEF DeletesAll, Transaction
  <1>4. /\ Tail(old.tables) \in Seq(T)
        /\ \A t \in ToSet(old.tables) : t = Head(old.tables) \/ t \in ToSet(Tail(old.tables))
        /\ pc = "insert" <=> Tail(old.tables) = <<>>
    BY <1>3, RestOfTables
  <1>5. pc \in {"insert", "delete"}
    OBVIOUS
  <1>6. writer' = [writer EXCEPT ![p] = w] /\ UNCHANGED <<rows, last>>
    BY <1>1 DEF Delete, ReplacementTypes
  <1> HIDE DEF pc
  <1>7. w \in Transaction(T, D, R, S)
    BY <1>2, <1>4, <1>5 DEF Transaction
  <1>8. /\ w.pc = pc /\ w.number = old.number
        /\ w.beside = old.beside /\ w.tables = Tail(old.tables)
        /\ w.deleted = old.deleted \cup (old.aim \cap rows) /\ w.inserted = old.inserted
        /\ w.wanted = old.wanted /\ w.new = old.new
    BY <1>2 DEF Transaction
  <1> HIDE DEF w
  <1>9. InsertsWanted(w)
    BY <1>2, <1>8 DEF InsertsWanted
  <1>10. DeletesAll(w)
    <2>1. ASSUME NEW r \in rows \ w.deleted, r.by \notin w.beside
          PROVE  r.row.table \in ToSet(w.tables)
      <3>1. r \in rows \ old.deleted /\ r.by \notin old.beside /\ r \notin old.aim
        BY <1>8, <2>1
      <3>2. r.row.table \in ToSet(old.tables) /\ r.row.table # Head(old.tables)
        BY <1>1, <1>2, <3>1 DEF DeletesAll
      <3> QED
        BY <1>4, <1>8, <3>2
    <2> QED
      BY <1>4, <1>5, <1>8, <2>1 DEF DeletesAll
  <1> QED
    BY <1>1, <1>6, <1>7, <1>8, <1>9, <1>10, OneWriterMoves

LEMMA AbortKeepsReplacement ==
    ASSUME NEW T, NEW D, NEW R, NEW S, ReplaceInv(T, D, R, S), NEW p \in Writers, Abort(p)
    PROVE  ReplaceInv(T, D, R, S)'
  BY OneWriterMoves DEF Abort

\* what the INSERT of batch i makes of its transaction: w
NewRows(w, i) == {Written(new, w.number) : new \in ToSet(w.new[i])}
Inserted(p, i, w) ==
    /\ writer[p] # NoWrite /\ writer[p].pc = "insert" /\ Insertable(p, writer[p].new[i])
    /\ writer' = [writer EXCEPT ![p] = w] /\ UNCHANGED <<rows, last>>
    /\ w.new = [writer[p].new EXCEPT ![i] = <<>>]
    /\ w.inserted = writer[p].inserted \cup NewRows(writer[p], i)
    /\ w.pc = "insert" /\ w.number = writer[p].number /\ w.beside = writer[p].beside
    /\ w.tables = writer[p].tables /\ w.deleted = writer[p].deleted
    /\ w.wanted = writer[p].wanted

LEMMA InsertedFields ==
    ASSUME NEW T, NEW D, NEW R, NEW S, ReplacementTypes(T, D, R, S), NEW p \in Writers,
           InsertRows(p)
    PROVE  \E i \in D, w \in Transaction(T, D, R, S) : Inserted(p, i, w)
  <1> DEFINE old == writer[p]
  <1>1. old # NoWrite /\ old.pc = "insert"
    BY NoWriteIsNone DEF InsertRows
  <1>2. /\ old \in Transaction(T, D, R, S) /\ old.new \in [D -> Seq(R)]
        /\ old.number \in 1..Numbers
    BY <1>1, WriterFields
  <1> PICK i \in DOMAIN old.new :
        /\ Insertable(p, old.new[i])
        /\ writer' = [writer EXCEPT ![p].new[i] = <<>>,
               ![p].inserted = @ \cup NewRows(old, i)]
    BY DEF InsertRows, NewRows
  <1> DEFINE fresh == NewRows(old, i)
             new == [old.new EXCEPT ![i] = <<>>]
             w == [old EXCEPT !.new = new, !.inserted = @ \cup fresh]
  <1>3. i \in D /\ old.new[i] \in Seq(R)
    BY <1>2
  <1>4. ToSet(old.new[i]) \subseteq R
    BY <1>3 DEF ToSet
  <1>5. fresh \subseteq Committed(R)
    BY <1>2, <1>4 DEF Committed, Written, NewRows
  <1>6. new \in [D -> Seq(R)]
    BY <1>2
  <1>7. writer' = [writer EXCEPT ![p] = w]
    BY DEF ReplacementTypes
  <1> HIDE DEF fresh, new
  <1>8. w \in Transaction(T, D, R, S)
    BY <1>2, <1>5, <1>6 DEF Transaction
  <1>9. /\ w.new = new /\ w.inserted = old.inserted \cup fresh
        /\ w.pc = "insert" /\ w.number = old.number /\ w.beside = old.beside
        /\ w.tables = old.tables /\ w.deleted = old.deleted /\ w.wanted = old.wanted
    BY <1>1, <1>2 DEF Transaction
  <1>10. UNCHANGED <<rows, last>>
    BY DEF InsertRows
  <1> HIDE DEF w
  <1> QED
    BY <1>1, <1>3, <1>7, <1>8, <1>9, <1>10 DEF fresh, new, Inserted

LEMMA InsertKeepsReplacement ==
    ASSUME NEW T, NEW D, NEW R, NEW S, ReplaceInv(T, D, R, S), NEW p \in Writers, InsertRows(p)
    PROVE  ReplaceInv(T, D, R, S)'
  <1> DEFINE old == writer[p]
  <1>0. ReplacementTypes(T, D, R, S)
    BY DEF ReplaceInv
  <1> PICK i \in D, w \in Transaction(T, D, R, S) : Inserted(p, i, w)
    BY <1>0, InsertedFields
  <1> USE DEF Inserted
  <1>1. InsertsWanted(old) /\ DeletesAll(old) /\ old.new \in [D -> Seq(R)]
    BY WriterFields DEF ReplaceInv
  <1>2. \A r \in w.inserted : r.by = w.number
    BY <1>1 DEF InsertsWanted, Written, NewRows
  <1>3. ASSUME NEW x \in w.wanted
        PROVE  Written(x, w.number) \in w.inserted \/ \E j \in DOMAIN w.new : x \in ToSet(w.new[j])
    <2>1. CASE x \in ToSet(old.new[i]) \/ Written(x, old.number) \in old.inserted
      BY <2>1 DEF NewRows
    <2>2. CASE \E j \in D \ {i} : x \in ToSet(old.new[j])
      <3> PICK j \in D \ {i} : x \in ToSet(old.new[j])
        BY <2>2
      <3>1. j \in DOMAIN w.new /\ w.new[j] = old.new[j]
        BY <1>1
      <3> QED
        BY <3>1
    <2> QED
      BY <1>1, <1>3, <2>1, <2>2 DEF InsertsWanted
  <1>4. InsertsWanted(w)
    BY <1>2, <1>3 DEF InsertsWanted
  <1>5. DeletesAll(w)
    BY <1>1 DEF DeletesAll
  <1> QED
    BY <1>4, <1>5, OneWriterMoves

\* A transaction that commits has nothing left to insert or to delete.
LEMMA CommitKeepsReplacement ==
    ASSUME NEW T, NEW D, NEW R, NEW S, ReplaceInv(T, D, R, S), NEW p \in Writers, Commit(p)
    PROVE  ReplaceInv(T, D, R, S)'
  <1> DEFINE w == writer[p]
  <1>1. /\ ReplacementTypes(T, D, R, S) /\ w # NoWrite /\ w.pc = "insert"
        /\ \A i \in DOMAIN w.new : w.new[i] = <<>>
        /\ rows' = (rows \ w.deleted) \cup w.inserted
        /\ writer' = [writer EXCEPT ![p] = NoWrite] /\ last' = Trace(w)
    BY NoWriteIsNone DEF ReplaceInv, Commit
  <1>2. /\ w.inserted \subseteq Committed(R) /\ w.number \in 1..Numbers
        /\ InsertsWanted(w) /\ DeletesAll(w) /\ KnowsOthers(p)
    BY <1>1, WriterFields DEF ReplaceInv
  <1>3. /\ last'.number = w.number /\ last'.wanted = w.wanted
        /\ last'.beside = w.beside \cap {r.by : r \in rows}
    BY <1>1 DEF Trace
  <1>4. ReplacementTypes(T, D, R, S)'
    BY <1>1, <1>2, <1>3 DEF ReplacementTypes
  <1>5. \A q \in Writers : writer'[q] = IF q = p THEN NoWrite ELSE writer[q]
    BY <1>1 DEF ReplacementTypes
  <1>6. LastIsWhole'
    <2> SUFFICES ASSUME NEW x \in w.wanted PROVE Written(x, w.number) \in rows'
      BY <1>3 DEF LastIsWhole
    <2>1. \A i \in DOMAIN w.new : x \notin ToSet(w.new[i])
      BY <1>1 DEF ToSet
    <2> QED
      BY <1>1, <1>2, <2>1 DEF InsertsWanted
  <1>7. LeftoversAreConcurrent'
    <2> SUFFICES ASSUME NEW r \in rows' PROVE r.by = last'.number \/ r.by \in last'.beside
      BY DEF LeftoversAreConcurrent
    <2>1. CASE r \in w.inserted
      BY <1>2, <1>3, <2>1 DEF InsertsWanted
    <2>2. CASE r \in rows \ w.deleted
      <3>1. r.row.table \notin ToSet(w.tables)
        BY <1>1, <1>2 DEF DeletesAll, ToSet
      <3> QED
        BY <1>2, <1>3, <2>2, <3>1 DEF DeletesAll
    <2> QED
      BY <1>1, <2>1, <2>2
  <1>8. ASSUME NEW q \in Writers, writer'[q] # NoWrite
        PROVE  InsertsWanted(writer[q])' /\ DeletesAll(writer[q])' /\ KnowsOthers(q)'
    <2> DEFINE v == writer[q]
    <2>1. q # p /\ writer'[q] = v /\ v # NoWrite
      BY <1>5, <1>8
    <2>2. InsertsWanted(v) /\ DeletesAll(v) /\ KnowsOthers(q) /\ w.number \in v.beside
      BY <1>1, <2>1 DEF ReplaceInv, KnowsOthers
    <2>3. \A r \in rows' : r \in rows \/ r.by \in v.beside
      BY <1>1, <1>2, <2>2 DEF InsertsWanted
    <2>4. DeletesAll(writer[q])'
      BY <2>1, <2>2, <2>3 DEF DeletesAll
    <2>5. InsertsWanted(writer[q])'
      BY <2>1, <2>2 DEF InsertsWanted
    <2>6. KnowsOthers(q)'
      BY <1>5, <2>1, <2>2 DEF KnowsOthers
    <2> QED
      BY <2>4, <2>5, <2>6
  <1> QED
    BY <1>4, <1>6, <1>7, <1>8 DEF ReplaceInv, ReplacementIsWhole

\* the transaction that begins, and the others, which know of it
Begun(p, n, tables, new, source) ==
    [pc |-> "delete", tables |-> tables, new |-> new, aim |-> {},
     deleted |-> {}, inserted |-> {}, number |-> n, all |-> tables, source |-> source,
     wanted |-> UNION {ToSet(new[i]) : i \in DOMAIN new},
     beside |-> {writer[o].number : o \in Others(p)}]

LEMMA StartedWriters ==
    ASSUME NEW T, NEW D, NEW R, NEW S, ReplacementTypes(T, D, R, S), NEW p \in Writers,
           NEW tables, NEW new, NEW source, Start(p, tables, new, source)
    PROVE  \E n \in 1..Numbers :
              /\ n \notin InUse /\ writer[p] = NoWrite
              /\ \A q \in Writers : writer'[q] =
                   IF q = p THEN Begun(p, n, tables, new, source)
                   ELSE IF writer[q] = NoWrite THEN NoWrite
                   ELSE [writer[q] EXCEPT !.beside = @ \cup {n}]
              /\ DOMAIN writer' = Writers /\ writer' = [q \in Writers |-> writer'[q]]
              /\ UNCHANGED <<rows, last>>
  <1> DEFINE n == CHOOSE n \in (1..Numbers) \ InUse : TRUE
  <1>1. n \in (1..Numbers) \ InUse
    BY DEF Start
  <1>2. writer' = [q \in Writers |->
                      IF q = p THEN Begun(p, n, tables, new, source)
                      ELSE IF writer[q] = NoWrite THEN NoWrite
                      ELSE [writer[q] EXCEPT !.beside = @ \cup {n}]]
    BY DEF Start, Begun
  <1>3. writer[p] = NoWrite /\ UNCHANGED <<rows, last>>
    BY DEF Start
  <1> HIDE DEF n
  <1> QED
    BY <1>1, <1>2, <1>3

LEMMA StartKeepsReplacement ==
    ASSUME NEW T, NEW D, NEW R, NEW S, ReplaceInv(T, D, R, S), \A x \in R : x.table \in T,
           NEW p \in Writers, NEW tables \in Seq(T), T \subseteq ToSet(tables), tables # <<>>,
           NEW new \in [D -> Seq(R)], NEW source \in S, Start(p, tables, new, source)
    PROVE  ReplaceInv(T, D, R, S)'
  <1>0. ReplacementTypes(T, D, R, S)
    BY DEF ReplaceInv
  <1> PICK n \in 1..Numbers :
              /\ n \notin InUse /\ writer[p] = NoWrite
              /\ \A q \in Writers : writer'[q] =
                   IF q = p THEN Begun(p, n, tables, new, source)
                   ELSE IF writer[q] = NoWrite THEN NoWrite
                   ELSE [writer[q] EXCEPT !.beside = @ \cup {n}]
              /\ DOMAIN writer' = Writers /\ writer' = [q \in Writers |-> writer'[q]]
              /\ UNCHANGED <<rows, last>>
    BY <1>0, StartedWriters
  <1> PICK w : w = Begun(p, n, tables, new, source)
    OBVIOUS
  <1>1. /\ w.pc = "delete" /\ w.tables = tables /\ w.new = new
        /\ w.aim = {} /\ w.deleted = {} /\ w.inserted = {} /\ w.number = n
        /\ w.wanted = UNION {ToSet(new[i]) : i \in DOMAIN new}
        /\ w.beside = {writer[o].number : o \in Others(p)}
    BY DEF Begun
  <1>2. w \in Transaction(T, D, R, S)
    <2>1. UNION {ToSet(new[i]) : i \in DOMAIN new} \subseteq R
      BY DEF ToSet
    <2>2. {writer[o].number : o \in Others(p)} \subseteq 1..Numbers
      BY <1>0, WriterFields DEF Others
    <2> QED
      BY <2>1, <2>2 DEF Begun, Transaction
  <1>3. ASSUME NEW q \in Writers, writer[q] # NoWrite
        PROVE  LET v == writer[q]
                   u == [v EXCEPT !.beside = @ \cup {n}]
               IN /\ u \in Transaction(T, D, R, S) /\ InsertsWanted(u)
                  /\ DeletesAll(u) /\ u.number = v.number /\ u.beside = v.beside \cup {n}
    <2> DEFINE v == writer[q]
               u == [v EXCEPT !.beside = @ \cup {n}]
    <2>1. v \in Transaction(T, D, R, S) /\ InsertsWanted(v) /\ DeletesAll(v)
      BY <1>0, <1>3, WriterFields DEF ReplaceInv
    <2>2. u \in Transaction(T, D, R, S)
      BY <2>1 DEF Transaction
    <2>3. /\ u.number = v.number /\ u.beside = v.beside \cup {n} /\ u.pc = v.pc
          /\ u.tables = v.tables /\ u.new = v.new /\ u.aim = v.aim /\ u.deleted = v.deleted
          /\ u.inserted = v.inserted /\ u.wanted = v.wanted
      BY <2>1 DEF Transaction
    <2> HIDE DEF u
    <2>4. InsertsWanted(u)
      BY <2>1, <2>3 DEF InsertsWanted
    <2>5. DeletesAll(u)
      BY <2>1, <2>3 DEF DeletesAll
    <2> QED
      BY <2>2, <2>3, <2>4, <2>5 DEF u
  <1>4. ReplacementTypes(T, D, R, S)'
    <2>1. \A q \in Writers : writer'[q] \in Transaction(T, D, R, S) \cup {NoWrite}
      BY ZenonT(40), <1>2, <1>3
    <2> QED
      BY <1>0, <2>1 DEF ReplacementTypes
  <1>5. ReplacementIsWhole'
    BY DEF ReplaceInv, ReplacementIsWhole, LastIsWhole, LeftoversAreConcurrent
  <1>6. InsertsWanted(writer[p])' /\ DeletesAll(writer[p])' /\ KnowsOthers(p)'
    <2>1. writer'[p] = w
      OBVIOUS
    <2>2. InsertsWanted(writer[p])'
      BY <1>1, <2>1 DEF InsertsWanted
    <2>3. \A r \in rows : r.row.table \in ToSet(tables)
      BY <1>0 DEF ReplacementTypes, Committed
    <2>4. DeletesAll(writer[p])'
      BY <1>1, <2>1, <2>3 DEF DeletesAll
    <2>5. ASSUME NEW q \in Writers \ {p}, writer'[q] # NoWrite
          PROVE  writer'[q].number \in w.beside
      <3>1. writer[q] # NoWrite
        BY <2>5
      <3>2. writer'[q].number = writer[q].number
        BY <1>3, <3>1
      <3> QED
        BY <1>1, <3>1, <3>2 DEF Others
    <2>6. KnowsOthers(p)'
      BY <2>1, <2>5 DEF KnowsOthers
    <2> QED
      BY <2>2, <2>4, <2>6
  <1>7. ASSUME NEW q \in Writers \ {p}, writer'[q] # NoWrite
        PROVE  InsertsWanted(writer[q])' /\ DeletesAll(writer[q])' /\ KnowsOthers(q)'
    <2>1. writer[q] # NoWrite
      BY <1>7
    <2> PICK u : u = [writer[q] EXCEPT !.beside = @ \cup {n}]
      OBVIOUS
    <2>2. /\ InsertsWanted(u) /\ DeletesAll(u) /\ u.number = writer[q].number
          /\ u.beside = writer[q].beside \cup {n} /\ writer'[q] = u
      BY <1>3, <2>1
    <2>3. InsertsWanted(writer[q])' /\ DeletesAll(writer[q])'
      BY <2>2 DEF InsertsWanted, DeletesAll
    <2>4. ASSUME NEW o \in Writers \ {q}, writer'[o] # NoWrite
          PROVE  writer'[o].number \in u.beside
      <3>1. CASE o = p
        BY <1>1, <2>2, <3>1
      <3>2. CASE o # p
        <4>1. writer[o] # NoWrite
          BY <2>4, <3>2
        <4>2. writer'[o].number = writer[o].number
          BY <1>3, <3>2, <4>1
        <4> QED
          BY <2>1, <2>2, <4>1, <4>2 DEF ReplaceInv, KnowsOthers
      <3> QED
        BY <3>1, <3>2
    <2>5. KnowsOthers(q)'
      BY <2>2, <2>4 DEF KnowsOthers
    <2> QED
      BY <2>3, <2>5
  <1> QED
    BY <1>4, <1>5, <1>6, <1>7 DEF ReplaceInv

LEMMA StatementKeepsReplacement ==
    ASSUME NEW T, NEW D, NEW R, NEW S, ReplaceInv(T, D, R, S), Statement \/ UNCHANGED rowVars
    PROVE  ReplaceInv(T, D, R, S)'
  <1>1. CASE Statement
    BY <1>1, AimKeepsReplacement, DeleteKeepsReplacement, InsertKeepsReplacement,
       CommitKeepsReplacement, AbortKeepsReplacement DEF Statement
  <1>2. CASE UNCHANGED rowVars
    BY <1>2 DEF rowVars, ReplaceInv, ReplacementTypes, ReplacementIsWhole, LastIsWhole,
       LeftoversAreConcurrent, InsertsWanted, DeletesAll, KnowsOthers
  <1> QED
    BY <1>1, <1>2

\* No two rows of one key, among those that are committed and those that may be.
KeysOf(p) ==
    LET w == writer[p]
    IN /\ w.pc # "insert" => w.inserted = {}
       /\ \A r, s \in w.inserted : Same(r, s.row) => r = s
       /\ \A r \in w.inserted, s \in rows \ w.deleted : ~Same(r, s.row)
KeysApart(p, q) == \A r \in writer[p].inserted, s \in writer[q].inserted : ~Same(r, s.row)
KeyInv ==
    /\ \A r, s \in rows : Same(r, s.row) => r = s
    /\ \A p \in Writers : writer[p] # NoWrite =>
         /\ KeysOf(p)
         /\ \A q \in Writers \ {p} : writer[q] # NoWrite => KeysApart(p, q)

LEMMA SameIsSymmetric ==
    \A r, s : Same(r, s.row) <=> Same(s, r.row)
  BY DEF Same

\* A step of one transaction that commits nothing
LEMMA KeysOfOne ==
    ASSUME KeyInv, NEW p \in Writers, writer[p] # NoWrite, DOMAIN writer = Writers, NEW w,
           writer' = [writer EXCEPT ![p] = w], UNCHANGED rows,
           w # NoWrite => KeysOf(p)',
           w # NoWrite => \A q \in Writers \ {p} : writer[q] # NoWrite =>
               \A r \in w.inserted, s \in writer[q].inserted : ~Same(r, s.row)
    PROVE  KeyInv'
  <1>1. \A q \in Writers : writer'[q] = IF q = p THEN w ELSE writer[q]
    OBVIOUS
  <1>2. ASSUME NEW q \in Writers, writer'[q] # NoWrite
        PROVE  /\ KeysOf(q)'
               /\ \A o \in Writers \ {q} : writer'[o] # NoWrite => KeysApart(q, o)'
    <2>1. KeysOf(q)'
      <3>1. CASE q # p
        BY <1>1, <1>2, <3>1 DEF KeyInv, KeysOf
      <3>2. CASE q = p
        BY <1>1, <1>2, <3>2
      <3> QED
        BY <3>1, <3>2
    <2>2. ASSUME NEW o \in Writers \ {q}, writer'[o] # NoWrite PROVE KeysApart(q, o)'
      <3>1. CASE q = p
        BY <1>1, <1>2, <2>2, <3>1 DEF KeysApart
      <3>2. CASE o = p
        BY <1>1, <1>2, <2>2, <3>2, SameIsSymmetric DEF KeysApart
      <3>3. CASE q # p /\ o # p
        BY <1>1, <1>2, <2>2, <3>3 DEF KeyInv, KeysApart
      <3> QED
        BY <3>1, <3>2, <3>3
    <2> QED
      BY <2>1, <2>2
  <1> QED
    BY <1>2 DEF KeyInv

\* Deleting makes fewer rows to be apart from, and nothing is inserted yet.
LEMMA DeletingKeepsKeys ==
    ASSUME NEW T, NEW D, NEW R, NEW S, ReplacementTypes(T, D, R, S), KeyInv, NEW p \in Writers,
           AimDelete(p) \/ Delete(p) \/ Abort(p)
    PROVE  KeyInv'
  <1>0. DOMAIN writer = Writers /\ writer[p] # NoWrite
    BY NoWriteIsNone DEF ReplacementTypes, AimDelete, Delete, Abort
  <1>1. CASE Abort(p)
    BY <1>0, <1>1, KeysOfOne DEF Abort
  <1>2. CASE AimDelete(p) \/ Delete(p)
    <2>1. writer[p] \in Transaction(T, D, R, S) /\ writer[p].inserted = {}
      BY <1>0, <1>2, WriterFields DEF KeyInv, KeysOf, AimDelete, Delete
    <2> PICK w : writer' = [writer EXCEPT ![p] = w] /\ w.inserted = {}
      <3>1. CASE AimDelete(p)
        <4> DEFINE w == [writer[p] EXCEPT
                !.pc = "lock", !.aim = {r \in rows : r.row.table = Head(writer[p].tables)}]
        <4>1. writer' = [writer EXCEPT ![p] = w] /\ w.inserted = {}
          BY <1>0, <2>1, <3>1 DEF AimDelete, Transaction
        <4> QED
          BY <4>1
      <3>2. CASE Delete(p)
        <4> DEFINE pc == IF Len(writer[p].tables) = 1 THEN "insert" ELSE "delete"
                   w == [writer[p] EXCEPT !.pc = pc, !.tables = Tail(@), !.aim = {},
                           !.deleted = @ \cup (writer[p].aim \cap rows)]
        <4>1. writer' = [writer EXCEPT ![p] = w]
          BY <1>0, <3>2 DEF Delete
        <4> HIDE DEF pc
        <4>2. w.inserted = {}
          BY <2>1 DEF Transaction
        <4> HIDE DEF w
        <4> QED
          BY <4>1, <4>2
      <3> QED
        BY <1>2, <3>1, <3>2
    <2>2. writer'[p] = w /\ UNCHANGED rows
      BY <1>0, <1>2 DEF AimDelete, Delete
    <2>3. KeysOf(p)'
      BY <2>2 DEF KeysOf
    <2> QED
      BY <1>0, <2>2, <2>3, KeysOfOne
  <1> QED
    BY <1>1, <1>2

LEMMA InsertKeepsKeys ==
    ASSUME NEW T, NEW D, NEW R, NEW S, ReplacementTypes(T, D, R, S), KeyInv, NEW p \in Writers,
           InsertRows(p)
    PROVE  KeyInv'
  <1> DEFINE old == writer[p]
  <1> PICK i \in D, w \in Transaction(T, D, R, S) : Inserted(p, i, w)
    BY InsertedFields
  <1>1. /\ DOMAIN writer = Writers /\ old # NoWrite /\ writer'[p] = w /\ UNCHANGED rows
        /\ w.pc = "insert" /\ w.deleted = old.deleted
        /\ w.inserted = old.inserted \cup NewRows(old, i) /\ KeysOf(p)
        /\ writer' = [writer EXCEPT ![p] = w]
    BY DEF Inserted, ReplacementTypes, KeyInv
  <1>2. Insertable(p, old.new[i])
    BY DEF Inserted
  <1>3. ASSUME NEW r \in NewRows(old, i)
        PROVE  /\ \A s \in NewRows(old, i) : Same(r, s.row) => r = s
               /\ \A q \in Others(p) : \A s \in writer[q].inserted : ~Same(s, r.row)
               /\ \A s \in (rows \ old.deleted) \cup old.inserted : ~Same(s, r.row)
    <2> DEFINE batch == old.new[i]
    <2> PICK j \in DOMAIN batch : r = Written(batch[j], old.number)
      BY DEF NewRows, ToSet
    <2>1. r.row = batch[j] /\ batch[j] \in ToSet(batch)
      BY DEF Written, ToSet
    <2>2. ASSUME NEW s \in NewRows(old, i), Same(r, s.row) PROVE r = s
      <3> PICK k \in DOMAIN batch : s = Written(batch[k], old.number)
        BY DEF NewRows, ToSet
      <3>1. batch[j].key = batch[k].key
        BY <2>1, <2>2 DEF Same, Written
      <3> QED
        BY <1>2, <3>1 DEF Insertable
    <2> QED
      BY <1>2, <2>1, <2>2 DEF Insertable
  <1>4. KeysOf(p)'
    <2>1. \A r, s \in w.inserted : Same(r, s.row) => r = s
      BY <1>1, <1>3, SameIsSymmetric DEF KeysOf
    <2>2. \A r \in w.inserted, s \in rows \ w.deleted : ~Same(r, s.row)
      BY <1>1, <1>3, SameIsSymmetric DEF KeysOf
    <2> QED
      BY <1>1, <2>1, <2>2 DEF KeysOf
  <1>5. ASSUME NEW q \in Writers \ {p}, writer[q] # NoWrite
        PROVE  \A r \in w.inserted, s \in writer[q].inserted : ~Same(r, s.row)
    BY <1>1, <1>3, <1>5, SameIsSymmetric DEF Others, KeyInv, KeysApart
  <1> QED
    BY <1>1, <1>4, <1>5, KeysOfOne

LEMMA CommitKeepsKeys ==
    ASSUME NEW T, NEW D, NEW R, NEW S, ReplacementTypes(T, D, R, S), KeyInv, NEW p \in Writers,
           Commit(p)
    PROVE  KeyInv'
  <1> DEFINE w == writer[p]
  <1>1. /\ w # NoWrite /\ rows' = (rows \ w.deleted) \cup w.inserted
        /\ writer' = [writer EXCEPT ![p] = NoWrite] /\ DOMAIN writer = Writers
    BY NoWriteIsNone DEF Commit, ReplacementTypes
  <1>2. \A q \in Writers : writer'[q] = IF q = p THEN NoWrite ELSE writer[q]
    BY <1>1
  <1>3. \A r, s \in rows' : Same(r, s.row) => r = s
    BY <1>1, SameIsSymmetric DEF KeyInv, KeysOf
  <1>4. ASSUME NEW q \in Writers, writer'[q] # NoWrite
        PROVE  /\ KeysOf(q)'
               /\ \A o \in Writers \ {q} : writer'[o] # NoWrite => KeysApart(q, o)'
    <2>1. q # p /\ writer'[q] = writer[q] /\ writer[q] # NoWrite
      BY <1>2, <1>4
    <2>2. KeysOf(q) /\ KeysApart(q, p)
      BY <1>1, <2>1 DEF KeyInv
    <2>3. KeysOf(q)'
      BY <1>1, <2>1, <2>2 DEF KeysOf, KeysApart
    <2>4. \A o \in Writers \ {q} : writer'[o] # NoWrite => KeysApart(q, o)'
      BY <1>2, <2>1 DEF KeyInv, KeysApart
    <2> QED
      BY <2>3, <2>4
  <1> QED
    BY <1>3, <1>4 DEF KeyInv

\* What begins has inserted nothing yet.
LEMMA StartKeepsKeys ==
    ASSUME NEW T, NEW D, NEW R, NEW S, ReplacementTypes(T, D, R, S), KeyInv, NEW p \in Writers,
           NEW tables, NEW new, NEW source, Start(p, tables, new, source)
    PROVE  KeyInv'
  <1> PICK n \in 1..Numbers :
              /\ n \notin InUse /\ writer[p] = NoWrite
              /\ \A q \in Writers : writer'[q] =
                   IF q = p THEN Begun(p, n, tables, new, source)
                   ELSE IF writer[q] = NoWrite THEN NoWrite
                   ELSE [writer[q] EXCEPT !.beside = @ \cup {n}]
              /\ DOMAIN writer' = Writers /\ writer' = [q \in Writers |-> writer'[q]]
              /\ UNCHANGED <<rows, last>>
    BY StartedWriters
  <1>1. writer'[p].inserted = {}
    BY DEF Begun
  <1>2. \A q \in Writers \ {p} : writer'[q] # NoWrite =>
          /\ writer[q] # NoWrite /\ writer'[q].inserted = writer[q].inserted
          /\ writer'[q].deleted = writer[q].deleted /\ writer'[q].pc = writer[q].pc
    BY WriterFields DEF Transaction
  <1>3. ASSUME NEW q \in Writers, writer'[q] # NoWrite
        PROVE  /\ KeysOf(q)'
               /\ \A o \in Writers \ {q} : writer'[o] # NoWrite => KeysApart(q, o)'
    <2>1. KeysOf(q)'
      BY <1>1, <1>2, <1>3 DEF KeyInv, KeysOf
    <2>2. \A o \in Writers \ {q} : writer'[o] # NoWrite => KeysApart(q, o)'
      BY <1>1, <1>2, <1>3 DEF KeyInv, KeysApart
    <2> QED
      BY <2>1, <2>2
  <1> QED
    BY <1>3 DEF KeyInv

LEMMA KeysHoldInitially == RowReplacementInit => KeyInv
  BY DEF RowReplacementInit, KeyInv

LEMMA StatementKeepsKeys ==
    ASSUME NEW T, NEW D, NEW R, NEW S, ReplacementTypes(T, D, R, S), KeyInv,
           Statement \/ UNCHANGED rowVars
    PROVE  KeyInv'
  <1>1. CASE Statement
    BY <1>1, DeletingKeepsKeys, InsertKeepsKeys, CommitKeepsKeys DEF Statement
  <1>2. CASE UNCHANGED rowVars
    BY <1>2 DEF rowVars, KeyInv, KeysOf, KeysApart
  <1> QED
    BY <1>1, <1>2

LEMMA ReplacementIsTyped ==
    ASSUME NEW T, NEW D, NEW R, NEW S, ReplaceInv(T, D, R, S), KeyInv
    PROVE  RowReplacementTypeOK
  <1>1. ReplacementTypes(T, D, R, S)
    BY DEF ReplaceInv
  <1>2. \A r \in rows : r.by \in 1..Numbers
    BY <1>1 DEF ReplacementTypes, Committed
  <1>3. InUse \subseteq 0..Numbers
    BY <1>1, <1>2, WriterFields DEF InUse, ReplacementTypes
  <1>4. ASSUME NEW p \in Writers, writer[p] # NoWrite
        PROVE  /\ writer[p].pc \in {"delete", "lock", "insert"}
               /\ \A r \in writer[p].inserted : r.by = writer[p].number
               /\ writer[p].pc = "insert" <=> writer[p].tables = <<>>
    BY <1>1, <1>4, WriterFields DEF ReplaceInv, InsertsWanted, DeletesAll, Transaction
  <1> QED
    BY <1>2, <1>3, <1>4 DEF RowReplacementTypeOK, KeyInv

\* The preferences of a user
PreferenceRows == [table: ToSet(Kinds), key: Nat, value: {TRUE}]
PreferenceInv ==
    ReplaceInv(ToSet(Kinds), DOMAIN Kinds, PreferenceRows, Bodies) /\ KeyInv

LEMMA PreferencesKeepInv ==
    ASSUME PreferenceInv, PreferencesNext \/ UNCHANGED rowVars
    PROVE  PreferenceInv'
  <1> DEFINE T == ToSet(Kinds)
             D == DOMAIN Kinds
             R == PreferenceRows
             S == Bodies
  <1>1. ReplaceInv(T, D, R, S) /\ ReplacementTypes(T, D, R, S) /\ KeyInv
    BY DEF PreferenceInv, ReplaceInv
  <1>2. CASE Statement \/ UNCHANGED rowVars
    BY <1>1, <1>2, StatementKeepsReplacement, StatementKeepsKeys DEF PreferenceInv
  <1>3. ASSUME NEW p \in Writers, NEW body \in Bodies, PutPreferences(p, body)
        PROVE  PreferenceInv'
    <2>1. Start(p, Kinds, NewPreferences(body), body)
      BY <1>3 DEF PutPreferences
    <2>2. /\ Kinds \in Seq(T) /\ Kinds # <<>> /\ T \subseteq ToSet(Kinds)
          /\ \A x \in R : x.table \in T
      <3>1. Kinds \in Seq(T) /\ Kinds # <<>>
        <4>1. Kinds \in Seq(DOMAIN Existing) /\ Kinds # <<>>
          BY PreferencesAssumption
        <4>2. \A i \in 1..Len(Kinds) : Kinds[i] \in T
          BY <4>1 DEF ToSet
        <4> HIDE DEF T
        <4> QED
          BY <4>1, <4>2
      <3>2. \A x \in R : x.table \in T
        BY DEF PreferenceRows
      <3> QED
        BY <3>1, <3>2
    <2>3. NewPreferences(body) \in [D -> Seq(R)]
      <3> SUFFICES ASSUME NEW k \in D
                   PROVE  [i \in DOMAIN body[Kinds[k]] |->
                              Row(Kinds[k], body[Kinds[k]][i], TRUE)] \in Seq(R)
        BY DEF NewPreferences
      <3>1. Kinds[k] \in T
        BY DEF ToSet
      <3>2. body[Kinds[k]] \in Seq(Nat)
        BY <3>1, PreferencesAssumption
      <3>3. \A i \in DOMAIN body[Kinds[k]] : Row(Kinds[k], body[Kinds[k]][i], TRUE) \in R
        BY <3>1, <3>2 DEF Row, PreferenceRows
      <3>4. PICK n \in Nat : DOMAIN body[Kinds[k]] = 1..n
        BY <3>2
      <3> DEFINE f == [i \in DOMAIN body[Kinds[k]] |-> Row(Kinds[k], body[Kinds[k]][i], TRUE)]
      <3>5. f \in [1..n -> R]
        <4> HIDE DEF R
        <4> QED
          BY <3>3, <3>4
      <3> HIDE DEF R, f
      <3>6. f \in Seq(R)
        BY <3>5
      <3> QED
        BY <3>6 DEF f
    <2> HIDE DEF T, D, R, S
    <2>4. ReplaceInv(T, D, R, S)'
      BY <1>1, <2>1, <2>2, <2>3, StartKeepsReplacement DEF S
    <2>5. KeyInv'
      BY <1>1, <2>1, StartKeepsKeys
    <2> QED
      BY <2>4, <2>5 DEF PreferenceInv, T, D, R, S
  <1> QED
    BY <1>2, <1>3 DEF PreferencesNext

LEMMA PreferencesStartWithInv == RowReplacementInit => PreferenceInv
  BY ReplaceHoldsInitially, KeysHoldInitially DEF PreferenceInv

\* Whatever requests for the preferences of a user overlap, the last one to commit leaves all
\* its rows, and what else is left comes from those that were under way beside it.
THEOREM PreferencesAreWhole == PreferencesSpec => []ReplacementIsWhole
  <1>1. PreferenceInv => ReplacementIsWhole
    BY DEF PreferenceInv, ReplaceInv
  <1> QED
    BY <1>1, PreferencesStartWithInv, PreferencesKeepInv, PTL DEF PreferencesSpec

\* The rows of the preferences stay well typed, and the unique constraints hold.
THEOREM PreferencesTypes == PreferencesSpec => []RowReplacementTypeOK
  <1>1. PreferenceInv => RowReplacementTypeOK
    BY ReplacementIsTyped DEF PreferenceInv
  <1> QED
    BY <1>1, PreferencesStartWithInv, PreferencesKeepInv, PTL DEF PreferencesSpec

\* The similarities
SimilarityLogs == SUBSET (Players \X GameIds)
SimilarityRows == UNION {PairScores(past) : past \in SimilarityLogs}
SimilarityInv ==
    /\ ReplaceInv({Table}, {1}, SimilarityRows, SimilarityLogs) /\ KeyInv
    /\ met \in SimilarityLogs

\* A set that is finite can be put into a sequence.
LEMMA SequenceOfSet ==
    ASSUME NEW S, IsFiniteSet(S), NEW R, S \subseteq R
    PROVE  SetToSeq(S) \in Seq(R)
  <1>1. Cardinality(S) \in Nat /\ ExistsBijection(1..Cardinality(S), S)
    BY FS_CardinalityType
  <1>2. \E f \in [1..Cardinality(S) -> S] : IsInjective(f)
    BY <1>1 DEF ExistsBijection, Bijection, Injection, IsInjective
  <1>3. SetToSeq(S) \in [1..Cardinality(S) -> S]
    BY <1>2 DEF SetToSeq
  <1> QED
    BY <1>1, <1>3

LEMMA PairScoresAreRows ==
    ASSUME NEW past \in SimilarityLogs
    PROVE  /\ PairScores(past) \subseteq SimilarityRows /\ IsFiniteSet(PairScores(past))
           /\ \A x \in PairScores(past) : x.table = Table
  <1> DEFINE together == {ab \in Pairs : CoOccurrence(past, ab) > 0}
             all == {Row(Table, ab, Score(past, ab)) : ab \in together}
             up == {r \in all : r.value > 0}
             down == {Row(Table, <<r.key[2], r.key[1]>>, r.value) : r \in up}
  <1>1. IsFiniteSet(together)
    <2>1. IsFiniteSet(GameIds \X GameIds)
      BY GameSimilarityAssumption, FS_Product
    <2> QED
      BY <2>1, FS_Subset DEF Pairs
  <1>2. IsFiniteSet(all)
    <2> DEFINE f == [ab \in together |-> Row(Table, ab, Score(past, ab))]
    <2>1. f \in Surjection(together, all)
      BY DEF Surjection
    <2> QED
      BY <1>1, <2>1, FS_Surjection
  <1>3. IsFiniteSet(up)
    BY <1>2, FS_Subset
  <1>4. IsFiniteSet(down)
    <2> DEFINE f == [r \in up |-> Row(Table, <<r.key[2], r.key[1]>>, r.value)]
    <2> HIDE DEF up
    <2>1. f \in Surjection(up, down)
      BY DEF Surjection
    <2> QED
      BY <1>3, <2>1, FS_Surjection
  <1>5. PairScores(past) = up \cup down
    BY DEF PairScores
  <1>6. IsFiniteSet(PairScores(past))
    <2> HIDE DEF up, down
    <2> QED
      BY <1>3, <1>4, <1>5, FS_Union
  <1>7. \A x \in up \cup down : x.table = Table
    BY DEF Row
  <1> QED
    BY <1>5, <1>6, <1>7 DEF SimilarityRows

LEMMA SimilarityKeepsInv ==
    ASSUME SimilarityInv, GameSimilarityNext \/ UNCHANGED <<rowVars, similarityVars>>
    PROVE  SimilarityInv'
  <1> DEFINE T == {Table}
             D == {1}
             R == SimilarityRows
             S == SimilarityLogs
  <1>1. /\ ReplaceInv(T, D, R, S) /\ ReplacementTypes(T, D, R, S) /\ KeyInv
        /\ met \in SimilarityLogs
    BY DEF SimilarityInv, ReplaceInv
  <1>2. ASSUME Statement \/ UNCHANGED rowVars, met' \in SimilarityLogs PROVE SimilarityInv'
    BY <1>1, <1>2, StatementKeepsReplacement, StatementKeepsKeys DEF SimilarityInv
  <1>3. CASE (Statement /\ UNCHANGED similarityVars) \/ UNCHANGED <<rowVars, similarityVars>>
    BY <1>1, <1>2, <1>3 DEF similarityVars
  <1>4. ASSUME NEW u \in Players, NEW g \in GameIds, LogInteraction(u, g) PROVE SimilarityInv'
    BY <1>1, <1>2, <1>4 DEF LogInteraction, SimilarityLogs
  <1>5. ASSUME NEW p \in Writers, Rebuild(p) PROVE SimilarityInv'
    <2> PICK top \in Tops(PairScores(met)) : Start(p, <<Table>>, <<SetToSeq(top)>>, met)
      BY <1>5 DEF Rebuild
    <2>1. top \subseteq R /\ IsFiniteSet(top)
      <3>1. top \subseteq PairScores(met)
        BY DEF Tops
      <3> QED
        BY <1>1, <3>1, PairScoresAreRows, FS_Subset
    <2>2. SetToSeq(top) \in Seq(R)
      BY <2>1, SequenceOfSet
    <2>3. /\ <<Table>> \in Seq(T) /\ <<Table>> # <<>> /\ T \subseteq ToSet(<<Table>>)
          /\ <<SetToSeq(top)>> \in [D -> Seq(R)]
      BY <2>2 DEF ToSet
    <2>4. \A x \in R : x.table \in T
      BY PairScoresAreRows DEF SimilarityRows
    <2> HIDE DEF T, D, R
    <2>5. ReplaceInv(T, D, R, S)'
      BY <1>1, <2>3, <2>4, StartKeepsReplacement
    <2>6. KeyInv'
      BY <1>1, StartKeepsKeys
    <2> QED
      BY <1>1, <1>5, <2>5, <2>6 DEF Rebuild, similarityVars, SimilarityInv, T, D, R
  <1> QED
    BY <1>3, <1>4, <1>5 DEF GameSimilarityNext

LEMMA SimilarityStartsWithInv == RowReplacementInit /\ GameSimilarityInit => SimilarityInv
  <1>1. GameSimilarityInit => met \in SimilarityLogs
    BY GameSimilarityAssumption DEF GameSimilarityInit, SimilarityLogs
  <1> QED
    BY <1>1, ReplaceHoldsInitially, KeysHoldInitially DEF SimilarityInv

\* Whatever rebuilds of the similarities overlap, the last one to commit leaves all its rows,
\* and what else is left comes from those that were under way beside it.
THEOREM SimilaritiesAreWhole == GameSimilaritySpec => []ReplacementIsWhole
  <1>1. SimilarityInv => ReplacementIsWhole
    BY DEF SimilarityInv, ReplaceInv
  <1> QED
    BY <1>1, SimilarityStartsWithInv, SimilarityKeepsInv, PTL DEF GameSimilaritySpec

-----------------------------------------------------------------------------
(* GameSimilarity: what is counted user by user is the cosine of the sets of users *)

\* What an element adds to a count.
LEMMA CountsAreSteps ==
    ASSUME NEW S, IsFiniteSet(S), NEW A, NEW s \in SUBSET S, NEW x \in s
    PROVE  Cardinality(s \cap A) = Cardinality((s \ {x}) \cap A) + IF x \in A THEN 1 ELSE 0
  <1>1. IsFiniteSet(s \cap A) /\ Cardinality(s \cap A) \in Nat
    <2>1. IsFiniteSet(s \cap A)
      BY FS_Subset
    <2> QED
      BY <2>1, FS_CardinalityType
  <1>2. CASE x \in A
    <2>1. (s \ {x}) \cap A = (s \cap A) \ {x} /\ x \in s \cap A
      BY <1>2
    <2>2. Cardinality((s \cap A) \ {x}) = Cardinality(s \cap A) - 1
      BY <1>1, <2>1, FS_RemoveElement
    <2> QED
      BY <1>1, <1>2, <2>1, <2>2
  <1>3. CASE x \notin A
    <2>1. (s \ {x}) \cap A = s \cap A
      BY <1>3
    <2> QED
      BY <1>1, <1>3, <2>1
  <1> QED
    BY <1>2, <1>3

\* A fold that adds one for each element in A, whatever the order it takes them in, counts
\* them: no smallest set is counted wrong.
LEMMA StepsCount ==
    ASSUME NEW S, IsFiniteSet(S), NEW A, NEW iter, iter[{}] = 0,
           \A s \in SUBSET S : s # {} =>
              \E x \in s : iter[s] = iter[s \ {x}] + IF x \in A THEN 1 ELSE 0
    PROVE  iter[S] = Cardinality(S \cap A)
  <1> DEFINE Wrong == {s \in SUBSET S : iter[s] # Cardinality(s \cap A)}
  <1>1. SUFFICES ASSUME Wrong # {} PROVE FALSE
    OBVIOUS
  <1>2. IsWellFoundedOn(StrictSubsetOrdering(S), SUBSET S)
    BY FS_StrictSubsetOrderingWellFounded, FS_FiniteSubsetsOfFinite
  <1>3. PICK s \in Wrong : \A t \in Wrong : <<t, s>> \notin StrictSubsetOrdering(S)
    <2>1. Wrong \subseteq SUBSET S
      OBVIOUS
    <2> HIDE DEF Wrong
    <2> QED
      BY <1>1, <1>2, <2>1, WFMin
  <1>4. s # {}
    <2>1. {} \cap A = {} /\ Cardinality({}) = 0
      BY FS_EmptySet
    <2> QED
      BY <2>1
  <1>5. PICK x \in s : iter[s] = iter[s \ {x}] + IF x \in A THEN 1 ELSE 0
    BY <1>4
  <1>6. iter[s \ {x}] = Cardinality((s \ {x}) \cap A)
    <2>1. <<s \ {x}, s>> \in StrictSubsetOrdering(S)
      BY DEF StrictSubsetOrdering
    <2> QED
      BY <1>3, <2>1
  <1>7. Cardinality(s \cap A) = Cardinality((s \ {x}) \cap A) + IF x \in A THEN 1 ELSE 0
    BY CountsAreSteps
  <1>8. iter[s] = Cardinality(s \cap A)
    BY ONLY <1>5, <1>6, <1>7
  <1> QED
    BY <1>8

\* the folds of UserCount and CoOccurrence
CountsUsers(iter, logged, g) ==
    iter = [s \in SUBSET Players |->
               IF s = {} THEN 0
               ELSE LET x == CHOOSE x \in s : TRUE
                    IN iter[s \ {x}] + IF g \in GamesOf(logged, x) THEN 1 ELSE 0]
CountsCommon(iter, logged, ab) ==
    iter = [s \in SUBSET Players |->
               IF s = {} THEN 0
               ELSE LET x == CHOOSE x \in s : TRUE
                    IN iter[s \ {x}] + IF {ab[1], ab[2]} \subseteq GamesOf(logged, x) THEN 1 ELSE 0]

LEMMA UsersAreCounted ==
    ASSUME NEW logged, NEW g \in GameIds
    PROVE  UserCount(logged, g) = Cardinality(UsersOf(logged, g))
  <1> DEFINE A == UsersOf(logged, g)
             c == [s \in SUBSET Players |-> Cardinality(s \cap A)]
  <1>1. \A x \in Players : g \in GamesOf(logged, x) <=> x \in A
    BY DEF GamesOf, UsersOf
  <1>2. CountsUsers(c, logged, g)
    <2> SUFFICES ASSUME NEW s \in SUBSET Players
                 PROVE  Cardinality(s \cap A) =
                          IF s = {} THEN 0
                          ELSE LET x == CHOOSE x \in s : TRUE
                               IN c[s \ {x}] + IF g \in GamesOf(logged, x) THEN 1 ELSE 0
      BY DEF CountsUsers
    <2>1. CASE s = {}
      <3>1. s \cap A = {}
        BY <2>1
      <3> QED
        BY <2>1, <3>1, FS_EmptySet
    <2>2. CASE s # {}
      <3>1. PICK x \in s : x = CHOOSE y \in s : TRUE
        BY <2>2
      <3>2. Cardinality(s \cap A) = Cardinality((s \ {x}) \cap A) + IF x \in A THEN 1 ELSE 0
        BY GameSimilarityAssumption, CountsAreSteps
      <3>3. c[s \ {x}] = Cardinality((s \ {x}) \cap A)
        OBVIOUS
      <3> HIDE DEF c, A
      <3> QED
        BY <1>1, <2>2, <3>1, <3>2, <3>3
    <2> QED
      BY <2>1, <2>2
  <1>3. PICK iter : CountsUsers(iter, logged, g) /\ UserCount(logged, g) = iter[Players]
    BY <1>2 DEF UserCount, FoldSet, MapThenFoldSet, CountsUsers
  <1>4. iter[{}] = 0
    BY <1>3 DEF CountsUsers
  <1>5. ASSUME NEW s \in SUBSET Players, s # {}
        PROVE  \E x \in s : iter[s] = iter[s \ {x}] + IF x \in A THEN 1 ELSE 0
    <2>1. PICK x \in s : x = CHOOSE y \in s : TRUE
      BY <1>5
    <2>2. iter[s] = iter[s \ {x}] + IF g \in GamesOf(logged, x) THEN 1 ELSE 0
      BY <1>3, <1>5, <2>1 DEF CountsUsers
    <2> QED
      BY <1>1, <2>2
  <1>6. Players \cap A = A
    BY DEF UsersOf
  <1>7. iter[Players] = Cardinality(Players \cap A)
    <2> HIDE DEF A
    <2> QED
      BY <1>4, <1>5, GameSimilarityAssumption, StepsCount
  <1> QED
    BY <1>3, <1>6, <1>7

LEMMA CommonUsersAreCounted ==
    ASSUME NEW logged, NEW ab \in GameIds \X GameIds
    PROVE  CoOccurrence(logged, ab)
             = Cardinality(UsersOf(logged, ab[1]) \cap UsersOf(logged, ab[2]))
  <1> DEFINE A == UsersOf(logged, ab[1]) \cap UsersOf(logged, ab[2])
             c == [s \in SUBSET Players |-> Cardinality(s \cap A)]
  <1>1. \A x \in Players : {ab[1], ab[2]} \subseteq GamesOf(logged, x) <=> x \in A
    BY DEF GamesOf, UsersOf
  <1>2. CountsCommon(c, logged, ab)
    <2> SUFFICES ASSUME NEW s \in SUBSET Players
                 PROVE  Cardinality(s \cap A) =
                          IF s = {} THEN 0
                          ELSE LET x == CHOOSE x \in s : TRUE
                               IN c[s \ {x}] + IF {ab[1], ab[2]} \subseteq GamesOf(logged, x)
                                                THEN 1 ELSE 0
      BY DEF CountsCommon
    <2>1. CASE s = {}
      <3>1. s \cap A = {}
        BY <2>1
      <3> QED
        BY <2>1, <3>1, FS_EmptySet
    <2>2. CASE s # {}
      <3>1. PICK x \in s : x = CHOOSE y \in s : TRUE
        BY <2>2
      <3>2. Cardinality(s \cap A) = Cardinality((s \ {x}) \cap A) + IF x \in A THEN 1 ELSE 0
        BY GameSimilarityAssumption, CountsAreSteps
      <3>3. c[s \ {x}] = Cardinality((s \ {x}) \cap A)
        OBVIOUS
      <3> HIDE DEF c, A
      <3> QED
        BY <1>1, <2>2, <3>1, <3>2, <3>3
    <2> QED
      BY <2>1, <2>2
  <1>3. PICK iter : CountsCommon(iter, logged, ab) /\ CoOccurrence(logged, ab) = iter[Players]
    BY <1>2 DEF CoOccurrence, FoldSet, MapThenFoldSet, CountsCommon
  <1>4. iter[{}] = 0
    BY <1>3 DEF CountsCommon
  <1>5. ASSUME NEW s \in SUBSET Players, s # {}
        PROVE  \E x \in s : iter[s] = iter[s \ {x}] + IF x \in A THEN 1 ELSE 0
    <2>1. PICK x \in s : x = CHOOSE y \in s : TRUE
      BY <1>5
    <2>2. iter[s] = iter[s \ {x}] + IF {ab[1], ab[2]} \subseteq GamesOf(logged, x) THEN 1 ELSE 0
      BY <1>3, <1>5, <2>1 DEF CountsCommon
    <2> QED
      BY <1>1, <2>2
  <1>6. Players \cap A = A
    BY DEF UsersOf
  <1>7. iter[Players] = Cardinality(Players \cap A)
    <2> HIDE DEF A
    <2> QED
      BY <1>4, <1>5, GameSimilarityAssumption, StepsCount
  <1> QED
    BY <1>3, <1>6, <1>7

\* Similar games: the rows of a table without the cut to MaxSimilar
CosineRow(logged, ab) == Row(Table, ab, Cosine(logged, ab[1], ab[2]))
Similar(logged) == {ab \in GameIds \X GameIds : ab[1] # ab[2] /\ Cosine(logged, ab[1], ab[2]) > 0}

LEMMA CosineIsSymmetric ==
    ASSUME NEW logged, NEW a, NEW b
    PROVE  Cosine(logged, a, b) = Cosine(logged, b, a)
  <1> DEFINE ua == UsersOf(logged, a)  ub == UsersOf(logged, b)
  <1>1. Cardinality(ua) \in Nat /\ Cardinality(ub) \in Nat
    <2>1. IsFiniteSet(ua) /\ IsFiniteSet(ub)
      BY GameSimilarityAssumption, FS_Subset DEF UsersOf
    <2> QED
      BY <2>1, FS_CardinalityType
  <1>2. ua \cap ub = ub \cap ua
    OBVIOUS
  <1>3. Cardinality(ua) * Cardinality(ub) = Cardinality(ub) * Cardinality(ua)
    BY <1>1
  <1> HIDE DEF ua, ub
  <1> QED
    BY <1>2, <1>3 DEF Cosine, ua, ub

LEMMA ScoresAreCosines ==
    ASSUME NEW logged, NEW ab \in GameIds \X GameIds
    PROVE  /\ CoOccurrence(logged, ab) > 0 => Score(logged, ab) = Cosine(logged, ab[1], ab[2])
           /\ ~(CoOccurrence(logged, ab) > 0) => Cosine(logged, ab[1], ab[2]) = 0
  <1> DEFINE ua == UsersOf(logged, ab[1])  ub == UsersOf(logged, ab[2])
  <1>1. /\ CoOccurrence(logged, ab) = Cardinality(ua \cap ub)
        /\ UserCount(logged, ab[1]) = Cardinality(ua) /\ UserCount(logged, ab[2]) = Cardinality(ub)
    BY UsersAreCounted, CommonUsersAreCounted
  <1>2. IsFiniteSet(ua \cap ub)
    BY GameSimilarityAssumption, FS_Subset DEF UsersOf
  <1>3. Cardinality(ua \cap ub) > 0 <=> ua \cap ub # {}
    <2>1. Cardinality(ua \cap ub) \in Nat /\ (Cardinality(ua \cap ub) = 0 <=> ua \cap ub = {})
      BY <1>2, FS_CardinalityType, FS_EmptySet
    <2> QED
      BY <2>1
  <1>4. Score(logged, ab) = Rounded[Cardinality(ua \cap ub), Cardinality(ua) * Cardinality(ub)]
    BY ONLY <1>1, Zenon DEF Score
  <1>5. ua \cap ub # {} =>
          Cosine(logged, ab[1], ab[2])
            = Rounded[Cardinality(ua \cap ub), Cardinality(ua) * Cardinality(ub)]
    BY ONLY Zenon DEF Cosine
  <1>6. ua \cap ub = {} => Cosine(logged, ab[1], ab[2]) = 0
    BY ONLY Zenon DEF Cosine
  <1> QED
    BY ONLY <1>1, <1>3, <1>4, <1>5, <1>6, Zenon

LEMMA PairScoresAreCosines ==
    ASSUME NEW logged
    PROVE  PairScores(logged) = {CosineRow(logged, ab) : ab \in Similar(logged)}
  <1> DEFINE together == {ab \in Pairs : CoOccurrence(logged, ab) > 0}
             up == {r \in {Row(Table, ab, Score(logged, ab)) : ab \in together} : r.value > 0}
             down == {Row(Table, <<r.key[2], r.key[1]>>, r.value) : r \in up}
  <1>1. PairScores(logged) = up \cup down
    BY DEF PairScores
  <1>2. up = {CosineRow(logged, ab) : ab \in {x \in Similar(logged) : x[1] < x[2]}}
    <2>1. ASSUME NEW r \in up
          PROVE  \E ab \in Similar(logged) : ab[1] < ab[2] /\ r = CosineRow(logged, ab)
      <3>1. PICK ab \in together : r = Row(Table, ab, Score(logged, ab)) /\ r.value > 0
        OBVIOUS
      <3>2. /\ ab \in GameIds \X GameIds /\ ab[1] < ab[2] /\ ab[1] # ab[2]
            /\ Score(logged, ab) = Cosine(logged, ab[1], ab[2])
        <4>1. ab \in GameIds \X GameIds /\ ab[1] < ab[2] /\ CoOccurrence(logged, ab) > 0
          BY DEF Pairs
        <4>2. ab[1] \in Nat /\ ab[2] \in Nat
          BY ONLY <4>1, GameSimilarityAssumption
        <4>3. ab[1] # ab[2]
          BY ONLY <4>1, <4>2
        <4> QED
          BY <4>1, <4>3, ScoresAreCosines
      <3> QED
        BY <3>1, <3>2 DEF Similar, CosineRow, Row
    <2>2. ASSUME NEW ab \in Similar(logged), ab[1] < ab[2] PROVE CosineRow(logged, ab) \in up
      <3>1. ab \in GameIds \X GameIds /\ Cosine(logged, ab[1], ab[2]) > 0
        BY DEF Similar
      <3>2. CoOccurrence(logged, ab) > 0 /\ Score(logged, ab) = Cosine(logged, ab[1], ab[2])
        BY <3>1, ScoresAreCosines
      <3> QED
        BY <2>2, <3>1, <3>2 DEF Pairs, CosineRow, Row
    <2> HIDE DEF up
    <2> QED
      BY <2>1, <2>2
  <1>3. down = {CosineRow(logged, ab) : ab \in {x \in Similar(logged) : x[2] < x[1]}}
    <2>1. ASSUME NEW ab \in Similar(logged)
          PROVE  /\ <<ab[2], ab[1]>> \in Similar(logged)
                 /\ CosineRow(logged, <<ab[2], ab[1]>>)
                     = Row(Table, <<CosineRow(logged, ab).key[2], CosineRow(logged, ab).key[1]>>,
                           CosineRow(logged, ab).value)
                 /\ ab = <<ab[1], ab[2]>>
      BY CosineIsSymmetric DEF Similar, CosineRow, Row
    <2>2. ASSUME NEW r \in down
          PROVE  \E ab \in {x \in Similar(logged) : x[2] < x[1]} : r = CosineRow(logged, ab)
      <3>1. PICK q \in up : r = Row(Table, <<q.key[2], q.key[1]>>, q.value)
        BY Zenon
      <3>2. PICK ab \in Similar(logged) : ab[1] < ab[2] /\ q = CosineRow(logged, ab)
        BY ONLY <3>1, <1>2
      <3>3. r = CosineRow(logged, <<ab[2], ab[1]>>)
        BY ONLY <2>1, <3>1, <3>2
      <3> QED
        BY ONLY <2>1, <3>2, <3>3
    <2>3. ASSUME NEW ab \in Similar(logged), ab[2] < ab[1]
          PROVE  CosineRow(logged, ab) \in down
      <3> DEFINE ba == <<ab[2], ab[1]>>  q == CosineRow(logged, ba)
      <3>1. ba \in Similar(logged) /\ ba[1] < ba[2] /\ ab = <<ba[2], ba[1]>>
        BY ONLY <2>1, <2>3
      <3>2. q \in up
        BY ONLY <3>1, <1>2
      <3>3. CosineRow(logged, ab) = Row(Table, <<q.key[2], q.key[1]>>, q.value)
        BY ONLY <2>1, <3>1
      <3> QED
        BY ONLY <3>2, <3>3
    <2> HIDE DEF up, down
    <2> QED
      BY ONLY <2>2, <2>3
  <1>4. \A ab \in Similar(logged) : ab[1] < ab[2] \/ ab[2] < ab[1]
    <2> TAKE ab \in Similar(logged)
    <2>1. ab[1] \in Nat /\ ab[2] \in Nat /\ ab[1] # ab[2]
      BY GameSimilarityAssumption DEF Similar
    <2> QED
      BY ONLY <2>1
  <1> HIDE DEF up, down
  <1> QED
    BY <1>1, <1>2, <1>3, <1>4


\* SimilarityIsCosine of a log and the rows wanted for it
Near(logged, a) == {b \in GameIds \ {a} : Cosine(logged, a, b) > 0}
Kept(rs, a) == {r.key[2] : r \in OfGame(rs, a)}
Nearest(logged, rs) ==
    /\ \A r \in rs : r.value = Cosine(logged, r.key[1], r.key[2])
    /\ \A a \in GameIds :
         /\ Kept(rs, a) \subseteq Near(logged, a)
         /\ Cardinality(Kept(rs, a)) = Min({MaxSimilar, Cardinality(Near(logged, a))})
         /\ \A b \in Kept(rs, a), c \in Near(logged, a) \ Kept(rs, a) :
              Cosine(logged, a, b) >= Cosine(logged, a, c)

\* A game has as many rows as it has games that they name.
LEMMA RowsNameGames ==
    ASSUME NEW logged \in SimilarityLogs, NEW rs \in SUBSET PairScores(logged), NEW a
    PROVE  Cardinality(Kept(rs, a)) = Cardinality(OfGame(rs, a))
  <1> DEFINE f == [r \in OfGame(rs, a) |-> r.key[2]]
  <1>1. IsFiniteSet(OfGame(rs, a))
    BY PairScoresAreRows, FS_Subset DEF OfGame
  <1>2. \A r \in OfGame(rs, a) :
          r.key[1] = a /\ \E ab \in Similar(logged) : r = CosineRow(logged, ab)
    BY PairScoresAreCosines DEF OfGame
  <1>3. ASSUME NEW r \in OfGame(rs, a), NEW s \in OfGame(rs, a), r.key[2] = s.key[2]
        PROVE  r = s
    <2> PICK ab \in Similar(logged), cd \in Similar(logged) :
                r = CosineRow(logged, ab) /\ s = CosineRow(logged, cd)
      BY <1>2
    <2>1. r.key = ab /\ s.key = cd
      BY DEF CosineRow, Row
    <2>2. ab \in GameIds \X GameIds /\ cd \in GameIds \X GameIds
      BY DEF Similar
    <2>3. ab[1] = cd[1] /\ ab[2] = cd[2]
      BY <1>2, <1>3, <2>1
    <2>4. ab = cd
      BY ONLY <2>2, <2>3
    <2> QED
      BY <2>4
  <1>4. f \in Bijection(OfGame(rs, a), Kept(rs, a))
    <2>1. f \in [OfGame(rs, a) -> Kept(rs, a)]
      BY DEF Kept
    <2>2. \A b \in Kept(rs, a) : \E r \in OfGame(rs, a) : f[r] = b
      BY DEF Kept
    <2> QED
      BY <1>3, <2>1, <2>2 DEF Bijection, Injection, Surjection, IsInjective
  <1>5. ExistsBijection(OfGame(rs, a), Kept(rs, a))
    BY <1>4 DEF ExistsBijection
  <1> QED
    BY <1>1, <1>5, FS_Bijection

\* The rows a rebuild chooses are those of the nearest games.
LEMMA TopsAreNearest ==
    ASSUME NEW logged \in SimilarityLogs, NEW top \in Tops(PairScores(logged))
    PROVE  Nearest(logged, top)
  <1> DEFINE P == PairScores(logged)
  <1>1. top \subseteq P
    BY DEF Tops
  <1>2. \A r \in P : \E ab \in Similar(logged) : r = CosineRow(logged, ab) /\ r.key = ab
                       /\ r.value = Cosine(logged, r.key[1], r.key[2])
    BY PairScoresAreCosines DEF CosineRow, Row
  <1>3. \A r \in top : r.value = Cosine(logged, r.key[1], r.key[2])
    BY <1>1, <1>2
  <1>4. ASSUME NEW a \in GameIds, NEW b \in Near(logged, a)
        PROVE  /\ CosineRow(logged, <<a, b>>) \in OfGame(P, a)
               /\ CosineRow(logged, <<a, b>>).key[2] = b
    <2>1. <<a, b>> \in Similar(logged)
      BY DEF Near, Similar
    <2>2. CosineRow(logged, <<a, b>>) \in P
      BY <2>1, PairScoresAreCosines
    <2>3. CosineRow(logged, <<a, b>>).key = <<a, b>>
      BY DEF CosineRow, Row
    <2> HIDE DEF P
    <2> QED
      BY <2>2, <2>3 DEF OfGame
  <1>5. ASSUME NEW a \in GameIds, NEW r \in OfGame(P, a)
        PROVE  r.key[2] \in Near(logged, a) /\ r.value = Cosine(logged, a, r.key[2])
    <2>1. r \in P /\ r.key[1] = a
      BY DEF OfGame
    <2>2. r.key \in Similar(logged) /\ r.value = Cosine(logged, a, r.key[2])
      BY <1>2, <2>1
    <2> QED
      BY <2>1, <2>2 DEF Similar, Near
  <1>6. ASSUME NEW a \in GameIds
        PROVE  /\ Kept(top, a) \subseteq Near(logged, a)
               /\ Cardinality(Kept(top, a)) = Min({MaxSimilar, Cardinality(Near(logged, a))})
               /\ \A b \in Kept(top, a), c \in Near(logged, a) \ Kept(top, a) :
                    Cosine(logged, a, b) >= Cosine(logged, a, c)
    <2>1. /\ OfGame(top, a) \subseteq OfGame(P, a)
          /\ OfGame(P, a) \ OfGame(top, a) \subseteq OfGame(P \ top, a)
      BY <1>1 DEF OfGame
    <2>2. Kept(top, a) \subseteq Near(logged, a)
      BY <1>5, <2>1 DEF Kept
    <2>3. Kept(P, a) = Near(logged, a)
      <3> HIDE DEF P
      <3> QED
        BY <1>4, <1>5 DEF Kept
    <2>4. /\ Cardinality(Kept(top, a)) = Cardinality(OfGame(top, a))
          /\ Cardinality(Near(logged, a)) = Cardinality(OfGame(P, a))
      BY <1>1, <2>3, RowsNameGames
    <2>5. /\ Cardinality(OfGame(top, a)) = Min({MaxSimilar, Cardinality(OfGame(P, a))})
          /\ \A r \in OfGame(top, a), s \in OfGame(P \ top, a) : r.value >= s.value
      BY DEF Tops
    <2>6. ASSUME NEW b \in Kept(top, a), NEW c \in Near(logged, a) \ Kept(top, a)
          PROVE  Cosine(logged, a, b) >= Cosine(logged, a, c)
      <3> DEFINE s == CosineRow(logged, <<a, c>>)
      <3>1. PICK r \in OfGame(top, a) : b = r.key[2]
        BY DEF Kept
      <3>2. s \in OfGame(P, a) /\ s.key[2] = c
        BY <1>4
      <3>3. s \notin OfGame(top, a)
        BY <3>2 DEF Kept
      <3> HIDE DEF s, P
      <3>4. r.value >= s.value
        BY <2>1, <2>5, <3>2, <3>3
      <3>5. r.value = Cosine(logged, a, b) /\ s.value = Cosine(logged, a, c)
        BY <1>5, <2>1, <3>1, <3>2
      <3> QED
        BY <3>4, <3>5
    <2> HIDE DEF P
    <2> QED
      BY <2>2, <2>4, <2>5, <2>6
  <1> QED
    BY <1>3, <1>6 DEF Nearest

\* What a transaction wants is settled as it begins, and is what a commit leaves.
LEMMA WantedIsSettled ==
    ASSUME NEW T, NEW D, NEW R, NEW S, ReplacementTypes(T, D, R, S), NEW p \in Writers,
           AimDelete(p) \/ Delete(p) \/ InsertRows(p) \/ Commit(p) \/ Abort(p)
    PROVE  /\ \A q \in Writers : writer'[q] # NoWrite =>
                /\ writer[q] # NoWrite
                /\ writer'[q].source = writer[q].source /\ writer'[q].wanted = writer[q].wanted
                /\ writer'[q].all = writer[q].all
           /\ \/ last' = last
              \/ writer[p] # NoWrite /\ last' = Trace(writer[p])
  <1>0. DOMAIN writer = Writers /\ writer[p] # NoWrite
    BY NoWriteIsNone DEF ReplacementTypes, AimDelete, Delete, InsertRows, Commit, Abort
  <1>1. writer[p] \in Transaction(T, D, R, S)
    BY <1>0, WriterFields
  <1>2. CASE Commit(p) \/ Abort(p)
    BY <1>0, <1>2 DEF Commit, Abort
  <1>3. CASE AimDelete(p) \/ Delete(p) \/ InsertRows(p)
    <2> PICK w : /\ writer' = [writer EXCEPT ![p] = w] /\ last' = last
                 /\ w.source = writer[p].source /\ w.wanted = writer[p].wanted
                 /\ w.all = writer[p].all
      <3>1. CASE AimDelete(p)
        <4> DEFINE w == [writer[p] EXCEPT
                !.pc = "lock", !.aim = {r \in rows : r.row.table = Head(writer[p].tables)}]
        <4>1. w.source = writer[p].source /\ w.wanted = writer[p].wanted /\ w.all = writer[p].all
          BY <1>1 DEF Transaction
        <4>2. writer' = [writer EXCEPT ![p] = w] /\ last' = last
          BY <1>0, <3>1 DEF AimDelete
        <4> QED
          BY <4>1, <4>2
      <3>2. CASE Delete(p)
        <4> DEFINE pc == IF Len(writer[p].tables) = 1 THEN "insert" ELSE "delete"
                   w == [writer[p] EXCEPT !.pc = pc, !.tables = Tail(@), !.aim = {},
                           !.deleted = @ \cup (writer[p].aim \cap rows)]
        <4>1. writer' = [writer EXCEPT ![p] = w] /\ last' = last
          BY <1>0, <3>2 DEF Delete
        <4> HIDE DEF pc
        <4>2. w.source = writer[p].source /\ w.wanted = writer[p].wanted /\ w.all = writer[p].all
          BY <1>1 DEF Transaction
        <4> HIDE DEF w
        <4> QED
          BY <4>1, <4>2
      <3>3. CASE InsertRows(p)
        <4> PICK i \in DOMAIN writer[p].new :
              /\ writer' = [writer EXCEPT ![p].new[i] = <<>>,
                               ![p].inserted = @ \cup NewRows(writer[p], i)]
              /\ last' = last
          BY <3>3 DEF InsertRows, NewRows
        <4> DEFINE w == [writer[p] EXCEPT !.new = [writer[p].new EXCEPT ![i] = <<>>],
                           !.inserted = @ \cup NewRows(writer[p], i)]
        <4>1. writer' = [writer EXCEPT ![p] = w]
          BY <1>0, <1>1 DEF Transaction
        <4>2. w.source = writer[p].source /\ w.wanted = writer[p].wanted /\ w.all = writer[p].all
          BY <1>1 DEF Transaction
        <4> HIDE DEF w
        <4> QED
          BY <4>1, <4>2
      <3> QED
        BY <1>3, <3>1, <3>2, <3>3
    <2> QED
      BY <1>0
  <1> QED
    BY <1>2, <1>3

\* The rows of a sequence made of a set are the set.
LEMMA SequenceHasAll ==
    ASSUME NEW S, IsFiniteSet(S)
    PROVE  ToSet(SetToSeq(S)) = S
  <1> DEFINE n == Cardinality(S)  f == SetToSeq(S)
  <1>1. n \in Nat /\ ExistsBijection(1..n, S)
    BY FS_CardinalityType
  <1>2. \E g \in [1..n -> S] : IsInjective(g)
    BY <1>1 DEF ExistsBijection, Bijection, Injection, IsInjective
  <1>3. f \in [1..n -> S] /\ IsInjective(f)
    BY <1>2 DEF SetToSeq
  <1>4. f \in Injection(1..n, S)
    BY <1>3 DEF Injection
  <1>5. IsFiniteSet(1..n) /\ Cardinality(1..n) = n
    BY <1>1, FS_Interval
  <1> HIDE DEF f
  <1>6. f \in Surjection(1..n, S)
    BY <1>4, <1>5, FS_Injection
  <1>7. \A x \in S : \E i \in 1..n : f[i] = x
    BY <1>6 DEF Surjection
  <1>8. DOMAIN f = 1..n /\ \A i \in 1..n : f[i] \in S
    BY <1>3
  <1>9. ToSet(f) = S
    BY <1>7, <1>8 DEF ToSet
  <1> QED
    BY <1>9 DEF f

\* Every rebuild under way, and the last one, wants the nearest games of the log it read.
CosineInv ==
    /\ SimilarityInv
    /\ \A p \in Writers : writer[p] # NoWrite => Nearest(writer[p].source, writer[p].wanted)
    /\ last.tables = <<Table>> => Nearest(last.source, last.wanted)

LEMMA StatementKeepsCosine ==
    ASSUME CosineInv, SimilarityInv', Statement
    PROVE  CosineInv'
  <1>1. ReplacementTypes({Table}, {1}, SimilarityRows, SimilarityLogs)
    BY DEF CosineInv, SimilarityInv, ReplaceInv
  <1> PICK p \in Writers : AimDelete(p) \/ Delete(p) \/ InsertRows(p) \/ Commit(p) \/ Abort(p)
    BY DEF Statement
  <1>2. /\ \A q \in Writers : writer'[q] # NoWrite =>
             /\ writer[q] # NoWrite
             /\ writer'[q].source = writer[q].source /\ writer'[q].wanted = writer[q].wanted
        /\ \/ last' = last
           \/ writer[p] # NoWrite /\ last' = Trace(writer[p])
    BY <1>1, WantedIsSettled
  <1>3. \A q \in Writers : writer'[q] # NoWrite => Nearest(writer'[q].source, writer'[q].wanted)
    BY <1>2 DEF CosineInv
  <1>4. last'.tables = <<Table>> => Nearest(last'.source, last'.wanted)
    BY <1>2 DEF CosineInv, Trace
  <1> QED
    BY <1>3, <1>4 DEF CosineInv

LEMMA RebuildKeepsCosine ==
    ASSUME CosineInv, SimilarityInv', NEW p \in Writers, Rebuild(p)
    PROVE  CosineInv'
  <1>1. /\ ReplacementTypes({Table}, {1}, SimilarityRows, SimilarityLogs)
        /\ met \in SimilarityLogs
    BY DEF CosineInv, SimilarityInv, ReplaceInv
  <1> PICK top \in Tops(PairScores(met)) : Start(p, <<Table>>, <<SetToSeq(top)>>, met)
    BY DEF Rebuild
  <1> DEFINE new == <<SetToSeq(top)>>
  <1> PICK n \in 1..Numbers :
              /\ n \notin InUse /\ writer[p] = NoWrite
              /\ \A q \in Writers : writer'[q] =
                   IF q = p THEN Begun(p, n, <<Table>>, new, met)
                   ELSE IF writer[q] = NoWrite THEN NoWrite
                   ELSE [writer[q] EXCEPT !.beside = @ \cup {n}]
              /\ DOMAIN writer' = Writers /\ writer' = [q \in Writers |-> writer'[q]]
              /\ UNCHANGED <<rows, last>>
    BY <1>1, StartedWriters
  <1>2. IsFiniteSet(top)
    <2>1. top \subseteq PairScores(met)
      BY DEF Tops
    <2> QED
      BY <1>1, <2>1, PairScoresAreRows, FS_Subset
  <1>3. writer'[p].source = met /\ writer'[p].wanted = top
    <2>1. DOMAIN new = {1} /\ new[1] = SetToSeq(top)
      OBVIOUS
    <2>2. UNION {ToSet(new[i]) : i \in DOMAIN new} = ToSet(SetToSeq(top))
      <3> HIDE DEF new
      <3> QED
        BY <2>1
    <2> HIDE DEF new
    <2>3. /\ Begun(p, n, <<Table>>, new, met).source = met
          /\ Begun(p, n, <<Table>>, new, met).wanted = ToSet(SetToSeq(top))
      BY ONLY <2>2 DEF Begun
    <2>4. writer'[p] = Begun(p, n, <<Table>>, new, met)
      OBVIOUS
    <2>5. ToSet(SetToSeq(top)) = top
      BY <1>2, SequenceHasAll
    <2> QED
      BY ONLY <2>3, <2>4, <2>5
  <1>4. Nearest(writer'[p].source, writer'[p].wanted)
    BY <1>1, <1>3, TopsAreNearest
  <1>5. ASSUME NEW q \in Writers \ {p}, writer'[q] # NoWrite
        PROVE  Nearest(writer'[q].source, writer'[q].wanted)
    <2>1. /\ writer[q] # NoWrite
          /\ writer[q] \in Transaction({Table}, {1}, SimilarityRows, SimilarityLogs)
      BY <1>1, <1>5, WriterFields
    <2>2. writer'[q].source = writer[q].source /\ writer'[q].wanted = writer[q].wanted
      BY <2>1 DEF Transaction
    <2> QED
      BY <2>1, <2>2 DEF CosineInv
  <1>6. last'.tables = <<Table>> => Nearest(last'.source, last'.wanted)
    BY DEF CosineInv
  <1> QED
    BY <1>4, <1>5, <1>6 DEF CosineInv

LEMMA CosineIsKept ==
    ASSUME CosineInv, GameSimilarityNext \/ UNCHANGED <<rowVars, similarityVars>>
    PROVE  CosineInv'
  <1>1. SimilarityInv'
    BY SimilarityKeepsInv DEF CosineInv
  <1>2. CASE UNCHANGED rowVars
    BY <1>1, <1>2 DEF CosineInv, rowVars
  <1>3. CASE Statement
    BY <1>1, <1>3, StatementKeepsCosine
  <1>4. ASSUME NEW p \in Writers, Rebuild(p) PROVE CosineInv'
    BY <1>1, <1>4, RebuildKeepsCosine
  <1>5. ASSUME NEW u \in Players, NEW g \in GameIds, LogInteraction(u, g) PROVE UNCHANGED rowVars
    BY <1>5 DEF LogInteraction
  <1> QED
    BY <1>2, <1>3, <1>4, <1>5 DEF GameSimilarityNext

LEMMA CosineHoldsInitially == RowReplacementInit /\ GameSimilarityInit => CosineInv
  BY SimilarityStartsWithInv DEF RowReplacementInit, CosineInv, NothingYet

\* What a rebuild leaves is the cosine of the sets of users, the same both ways, for the
\* games nearest to each game, whatever was logged and whatever ran beside it.
THEOREM SimilaritiesAreCosines == GameSimilaritySpec => []SimilarityIsCosine
  <1>1. CosineInv => SimilarityIsCosine
    BY DEF CosineInv, SimilarityIsCosine, Nearest, Near, Kept
  <1> QED
    BY <1>1, CosineHoldsInitially, CosineIsKept, PTL DEF GameSimilaritySpec

-----------------------------------------------------------------------------
(* The parts beside each other *)

OpinionsInv ==
    /\ Inv
    /\ part = "similarity" => SimilarityInv
    /\ part # "similarity" => PreferenceInv

LEMMA OpinionsStartWithInv == OpinionsInit => OpinionsInv
  BY InvInit, PreferencesStartWithInv, SimilarityStartsWithInv DEF OpinionsInit, OpinionsInv

LEMMA OpinionsKeepInv ==
    ASSUME OpinionsInv, [OpinionsNext]_<<interactionVars, rowVars, similarityVars, part>>
    PROVE  OpinionsInv'
  <1>1. part' = part /\ [InteractionsNext]_interactionVars
    BY DEF OpinionsNext
  <1>2. Inv'
    BY <1>1, InvNext DEF OpinionsInv
  <1>3. part = "similarity" => GameSimilarityNext \/ UNCHANGED <<rowVars, similarityVars>>
    BY DEF OpinionsNext
  <1>4. part # "similarity" => PreferencesNext \/ UNCHANGED rowVars
    BY DEF OpinionsNext
  <1> QED
    BY <1>1, <1>2, <1>3, <1>4, SimilarityKeepsInv, PreferencesKeepInv DEF OpinionsInv

\* A behaviour of the parts beside each other is a behaviour of the interactions.
THEOREM OpinionsHaveInteractions == OpinionsSpec => InteractionsSpec
  <1>1. OpinionsInit => InteractionsInit
    BY DEF OpinionsInit
  <1>2. [OpinionsNext]_<<interactionVars, rowVars, similarityVars, part>> =>
          [InteractionsNext]_interactionVars
    BY DEF OpinionsNext
  <1> QED
    BY <1>1, <1>2, PTL DEF OpinionsSpec, InteractionsSpec

\* Beside each other too, the last transaction to commit leaves all its rows.
THEOREM OpinionsAreWhole == OpinionsSpec => []ReplacementIsWhole
  <1>1. OpinionsInv => ReplacementIsWhole
    BY DEF OpinionsInv, SimilarityInv, PreferenceInv, ReplaceInv
  <1> QED
    BY <1>1, OpinionsStartWithInv, OpinionsKeepInv, PTL DEF OpinionsSpec

\* Log, rules, affinities and the rows that are replaced stay well typed, and no two rows
\* of a table have one key.
THEOREM OpinionsTypes == OpinionsSpec => []OpinionsTypeOK
  <1>1. OpinionsInv => OpinionsTypeOK
    BY ReplacementIsTyped DEF OpinionsInv, Inv, SimilarityInv, PreferenceInv, OpinionsTypeOK
  <1> QED
    BY <1>1, OpinionsStartWithInv, OpinionsKeepInv, PTL DEF OpinionsSpec
\* Beside each other: a transaction that replaces preferences is named by their tables, and
\* one of the similarities wants the nearest games.
OpinionsCosineInv ==
    /\ OpinionsInv
    /\ part = "similarity" => CosineInv
    /\ part # "similarity" =>
         /\ \A p \in Writers : writer[p] # NoWrite => writer[p].all = Kinds
         /\ last.tables \in {<<>>, Kinds}

LEMMA PreferencesKeepTables ==
    ASSUME PreferenceInv, PreferencesNext \/ UNCHANGED rowVars,
           \A p \in Writers : writer[p] # NoWrite => writer[p].all = Kinds,
           last.tables \in {<<>>, Kinds}
    PROVE  /\ \A p \in Writers : writer'[p] # NoWrite => writer'[p].all = Kinds
           /\ last'.tables \in {<<>>, Kinds}
  <1>1. ReplacementTypes(ToSet(Kinds), DOMAIN Kinds, PreferenceRows, Bodies)
    BY DEF PreferenceInv, ReplaceInv
  <1>2. CASE UNCHANGED rowVars
    BY <1>2 DEF rowVars
  <1>3. CASE Statement
    <2> PICK p \in Writers : AimDelete(p) \/ Delete(p) \/ InsertRows(p) \/ Commit(p) \/ Abort(p)
      BY <1>3 DEF Statement
    <2>1. /\ \A q \in Writers : writer'[q] # NoWrite =>
               writer[q] # NoWrite /\ writer'[q].all = writer[q].all
          /\ \/ last' = last
             \/ writer[p] # NoWrite /\ last' = Trace(writer[p])
      BY <1>1, WantedIsSettled
    <2> QED
      BY <2>1 DEF Trace
  <1>4. ASSUME NEW p \in Writers, NEW body \in Bodies, PutPreferences(p, body)
        PROVE  /\ \A q \in Writers : writer'[q] # NoWrite => writer'[q].all = Kinds
               /\ UNCHANGED last
    <2> DEFINE new == NewPreferences(body)
    <2>1. Start(p, Kinds, new, body)
      BY <1>4 DEF PutPreferences
    <2> HIDE DEF new
    <2> PICK n \in 1..Numbers :
              /\ n \notin InUse /\ writer[p] = NoWrite
              /\ \A q \in Writers : writer'[q] =
                   IF q = p THEN Begun(p, n, Kinds, new, body)
                   ELSE IF writer[q] = NoWrite THEN NoWrite
                   ELSE [writer[q] EXCEPT !.beside = @ \cup {n}]
              /\ DOMAIN writer' = Writers /\ writer' = [q \in Writers |-> writer'[q]]
              /\ UNCHANGED <<rows, last>>
      BY <1>1, <2>1, StartedWriters
    <2>2. writer'[p] = Begun(p, n, Kinds, new, body)
      OBVIOUS
    <2>3. Begun(p, n, Kinds, new, body).all = Kinds
      BY ONLY DEF Begun
    <2>4. ASSUME NEW q \in Writers \ {p}, writer'[q] # NoWrite PROVE writer'[q].all = Kinds
      <3>1. /\ writer[q] # NoWrite
            /\ writer[q] \in Transaction(ToSet(Kinds), DOMAIN Kinds, PreferenceRows, Bodies)
        BY <1>1, <2>4, WriterFields
      <3>2. writer'[q].all = writer[q].all
        BY <3>1 DEF Transaction
      <3> QED
        BY <3>1, <3>2
    <2>5. \A q \in Writers : writer'[q] # NoWrite => writer'[q].all = Kinds
      BY ONLY <2>2, <2>3, <2>4
    <2> QED
      BY <2>5
  <1> QED
    BY <1>2, <1>3, <1>4 DEF PreferencesNext

LEMMA OpinionsKeepCosine ==
    ASSUME OpinionsCosineInv, [OpinionsNext]_<<interactionVars, rowVars, similarityVars, part>>
    PROVE  OpinionsCosineInv'
  <1>1. part' = part /\ OpinionsInv'
    BY OpinionsKeepInv DEF OpinionsNext, OpinionsCosineInv
  <1>2. CASE part = "similarity"
    <2>1. GameSimilarityNext \/ UNCHANGED <<rowVars, similarityVars>>
      BY <1>2 DEF OpinionsNext
    <2>2. CosineInv'
      BY <1>2, <2>1, CosineIsKept DEF OpinionsCosineInv
    <2> QED
      BY <1>1, <1>2, <2>2 DEF OpinionsCosineInv
  <1>3. CASE part # "similarity"
    <2>1. PreferencesNext \/ UNCHANGED rowVars
      BY <1>3 DEF OpinionsNext
    <2>2. PreferenceInv
      BY <1>3 DEF OpinionsCosineInv, OpinionsInv
    <2>3. /\ \A p \in Writers : writer'[p] # NoWrite => writer'[p].all = Kinds
          /\ last'.tables \in {<<>>, Kinds}
      BY <1>3, <2>1, <2>2, PreferencesKeepTables DEF OpinionsCosineInv
    <2> QED
      BY <1>1, <1>3, <2>3 DEF OpinionsCosineInv
  <1> QED
    BY <1>2, <1>3

LEMMA OpinionsStartWithCosine == OpinionsInit => OpinionsCosineInv
  BY OpinionsStartWithInv, CosineHoldsInitially
     DEF OpinionsInit, OpinionsCosineInv, RowReplacementInit, NothingYet

\* Beside each other too, what a rebuild leaves is the cosine of the sets of users: the
\* tables of the preferences are not the table of the similarities.
THEOREM OpinionsAreCosines ==
    ASSUME Kinds # <<Table>>
    PROVE  OpinionsSpec => []SimilarityIsCosine
  <1>1. <<>> # <<Table>>
    OBVIOUS
  <1>2. OpinionsCosineInv => SimilarityIsCosine
    <2>1. CosineInv => SimilarityIsCosine
      BY DEF CosineInv, SimilarityIsCosine, Nearest, Near, Kept
    <2>2. last.tables # <<Table>> => SimilarityIsCosine
      BY DEF SimilarityIsCosine
    <2> QED
      BY <1>1, <2>1, <2>2 DEF OpinionsCosineInv
  <1> QED
    BY <1>2, OpinionsStartWithCosine, OpinionsKeepCosine, PTL DEF OpinionsSpec
=============================================================================
