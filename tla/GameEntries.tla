------------------------------ MODULE GameEntries ------------------------------
(***************************************************************************)
(* The cache of single games: one entry per game, shared by the detail     *)
(* page and by the lookups of many games (similar games, saved games,      *)
(* affinities, recommendations).  Requests run on several workers; games   *)
(* come and go at IGDB, and entries expire.                                 *)
(***************************************************************************)
EXTENDS AgeRatings, FiniteSetsExt

CONSTANTS
    Opened,     \* the games whose detail page is asked for
    Lookups,    \* the lists of ids asked for at once
    GameTTL,    \* _GAME_TTL
    Slow,       \* bound: how long a request may take
    Horizon,    \* bound: the clock
    MaxMoves,   \* bound: games created or removed at IGDB
    Web         \* the worker processes

ASSUME GameEntriesAssumption ==
    /\ GameTTL \in Nat \ {0} /\ Slow \in Nat /\ Horizon \in Nat \ {0} /\ MaxMoves \in Nat
    /\ Lookups \subseteq Seq(Titles) \ {<<>>} /\ Opened \subseteq Titles

\* the games that are asked for
Wares == Opened \cup UNION {ToSet(ids) : ids \in Lookups}

VARIABLES
    onIgdb,     \* the games IGDB has
    comings,    \* how often that has changed
    now,
    gameEntry,  \* igdb:game:{id}
    web         \* what each worker does

gameVars == <<onIgdb, comings, now, gameEntry, web>>

NoEntry == [until |-> 0]
Free == [pc |-> "free"]
\* read: when IGDB was asked; got: the same for each game a lookup has in hand, 0 for the
\* others; left: the games it has still to look for, or to store; missing: those the cache
\* did not have; asked: when the request came.
\* History: the games that IGDB has had ever since (steady).
DetailRequest(g, verified) ==
    [pc |-> "look", op |-> "detail", of |-> g, verified |-> verified, read |-> 0, asked |-> now]
LookupRequest(ids) ==
    [pc |-> "look", op |-> "lookup", of |-> ids, left |-> ids, missing |-> {},
     got |-> [g \in Wares |-> 0], read |-> 0, asked |-> now, steady |-> onIgdb \cap ToSet(ids)]
InHand(r) == {g \in Wares : r.got[g] # 0}
Working == {w \in Web : web[w].pc \in {"look", "fetch", "put"}}

AtWork == {"look", "fetch", "put"}
DetailState ==
    [pc: AtWork, op: {"detail"}, of: Wares, verified: BOOLEAN, read: 0..now, asked: 1..now]
LookupState ==
    [pc: AtWork, op: {"lookup"}, of: Lookups, left: Seq(Wares), missing: SUBSET Wares,
     got: [Wares -> 0..now], read: 0..now, asked: 1..now, steady: SUBSET Wares]
DetailResponse == [pc: {"answered"}, op: {"detail"}, of: Wares, items: Seq(Wares), age: Nat]
LookupResponse ==
    [pc: {"answered"}, op: {"lookup"}, of: Lookups, items: Seq(Wares), steady: SUBSET Wares, age: Nat]

GameEntriesTypeOK ==
    /\ onIgdb \subseteq Wares /\ comings \in 0..MaxMoves
    /\ now \in 1..Horizon
    /\ gameEntry \in [Wares -> {NoEntry} \cup [until: now + 1..now + GameTTL, read: 1..now]]
    /\ web \in [Web -> {Free} \cup DetailState \cup LookupState \cup DetailResponse \cup LookupResponse]

GameEntriesInit ==
    /\ onIgdb \in SUBSET Wares
    /\ comings = 0 /\ now = 1
    /\ gameEntry = [g \in Wares |-> NoEntry]
    /\ web = [w \in Web |-> Free]

\* Time passes: entries expire, and no request takes longer than Slow.
TimePasses ==
    /\ now < Horizon
    /\ \A w \in Working : now - web[w].asked < Slow
    /\ now' = now + 1
    /\ gameEntry' = [g \in Wares |-> IF gameEntry[g].until > now' THEN gameEntry[g] ELSE NoEntry]
    /\ UNCHANGED <<onIgdb, comings, web>>

\* IGDB removes a game or adds one
IgdbChanges(g) ==
    /\ comings < MaxMoves
    /\ comings' = comings + 1
    /\ onIgdb' = IF g \in onIgdb THEN onIgdb \ {g} ELSE onIgdb \cup {g}
    /\ web' = [w \in Web |-> IF w \in Working /\ web[w].op = "lookup"
                             THEN [web[w] EXCEPT !.steady = @ \ {g}] ELSE web[w]]
    /\ UNCHANGED <<now, gameEntry>>

Becomes(w, r) == web' = [web EXCEPT ![w] = r]

AskDetail(w, g, verified) ==
    /\ web[w] = Free
    /\ Becomes(w, DetailRequest(g, verified))
    /\ UNCHANGED <<onIgdb, comings, now, gameEntry>>
AskMany(w, ids) ==
    /\ web[w] = Free
    /\ Becomes(w, LookupRequest(ids))
    /\ UNCHANGED <<onIgdb, comings, now, gameEntry>>

-----------------------------------------------------------------------------
(* get_game_detail and detail_game *)

\* the response, or the 403 for an adult game, is made of what IGDB said at read
DetailAnswer(r, read) ==
    [pc |-> "answered", op |-> "detail", of |-> r.of, items |-> Visible(<<r.of>>, r.verified),
     age |-> now - read]

LookDetail(w) ==
    LET r == web[w]
    IN /\ r.pc = "look" /\ r.op = "detail"
       /\ Becomes(w, IF gameEntry[r.of] # NoEntry THEN DetailAnswer(r, gameEntry[r.of].read)
                                                 ELSE [r EXCEPT !.pc = "fetch"])
       /\ UNCHANGED <<onIgdb, comings, now, gameEntry>>
FetchDetail(w) ==
    LET r == web[w]
    IN /\ r.pc = "fetch" /\ r.op = "detail" /\ r.of \in onIgdb
       /\ Becomes(w, [r EXCEPT !.pc = "put", !.read = now])
       /\ UNCHANGED <<onIgdb, comings, now, gameEntry>>
PutDetail(w) ==
    LET r == web[w]
    IN /\ r.pc = "put" /\ r.op = "detail"
       /\ gameEntry' = [gameEntry EXCEPT ![r.of] = [until |-> now + GameTTL, read |-> r.read]]
       /\ Becomes(w, DetailAnswer(r, r.read))
       /\ UNCHANGED <<onIgdb, comings, now>>

\* A game IGDB does not have, and any error of the client, is raised.
FetchFails(w) ==
    /\ web[w].pc = "fetch"
    /\ Becomes(w, Free)
    /\ UNCHANGED <<onIgdb, comings, now, gameEntry>>
Respond(w) ==
    /\ web[w].pc = "answered"
    /\ Becomes(w, Free)
    /\ UNCHANGED <<onIgdb, comings, now, gameEntry>>

-----------------------------------------------------------------------------
(* get_games_by_ids *)

Response(r, items) ==
    [pc |-> "answered", op |-> "lookup", of |-> r.of, items |-> items, steady |-> r.steady,
     age |-> now - Min({r.got[g] : g \in InHand(r)} \cup {now})]
\* mutated form: the games found in the cache come first
LookupAnswerAsFound(r) ==
    LET fetched == {g \in InHand(r) : r.got[g] = r.read}
    IN Response(r, Kept(r.of, InHand(r) \ fetched) \o Kept(r.of, fetched))
LookupAnswer(r) == Response(r, Kept(r.of, InHand(r)))

\* one cache.get after the other; a game may be asked for twice
LookOne(w) ==
    LET r == web[w]
        g == Head(r.left)
        s == IF gameEntry[g] # NoEntry
             THEN [r EXCEPT !.left = Tail(@), !.got[g] = gameEntry[g].read]
             ELSE [r EXCEPT !.left = Tail(@), !.missing = @ \cup {g}]
    IN /\ r.pc = "look" /\ r.op = "lookup"
       /\ Becomes(w, IF s.left # <<>> THEN s
                     ELSE IF s.missing = {} THEN LookupAnswer(s)
                     ELSE [s EXCEPT !.pc = "fetch"])
       /\ UNCHANGED <<onIgdb, comings, now, gameEntry>>
\* IGDB returns those of the missing games it has, in an order of its own
FetchMissing(w) ==
    LET r == web[w]
    IN /\ r.pc = "fetch" /\ r.op = "lookup"
       /\ \E found \in SetToSeqs(r.missing \cap onIgdb) :
             Becomes(w, IF found = <<>> THEN LookupAnswer(r)
                        ELSE [r EXCEPT !.pc = "put", !.read = now, !.left = found])
       /\ UNCHANGED <<onIgdb, comings, now, gameEntry>>
\* Each game fetched is stored, over whatever another worker has stored meanwhile.
\* mutated form: the games that were found in the cache are stored again with it
PutOneAndRenew(w) ==
    LET r == web[w]
        g == Head(r.left)
        s == [r EXCEPT !.left = Tail(@), !.got[g] = r.read]
    IN /\ r.pc = "put" /\ r.op = "lookup"
       /\ gameEntry' = [x \in Wares |-> IF x \in InHand(s)
                          THEN [until |-> now + GameTTL, read |-> s.got[x]] ELSE gameEntry[x]]
       /\ Becomes(w, IF s.left = <<>> THEN LookupAnswer(s) ELSE s)
       /\ UNCHANGED <<onIgdb, comings, now>>
PutOne(w) ==
    LET r == web[w]
        g == Head(r.left)
        s == [r EXCEPT !.left = Tail(@), !.got[g] = r.read]
    IN /\ r.pc = "put" /\ r.op = "lookup"
       /\ gameEntry' = [gameEntry EXCEPT ![g] = [until |-> now + GameTTL, read |-> r.read]]
       /\ Becomes(w, IF s.left = <<>> THEN LookupAnswer(s) ELSE s)
       /\ UNCHANGED <<onIgdb, comings, now>>

GameEntriesNext ==
    \/ TimePasses \/ \E g \in Wares : IgdbChanges(g)
    \/ \E w \in Web :
        \/ \E g \in Opened, verified \in BOOLEAN : AskDetail(w, g, verified)
        \/ \E ids \in Lookups : AskMany(w, ids)
        \/ LookDetail(w) \/ FetchDetail(w) \/ PutDetail(w)
        \/ LookOne(w) \/ FetchMissing(w) \/ PutOne(w)
        \/ FetchFails(w) \/ Respond(w)

GameEntriesSpec == GameEntriesInit /\ [][GameEntriesNext]_gameVars

-----------------------------------------------------------------------------
(* Properties *)

AnswersTo(op) == {web[w] : w \in {x \in Web : web[x].pc = "answered" /\ web[x].op = op}}

\* A game is shown as IGDB had it at most an entry's life and two requests ago (the one
\* that stored it, the one that shows it): no path stores what it found in the cache,
\* which would keep old data alive for ever.
NothingOutlivesItsTTL ==
    \A r \in AnswersTo("detail") \cup AnswersTo("lookup") : r.age < GameTTL + 2 * Slow

\* A lookup answers in the order asked, which its callers rely on for their ranking, and
\* leaves out no game that IGDB had all the while, whatever expires, is removed or is
\* stored by another worker between its steps.
LookupIsComplete ==
    \A r \in AnswersTo("lookup") :
        /\ r.steady \subseteq ToSet(r.items)
        /\ \E kept \in SUBSET ToSet(r.of) : r.items = Kept(r.of, kept)

\* What is answered from the cache: nothing old, nothing left out, in the order asked.
AnswersAreCurrent == NothingOutlivesItsTTL /\ LookupIsComplete
=============================================================================
