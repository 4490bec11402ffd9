------------------------------ MODULE IgdbClient ------------------------------
(***************************************************************************)
(* The IGDB client of one process: a bearer token that is renewed on a 401, *)
(* the pages of a table walked by offset, and lookups of many games in     *)
(* chunks.  The table changes while it is walked: it is sorted by          *)
(* updated_at desc, so an updated or new row moves to its front.           *)
(***************************************************************************)
EXTENDS Naturals, FiniteSets, SequencesExt

CONSTANTS
    Rows,
    Tables,       \* the tables IGDB may have at first
    Wanted,       \* the lists of ids that are looked up
    PageSize,     \* _PAGE_SIZE
    MaxPages,     \* _MAX_PAGES
    MaxChanges,   \* bound: changes of the table
    MaxTokens     \* bound: tokens ever issued

ASSUME IgdbClientAssumption ==
    /\ PageSize \in Nat \ {0} /\ MaxPages \in Nat \ {0}
    /\ MaxChanges \in Nat /\ MaxTokens \in Nat \ {0}
    /\ Tables \cup Wanted \subseteq Seq(Rows) /\ \A t \in Tables : IsInjective(t)

VARIABLES
    table,      \* the rows IGDB has, the latest update first
    changes,    \* how often the table has changed
    tokens,     \* how many tokens Twitch has issued; the process holds the last one
    expired,    \* the token the process holds has expired
    walk,       \* what the client is doing
    got,        \* the rows it has received
    sent,       \* history: requests for the current page
    atStart,    \* history: the rows of the table when the walk began
    touched,    \* history: rows updated, created or deleted since then
    moves,      \* history: how many rows moved to the front since then
    deletions   \* history: how many rows were deleted since then

clientVars == <<table, changes, tokens, expired, walk, got, sent, atStart, touched, moves,
                deletions>>

\* offset and the remaining ids are those of the page or chunk to ask for; second is
\* set once a 429 was answered
Walk == [pc: {"post", "renew", "again", "wait"}, op: {"iterate", "lookup"},
         offset: Nat, ids: Seq(Rows), second: BOOLEAN]
Ended == [pc: {"idle", "done", "capped", "failed"}, op: {"iterate", "lookup"}]
\* the client is between two calls; what the last one gave is still in got
AtRest == walk \in Ended

IgdbClientTypeOK ==
    /\ table \in Seq(Rows) /\ IsInjective(table)
    /\ changes \in 0..MaxChanges
    /\ tokens \in 1..MaxTokens
    /\ expired \in BOOLEAN
    /\ walk \in Walk \cup Ended
    /\ ~AtRest /\ walk.op = "lookup" => walk.ids # <<>>    \* it asks for some game
    /\ got \in Seq(Rows)
    /\ sent \in Nat
    /\ atStart \subseteq Rows /\ touched \subseteq Rows
    /\ moves \in Nat /\ deletions \in Nat /\ moves + deletions <= changes

IgdbClientInit ==
    /\ table \in Tables
    /\ changes = 0
    /\ tokens = 1 /\ expired = FALSE        \* __init__ has fetched one
    /\ walk = [pc |-> "idle", op |-> "iterate"]
    /\ got = <<>>
    /\ sent = 0
    /\ atStart = {} /\ touched = {} /\ moves = 0 /\ deletions = 0

-----------------------------------------------------------------------------
(* IGDB and Twitch *)

RowUpdated(i) ==
    /\ changes < MaxChanges
    /\ table' = <<table[i]>> \o RemoveAt(table, i)
    /\ changes' = changes + 1
    /\ touched' = touched \cup {table[i]}
    /\ moves' = moves + 1
    /\ UNCHANGED <<tokens, expired, walk, got, sent, atStart, deletions>>

RowDeleted(i) ==
    /\ changes < MaxChanges
    /\ table' = RemoveAt(table, i)
    /\ changes' = changes + 1
    /\ touched' = touched \cup {table[i]}
    /\ deletions' = deletions + 1
    /\ UNCHANGED <<tokens, expired, walk, got, sent, atStart, moves>>

RowCreated(r) ==
    /\ changes < MaxChanges
    /\ r \notin ToSet(table)
    /\ table' = <<r>> \o table
    /\ changes' = changes + 1
    /\ touched' = touched \cup {r}
    /\ moves' = moves + 1
    /\ UNCHANGED <<tokens, expired, walk, got, sent, atStart, deletions>>

TokenExpires ==
    /\ ~expired
    /\ expired' = TRUE
    /\ UNCHANGED <<table, changes, tokens, walk, got, sent, atStart, touched, moves, deletions>>

-----------------------------------------------------------------------------
Begin(rec) ==
    /\ AtRest
    /\ walk' = rec
    /\ got' = <<>>
    /\ sent' = 0
    /\ atStart' = ToSet(table)
    /\ touched' = {} /\ moves' = 0 /\ deletions' = 0
    /\ UNCHANGED <<table, changes, tokens, expired>>

\* iter_games, iter_genres, iter_platforms, iter_keywords
BeginIteration ==
    Begin([pc |-> "post", op |-> "iterate", offset |-> 0, ids |-> <<>>, second |-> FALSE])
\* get_games_by_ids; get_game is the lookup of one id
BeginLookup(ids) ==
    /\ ids # <<>>
    /\ Begin([pc |-> "post", op |-> "lookup", offset |-> 0, ids |-> ids, second |-> FALSE])

Chunk(ids) == {ids[i] : i \in {j \in DOMAIN ids : j <= PageSize}}
\* What a good response may hold: a page, or in some order the games of the chunk that
\* IGDB has.
Results(w) ==
    IF w.op = "iterate" THEN {SubSeq(table, w.offset + 1,
                                     IF w.offset + PageSize < Len(table) THEN w.offset + PageSize
                                                                         ELSE Len(table))}
    ELSE SetToSeqs(Chunk(w.ids) \cap ToSet(table))

\* The loops of _paginate and of get_games_by_ids, of which size is the step
Onward(w, results, size) ==
    IF w.op = "iterate" THEN
        IF Len(results) < PageSize THEN [pc |-> "done", op |-> w.op]
        ELSE [w EXCEPT !.pc = "post", !.offset = @ + size, !.second = FALSE]
    ELSE IF Len(w.ids) <= size THEN [pc |-> "done", op |-> w.op]
         ELSE [w EXCEPT !.pc = "post", !.ids = SubSeq(@, size + 1, Len(@))]
\* mutated form: a step jumps over a row
AfterJumping(w, results) == Onward(w, results, PageSize + 1)
\* mutated form: a step repeats a row
AfterOverlapping(w, results) == Onward(w, results, PageSize - 1)
After(w, results) == Onward(w, results, PageSize)

Accept ==
    \E results \in Results(walk) :
        /\ got' = got \o results
        /\ walk' = After(walk, results)
        /\ sent' = 0

\* A 429 while paging: sleep for Retry-After and ask once more.  Lookups, and a second
\* 429, raise; so do a 404 and a 5xx that the session's own retries did not overcome.
\* mutated form: every 429 is waited for
RefuseForever ==
    /\ UNCHANGED got
    /\ \/ walk' = [pc |-> "failed", op |-> walk.op] /\ sent' = 0
       \/ /\ walk.op = "iterate"
          /\ walk' = [walk EXCEPT !.pc = "wait", !.second = TRUE]
          /\ sent' = sent + 1
Refuse ==
    /\ UNCHANGED got
    /\ \/ walk' = [pc |-> "failed", op |-> walk.op] /\ sent' = 0
       \/ /\ walk.op = "iterate" /\ ~walk.second
          /\ walk' = [walk EXCEPT !.pc = "wait", !.second = TRUE]
          /\ sent' = sent + 1

\* the page limit, looked at before a page is asked for
Capped == walk.op = "iterate" /\ walk.offset \div PageSize >= MaxPages

\* _post, the first time
Post ==
    /\ walk.pc = "post"
    /\ IF Capped THEN walk' = [pc |-> "capped", op |-> walk.op] /\ UNCHANGED <<got, sent>>
       ELSE IF expired THEN /\ walk' = [walk EXCEPT !.pc = "renew"]
                            /\ sent' = sent + 1
                            /\ UNCHANGED got
       ELSE Accept \/ Refuse
    /\ UNCHANGED <<table, changes, tokens, expired, atStart, touched, moves, deletions>>

\* _fetch_token, of which an error is raised
Renew ==
    /\ walk.pc = "renew"
    /\ \/ /\ tokens < MaxTokens
          /\ tokens' = tokens + 1
          /\ expired' = FALSE
          /\ walk' = [walk EXCEPT !.pc = "again"]
       \/ walk' = [pc |-> "failed", op |-> walk.op] /\ UNCHANGED <<tokens, expired>>
    /\ UNCHANGED <<table, changes, got, sent, atStart, touched, moves, deletions>>

\* _post with the new token; a second 401 is raised
PostAgain ==
    /\ walk.pc = "again"
    /\ IF expired THEN walk' = [pc |-> "failed", op |-> walk.op] /\ sent' = 0 /\ UNCHANGED got
                  ELSE Accept \/ Refuse
    /\ UNCHANGED <<table, changes, tokens, expired, atStart, touched, moves, deletions>>

Wake ==
    /\ walk.pc = "wait"
    /\ walk' = [walk EXCEPT !.pc = "post"]
    /\ UNCHANGED <<table, changes, tokens, expired, got, sent, atStart, touched, moves, deletions>>

IgdbClientNext ==
    \/ \E i \in DOMAIN table : RowUpdated(i) \/ RowDeleted(i)
    \/ \E r \in Rows : RowCreated(r)
    \/ TokenExpires
    \/ BeginIteration \/ \E ids \in Wanted : BeginLookup(ids)
    \/ Post \/ Renew \/ PostAgain \/ Wake

IgdbClientSpec == IgdbClientInit /\ [][IgdbClientNext]_clientVars

-----------------------------------------------------------------------------
(* Properties *)

\* Paging by offset through a table that changes: as rows only move to the front, one
\* that nobody updated is never jumped over.  Only a deletion, which pulls the rows
\* behind it forward, makes a complete walk miss one such row.
UntouchedNotSkipped ==
    walk.pc = "done" /\ walk.op = "iterate" =>
        Cardinality((atStart \ touched) \ ToSet(got)) <= deletions

\* A walk receives a row twice only when another one moved to the front meanwhile: the
\* repetitions are no more than the moves.
RepeatsBounded == walk.op = "iterate" => Len(got) <= Cardinality(ToSet(got)) + moves

\* A walk differs from the table it started with by no more than the changes of the table.
WalkFollowsTable == UntouchedNotSkipped /\ RepeatsBounded

\* Whatever fails, a page costs four requests at most (each of the two attempts may
\* meet an expired token once, so three at most went before the last), and an
\* iteration receives MaxPages pages at most.
RequestBudget ==
    /\ sent <= 3
    /\ walk.op = "iterate" => Len(got) <= MaxPages * PageSize
=============================================================================
