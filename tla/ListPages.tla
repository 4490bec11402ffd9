------------------------------ MODULE ListPages ------------------------------
(***************************************************************************)
(* The pages of the game list: windows into IGDB's sorted table, cached by *)
(* their parameters, filtered for each visitor.  Requests run on several   *)
(* workers while the table changes; a reader follows the next links.       *)
(***************************************************************************)
EXTENDS AgeRatings, FiniteSetsExt

CONSTANTS
    Orders,     \* external: IGDB's sorted table, one sequence of titles per edition
    ListSize,   \* page_size
    TopN,       \* top_n
    Servers     \* the worker processes

ASSUME ListPagesAssumption ==
    /\ ListSize \in Nat \ {0} /\ TopN \in Nat \ {0}
    /\ Orders \in Seq(Seq(Titles)) /\ Orders # <<>>
    /\ \A i \in DOMAIN Orders : IsInjective(Orders[i])

VARIABLES
    edition,    \* which of Orders IGDB has
    pageEntry,  \* igdb:search:{hash}: which edition the page was cut from
    server,     \* what each worker does
    reader      \* the visitor who follows the links

listVars == <<edition, pageEntry, server, reader>>

Uncached == 0
\* the top list of a genre, which has no links, and the pages links may lead to
Top == 0
Pages == 0..Max({(Len(Orders[e]) + ListSize - 1) \div ListSize : e \in DOMAIN Orders} \cup {1})

Unoccupied == [pc |-> "free"]
\* follows: the reader's request
Request(p, follows) ==
    [pc |-> "look", page |-> p, follows |-> follows, edition |-> Uncached]

ListPagesTypeOK ==
    /\ edition \in DOMAIN Orders
    /\ pageEntry \in [Pages -> 0..edition]
    /\ server \in [Servers -> {Unoccupied} \cup
          [pc: {"look", "fetch", "lookAgain", "put", "answered"}, page: Pages,
           follows: BOOLEAN, edition: 0..edition]]
    /\ \A s \in Servers : server[s] # Unoccupied =>
          (server[s].pc \in {"put", "answered"} <=> server[s].edition # Uncached)
    /\ reader \in [page: Pages \ {Top}, verified: BOOLEAN, seen: Seq(Titles),
                   editions: SUBSET (1..edition), pc: {"ready", "waits", "ended"}]
    /\ reader.pc = "waits" <=> \E s \in Servers : server[s] # Unoccupied /\ server[s].follows

ListPagesInit ==
    /\ edition = 1
    /\ pageEntry = [p \in Pages |-> Uncached]
    /\ server = [s \in Servers |-> Unoccupied]
    /\ reader \in [page: {1}, verified: BOOLEAN, seen: {<<>>}, editions: {{}}, pc: {"ready"}]

\* IGDB's data changes
TableChanges ==
    /\ edition < Len(Orders)
    /\ edition' = edition + 1
    /\ UNCHANGED <<pageEntry, server, reader>>

\* _SEARCH_TTL has passed: an entry may go at any time
PageExpires(p) ==
    /\ pageEntry[p] # Uncached
    /\ pageEntry' = [pageEntry EXCEPT ![p] = Uncached]
    /\ UNCHANGED <<edition, server, reader>>

-----------------------------------------------------------------------------
(* list_games and top_n_by_genre, of results cut from the table *)

Cut(s, first, count) ==
    SubSeq(s, first, IF first + count - 1 < Len(s) THEN first + count - 1 ELSE Len(s))
\* mutated form: no item is asked for beyond the page
WindowOfPage(e, p) ==
    IF p = Top THEN Cut(Orders[e], 1, TopN)
               ELSE Cut(Orders[e], (p - 1) * ListSize + 1, ListSize)
\* one item more than the page holds shows whether there are more
Window(e, p) ==
    IF p = Top THEN Cut(Orders[e], 1, TopN)
               ELSE Cut(Orders[e], (p - 1) * ListSize + 1, ListSize + 1)

\* what the reader is shown (GameListView); what the others are is theirs
ShownTo(r) == Visible(Window(r.edition, r.page), reader.verified)
Items(r) == Cut(ShownTo(r), 1, ListSize)
HasNext(r) == Len(ShownTo(r)) > ListSize

-----------------------------------------------------------------------------
(* search_games, in a request to GameListView *)

Turns(s, r) == server' = [server EXCEPT ![s] = r]

\* another visitor asks for a page, or for the top list
AskPage(s, p) ==
    /\ server[s] = Unoccupied
    /\ Turns(s, Request(p, FALSE))
    /\ UNCHANGED <<edition, pageEntry, reader>>
\* the reader opens the first page, or the one the last answer linked to
FollowLink(s) ==
    /\ reader.pc = "ready"
    /\ server[s] = Unoccupied
    /\ Turns(s, Request(reader.page, TRUE))
    /\ reader' = [reader EXCEPT !.pc = "waits"]
    /\ UNCHANGED <<edition, pageEntry>>

\* cache.get
LookPage(s) ==
    LET r == server[s]
        e == pageEntry[r.page]
    IN /\ r.pc = "look"
       /\ Turns(s, IF e # Uncached THEN [r EXCEPT !.pc = "answered", !.edition = e]
                                   ELSE [r EXCEPT !.pc = "fetch"])
       /\ UNCHANGED <<edition, pageEntry, reader>>

FetchPage(s) ==
    /\ server[s].pc = "fetch"
    /\ Turns(s, [server[s] EXCEPT !.pc = "put", !.edition = edition])
    /\ UNCHANGED <<edition, pageEntry, reader>>
\* a 429 or a 5xx: the cache is looked at once more, for what the code calls a stale
\* entry; as the first look missed, it can only be one that another request stored since
FetchRefused(s) ==
    /\ server[s].pc = "fetch"
    /\ Turns(s, [server[s] EXCEPT !.pc = "lookAgain"])
    /\ UNCHANGED <<edition, pageEntry, reader>>

\* The request fails: the reader may ask again.
Fails(s) ==
    /\ Turns(s, Unoccupied)
    /\ reader' = IF server[s].follows THEN [reader EXCEPT !.pc = "ready"] ELSE reader
\* any other error is raised
FetchRaises(s) ==
    /\ server[s].pc = "fetch"
    /\ Fails(s)
    /\ UNCHANGED <<edition, pageEntry>>
\* mutated form: what the second look finds is not looked at
LookAgainTrusting(s) ==
    LET r == server[s]
    IN /\ r.pc = "lookAgain"
       /\ Turns(s, [r EXCEPT !.pc = "answered", !.edition = pageEntry[r.page]])
       /\ UNCHANGED <<edition, pageEntry, reader>>
LookAgain(s) ==
    LET r == server[s]
        e == pageEntry[r.page]
    IN /\ r.pc = "lookAgain"
       /\ IF e = Uncached THEN Fails(s)
          ELSE Turns(s, [r EXCEPT !.pc = "answered", !.edition = e]) /\ UNCHANGED reader
       /\ UNCHANGED <<edition, pageEntry>>

\* cache.set, of the results before they are filtered
PutPage(s) ==
    LET r == server[s]
    IN /\ r.pc = "put"
       /\ pageEntry' = [pageEntry EXCEPT ![r.page] = r.edition]
       /\ Turns(s, [r EXCEPT !.pc = "answered"])
       /\ UNCHANGED <<edition, reader>>

\* The response arrives.
Delivered(s) ==
    LET r == server[s]
    IN /\ r.pc = "answered"
       /\ Turns(s, Unoccupied)
       /\ reader' = IF ~r.follows THEN reader
                    ELSE [reader EXCEPT !.seen = @ \o Items(r), !.editions = @ \cup {r.edition},
                                        !.page = IF HasNext(r) THEN @ + 1 ELSE @,
                                        !.pc = IF HasNext(r) THEN "ready" ELSE "ended"]
       /\ UNCHANGED <<edition, pageEntry>>

ListPagesNext ==
    \/ TableChanges
    \/ \E p \in Pages : PageExpires(p)
    \/ \E s \in Servers :
        \/ \E p \in Pages : AskPage(s, p)
        \/ FollowLink(s)
        \/ LookPage(s) \/ FetchPage(s) \/ FetchRefused(s) \/ FetchRaises(s) \/ LookAgain(s)
        \/ PutPage(s) \/ Delivered(s)

ListPagesSpec == ListPagesInit /\ [][ListPagesNext]_listVars

-----------------------------------------------------------------------------
(* Properties *)

\* A reader who follows the links to their end, through pages of one edition (some from
\* the cache, some not, some after an error), sees no game twice.  A verified adult sees
\* the whole table in its order.  For the others the links end at the first page with an
\* adult game, as list_games filters before has_next counts: they see all that comes
\* before that game, and no adult game.
LinksLoseNothing ==
    reader.pc = "ended" =>
        \A e \in DOMAIN Orders : reader.editions = {e} =>
            LET adults == {i \in DOMAIN Orders[e] : Adult(Orders[e][i])}
            IN /\ IsInjective(reader.seen)
               /\ reader.verified => reader.seen = Orders[e]
               /\ ~reader.verified =>
                     /\ \A g \in ToSet(reader.seen) : ~Adult(g)
                     /\ \A i \in DOMAIN Orders[e] :
                           (\A a \in adults : i < a) => Orders[e][i] \in ToSet(reader.seen)
=============================================================================
