---------------------------- MODULE RecentSearches ----------------------------
(***************************************************************************)
(* The recent searches of a user: a Redis list, latest first, that the     *)
(* game list extends in one MULTI/EXEC (LREM, LPUSH, LTRIM).               *)
(***************************************************************************)
EXTENDS Naturals, Lists

CONSTANTS
    Searchers, Keywords,
    HistorySize   \* SEARCH_HISTORY_MAX_SIZE

ASSUME RecentSearchesAssumption == HistorySize \in Nat \ {0}

VARIABLES
    recent,    \* search:recent:{user}
    used,      \* history: every keyword searched, the last one first
    removed    \* history: keywords deleted since they were last searched

searchVars == <<recent, used, removed>>

RecentSearchesTypeOK ==
    /\ recent \in [Searchers -> Seq(Keywords)]
    /\ \A u \in Searchers : Len(recent[u]) <= HistorySize
    /\ used \in [Searchers -> Seq(Keywords)]
    /\ removed \in [Searchers -> SUBSET Keywords]

RecentSearchesInit ==
    /\ recent = [u \in Searchers |-> <<>>]
    /\ used = [u \in Searchers |-> <<>>]
    /\ removed = [u \in Searchers |-> {}]

-----------------------------------------------------------------------------
\* LREM key 0 keyword
Without(s, k) == Kept(s, Keywords \ {k})

\* mutated form: a repeated search is listed twice
PushedAgain(s, k) == SubSeq(<<k>> \o s, 1, IF Len(s) + 1 < HistorySize THEN Len(s) + 1
                                                                         ELSE HistorySize)
\* mutated form: LTRIM 0 HistorySize
PushedOneMore(s, k) ==
    LET t == <<k>> \o Without(s, k)
    IN SubSeq(t, 1, IF Len(t) <= HistorySize THEN Len(t) ELSE HistorySize + 1)
\* LREM, LPUSH, LTRIM 0 HistorySize-1
Pushed(s, k) ==
    LET t == <<k>> \o Without(s, k)
    IN SubSeq(t, 1, IF Len(t) < HistorySize THEN Len(t) ELSE HistorySize)

SaveKeyword(u, k) ==
    /\ recent' = [recent EXCEPT ![u] = Pushed(@, k)]
    /\ used' = [used EXCEPT ![u] = <<k>> \o Without(@, k)]
    /\ removed' = [removed EXCEPT ![u] = @ \ {k}]

\* a keyword that is not listed is a 404 and changes nothing
DeleteKeyword(u, k) ==
    /\ k \in ToSet(recent[u])
    /\ recent' = [recent EXCEPT ![u] = Without(@, k)]
    /\ removed' = [removed EXCEPT ![u] = @ \cup {k}]
    /\ UNCHANGED used

ClearKeywords(u) ==
    /\ recent' = [recent EXCEPT ![u] = <<>>]
    /\ removed' = [removed EXCEPT ![u] = ToSet(used[u])]
    /\ UNCHANGED used

RecentSearchesNext ==
    \E u \in Searchers :
        \/ \E k \in Keywords : SaveKeyword(u, k) \/ DeleteKeyword(u, k)
        \/ ClearKeywords(u)

RecentSearchesSpec == RecentSearchesInit /\ [][RecentSearchesNext]_searchVars

-----------------------------------------------------------------------------
(* Properties *)

\* After any sequence of searches and deletions the list is in the order of the last
\* use without repetition, holds nothing the user deleted, and misses a keyword only
\* when HistorySize others were searched after it.
RecentIsLatest ==
    \A u \in Searchers :
        LET kept == Cardinality(ToSet(recent[u]))
            Rank(k) == CHOOSE i \in DOMAIN used[u] : used[u][i] = k
        IN /\ kept = Len(recent[u])
           /\ ToSet(recent[u]) \subseteq ToSet(used[u]) \ removed[u]
           /\ \A i, j \in DOMAIN recent[u] : i < j => Rank(recent[u][i]) < Rank(recent[u][j])
           /\ \A k \in ToSet(used[u]) \ (removed[u] \cup ToSet(recent[u])) : Rank(k) > HistorySize
=============================================================================
