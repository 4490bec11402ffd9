------------------------------ MODULE Autocomplete ------------------------------
(***************************************************************************)
(* GET /games/autocomplete for one query: a Redis SCAN over the records of *)
(* NameKo, while they are written and expire, then a sort and a cut.  The  *)
(* English names are not modelled: the keys they are looked for under are  *)
(* not the ones the cache writes (see the README).                         *)
(***************************************************************************)
EXTENDS Naturals, Lists

CONSTANTS
    Hits,           \* games with or without a record
    MaxResults,     \* _MAX_RESULTS
    Enough,         \* the matches after which the scan stops; _MAX_RESULTS * 5
    MaxIterations,  \* _MAX_SCAN_ITERATIONS
    MaxUpdates      \* bound: records written or expired

ASSUME AutocompleteAssumption ==
    /\ MaxResults \in Nat \ {0} /\ Enough \in Nat /\ Enough >= MaxResults
    /\ MaxIterations \in Nat \ {0} /\ MaxUpdates \in Nat
    /\ IsFiniteSet(Hits)

VARIABLES
    record,     \* how the record of each game fits the query
    updates,    \* how often a record has changed
    scan,       \* the request that scans, if any
    shown       \* the cached answer for the query

completeVars == <<record, updates, scan, shown>>

\* no record, or one without fetched_at; one that does not match; one that matches
\* by its initials (chosung); one that matches by its name
Fits == {"absent", "no", "chosung", "name_ko"}
Priority == [absent |-> 0, no |-> 0, chosung |-> 2, name_ko |-> 3]
Matches(fit) == Priority[fit] > 0

\* owed: the records there since the scan began that SCAN has not returned.
\* History: which games have fitted in the same way since (steady).
NoScan == [pc |-> "none"]
NoAnswer == [pc |-> "none"]

Match == [game: Hits, priority: {2, 3}]
AutocompleteTypeOK ==
    /\ record \in [Hits -> Fits] /\ updates \in 0..MaxUpdates
    /\ scan = NoScan \/
       /\ scan \in [pc: {"scan", "sort"}, owed: SUBSET Hits, matches: Seq(Match),
                    iterations: 0..MaxIterations, whole: BOOLEAN, steady: SUBSET Hits]
       /\ scan.pc = "scan" => scan.iterations < MaxIterations
    /\ shown = NoAnswer \/
       /\ shown \in [pc: {"cached"}, results: Seq(Match), whole: BOOLEAN,
                     fits: UNION {[games -> Fits] : games \in SUBSET Hits}]
       /\ Len(shown.results) <= MaxResults

AutocompleteInit ==
    /\ record \in [Hits -> Fits]
    /\ updates = 0 /\ scan = NoScan /\ shown = NoAnswer

\* NameKo writes a record, or one expires
RecordChanges(g, fit) ==
    /\ updates < MaxUpdates /\ record[g] # fit
    /\ updates' = updates + 1
    /\ record' = [record EXCEPT ![g] = fit]
    /\ scan' = IF scan = NoScan THEN scan
               ELSE [scan EXCEPT !.owed = IF fit = "absent" THEN @ \ {g} ELSE @,
                                 !.steady = @ \ {g}]
    /\ UNCHANGED shown

\* the cache has no answer for this query
BeginSearch ==
    /\ scan = NoScan /\ shown = NoAnswer
    /\ scan' = [pc |-> "scan", owed |-> {g \in Hits : record[g] # "absent"}, matches |-> <<>>,
                iterations |-> 0, whole |-> FALSE, steady |-> Hits]
    /\ UNCHANGED <<record, updates, shown>>

\* SCAN returns any records it has not returned and may return some again; only when it
\* has returned all that were there from the start may the cursor come back to 0.
Batch(returned) ==
    LET fitting == {g \in ToSet(returned) : Matches(record[g])}
        found == Kept(returned, fitting)
        matches == scan.matches \o [i \in DOMAIN found |->
                       [game |-> found[i], priority |-> Priority[record[found[i]]]]]
        owed == scan.owed \ ToSet(returned)
    IN /\ scan.pc = "scan"
       /\ \A i \in DOMAIN returned : record[returned[i]] # "absent"
       /\ \E ended \in IF owed = {} THEN BOOLEAN ELSE {FALSE} :
             scan' = [scan EXCEPT !.matches = matches, !.owed = owed, !.iterations = @ + 1,
                         !.whole = ended,
                         !.pc = IF ended \/ Len(matches) >= Enough \/ scan.iterations + 1 = MaxIterations
                                THEN "sort" ELSE "scan"]
       /\ UNCHANGED <<record, updates, shown>>

\* matches.sort(reverse=True), which is stable, and the positions where a game comes first
Sorted(ms) == Kept(ms, {m \in Match : m.priority = 3}) \o Kept(ms, {m \in Match : m.priority = 2})
FirstPlaces(ms) == {i \in DOMAIN ms : \A j \in 1..(i - 1) : ms[j].game # ms[i].game}
Distinct(ms) == LET order == Kept([i \in DOMAIN ms |-> i], FirstPlaces(ms))
                IN [i \in DOMAIN order |-> ms[order[i]]]
Cut(ms, n) == SubSeq(ms, 1, IF n < Len(ms) THEN n ELSE Len(ms))
\* The better matches first, each game once, MaxResults of them
\* mutated form: the cut comes before the repetitions are left out
FirstThenDistinct(ms) == Distinct(Cut(Sorted(ms), MaxResults))
\* mutated form: a game that was returned twice is shown twice
FirstOnes(ms) == Cut(Sorted(ms), MaxResults)
\* mutated form: the cut is one late (len(results) > _MAX_RESULTS)
OneMore(ms) == Cut(Distinct(Sorted(ms)), MaxResults + 1)
BestOf(ms) == Cut(Distinct(Sorted(ms)), MaxResults)

AnswerSearch ==
    /\ scan.pc = "sort"
    /\ shown' = [pc |-> "cached", results |-> BestOf(scan.matches), whole |-> scan.whole,
                 fits |-> [g \in scan.steady |-> record[g]]]
    /\ scan' = NoScan
    /\ UNCHANGED <<record, updates>>

\* _AUTOCOMPLETE_TTL
AnswerExpires ==
    /\ shown # NoAnswer
    /\ shown' = NoAnswer
    /\ UNCHANGED <<record, updates, scan>>

Returned == UNION {SetToSeqs(s) : s \in {x \in SUBSET Hits : Cardinality(x) <= 2}}
AutocompleteNext ==
    \/ \E g \in Hits, fit \in Fits : RecordChanges(g, fit)
    \/ BeginSearch
    \/ \E returned \in Returned : Batch(returned)
    \/ AnswerSearch \/ AnswerExpires

AutocompleteSpec == AutocompleteInit /\ [][AutocompleteNext]_completeVars

-----------------------------------------------------------------------------
(* Properties *)

\* SCAN may return a record twice, and a name may change between the two: the answer
\* still has no game twice, and its better matches first.
NoGameTwice ==
    shown # NoAnswer =>
        \A i, j \in DOMAIN shown.results : i < j =>
            /\ shown.results[i].game # shown.results[j].game
            /\ shown.results[i].priority >= shown.results[j].priority

\* A scan that was not broken off leaves out a game that has matched all the while only
\* when the answer is full of matches that are as good: nothing that is written or
\* expires beside it hides the game.
BestAreShown ==
    shown # NoAnswer /\ shown.whole =>
        \A g \in DOMAIN shown.fits : Matches(shown.fits[g]) =>
            \/ \E i \in DOMAIN shown.results : shown.results[i].game = g
            \/ /\ Len(shown.results) = MaxResults
               /\ \A i \in DOMAIN shown.results :
                     shown.results[i].priority >= Priority[shown.fits[g]]

\* The answer is a ranking of the games that match: each once, the best of them.
CompletionIsBest == NoGameTwice /\ BestAreShown
=============================================================================
