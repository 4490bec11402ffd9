--------------------------- MODULE MCInteractions ---------------------------
(* Instances of Interactions for TLC. *)
EXTENDS Interactions, TLC

CONSTANTS u1, g1, detail_page, search_result, shop1, word1, r1, r2

OneUser == {u1}
OneGame == {g1}
TwoSources == {detail_page, search_result}
TwoDetails == {shop1, word1}
TwoRequests == {r1, r2}

Of(type, source, detail) ==
    [user |-> u1, game |-> g1, type |-> type, source |-> source, detail |-> detail]
ViewsAndClicks ==
    {Of("view", detail_page, NoDetail), Of("view", search_result, NoDetail),
     Of("search", search_result, word1), Of("store_click", detail_page, shop1)}

React(reaction, saved) ==
    [user |-> u1, game |-> g1, source |-> detail_page, reaction |-> reaction, saved |-> saved]
SomeReactions == {React("like", Unset), React("dislike", "saved_add")}

\* a base of 60 fits the column once, and no longer after the decay of 2.0
Seeded == [base |-> 1, cooldown |-> 1, decay |-> 20]
SomePatches == {[type |-> "view", set |-> [base |-> 60, cooldown |-> 0]]}
OneContextPatch == {[source |-> search_result, multiplier |-> 2]}

Interchangeable == Permutations(TwoRequests)
=============================================================================
