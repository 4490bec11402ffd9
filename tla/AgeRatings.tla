------------------------------ MODULE AgeRatings ------------------------------
(* The age limit of a game, from IGDB's list of its ratings, and who may see it. *)
EXTENDS Naturals, Lists

CONSTANTS
    Titles,     \* ids of games
    RatingsOf   \* [Titles -> sequence of age_ratings]

ESRB == 1
AgeOf == <<0, 0, 0, 10, 13, 17, 18>>
AGE_RATING_LIMIT == 18

\* _parse_esrb: the first ESRB rating of a known category decides
AgeRatingMin(g) ==
    LET known == SelectSeq(RatingsOf[g],
                           LAMBDA r : r.organization = ESRB /\ r.category \in DOMAIN AgeOf)
    IN IF known = <<>> THEN 0 ELSE AgeOf[known[1].category]
Adult(g) == AgeRatingMin(g) >= AGE_RATING_LIMIT

\* filter_adult_games, of which the detail page's check is the case of one game
Visible(s, verified) == IF verified THEN s ELSE Kept(s, {g \in Titles : ~Adult(g)})
=============================================================================
