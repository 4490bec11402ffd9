------------------------------ MODULE MCUserData ------------------------------
(***************************************************************************)
(* Instances of ProfileImage, RecentSearches and Autocomplete beside       *)
(* AdultVerification for TLC: what a user keeps, and what a search shows.  *)
(***************************************************************************)
EXTENDS MCAdultVerification, ProfileImage, RecentSearches, Autocomplete

CONSTANTS o1, word1, word2, word3, word4, game1, game2, game3

OneOwner == {o1}
FourWords == {word1, word2, word3, word4}
ThreeGames == {game1, game2, game3}

\* The four modules share no state: a run explores one of them, which reaches every state
\* any of them has in the product.  The workers of ProfileImage are given the model values
\* of the states of AdultVerification: one set of permutations serves both.
VARIABLE part

UserDataInit ==
    /\ AdultInit /\ ProfileImageInit /\ RecentSearchesInit /\ AutocompleteInit
    /\ part \in {"adult", "image", "searches", "complete"}
    /\ part # "complete" => record = [g \in Hits |-> "absent"]

UserDataNext ==
    /\ UNCHANGED part
    /\ \/ part = "adult" /\ AdultNext /\ UNCHANGED <<imageVars, searchVars, completeVars>>
       \/ part = "image" /\ ProfileImageNext /\ UNCHANGED <<adultVars, searchVars, completeVars>>
       \/ part = "searches" /\ RecentSearchesNext /\ UNCHANGED <<adultVars, imageVars, completeVars>>
       \/ part = "complete" /\ AutocompleteNext /\ UNCHANGED <<adultVars, imageVars, searchVars>>

UserDataSpec ==
    UserDataInit /\ [][UserDataNext]_<<adultVars, imageVars, searchVars, completeVars, part>>

\* Every part stays well typed: verifications, images, recent searches, completions.
UserDataTypeOK ==
    /\ AdultTypeOK /\ ProfileImageTypeOK /\ RecentSearchesTypeOK /\ AutocompleteTypeOK
=============================================================================
