---------------------------- MODULE MCCatalogue ----------------------------
(* Instances for TLC of the catalogue's parts, which share no state: a behaviour is *)
(* one of the parts' at a time.                                                     *)
EXTENDS MCNameKo, IgdbClient, GameEntries, ListPages

CONSTANTS w1, w2, w3, w4, v1, v2, v3

FourRows == {w1, w2, w3, w4}
FullOrNot == {<<w1, w2, w3, w4>>, <<w1, w2, w3>>}
SomeRows == {<<w3, w1, w4, w2>>, <<w2, w1, w3>>, <<w4, w1>>}

Rating(org, cat) == [organization |-> org, category |-> cat]
ThreeTitles == {v1, v2, v3}
\* v1 is for adults by its ESRB rating, behind one of another board; v2's first counts
OneAdult == v1 :> <<Rating(2, 5), Rating(ESRB, 7)>>
         @@ v2 :> <<Rating(ESRB, 6), Rating(ESRB, 7)>>
         @@ v3 :> <<>>
TwoEditions == << <<v2, v3, v1>>, <<v3, v2>> >>
BothTitles == {<<v1, v2, v1>>}
OneTitle == {v2}

\* The four modules share no state: a run explores one of them, which reaches every
\* state any of them has in the product.  Web and Servers are given the model values of
\* the tasks of NameKo: one set of permutations serves the three.
VARIABLE part

catalogueVars == <<nameVars, nameHistory, clientVars, gameVars, listVars, part>>

CatalogueInit ==
    /\ NameKoInit /\ IgdbClientInit /\ GameEntriesInit /\ ListPagesInit
    /\ part \in {"names", "client", "entries", "pages"}
    /\ part # "client" => table = <<w1, w2, w3>>
    /\ part # "entries" => onIgdb = {}
    /\ part # "pages" => ~reader.verified

CatalogueNext ==
    /\ UNCHANGED part
    /\ \/ part = "names" /\ NameKoNext /\ UNCHANGED <<clientVars, gameVars, listVars>>
       \/ /\ part = "client" /\ IgdbClientNext
          /\ UNCHANGED <<nameVars, nameHistory, gameVars, listVars>>
       \/ /\ part = "entries" /\ GameEntriesNext
          /\ UNCHANGED <<nameVars, nameHistory, clientVars, listVars>>
       \/ /\ part = "pages" /\ ListPagesNext
          /\ UNCHANGED <<nameVars, nameHistory, clientVars, gameVars>>

CatalogueSpec == CatalogueInit /\ [][CatalogueNext]_catalogueVars

\* Every part stays well typed: names, client, entries and pages.
CatalogueTypeOK ==
    /\ NameKoTypeOK /\ IgdbClientTypeOK /\ GameEntriesTypeOK /\ ListPagesTypeOK
=============================================================================
