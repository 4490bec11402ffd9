------------------------------ MODULE MCNameKo ------------------------------
(* Instances of NameKo for TLC. *)
EXTENDS NameKo, TLC

CONSTANTS g1, r1, t1, t2, b1

OneGame == {g1}
OneRequest == {r1}
TwoTasks == {t1, t2}
OneBulk == {b1}

\* an edition without parent_game, which the search for its base name finds itself
NoParent == [g \in OneGame |-> NoGame]
Itself == [g \in OneGame |-> g]
SlugsOfEditions == [g \in OneGame |-> "base"]

Interchangeable == Permutations(Tasks) \cup Permutations(Requests) \cup Permutations(Bulks)
=============================================================================
