------------------------- MODULE MCAdultVerification -------------------------
(* Instances of AdultVerification for TLC. *)
EXTENDS AdultVerification, TLC

CONSTANTS u1, u2, p1, p2, s1, s2, s3, r1, r2

TwoUsers == {u1, u2}
TwoPersons == {p1, p2}
ThreeStates == {s1, s2, s3}
TwoRequests == {r1, r2}

Interchangeable == Permutations(Users) \cup Permutations(Persons)
                     \cup Permutations(States) \cup Permutations(Requests)
=============================================================================
