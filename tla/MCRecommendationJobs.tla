------------------------ MODULE MCRecommendationJobs ------------------------
(* Instances of RecommendationJobs for TLC. *)
EXTENDS RecommendationJobs, TLC

CONSTANTS u1, u2, w1, w2, d1, d2, r1, r2

OneUser == {u1}
TwoUsers == {u1, u2}
OneWorker == {w1}
TwoWorkers == {w1, w2}
OneDispatcher == {d1}
TwoDispatchers == {d1, d2}
OneRequest == {r1}
TwoRequests == {r1, r2}

Interchangeable ==
    Permutations(Users) \cup Permutations(Workers)
      \cup Permutations(Dispatchers) \cup Permutations(Requests)
=============================================================================
