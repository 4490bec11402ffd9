-------------------------- MODULE MCRefreshSystem --------------------------
(* Instances of RefreshSystem for TLC. *)
EXTENDS RefreshSystem, TLC

CONSTANTS u1, w1, w2, d1, r1, r2, g1, g2

OneUser == {u1}
OneWorker == {w1}
TwoWorkers == {w1, w2}
OneDispatcher == {d1}
OneRequest == {r1}
TwoRequests == {r1, r2}
TwoGames == {g1, g2}
Lists == {<<>>, <<g1>>, <<g2, g1>>}

\* Workers are alike, and so are requests
Interchangeable == Permutations(Workers) \cup Permutations(Requests)

OneGameList == {<<g1>>}
=============================================================================
