---------------------------- MODULE MCAuthSession ----------------------------
(* Instances of AuthSession for TLC. *)
EXTENDS AuthSession, TLC

CONSTANTS u1, c1, c2

OneAccount == {u1}
TwoCalls == {c1, c2}

Interchangeable == Permutations(Calls)
=============================================================================
