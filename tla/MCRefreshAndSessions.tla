------------------------ MODULE MCRefreshAndSessions ------------------------
(* Instances for TLC of the refreshes with their jobs and of the sessions.  They share *)
(* no state: a behaviour is one of one of them, and the other stands still where it    *)
(* begins.                                                                             *)
EXTENDS MCRefreshSystem, AuthSession

CONSTANTS c1, c2

TwoCalls == {c1, c2}
CallsAreAlike == Permutations(Calls)

VARIABLE part

refreshAndSessionVars == <<sysVars, sessionVars, part>>

\* Bound: where requests overlapped or died, there is no third token
NoThirdToken == disturbed' = {} \/ nextToken' <= 3

RefreshAndSessionInit ==
    /\ SysInit /\ AuthInit
    /\ part \in {"refresh", "sessions"}
    /\ part = "sessions" => hasRecs = {}

RefreshAndSessionNext ==
    /\ UNCHANGED part
    /\ \/ part = "refresh" /\ SysNext /\ UNCHANGED sessionVars
       \/ part = "sessions" /\ AuthNext /\ NoThirdToken /\ UNCHANGED sysVars

RefreshAndSessionSpec ==
    RefreshAndSessionInit /\ [][RefreshAndSessionNext]_refreshAndSessionVars
=============================================================================
