-------------------------- MODULE AuthSessionProofs --------------------------
(***************************************************************************)
(* Proofs about AuthSession for any number of users, requests, tokens,     *)
(* passwords and days, with and without killed requests.                   *)
(***************************************************************************)
EXTENDS AuthSession, TLAPS

\* The tokens a request works on have been issued.
TokensExist ==
    \A r \in Calls :
        /\ call[r].pc \in {"load", "blacklist"} => call[r].token \in Outstanding
        /\ call[r].pc = "revoke" => call[r].todo \subseteq Outstanding

\* A refresh that reached the issue of the new token has spent the old one.
RefreshHasSpent ==
    \A r \in Calls :
        call[r].pc = "issue" /\ call[r].token # 0 => call[r].token \in blacklist

AuthInv == TablesTypeOK /\ TokensExist /\ RefreshHasSpent /\ RotationSpendsParent

-----------------------------------------------------------------------------
(* Types *)

\* Idle is not a state of any other kind.
LEMMA KindOfState ==
    ASSUME NEW rec \in CallState
    PROVE  /\ rec.pc \in {"load", "blacklist", "issue"} => rec \in Session
           /\ rec.pc \in {"save", "list", "restore"} => rec \in Write
           /\ rec.pc = "status" => rec \in Status
           /\ rec.pc = "revoke" => rec \in Revocation
  <1>1. CASE rec \in Session
    BY <1>1 DEF Session
  <1>2. CASE rec \in Write
    BY <1>2 DEF Write
  <1>3. CASE rec \in Status
    BY <1>3 DEF Status
  <1>4. CASE rec \in Revocation
    BY <1>4 DEF Revocation
  <1>5. CASE rec = Idle
    BY <1>5 DEF Idle
  <1> QED
    BY <1>1, <1>2, <1>3, <1>4, <1>5 DEF CallState

\* Ending a request, or turning it into the revocation of all tokens, is well typed.
LEMMA PlainStates ==
    /\ Idle \in CallState
    /\ \A u \in Accounts : Revoking(u) \in CallState
  BY DEF CallState, Write, Revoking

\* An issued token is a token.
LEMMA IssuedType ==
    ASSUME TablesTypeOK
    PROVE  /\ nextToken \in Nat \ {0}
           /\ Outstanding \subseteq TokenIds
           /\ \A t \in Outstanding : token[t] \in Token
  <1>1. nextToken \in Nat \ {0} /\ Outstanding \subseteq TokenIds
    BY SessionAssumption DEF TablesTypeOK, Outstanding, TokenIds
  <1>2. \A t \in Outstanding : token[t] # NoToken
    BY <1>1 DEF TablesTypeOK, Outstanding, TokenIds
  <1> QED
    BY <1>1, <1>2 DEF TablesTypeOK

\* A token is not the empty row.
LEMMA TokenIsNotNone == ASSUME NEW t \in Token PROVE t # NoToken
  <1>1. "user" \in DOMAIN t
    BY DEF Token
  <1>2. "user" \notin DOMAIN NoToken
    BY DEF NoToken
  <1> QED
    BY <1>1, <1>2

-----------------------------------------------------------------------------
(* The invariant is inductive *)

\* The invariant holds initially.
LEMMA AuthInvInit == AuthInit => AuthInv
  <1> SUFFICES ASSUME AuthInit PROVE AuthInv
    OBVIOUS
  <1>1. account \in [Accounts -> Account]
    BY SessionAssumption DEF AuthInit, Account
  <1>2. token \in [TokenIds -> Token \cup {NoToken}]
    BY DEF AuthInit
  <1>3. \A t \in TokenIds : token[t] # NoToken <=> t < nextToken
    BY SessionAssumption DEF AuthInit, TokenIds
  <1>4. nextToken \in 1..(MaxTokens + 1) /\ now \in Time /\ purge \in SUBSET Accounts
    BY SessionAssumption DEF AuthInit, Time
  <1>5. call \in [Calls -> CallState] /\ \A r \in Calls : call[r].pc = "idle"
    BY DEF AuthInit, CallState, Idle
  <1>6. blacklist \subseteq 1..(nextToken - 1) /\ Outstanding = {}
    BY DEF AuthInit, Outstanding
  <1> QED
    BY <1>1, <1>2, <1>3, <1>4, <1>5, <1>6
       DEF AuthInv, TablesTypeOK, TokensExist, RefreshHasSpent, RotationSpendsParent

\* A step that changes no token and only adds issued tokens to the blacklist keeps
\* the invariant, if the request that moves does so well.
LEMMA OneRequestMoves ==
    ASSUME AuthInv, NEW r \in Calls, NEW rec \in CallState, Become(r, rec),
           account' \in [Accounts -> Account],
           UNCHANGED <<token, nextToken, purge, now>>,
           blacklist \subseteq blacklist', blacklist' \subseteq Outstanding,
           rec.pc \in {"load", "blacklist"} => rec.token \in Outstanding,
           rec.pc = "revoke" => rec.todo \subseteq Outstanding,
           rec.pc = "issue" /\ rec.token # 0 => rec.token \in blacklist'
    PROVE  AuthInv'
  <1>1. call' \in [Calls -> CallState]
    BY DEF Become, AuthInv, TablesTypeOK
  <1>2. \A s \in Calls : call'[s] = IF s = r THEN rec ELSE call[s]
    BY DEF Become, AuthInv, TablesTypeOK
  <1>3. Outstanding' = Outstanding
    BY DEF Outstanding
  <1>4. TablesTypeOK'
    BY <1>1 DEF AuthInv, TablesTypeOK, Outstanding
  <1>5. TokensExist' /\ RefreshHasSpent'
    BY <1>2, <1>3 DEF AuthInv, TokensExist, RefreshHasSpent
  <1>6. RotationSpendsParent'
    BY <1>3 DEF AuthInv, RotationSpendsParent
  <1> QED
    BY <1>4, <1>5, <1>6 DEF AuthInv

\* The blacklist holds issued tokens only.
LEMMA BlacklistIssued == AuthInv => blacklist \subseteq Outstanding
  BY DEF AuthInv, TablesTypeOK, Outstanding

\* The accounts stay typed if one of them gets a well-typed row.
LEMMA AccountType ==
    ASSUME AuthInv, NEW u \in Accounts, NEW row \in Account,
           account' = [account EXCEPT ![u] = row]
    PROVE  account' \in [Accounts -> Account]
  BY DEF AuthInv, TablesTypeOK

\* Ending a request, or making it list the tokens to revoke, keeps the invariant.
LEMMA PlainMove ==
    ASSUME AuthInv, NEW r \in Calls,
           Finish(r) \/ (\E u \in Accounts : Become(r, Revoking(u))),
           account' \in [Accounts -> Account],
           UNCHANGED <<token, nextToken, blacklist, purge, now>>
    PROVE  AuthInv'
  <1>1. Idle.pc = "idle" /\ \A u \in Accounts : Revoking(u).pc = "list"
    BY DEF Idle, Revoking
  <1> QED
    BY <1>1, PlainStates, OneRequestMoves, BlacklistIssued DEF Finish

-----------------------------------------------------------------------------
(* One lemma per endpoint *)

\* Login keeps the invariant; the new token is entered under a free key.
LEMMA InvLogin == ASSUME AuthInv, NEW r \in Calls, LoginAPI(r) PROVE AuthInv'
  <1>1. ASSUME NEW u \in Accounts, AuthenticateUser(r, u) PROVE AuthInv'
    <2> DEFINE rec == [pc |-> "issue", op |-> "login", user |-> u, token |-> 0,
                       password |-> account[u].password]
    <2>1. rec \in CallState /\ rec.pc = "issue" /\ rec.token = 0
      BY DEF AuthInv, TablesTypeOK, Account, CallState, Session
    <2> HIDE DEF rec
    <2>2. Become(r, rec)
      BY <1>1 DEF AuthenticateUser, rec
    <2> QED
      BY <1>1, <2>1, <2>2, OneRequestMoves, BlacklistIssued
         DEF AuthenticateUser, AuthInv, TablesTypeOK
  <1>2. CASE IssueTokens(r)
    <2>1. call[r] \in Session
      BY <1>2, KindOfState DEF IssueTokens, AuthInv, TablesTypeOK
    <2>2. nextToken \in TokenIds /\ nextToken' = nextToken + 1 /\ nextToken \in Nat \ {0}
      BY <1>2, IssuedType DEF IssueTokens, AuthInv, TablesTypeOK, TokenIds
    <2>3. NewToken(r) \in Token
      BY <2>1 DEF NewToken, Session, Token, AuthInv, TablesTypeOK
    <2>4. NewToken(r) # NoToken
      BY <2>3, TokenIsNotNone
    <2>5. /\ \A t \in TokenIds : token'[t] = IF t = nextToken THEN NewToken(r) ELSE token[t]
          /\ token' \in [TokenIds -> Token \cup {NoToken}]
      BY <1>2, <2>3 DEF IssueTokens, AuthInv, TablesTypeOK
    <2>6. Outstanding' = Outstanding \cup {nextToken}
      BY <2>2 DEF Outstanding
    <2>7. /\ call' \in [Calls -> CallState]
          /\ \A s \in Calls : call'[s] = IF s = r THEN Idle ELSE call[s]
      BY <1>2, PlainStates DEF IssueTokens, Finish, Become, AuthInv, TablesTypeOK
    <2>8. \A t \in TokenIds : token'[t] # NoToken <=> t < nextToken'
      BY <2>2, <2>4, <2>5 DEF AuthInv, TablesTypeOK, TokenIds
    <2>9. TablesTypeOK'
      <3>1. nextToken' \in 1..(MaxTokens + 1)
        BY <2>2, SessionAssumption DEF TokenIds
      <3>2. blacklist' \subseteq 1..(nextToken' - 1)
        BY <1>2, <2>2 DEF IssueTokens, AuthInv, TablesTypeOK
      <3> QED
        BY <1>2, <2>5, <2>7, <2>8, <3>1, <3>2 DEF IssueTokens, AuthInv, TablesTypeOK
    <2>10. TokensExist'
      BY <2>6, <2>7 DEF TokensExist, AuthInv, Idle
    <2>11. RefreshHasSpent'
      BY <1>2, <2>7 DEF RefreshHasSpent, AuthInv, Idle, IssueTokens
    <2>12. RotationSpendsParent'
      <3>1. call[r].token # 0 => call[r].token \in blacklist
        BY <1>2 DEF IssueTokens, AuthInv, RefreshHasSpent
      <3>2. NewToken(r).parent = call[r].token
        BY DEF NewToken
      <3>3. Outstanding \subseteq TokenIds
        BY IssuedType DEF AuthInv
      <3> QED
        BY <1>2, <2>2, <2>5, <2>6, <3>1, <3>2, <3>3
           DEF IssueTokens, AuthInv, RotationSpendsParent
    <2> QED
      BY <2>9, <2>10, <2>11, <2>12 DEF AuthInv
  <1> QED
    BY <1>1, <1>2 DEF LoginAPI

\* The check of a presented token keeps the invariant.
LEMMA InvVerify ==
    ASSUME AuthInv, NEW r \in Calls, NEW t \in Outstanding,
           NEW op \in {"refresh", "logout"}, VerifyToken(r, t, op)
    PROVE  AuthInv'
  <1> DEFINE rec == [pc |-> IF op = "refresh" THEN "load" ELSE "blacklist", op |-> op,
                     user |-> token[t].user, token |-> t, password |-> token[t].password]
  <1>1. token[t] \in Token /\ t \in TokenIds
    BY IssuedType DEF AuthInv
  <1>2. rec \in CallState /\ rec.pc \in {"load", "blacklist"} /\ rec.token = t
    BY <1>1 DEF Token, CallState, Session
  <1> HIDE DEF rec
  <1>3. Become(r, rec)
    BY DEF VerifyToken, rec
  <1> QED
    BY <1>2, <1>3, OneRequestMoves, BlacklistIssued DEF VerifyToken, AuthInv, TablesTypeOK

\* A refresh keeps the invariant: it blacklists the token before it may issue.
LEMMA InvRefresh == ASSUME AuthInv, NEW r \in Calls, RefreshAPI(r) PROVE AuthInv'
  <1>1. CASE LoadForRefresh(r)
    <2>1. call[r] \in Session /\ call[r].token \in Outstanding
      BY <1>1, KindOfState DEF LoadForRefresh, AuthInv, TablesTypeOK, TokensExist
    <2>2. /\ AfterLoad(r) \in CallState
          /\ AfterLoad(r).pc \in {"blacklist", "idle"}
          /\ AfterLoad(r).pc = "blacklist" => AfterLoad(r).token = call[r].token
      BY <2>1 DEF AfterLoad, Session, CallState, Idle
    <2> QED
      BY <1>1, <2>1, <2>2, OneRequestMoves, BlacklistIssued
         DEF LoadForRefresh, AuthInv, TablesTypeOK
  <1>2. CASE Blacklist(r)
    <2> DEFINE rec == IF call[r].op = "refresh" THEN [call[r] EXCEPT !.pc = "issue"]
                      ELSE Idle
    <2>1. call[r] \in Session /\ call[r].token \in Outstanding
      BY <1>2, KindOfState DEF Blacklist, AuthInv, TablesTypeOK, TokensExist
    <2>2. /\ rec \in CallState
          /\ rec.pc \in {"issue", "idle"}
          /\ rec.pc = "issue" => rec.token = call[r].token
      BY <2>1 DEF Session, CallState, Idle
    <2>3. Become(r, rec)
      BY <1>2 DEF Blacklist
    <2> HIDE DEF rec
    <2> QED
      BY <1>2, <2>1, <2>2, <2>3, OneRequestMoves, BlacklistIssued
         DEF Blacklist, AuthInv, TablesTypeOK
  <1> QED
    BY <1>1, <1>2, InvVerify DEF RefreshAPI

\* Logout keeps the invariant.
LEMMA InvLogout == ASSUME AuthInv, NEW r \in Calls, LogoutAPI(r) PROVE AuthInv'
  BY InvVerify DEF LogoutAPI

\* Deletion of the account by its owner keeps the invariant.
LEMMA InvUserMe == ASSUME AuthInv, NEW r \in Calls, UserMeAPI(r) PROVE AuthInv'
  <1>1. ASSUME NEW u \in Accounts, LoadOwner(r, u, "delete") PROVE AuthInv'
    <2> DEFINE rec == [pc |-> "save", op |-> "delete", user |-> u]
    <2>1. rec \in CallState /\ rec.pc = "save"
      BY DEF CallState, Write
    <2>2. Become(r, rec)
      BY <1>1 DEF LoadOwner
    <2> HIDE DEF rec
    <2> QED
      BY <1>1, <2>1, <2>2, OneRequestMoves, BlacklistIssued DEF LoadOwner, AuthInv, TablesTypeOK
  <1>2. CASE SaveDelete(r)
    <2> DEFINE u == call[r].user
    <2>1. u \in Accounts
      BY <1>2, KindOfState DEF SaveDelete, AuthInv, TablesTypeOK, Write
    <2>2. [account[u] EXCEPT !.deletedAt = now, !.active = FALSE] \in Account
      BY <2>1 DEF AuthInv, TablesTypeOK, Account
    <2>3. account' \in [Accounts -> Account]
      BY <1>2, <2>1, <2>2 DEF SaveDelete, AuthInv, TablesTypeOK
    <2> QED
      BY <1>2, <2>1, <2>3, PlainMove DEF SaveDelete
  <1> QED
    BY <1>1, <1>2 DEF UserMeAPI

\* A change or reset of the password keeps the invariant.
LEMMA InvPassword == ASSUME AuthInv, NEW r \in Calls, PasswordAPI(r) PROVE AuthInv'
  <1>1. ASSUME NEW u \in Accounts, LoadOwner(r, u, "password") PROVE AuthInv'
    <2> DEFINE rec == [pc |-> "save", op |-> "password", user |-> u]
    <2>1. rec \in CallState /\ rec.pc = "save"
      BY DEF CallState, Write
    <2>2. Become(r, rec)
      BY <1>1 DEF LoadOwner
    <2> HIDE DEF rec
    <2> QED
      BY <1>1, <2>1, <2>2, OneRequestMoves, BlacklistIssued DEF LoadOwner, AuthInv, TablesTypeOK
  <1>2. CASE SavePassword(r)
    <2> DEFINE u == call[r].user
    <2>1. u \in Accounts
      BY <1>2, KindOfState DEF SavePassword, AuthInv, TablesTypeOK, Write
    <2>2. [account[u] EXCEPT !.password = @ + 1] \in Account
      BY <1>2, <2>1, SessionAssumption DEF SavePassword, AuthInv, TablesTypeOK, Account
    <2>3. account' \in [Accounts -> Account]
      BY <1>2, <2>1, <2>2 DEF SavePassword, AuthInv, TablesTypeOK
    <2> QED
      BY <1>2, <2>1, <2>3, PlainMove DEF SavePassword
  <1> QED
    BY <1>1, <1>2 DEF PasswordAPI

\* Revocation keeps the invariant: it blacklists issued tokens only.
LEMMA InvRevoke == ASSUME AuthInv, NEW r \in Calls, RevokeAll(r) PROVE AuthInv'
  <1>1. CASE ListTokens(r)
    <2> DEFINE todo == TokensOf(call[r].user)
               rec == IF todo = {} THEN Idle
                      ELSE [pc |-> "revoke", user |-> call[r].user, todo |-> todo]
    <2>1. call[r].user \in Accounts
      BY <1>1, KindOfState DEF ListTokens, AuthInv, TablesTypeOK, Write
    <2>2. todo \subseteq Outstanding /\ todo \subseteq TokenIds
      BY IssuedType DEF TokensOf, AuthInv
    <2> HIDE DEF todo
    <2>3. /\ rec \in CallState
          /\ rec.pc \in {"revoke", "idle"}
          /\ rec.pc = "revoke" => rec.todo = todo
      BY <2>1, <2>2 DEF CallState, Revocation, Idle
    <2>4. Become(r, rec)
      BY <1>1 DEF ListTokens, todo
    <2> HIDE DEF rec
    <2> QED
      BY <1>1, <2>2, <2>3, <2>4, OneRequestMoves, BlacklistIssued
         DEF ListTokens, AuthInv, TablesTypeOK
  <1>2. CASE RevokeOne(r)
    <2>1. PICK t \in call[r].todo :
            /\ blacklist' = blacklist \cup {t}
            /\ Become(r, IF call[r].todo = {t} THEN Idle
                         ELSE [call[r] EXCEPT !.todo = @ \ {t}])
      BY <1>2 DEF RevokeOne
    <2> DEFINE rec == IF call[r].todo = {t} THEN Idle
                      ELSE [call[r] EXCEPT !.todo = @ \ {t}]
    <2>2. call[r] \in Revocation /\ call[r].todo \subseteq Outstanding
      BY <1>2, KindOfState DEF RevokeOne, AuthInv, TablesTypeOK, TokensExist
    <2>3. /\ rec \in CallState
          /\ rec.pc \in {"revoke", "idle"}
          /\ rec.pc = "revoke" => rec.todo \subseteq Outstanding
      BY <2>2 DEF CallState, Revocation, Idle
    <2>4. Become(r, rec)
      BY <2>1
    <2> HIDE DEF rec
    <2> QED
      BY <1>2, <2>1, <2>2, <2>3, <2>4, OneRequestMoves, BlacklistIssued
         DEF RevokeOne, AuthInv, TablesTypeOK
  <1> QED
    BY <1>1, <1>2 DEF RevokeAll

\* The restore keeps the invariant.
LEMMA InvRestore == ASSUME AuthInv, NEW r \in Calls, RestoreAPI(r) PROVE AuthInv'
  <1>1. ASSUME NEW u \in Accounts, RestoreLock(r, u) PROVE AuthInv'
    <2> DEFINE rec == [pc |-> "restore", op |-> "restore", user |-> u]
    <2>1. rec \in CallState /\ rec.pc = "restore"
      BY DEF CallState, Write
    <2>2. Become(r, rec)
      BY <1>1 DEF RestoreLock
    <2> HIDE DEF rec
    <2> QED
      BY <1>1, <2>1, <2>2, OneRequestMoves, BlacklistIssued
         DEF RestoreLock, AuthInv, TablesTypeOK
  <1>2. CASE RestoreCommit(r)
    <2> DEFINE u == call[r].user
    <2>1. u \in Accounts
      BY <1>2, KindOfState DEF RestoreCommit, AuthInv, TablesTypeOK, Write
    <2>2. [account[u] EXCEPT !.deletedAt = Never, !.active = TRUE] \in Account
      BY <2>1 DEF AuthInv, TablesTypeOK, Account
    <2>3. account' \in [Accounts -> Account]
      BY <1>2, <2>1, <2>2 DEF RestoreCommit, AuthInv, TablesTypeOK
    <2>4. blacklist' \subseteq Outstanding
      BY <1>2, BlacklistIssued DEF RestoreCommit, TokensOf
    <2>5. Idle \in CallState /\ Idle.pc = "idle"
      BY PlainStates DEF Idle
    <2> QED
      BY <1>2, <2>3, <2>4, <2>5, OneRequestMoves DEF RestoreCommit, Finish
  <1> QED
    BY <1>1, <1>2 DEF RestoreAPI

\* The row an administrator writes is typed.
LEMMA StatusRowType ==
    ASSUME NEW row \in Account, NEW req \in Status
    PROVE  StatusRow(row, req) \in Account
  <1>1. req.active \in BOOLEAN
    BY DEF Status
  <1>2. CASE req.active /\ req.seenDeleted
    BY <1>1, <1>2 DEF StatusRow, Account
  <1>3. CASE ~(req.active /\ req.seenDeleted)
    BY <1>1, <1>3 DEF StatusRow, Account
  <1> QED
    BY <1>2, <1>3

\* A status change by an administrator keeps the invariant.
LEMMA InvAdmin == ASSUME AuthInv, NEW r \in Calls, AdminStatusAPI(r) PROVE AuthInv'
  <1>1. ASSUME NEW u \in Accounts, NEW active \in BOOLEAN, AdminLoad(r, u, active) PROVE AuthInv'
    <2> DEFINE rec == [pc |-> "status", user |-> u, active |-> active,
                       seenActive |-> account[u].active,
                       seenDeleted |-> account[u].deletedAt # Never]
    <2>1. rec \in CallState /\ rec.pc = "status"
      BY DEF CallState, Status, AuthInv, TablesTypeOK, Account
    <2>2. Become(r, rec)
      BY <1>1 DEF AdminLoad
    <2> HIDE DEF rec
    <2> QED
      BY <1>1, <2>1, <2>2, OneRequestMoves, BlacklistIssued DEF AdminLoad, AuthInv, TablesTypeOK
  <1>2. CASE AdminSave(r)
    <2> DEFINE u == call[r].user
    <2>1. call[r] \in Status
      BY <1>2, KindOfState DEF AdminSave, AuthInv, TablesTypeOK
    <2>2. u \in Accounts /\ StatusRow(account[u], call[r]) \in Account
      BY <2>1, StatusRowType DEF Status, AuthInv, TablesTypeOK
    <2>3. account' \in [Accounts -> Account]
      BY <1>2, <2>2 DEF AdminSave, AuthInv, TablesTypeOK
    <2>4. Finish(r) \/ Become(r, Revoking(u))
      BY <1>2 DEF AdminSave, Finish
    <2> QED
      BY <1>2, <2>2, <2>3, <2>4, PlainMove DEF AdminSave
  <1> QED
    BY <1>1, <1>2 DEF AdminStatusAPI

\* The invariant is inductive.
LEMMA AuthInvNext == AuthInv /\ [AuthNext]_sessionVars => AuthInv'
  <1> SUFFICES ASSUME AuthInv, [AuthNext]_sessionVars PROVE AuthInv'
    OBVIOUS
  <1>1. ASSUME NEW r \in Calls, RowIsGone(r) \/ CallDies(r) PROVE AuthInv'
    BY <1>1, PlainMove DEF RowIsGone, CallDies, AuthInv, TablesTypeOK
  <1>2. CASE PurgeDelete
    <2>1. \A u \in Accounts : [account[u] EXCEPT !.exists = FALSE] \in Account
      BY DEF AuthInv, TablesTypeOK, Account
    <2> QED
      BY <1>2, <2>1 DEF PurgeDelete, AuthInv, TablesTypeOK, TokensExist, RefreshHasSpent,
                        RotationSpendsParent, Outstanding
  <1>3. CASE PurgeSelect
    BY <1>3 DEF PurgeSelect, AuthInv, TablesTypeOK, TokensExist, RefreshHasSpent,
                RotationSpendsParent, Outstanding
  <1>4. CASE Tick
    BY <1>4, SessionAssumption
       DEF Tick, Time, AuthInv, TablesTypeOK, TokensExist, RefreshHasSpent,
           RotationSpendsParent, Outstanding
  <1>5. CASE UNCHANGED sessionVars
    BY <1>5 DEF sessionVars, AuthInv, TablesTypeOK, TokensExist, RefreshHasSpent,
                RotationSpendsParent, Outstanding
  <1> QED
    BY <1>1, <1>2, <1>3, <1>4, <1>5, InvLogin, InvRefresh, InvLogout, InvUserMe,
       InvPassword, InvRevoke, InvRestore, InvAdmin DEF AuthNext, AuthStep

-----------------------------------------------------------------------------
\* Every reachable state is type correct.
THEOREM SessionTypes == AuthSpec => []AuthTypeOK
  <1>1. AuthInit => disturbed \subseteq Accounts
    BY DEF AuthInit
  <1>2. AuthInv /\ disturbed \subseteq Accounts /\ [AuthNext]_sessionVars
          => (disturbed \subseteq Accounts)'
    <2> SUFFICES ASSUME AuthInv, disturbed \subseteq Accounts, [AuthNext]_sessionVars
                 PROVE  disturbed' \subseteq Accounts
      OBVIOUS
    <2>1. ASSUME NEW r \in Calls, CallDies(r) PROVE call[r].user \in Accounts
      BY <2>1 DEF CallDies, AuthInv, TablesTypeOK, CallState, Session, Write, Status,
                  Revocation, Idle
    <2>2. QED BY <2>1 DEF AuthNext, NoteOverlaps, sessionVars
  <1>3. AuthInv /\ disturbed \subseteq Accounts => AuthTypeOK
    BY DEF AuthInv, AuthTypeOK
  <1> QED
    BY <1>1, <1>2, <1>3, AuthInvInit, AuthInvNext, PTL DEF AuthSpec

\* A rotated refresh token's parent is dead in every reachable state, whatever
\* other requests, revocations, purges and killed requests do meanwhile.
THEOREM RotationIsSafe == AuthSpec => []RotationSpendsParent
  <1>1. AuthInv => RotationSpendsParent
    BY DEF AuthInv
  <1> QED
    BY <1>1, AuthInvInit, AuthInvNext, PTL DEF AuthSpec

-----------------------------------------------------------------------------
(* A user whose requests come one at a time and are not killed *)

OneAtATime ==
    \A u \in Accounts \ disturbed : \A r, s \in Calls :
        WorksOn(call[r], u) /\ WorksOn(call[s], u) => r = s

\* a request will still blacklist t
Pending(u, t) ==
    \E r \in Calls : /\ call[r].pc \in {"list", "revoke"} /\ call[r].user = u
                     /\ call[r].pc = "revoke" => t \in call[r].todo

\* what the request has read of u is still so
Fits(rec, u) ==
    /\ rec.pc = "status" => /\ rec.seenActive <=> account[u].active
                            /\ rec.seenDeleted <=> account[u].deletedAt # Never
    /\ rec.pc \in {"load", "blacklist", "issue"} /\ account[u].exists =>
         Usable(u) /\ rec.password = account[u].password

Sees(r, u) == WorksOn(call[r], u) => Fits(call[r], u)

\* sessions that do not fit the account are about to end
SessionsFollow(u) ==
    account[u].exists =>
        \A t \in TokensOf(u) : Valid(t) => OpenedAsItIs(u, t) \/ Pending(u, t)

UserInv(u) ==
    /\ account[u].active => account[u].deletedAt = Never
    /\ SessionsFollow(u)
    /\ \A r \in Calls : Sees(r, u)

UndisturbedInv == OneAtATime /\ \A u \in Accounts \ disturbed : UserInv(u)

AloneOn(r, u) == \A s \in Calls \ {r} : ~WorksOn(call[s], u)

RequestStep(r) ==
    \/ LoginAPI(r) \/ RefreshAPI(r) \/ LogoutAPI(r)
    \/ UserMeAPI(r) \/ PasswordAPI(r) \/ RestoreAPI(r) \/ AdminStatusAPI(r)
    \/ RevokeAll(r) \/ RowIsGone(r)

\* Nothing about u changes but that tokens are blacklisted, the account is purged or
\* time passes.
LEMMA UntouchedUser ==
    ASSUME AuthInv, AuthInv', NEW u \in Accounts, UserInv(u),
           account'[u].active = account[u].active,
           account'[u].deletedAt = account[u].deletedAt,
           account'[u].password = account[u].password,
           account'[u].exists => account[u].exists,
           \A s \in Calls : WorksOn(call[s], u) \/ WorksOn(call'[s], u) =>
               call'[s] = call[s],
           \A t \in TokensOf(u)' : t \in TokensOf(u) /\ token'[t] = token[t],
           blacklist \subseteq blacklist', now <= now'
    PROVE  UserInv(u)'
  <1>1. ASSUME NEW r \in Calls PROVE Sees(r, u)'
    BY DEF UserInv, Sees, Fits, Usable
  <1>2. SessionsFollow(u)'
    <2> SUFFICES ASSUME account'[u].exists, NEW t \in TokensOf(u)', Valid(t)'
                 PROVE  OpenedAsItIs(u, t)' \/ Pending(u, t)'
      BY DEF SessionsFollow
    <2>1. t \in TokensOf(u) /\ token'[t] = token[t] /\ token[t] \in Token
      BY IssuedType DEF AuthInv, TokensOf
    <2>a. now \in Nat /\ now' \in Nat /\ token[t].issued \in Nat /\ Lifetime \in Nat
      BY <2>1, SessionAssumption DEF Token, Time, AuthInv, TablesTypeOK
    <2>2. Valid(t)
      BY <2>1, <2>a DEF Valid
    <2>3. OpenedAsItIs(u, t) \/ Pending(u, t)
      BY <2>1, <2>2 DEF UserInv, SessionsFollow
    <2>4. OpenedAsItIs(u, t) => OpenedAsItIs(u, t)'
      BY <2>1 DEF OpenedAsItIs, Usable
    <2>5. Pending(u, t) => Pending(u, t)'
      BY DEF Pending, WorksOn
    <2>6. QED BY <2>3, <2>4, <2>5
  <1>3. QED BY <1>1, <1>2 DEF UserInv

\* The only request of u moves, and was not about to blacklist anything.
LEMMA QuietMove ==
    ASSUME AuthInv, NEW u \in Accounts, UserInv(u), NEW r \in Calls, AloneOn(r, u),
           call[r].pc \notin {"list", "revoke"},
           NEW rec, Become(r, rec), account'[u] = account[u],
           UNCHANGED <<token, nextToken, now>>, blacklist \subseteq blacklist',
           WorksOn(rec, u) => Fits(rec, u)
    PROVE  UserInv(u)'
  <1>1. \A s \in Calls : call'[s] = IF s = r THEN rec ELSE call[s]
    BY DEF Become, AuthInv, TablesTypeOK
  <1>2. ASSUME NEW s \in Calls PROVE Sees(s, u)'
    BY <1>1 DEF AloneOn, Sees, Fits, Usable
  <1>3. \A t : ~Pending(u, t)
    BY DEF Pending, AloneOn, WorksOn
  <1>4. SessionsFollow(u)'
    BY <1>3 DEF UserInv, SessionsFollow, TokensOf, Outstanding, Valid, OpenedAsItIs, Usable
  <1>5. QED BY <1>2, <1>4 DEF UserInv

\* The only request of u has written the account and goes on to end its sessions.
LEMMA WriteRevokes ==
    ASSUME AuthInv, NEW u \in Accounts, NEW r \in Calls, AloneOn(r, u),
           Become(r, Revoking(u)),
           account'[u].active => account'[u].deletedAt = Never
    PROVE  UserInv(u)'
  <1>1. \A s \in Calls : call'[s] = IF s = r THEN Revoking(u) ELSE call[s]
    BY DEF Become, AuthInv, TablesTypeOK
  <1>2. Revoking(u).pc = "list" /\ Revoking(u).user = u
    BY DEF Revoking
  <1>3. ASSUME NEW s \in Calls PROVE Sees(s, u)'
    BY <1>1, <1>2 DEF AloneOn, Sees, Fits
  <1>4. \A t : Pending(u, t)'
    BY <1>1, <1>2 DEF Pending
  <1>5. QED BY <1>3, <1>4 DEF UserInv, SessionsFollow

-----------------------------------------------------------------------------
(* The steps of the only request of u *)

\* Requests begin, and read.
LEMMA ReadingKeepsUser ==
    ASSUME AuthInv, NEW u \in Accounts, UserInv(u), NEW r \in Calls, AloneOn(r, u),
           WorksOn(call[r], u) \/ WorksOn(call'[r], u),
           \/ \E v \in Accounts : \/ AuthenticateUser(r, v)
                              \/ \E op \in {"delete", "password"} : LoadOwner(r, v, op)
                              \/ RestoreLock(r, v)
                              \/ \E a \in BOOLEAN : AdminLoad(r, v, a)
           \/ \E t \in Outstanding, op \in {"refresh", "logout"} : VerifyToken(r, t, op)
           \/ LoadForRefresh(r) \/ Blacklist(r) \/ RowIsGone(r)
    PROVE  UserInv(u)'
  <1>a. \A rec : Become(r, rec) => call'[r] = rec
    BY DEF Become, AuthInv, TablesTypeOK
  <1>b. ~WorksOn(Idle, u)
    BY DEF WorksOn, Idle
  <1>1. ASSUME NEW v \in Accounts, AuthenticateUser(r, v) PROVE UserInv(u)'
    <2>1. PICK rec : rec = [pc |-> "issue", op |-> "login", user |-> v, token |-> 0,
                            password |-> account[v].password]
      OBVIOUS
    <2>2. Become(r, rec) /\ Usable(v) /\ call[r].pc = "idle"
      BY <1>1, <2>1 DEF AuthenticateUser, MayBegin
    <2>3. WorksOn(rec, u) => Fits(rec, u)
      BY <2>1, <2>2 DEF WorksOn, Fits
    <2>4. QED BY <1>1, <2>2, <2>3, QuietMove DEF AuthenticateUser
  <1>2. ASSUME NEW v \in Accounts, NEW op, LoadOwner(r, v, op) PROVE UserInv(u)'
    <2>1. PICK rec : rec = [pc |-> "save", op |-> op, user |-> v]
      OBVIOUS
    <2>2. Become(r, rec) /\ call[r].pc = "idle"
      BY <1>2, <2>1 DEF LoadOwner, MayBegin
    <2>3. WorksOn(rec, u) => Fits(rec, u)
      BY <2>1 DEF Fits
    <2>4. QED BY <1>2, <2>2, <2>3, QuietMove DEF LoadOwner
  <1>3. ASSUME NEW v \in Accounts, RestoreLock(r, v) PROVE UserInv(u)'
    <2>1. PICK rec : rec = [pc |-> "restore", op |-> "restore", user |-> v]
      OBVIOUS
    <2>2. Become(r, rec) /\ call[r].pc = "idle"
      BY <1>3, <2>1 DEF RestoreLock, MayBegin
    <2>3. WorksOn(rec, u) => Fits(rec, u)
      BY <2>1 DEF Fits
    <2>4. QED BY <1>3, <2>2, <2>3, QuietMove DEF RestoreLock
  <1>4. ASSUME NEW v \in Accounts, NEW a \in BOOLEAN, AdminLoad(r, v, a) PROVE UserInv(u)'
    <2>1. PICK rec : rec = [pc |-> "status", user |-> v, active |-> a,
                            seenActive |-> account[v].active,
                            seenDeleted |-> account[v].deletedAt # Never]
      OBVIOUS
    <2>2. Become(r, rec) /\ call[r].pc = "idle"
      BY <1>4, <2>1 DEF AdminLoad, MayBegin
    <2>3. WorksOn(rec, u) => Fits(rec, u)
      BY <2>1 DEF WorksOn, Fits
    <2>4. QED BY <1>4, <2>2, <2>3, QuietMove DEF AdminLoad
  \* the token presented fits the account, as nobody is about to blacklist it
  <1>5. ASSUME NEW t \in Outstanding, NEW op \in {"refresh", "logout"}, VerifyToken(r, t, op)
        PROVE  UserInv(u)'
    <2>1. PICK rec : rec = [pc |-> IF op = "refresh" THEN "load" ELSE "blacklist", op |-> op,
                            user |-> token[t].user, token |-> t, password |-> token[t].password]
      OBVIOUS
    <2>2. Become(r, rec) /\ call[r].pc = "idle" /\ Valid(t)
      BY <1>5, <2>1 DEF VerifyToken, MayBegin
    <2>3. \A x : ~Pending(u, x)
      BY <2>2 DEF Pending, AloneOn, WorksOn
    <2>4. ASSUME WorksOn(rec, u) PROVE Fits(rec, u)
      <3>1. t \in TokensOf(u)
        BY <2>1, <2>4 DEF WorksOn, TokensOf
      <3>2. account[u].exists => OpenedAsItIs(u, t)
        BY <2>2, <2>3, <3>1 DEF UserInv, SessionsFollow
      <3>3. QED BY <2>1, <3>2 DEF Fits, OpenedAsItIs
    <2>5. QED BY <1>5, <2>2, <2>4, QuietMove DEF VerifyToken
  <1>6. CASE LoadForRefresh(r)
    <2>1. call[r] \in Session
      BY <1>6, KindOfState DEF LoadForRefresh, AuthInv, TablesTypeOK
    <2>2. WorksOn(AfterLoad(r), u) =>
             /\ WorksOn(call[r], u)
             /\ AfterLoad(r).pc = "blacklist" /\ AfterLoad(r).password = call[r].password
      BY <1>b, <1>6, <2>1 DEF AfterLoad, Session, WorksOn, LoadForRefresh
    <2>3. WorksOn(AfterLoad(r), u) => Fits(AfterLoad(r), u)
      BY <1>6, <2>2 DEF UserInv, Sees, Fits, LoadForRefresh
    <2>4. QED BY <1>6, <2>3, QuietMove DEF LoadForRefresh
  <1>7. CASE Blacklist(r)
    <2>1. call[r] \in Session
      BY <1>7, KindOfState DEF Blacklist, AuthInv, TablesTypeOK
    <2>2. PICK rec : rec = IF call[r].op = "refresh" THEN [call[r] EXCEPT !.pc = "issue"]
                           ELSE Idle
      OBVIOUS
    <2>3. WorksOn(rec, u) =>
             WorksOn(call[r], u) /\ rec.pc = "issue" /\ rec.password = call[r].password
      BY <1>b, <1>7, <2>1, <2>2 DEF Session, WorksOn, Blacklist
    <2>4. WorksOn(rec, u) => Fits(rec, u)
      BY <1>7, <2>3 DEF UserInv, Sees, Fits, Blacklist
    <2>5. Become(r, rec)
      BY <1>7, <2>2 DEF Blacklist
    <2>6. QED BY <1>7, <2>4, <2>5, QuietMove DEF Blacklist
  <1>8. CASE RowIsGone(r)
    BY <1>8, <1>b, QuietMove DEF RowIsGone, Finish
  <1>9. QED BY <1>1, <1>2, <1>3, <1>4, <1>5, <1>6, <1>7, <1>8

\* The only request of u issues a token: the account is still as it was read.
LEMMA IssueKeepsUser ==
    ASSUME AuthInv, NEW u \in Accounts, UserInv(u), NEW r \in Calls, AloneOn(r, u),
           WorksOn(call[r], u), IssueTokens(r)
    PROVE  UserInv(u)'
  <1>1. \A s \in Calls : call'[s] = IF s = r THEN Idle ELSE call[s]
    BY DEF IssueTokens, Finish, Become, AuthInv, TablesTypeOK
  <1>2. account' = account /\ blacklist' = blacklist /\ now' = now
    BY DEF IssueTokens
  <1>3. ASSUME NEW s \in Calls PROVE Sees(s, u)'
    BY <1>1 DEF AloneOn, Sees, WorksOn, Idle
  <1>4. \A t : ~Pending(u, t)
    BY DEF IssueTokens, Pending, AloneOn, WorksOn
  <1>5. SessionsFollow(u)'
    <2> SUFFICES ASSUME account'[u].exists, NEW t \in TokensOf(u)', Valid(t)'
                 PROVE  OpenedAsItIs(u, t)'
      BY DEF SessionsFollow
    <2>1. nextToken \in TokenIds /\ nextToken' = nextToken + 1 /\ t \in 1..nextToken
      BY IssuedType, SessionAssumption
         DEF IssueTokens, TokenIds, TokensOf, Outstanding, AuthInv
    <2>2. CASE t = nextToken
      <3>1. token'[t].password = call[r].password
        BY <2>1, <2>2 DEF IssueTokens, NewToken, AuthInv, TablesTypeOK
      <3>2. Usable(u) /\ call[r].password = account[u].password
        BY <1>2 DEF IssueTokens, UserInv, Sees, Fits
      <3>3. QED BY <1>2, <3>1, <3>2 DEF OpenedAsItIs, Usable
    <2>3. CASE t # nextToken
      <3>1. t \in Outstanding
        BY <2>1, <2>3, IssuedType DEF Outstanding, AuthInv
      <3>2. token'[t] = token[t]
        BY <2>3, <3>1, IssuedType DEF IssueTokens, AuthInv, TablesTypeOK
      <3>3. t \in TokensOf(u) /\ Valid(t)
        BY <1>2, <3>1, <3>2 DEF TokensOf, Valid
      <3>4. OpenedAsItIs(u, t)
        BY <1>2, <1>4, <3>3 DEF UserInv, SessionsFollow
      <3>5. QED BY <1>2, <3>2, <3>4 DEF OpenedAsItIs, Usable
    <2>4. QED BY <2>2, <2>3
  <1>6. QED BY <1>2, <1>3, <1>5 DEF UserInv

\* The only request of u ends its sessions.
LEMMA RevocationKeepsUser ==
    ASSUME AuthInv, NEW u \in Accounts, UserInv(u), NEW r \in Calls, AloneOn(r, u),
           WorksOn(call[r], u), ListTokens(r) \/ RevokeOne(r) \/ RestoreCommit(r)
    PROVE  UserInv(u)'
  <1>1. CASE ListTokens(r)
    <2>1. PICK rec : rec = IF TokensOf(u) = {} THEN Idle
                           ELSE [pc |-> "revoke", user |-> u, todo |-> TokensOf(u)]
      OBVIOUS
    <2>2. \A s \in Calls : call'[s] = IF s = r THEN rec ELSE call[s]
      BY <1>1, <2>1 DEF ListTokens, WorksOn, Become, AuthInv, TablesTypeOK
    <2>3. ASSUME NEW s \in Calls PROVE Sees(s, u)'
      BY <2>1, <2>2 DEF AloneOn, Sees, Fits, WorksOn, Idle
    <2>4. TokensOf(u)' = TokensOf(u)
      BY <1>1 DEF ListTokens, TokensOf, Outstanding
    <2>5. \A t \in TokensOf(u) : Pending(u, t)'
      <3> SUFFICES ASSUME NEW t \in TokensOf(u) PROVE Pending(u, t)'
        OBVIOUS
      <3>1. rec = [pc |-> "revoke", user |-> u, todo |-> TokensOf(u)]
        BY <2>1
      <3>2. call'[r].pc = "revoke" /\ call'[r].user = u /\ t \in call'[r].todo
        BY <2>2, <3>1
      <3>3. QED BY <3>2 DEF Pending
    <2>6. QED BY <1>1, <2>3, <2>4, <2>5 DEF ListTokens, UserInv, SessionsFollow
  <1>2. CASE RevokeOne(r)
    <2>1. PICK x \in call[r].todo :
            /\ blacklist' = blacklist \cup {x}
            /\ Become(r, IF call[r].todo = {x} THEN Idle
                         ELSE [call[r] EXCEPT !.todo = @ \ {x}])
      BY <1>2 DEF RevokeOne
    <2>2. call[r] \in Revocation
      BY <1>2, KindOfState DEF RevokeOne, AuthInv, TablesTypeOK
    <2>3. PICK rec : rec = IF call[r].todo = {x} THEN Idle
                           ELSE [call[r] EXCEPT !.todo = @ \ {x}]
      OBVIOUS
    <2>4. \A s \in Calls : call'[s] = IF s = r THEN rec ELSE call[s]
      BY <2>1, <2>3 DEF Become, AuthInv, TablesTypeOK
    <2>5. \/ rec = Idle /\ call[r].todo = {x}
          \/ rec.pc = "revoke" /\ rec.user = u /\ rec.todo = call[r].todo \ {x}
      BY <2>2, <2>3 DEF Revocation, WorksOn
    <2>6. ASSUME NEW s \in Calls PROVE Sees(s, u)'
      BY <2>4, <2>5 DEF AloneOn, Sees, Fits, WorksOn, Idle
    <2>7. SessionsFollow(u)'
      <3> SUFFICES ASSUME account'[u].exists, NEW t \in TokensOf(u)', Valid(t)'
                   PROVE  OpenedAsItIs(u, t)' \/ Pending(u, t)'
        BY DEF SessionsFollow
      <3>1. t \in TokensOf(u) /\ Valid(t) /\ t # x /\ account[u].exists
        BY <1>2, <2>1 DEF RevokeOne, TokensOf, Outstanding, Valid
      <3>2. OpenedAsItIs(u, t) \/ Pending(u, t)
        BY <3>1 DEF UserInv, SessionsFollow
      <3>3. OpenedAsItIs(u, t) => OpenedAsItIs(u, t)'
        BY <1>2 DEF RevokeOne, OpenedAsItIs, Usable
      <3>4. ASSUME Pending(u, t) PROVE Pending(u, t)'
        <4>1. t \in call[r].todo
          BY <1>2, <3>4 DEF RevokeOne, Pending, AloneOn, WorksOn
        <4>2. rec.pc = "revoke" /\ rec.user = u /\ t \in rec.todo
          BY <2>5, <3>1, <4>1
        <4>3. QED BY <2>4, <4>2 DEF Pending
      <3>5. QED BY <3>2, <3>3, <3>4
    <2>8. QED BY <1>2, <2>6, <2>7 DEF RevokeOne, UserInv
  <1>3. CASE RestoreCommit(r)
    <2>1. call[r].user = u
      BY DEF WorksOn
    <2>2. \A s \in Calls : call'[s] = IF s = r THEN Idle ELSE call[s]
      BY <1>3 DEF RestoreCommit, Finish, Become, AuthInv, TablesTypeOK
    <2>3. ASSUME NEW s \in Calls PROVE Sees(s, u)'
      BY <2>2 DEF AloneOn, Sees, WorksOn, Idle
    <2>4. account'[u].deletedAt = Never
      BY <1>3, <2>1 DEF RestoreCommit, AuthInv, TablesTypeOK, Account
    <2>5. \A t \in TokensOf(u)' : ~Valid(t)'
      BY <1>3, <2>1 DEF RestoreCommit, TokensOf, Outstanding, Valid
    <2>6. QED BY <2>3, <2>4, <2>5 DEF UserInv, SessionsFollow
  <1>4. QED BY <1>1, <1>2, <1>3

\* The only request of u writes its account.
LEMMA WritingKeepsUser ==
    ASSUME AuthInv, NEW u \in Accounts, UserInv(u), NEW r \in Calls, AloneOn(r, u),
           WorksOn(call[r], u), SaveDelete(r) \/ SavePassword(r) \/ AdminSave(r)
    PROVE  UserInv(u)'
  <1>1. call[r].user = u /\ account[u] \in Account /\ account \in [Accounts -> Account]
    BY DEF WorksOn, AuthInv, TablesTypeOK
  <1>2. CASE SaveDelete(r)
    <2>1. account'[u].active = FALSE
      BY <1>1, <1>2 DEF SaveDelete, Account
    <2>2. QED BY <1>1, <1>2, <2>1, WriteRevokes DEF SaveDelete
  <1>3. CASE SavePassword(r)
    <2>1. account'[u].active = account[u].active /\ account'[u].deletedAt = account[u].deletedAt
      BY <1>1, <1>3 DEF SavePassword, Account
    <2>2. QED BY <1>1, <1>3, <2>1, WriteRevokes DEF SavePassword, UserInv
  <1>4. CASE AdminSave(r)
    <2>1. /\ account'[u] = StatusRow(account[u], call[r])
          /\ call[r].seenActive <=> account[u].active
          /\ call[r].seenDeleted <=> account[u].deletedAt # Never
      BY <1>1, <1>4 DEF AdminSave, UserInv, Sees, Fits
    <2>2. call[r] \in Status
      BY <1>4, KindOfState DEF AdminSave, AuthInv, TablesTypeOK
    <2>3. /\ account'[u].active = call[r].active
          /\ account'[u].deletedAt = IF call[r].active /\ call[r].seenDeleted THEN Never
                                     ELSE account[u].deletedAt
      BY <1>1, <2>1 DEF StatusRow, Account
    <2>a. call[r].seenActive \in BOOLEAN /\ account[u].active \in BOOLEAN
      BY <1>1, <2>2 DEF Status, Account
    <2>4. CASE \/ call[r].seenActive # call[r].active
               \/ call[r].active /\ call[r].seenDeleted
      <3>1. Become(r, Revoking(u))
        BY <1>1, <1>4, <2>4 DEF AdminSave
      <3>2. account'[u].active => account'[u].deletedAt = Never
        BY <2>1, <2>3
      <3>3. QED BY <3>1, <3>2, WriteRevokes
    <2>5. CASE ~(\/ call[r].seenActive # call[r].active
                 \/ call[r].active /\ call[r].seenDeleted)
      <3>1. Become(r, Idle)
        BY <1>4, <2>5, ZenonT(20) DEF AdminSave
      <3>a. call[r].seenActive = account[u].active
        BY <2>1, <2>a, Zenon
      <3>2. account[u].active = call[r].active
        BY <2>5, <3>a
      <3>3. account'[u] = [account[u] EXCEPT !.active = account[u].active,
                                             !.deletedAt = account[u].deletedAt]
        BY <2>1, <2>5, <3>2 DEF StatusRow
      <3>4. account'[u] = account[u]
        BY <1>1, <3>3 DEF Account
      <3>5. ~WorksOn(Idle, u)
        BY DEF WorksOn, Idle
      <3>6. QED BY <1>4, <3>1, <3>4, <3>5, QuietMove DEF AdminSave
    <2>6. QED BY <2>4, <2>5
  <1>5. QED BY <1>2, <1>3, <1>4

-----------------------------------------------------------------------------
(* The steps of everybody else *)

\* A request's step moves no other request.
LEMMA OneMoves ==
    ASSUME AuthInv, NEW r \in Calls, RequestStep(r)
    PROVE  \A s \in Calls \ {r} : call'[s] = call[s]
  <1>1. \A rec : Become(r, rec) => \A s \in Calls \ {r} : call'[s] = call[s]
    BY DEF Become, AuthInv, TablesTypeOK
  <1>2. CASE LoginAPI(r) \/ RefreshAPI(r) \/ LogoutAPI(r)
    BY <1>1, <1>2 DEF LoginAPI, RefreshAPI, LogoutAPI, AuthenticateUser, IssueTokens,
       VerifyToken, LoadForRefresh, Blacklist, Finish
  <1>3. CASE UserMeAPI(r) \/ PasswordAPI(r) \/ RestoreAPI(r)
    BY <1>1, <1>3 DEF UserMeAPI, PasswordAPI, RestoreAPI, LoadOwner, SaveDelete,
       SavePassword, RestoreLock, RestoreCommit, Finish
  <1>4. CASE AdminStatusAPI(r) \/ RevokeAll(r) \/ RowIsGone(r)
    BY <1>1, <1>4 DEF AdminStatusAPI, RevokeAll, RowIsGone, AdminLoad, AdminSave,
       ListTokens, RevokeOne, Finish
  <1>5. QED BY <1>2, <1>3, <1>4 DEF RequestStep

\* A step that leaves the tokens as they are, or adds one of another user, adds none to u.
LEMMA TokensStay ==
    ASSUME AuthInv, NEW u \in Accounts, NEW r \in Calls, RequestStep(r),
           ~WorksOn(call[r], u)
    PROVE  \A t \in TokensOf(u)' : t \in TokensOf(u) /\ token'[t] = token[t]
  <1>1. CASE UNCHANGED <<token, nextToken>>
    BY <1>1 DEF TokensOf, Outstanding
  <1>2. CASE IssueTokens(r)
    <2> SUFFICES ASSUME NEW t \in TokensOf(u)' PROVE t \in TokensOf(u) /\ token'[t] = token[t]
      OBVIOUS
    <2>1. nextToken \in TokenIds /\ t \in 1..nextToken /\ token'[t].user = u
      BY <1>2, IssuedType, SessionAssumption
         DEF IssueTokens, TokenIds, TokensOf, Outstanding, AuthInv
    <2>2. t # nextToken
      BY <1>2, <2>1 DEF IssueTokens, NewToken, WorksOn, AuthInv, TablesTypeOK
    <2>3. t \in Outstanding
      BY <2>1, <2>2, IssuedType DEF Outstanding, AuthInv
    <2>4. token'[t] = token[t]
      BY <1>2, <2>2, <2>3, IssuedType DEF IssueTokens, AuthInv, TablesTypeOK
    <2>5. QED BY <2>1, <2>3, <2>4 DEF TokensOf
  <1>3. IssueTokens(r) \/ UNCHANGED <<token, nextToken>>
    BY DEF RequestStep, LoginAPI, RefreshAPI, LogoutAPI, AuthenticateUser, VerifyToken,
       LoadForRefresh, Blacklist, UserMeAPI, PasswordAPI, RestoreAPI, LoadOwner, SaveDelete,
       SavePassword, RestoreLock, RestoreCommit, AdminStatusAPI, RevokeAll, RowIsGone,
       AdminLoad, AdminSave, ListTokens, RevokeOne
  <1>4. QED BY <1>1, <1>2, <1>3

\* A step writes no account but that of its request, and takes nothing off the blacklist.
LEMMA AccountStays ==
    ASSUME AuthInv, NEW u \in Accounts, NEW r \in Calls, RequestStep(r),
           ~WorksOn(call[r], u)
    PROVE  account'[u] = account[u] /\ blacklist \subseteq blacklist' /\ now' = now
  <1>1. CASE LoginAPI(r) \/ RefreshAPI(r) \/ LogoutAPI(r)
    BY <1>1 DEF LoginAPI, RefreshAPI, LogoutAPI, AuthenticateUser, IssueTokens,
       VerifyToken, LoadForRefresh, Blacklist
  <1>2. CASE UserMeAPI(r) \/ PasswordAPI(r)
    BY <1>2 DEF UserMeAPI, PasswordAPI, LoadOwner, SaveDelete, SavePassword, WorksOn,
       AuthInv, TablesTypeOK
  <1>3. CASE RestoreAPI(r) \/ AdminStatusAPI(r)
    BY <1>3 DEF RestoreAPI, RestoreLock, RestoreCommit, AdminStatusAPI, AdminLoad, AdminSave,
       WorksOn, AuthInv, TablesTypeOK
  <1>4. CASE RevokeAll(r) \/ RowIsGone(r)
    BY <1>4 DEF RevokeAll, RowIsGone, ListTokens, RevokeOne
  <1>5. QED BY <1>1, <1>2, <1>3, <1>4 DEF RequestStep

\* A request of somebody else changes nothing about u.
LEMMA OthersKeepUser ==
    ASSUME AuthInv, AuthInv', NEW u \in Accounts, UserInv(u), NEW r \in Calls, RequestStep(r),
           ~WorksOn(call[r], u), ~WorksOn(call'[r], u)
    PROVE  UserInv(u)'
  <1>1. now \in Nat
    BY SessionAssumption DEF AuthInv, TablesTypeOK, Time
  <1>2. \A s \in Calls : WorksOn(call[s], u) \/ WorksOn(call'[s], u) =>
           call'[s] = call[s]
    BY OneMoves
  <1>3. QED BY <1>1, <1>2, TokensStay, AccountStays, UntouchedUser

\* The purge and the clock.
LEMMA DaysKeepUser ==
    ASSUME AuthInv, AuthInv', NEW u \in Accounts, UserInv(u),
           PurgeSelect \/ PurgeDelete \/ Tick
    PROVE  UserInv(u)'
  <1>1. now \in Nat /\ account[u] \in Account
    BY SessionAssumption DEF AuthInv, TablesTypeOK, Time
  <1>2. UNCHANGED <<token, nextToken, blacklist, call>> /\ now <= now'
    BY <1>1 DEF PurgeSelect, PurgeDelete, Tick
  <1>3. /\ account'[u].active = account[u].active
        /\ account'[u].deletedAt = account[u].deletedAt
        /\ account'[u].password = account[u].password
        /\ account'[u].exists => account[u].exists
    BY <1>1 DEF PurgeSelect, PurgeDelete, Tick, Account
  <1>4. \A t \in TokensOf(u)' : t \in TokensOf(u) /\ token'[t] = token[t]
    BY <1>2 DEF TokensOf, Outstanding
  <1>5. QED BY <1>2, <1>3, <1>4, UntouchedUser

\* The only request of u moves.
LEMMA OwnKeepsUser ==
    ASSUME AuthInv, NEW u \in Accounts, UserInv(u), NEW r \in Calls, RequestStep(r),
           AloneOn(r, u), WorksOn(call[r], u) \/ WorksOn(call'[r], u)
    PROVE  UserInv(u)'
  <1>1. ASSUME ~WorksOn(call[r], u)
        PROVE  ~(\/ IssueTokens(r) \/ ListTokens(r) \/ RevokeOne(r) \/ RestoreCommit(r)
                 \/ SaveDelete(r) \/ SavePassword(r) \/ AdminSave(r))
    <2>1. \A rec : Become(r, rec) => call'[r] = rec
      BY DEF Become, AuthInv, TablesTypeOK
    <2>2. ~WorksOn(Idle, u)
      BY DEF WorksOn, Idle
    <2>3. ~(IssueTokens(r) \/ RestoreCommit(r))
      BY <1>1, <2>1, <2>2 DEF IssueTokens, RestoreCommit, Finish
    <2>4. ~ListTokens(r)
      BY <1>1, <2>1, <2>2 DEF ListTokens, WorksOn
    <2>5. ~RevokeOne(r)
      <3> SUFFICES ASSUME RevokeOne(r) PROVE FALSE
        OBVIOUS
      <3>1. call[r] \in Revocation
        BY KindOfState DEF RevokeOne, AuthInv, TablesTypeOK
      <3>2. call'[r] = Idle \/ call'[r].user = call[r].user
        BY <2>1, <3>1 DEF RevokeOne, Revocation
      <3>3. QED BY <1>1, <2>2, <3>2 DEF RevokeOne, WorksOn
    <2>6. ~(SaveDelete(r) \/ SavePassword(r) \/ AdminSave(r))
      BY <1>1, <2>1, <2>2 DEF SaveDelete, SavePassword, AdminSave, Revoking, WorksOn
    <2>7. QED BY <2>3, <2>4, <2>5, <2>6
  <1>2. \/ \E v \in Accounts : \/ AuthenticateUser(r, v)
                               \/ \E op \in {"delete", "password"} : LoadOwner(r, v, op)
                               \/ RestoreLock(r, v)
                               \/ \E a \in BOOLEAN : AdminLoad(r, v, a)
        \/ \E t \in Outstanding, op \in {"refresh", "logout"} : VerifyToken(r, t, op)
        \/ LoadForRefresh(r) \/ Blacklist(r) \/ RowIsGone(r)
        \/ IssueTokens(r) \/ ListTokens(r) \/ RevokeOne(r) \/ RestoreCommit(r)
        \/ SaveDelete(r) \/ SavePassword(r) \/ AdminSave(r)
    BY DEF RequestStep, LoginAPI, RefreshAPI, LogoutAPI, UserMeAPI, PasswordAPI, RestoreAPI,
       AdminStatusAPI, RevokeAll
  <1>3. QED
    BY <1>1, <1>2, ReadingKeepsUser, IssueKeepsUser, RevocationKeepsUser, WritingKeepsUser

-----------------------------------------------------------------------------
(* The invariant of undisturbed users *)

\* Nothing has happened to anybody.
LEMMA UndisturbedInvInit == AuthInit => UndisturbedInv
  <1> SUFFICES ASSUME AuthInit PROVE UndisturbedInv
    OBVIOUS
  <1>1. \A r \in Calls, u \in Accounts : ~WorksOn(call[r], u)
    BY DEF AuthInit, Idle, WorksOn
  <1>2. \A u \in Accounts : TokensOf(u) = {}
    BY DEF AuthInit, TokensOf, Outstanding
  <1>3. \A u \in Accounts : account[u].deletedAt = Never
    BY DEF AuthInit
  <1>4. QED
    BY <1>1, <1>2, <1>3 DEF UndisturbedInv, OneAtATime, UserInv, SessionsFollow, Sees

\* Every step keeps the invariant.
LEMMA UndisturbedInvNext ==
    ASSUME AuthInv, AuthInv', UndisturbedInv, [AuthNext]_sessionVars PROVE UndisturbedInv'
  <1>1. ASSUME NEW r \in Calls, RequestStep(r), NoteOverlaps PROVE UndisturbedInv'
    <2>1. OneAtATime'
      BY <1>1 DEF OneAtATime, NoteOverlaps
    <2>2. ASSUME NEW u \in Accounts \ disturbed' PROVE UserInv(u)'
      <3>1. u \in Accounts \ disturbed /\ UserInv(u)
        BY <1>1, <2>2 DEF NoteOverlaps, UndisturbedInv
      <3>2. \A s \in Calls \ {r} : call'[s] = call[s]
        BY <1>1, OneMoves
      <3>3. CASE WorksOn(call[r], u)
        <4>1. AloneOn(r, u)
          BY <3>1, <3>3 DEF UndisturbedInv, OneAtATime, AloneOn
        <4>2. QED BY <1>1, <3>1, <3>3, <4>1, OwnKeepsUser
      <3>4. CASE WorksOn(call'[r], u)
        <4>1. AloneOn(r, u)
          BY <1>1, <2>2, <3>2, <3>4 DEF NoteOverlaps, AloneOn
        <4>2. QED BY <1>1, <3>1, <3>4, <4>1, OwnKeepsUser
      <3>5. CASE ~WorksOn(call[r], u) /\ ~WorksOn(call'[r], u)
        BY <1>1, <3>1, <3>5, OthersKeepUser
      <3>6. QED BY <3>3, <3>4, <3>5
    <2>3. QED BY <2>1, <2>2 DEF UndisturbedInv
  <1>2. ASSUME PurgeSelect \/ PurgeDelete \/ Tick, NoteOverlaps PROVE UndisturbedInv'
    <2>1. OneAtATime'
      BY <1>2 DEF OneAtATime, NoteOverlaps
    <2>2. ASSUME NEW u \in Accounts \ disturbed' PROVE UserInv(u)'
      BY <1>2, <2>2, DaysKeepUser DEF NoteOverlaps, UndisturbedInv
    <2>3. QED BY <2>1, <2>2 DEF UndisturbedInv
  \* the user of a killed request is disturbed, the others do not notice
  <1>3. ASSUME NEW r \in Calls, CallDies(r), disturbed' = disturbed \cup {call[r].user}
        PROVE  UndisturbedInv'
    <2>1. \A s \in Calls : call'[s] = IF s = r THEN Idle ELSE call[s]
      BY <1>3 DEF CallDies, Finish, Become, AuthInv, TablesTypeOK
    <2>2. UNCHANGED <<account, token, nextToken, blacklist, now>>
      BY <1>3 DEF CallDies
    <2>3. \A u : ~WorksOn(Idle, u)
      BY DEF WorksOn, Idle
    <2>4. OneAtATime'
      BY <1>3, <2>1, <2>3 DEF UndisturbedInv, OneAtATime
    <2>5. ASSUME NEW u \in Accounts \ disturbed' PROVE UserInv(u)'
      <3>1. UserInv(u) /\ ~WorksOn(call[r], u)
        BY <1>3, <2>5 DEF UndisturbedInv, WorksOn
      <3>2. \A s \in Calls : WorksOn(call[s], u) \/ WorksOn(call'[s], u) =>
               call'[s] = call[s]
        BY <2>1, <2>3, <3>1
      <3>3. \A t \in TokensOf(u)' : t \in TokensOf(u) /\ token'[t] = token[t]
        BY <2>2 DEF TokensOf, Outstanding
      <3>4. now <= now'
        BY <2>2, SessionAssumption DEF AuthInv, TablesTypeOK, Time
      <3>5. QED BY <2>2, <3>1, <3>2, <3>3, <3>4, UntouchedUser
    <2>6. QED BY <2>4, <2>5 DEF UndisturbedInv
  <1>4. CASE UNCHANGED sessionVars
    BY <1>4 DEF sessionVars, UndisturbedInv, OneAtATime, UserInv, SessionsFollow, Sees, Fits,
       Usable, TokensOf, Outstanding, Valid, OpenedAsItIs, Pending
  <1>5. QED BY <1>1, <1>2, <1>3, <1>4 DEF AuthNext, AuthStep, RequestStep

\* A user whose requests came one at a time and were not killed has no old session that
\* works between them: whoever holds a refresh token that is accepted opened it with
\* the password of now, on an account in use.
THEOREM UndisturbedFollow == AuthSpec => []UndisturbedSessionsFollow
  <1>1. UndisturbedInv => UndisturbedSessionsFollow
    <2> SUFFICES ASSUME UndisturbedInv, NEW u \in Accounts \ disturbed, account[u].exists,
                        Quiet(u), NEW t \in TokensOf(u), Valid(t)
                 PROVE  OpenedAsItIs(u, t)
      BY DEF UndisturbedSessionsFollow
    <2>1. OpenedAsItIs(u, t) \/ Pending(u, t)
      BY DEF UndisturbedInv, UserInv, SessionsFollow
    <2>2. ~Pending(u, t)
      BY DEF Quiet, Pending
    <2>3. QED BY <2>1, <2>2
  <1> QED
    BY <1>1, AuthInvInit, AuthInvNext, UndisturbedInvInit, UndisturbedInvNext, PTL DEF AuthSpec

\* An active account is not waiting for the purge, unless requests of its user overlapped
\* or one was killed.
THEOREM ActiveAreNotDeleted == AuthSpec => []ActiveIsNotDeleted
  <1>1. UndisturbedInv => ActiveIsNotDeleted
    BY DEF UndisturbedInv, UserInv, ActiveIsNotDeleted
  <1> QED
    BY <1>1, AuthInvInit, AuthInvNext, UndisturbedInvInit, UndisturbedInvNext, PTL DEF AuthSpec

-----------------------------------------------------------------------------
(* A token is exchanged once *)

\* r works on token k, or has rotated it and will issue its successor
Holds(r, k) ==
    call[r].pc \in {"load", "blacklist", "issue"} /\ call[r].token = k /\ k # 0

\* the token a request holds is its user's
HeldIsOwn ==
    \A r \in Calls, k \in TokenIds :
        Holds(r, k) => k \in Outstanding /\ token[k].user = call[r].user

\* a token and the one it came from have one user
ParentIsOwn ==
    \A t \in Outstanding : token[t].parent # 0 =>
        token[t].parent \in Outstanding /\ token[token[t].parent].user = token[t].user

\* the token a request holds has no successor yet
Unexchanged ==
    \A r \in Calls, k \in TokenIds : Holds(r, k) /\ call[r].user \notin disturbed =>
        \A t \in Outstanding : token[t].parent # k

ExchangeInv == HeldIsOwn /\ ParentIsOwn /\ Unexchanged /\ ExchangedOnce

\* No token is issued, and the request that moves takes up no token.
LEMMA ExchangeMove ==
    ASSUME AuthInv, ExchangeInv, NEW r \in Calls, NEW rec, Become(r, rec),
           UNCHANGED <<token, nextToken>>, disturbed \subseteq disturbed',
           rec.pc \in {"load", "blacklist", "issue"} /\ rec.token # 0 =>
               /\ call[r].pc \in {"load", "blacklist", "issue"}
               /\ rec.token = call[r].token /\ rec.user = call[r].user
    PROVE  ExchangeInv'
  <1>1. \A s \in Calls : call'[s] = IF s = r THEN rec ELSE call[s]
    BY DEF Become, AuthInv, TablesTypeOK
  <1>2. \A s \in Calls, k \in TokenIds :
           Holds(s, k)' => Holds(s, k) /\ call'[s].user = call[s].user
    BY <1>1 DEF Holds
  <1>3. Outstanding' = Outstanding
    BY DEF Outstanding
  <1>4. HeldIsOwn' /\ Unexchanged'
    BY <1>2, <1>3 DEF ExchangeInv, HeldIsOwn, Unexchanged
  <1>5. ParentIsOwn' /\ ExchangedOnce'
    BY <1>3 DEF ExchangeInv, ParentIsOwn, ExchangedOnce
  <1>6. QED BY <1>4, <1>5 DEF ExchangeInv

\* A token that is accepted is not blacklisted, hence has no successor.
LEMMA ExchangeVerify ==
    ASSUME AuthInv, ExchangeInv, NEW r \in Calls, NEW t \in Outstanding,
           NEW op \in {"refresh", "logout"}, VerifyToken(r, t, op),
           disturbed \subseteq disturbed'
    PROVE  ExchangeInv'
  <1>1. PICK rec : rec = [pc |-> IF op = "refresh" THEN "load" ELSE "blacklist", op |-> op,
                          user |-> token[t].user, token |-> t, password |-> token[t].password]
    OBVIOUS
  <1>2. \A s \in Calls : call'[s] = IF s = r THEN rec ELSE call[s]
    BY <1>1 DEF VerifyToken, Become, AuthInv, TablesTypeOK
  <1>3. \A s \in Calls \ {r}, k \in TokenIds :
           Holds(s, k)' => Holds(s, k) /\ call'[s].user = call[s].user
    BY <1>2 DEF Holds
  <1>4. \A k \in TokenIds : Holds(r, k)' => k = t /\ call'[r].user = token[t].user
    BY <1>1, <1>2 DEF Holds
  <1>5. \A s \in Outstanding : token[s].parent # t
    <2> SUFFICES ASSUME NEW s \in Outstanding, token[s].parent = t PROVE FALSE
      OBVIOUS
    <2>1. t # 0
      BY IssuedType DEF AuthInv, TokenIds
    <2>2. t \in blacklist
      BY <2>1 DEF AuthInv, RotationSpendsParent
    <2>3. QED BY <2>2 DEF VerifyToken, Valid
  <1>6. Outstanding' = Outstanding /\ token' = token
    BY DEF Outstanding, VerifyToken
  <1>7. HeldIsOwn' /\ Unexchanged'
    BY <1>3, <1>4, <1>5, <1>6 DEF ExchangeInv, HeldIsOwn, Unexchanged
  <1>8. ParentIsOwn' /\ ExchangedOnce'
    BY <1>6 DEF ExchangeInv, ParentIsOwn, ExchangedOnce
  <1>9. QED BY <1>7, <1>8 DEF ExchangeInv

\* The successor is the first, and the only request of the user issues it.
LEMMA ExchangeIssue ==
    ASSUME AuthInv, ExchangeInv, OneAtATime, NEW r \in Calls, IssueTokens(r),
           disturbed \subseteq disturbed'
    PROVE  ExchangeInv'
  <1>1. call[r] \in Session /\ call[r].pc = "issue"
    BY KindOfState DEF IssueTokens, AuthInv, TablesTypeOK
  <1>2. PICK n : n = nextToken
    OBVIOUS
  <1>3. PICK p : p = call[r].token
    OBVIOUS
  <1>4. PICK u : u = call[r].user
    OBVIOUS
  <1>5. n \in TokenIds /\ n \notin Outstanding /\ Outstanding' = Outstanding \cup {n}
    BY <1>2, IssuedType, SessionAssumption DEF IssueTokens, TokenIds, Outstanding, AuthInv
  <1>6. token'[n].parent = p /\ token'[n].user = u
    BY <1>2, <1>3, <1>4, <1>5 DEF IssueTokens, NewToken, AuthInv, TablesTypeOK
  <1>7. \A t \in Outstanding : token'[t] = token[t]
    BY <1>2, <1>5, IssuedType DEF IssueTokens, AuthInv, TablesTypeOK
  <1>8. \A s \in Calls : call'[s] = IF s = r THEN Idle ELSE call[s]
    BY DEF IssueTokens, Finish, Become, AuthInv, TablesTypeOK
  <1>9. \A s \in Calls, k \in TokenIds :
           Holds(s, k)' => s # r /\ Holds(s, k) /\ call'[s].user = call[s].user
    BY <1>8 DEF Holds, Idle
  \* what r holds
  <1>10. p # 0 => /\ p \in TokenIds /\ Holds(r, p) /\ p \in Outstanding
                  /\ token[p].user = u
    BY <1>1, <1>3, <1>4 DEF Holds, Session, ExchangeInv, HeldIsOwn
  <1>11. p # 0 /\ u \notin disturbed => \A t \in Outstanding : token[t].parent # p
    BY <1>4, <1>10 DEF ExchangeInv, Unexchanged
  <1>12. HeldIsOwn'
    BY <1>5, <1>7, <1>9 DEF ExchangeInv, HeldIsOwn
  <1>13. ParentIsOwn'
    BY <1>5, <1>6, <1>7, <1>10 DEF ExchangeInv, ParentIsOwn
  <1>14. Unexchanged'
    <2> SUFFICES ASSUME NEW s \in Calls, NEW k \in TokenIds, Holds(s, k)',
                        call'[s].user \notin disturbed', NEW t \in Outstanding'
                 PROVE  token'[t].parent # k
      BY DEF Unexchanged
    <2>1. s # r /\ Holds(s, k) /\ call'[s].user = call[s].user
      BY <1>9
    <2>2. call[s] \in Session /\ call[s].user \notin disturbed
      BY <2>1, KindOfState DEF Holds, AuthInv, TablesTypeOK
    <2>3. CASE t \in Outstanding
      BY <1>7, <2>1, <2>2, <2>3 DEF ExchangeInv, Unexchanged
    <2>4. CASE t = n
      <3> SUFFICES ASSUME p = k PROVE FALSE
        BY <1>6, <2>4
      <3>1. call[s].user = u
        BY <1>10, <2>1 DEF Holds, ExchangeInv, HeldIsOwn
      <3>2. WorksOn(call[s], u) /\ WorksOn(call[r], u) /\ u \in Accounts
        BY <1>1, <1>4, <2>1, <2>2, <3>1 DEF WorksOn, Holds, Session
      <3>3. QED BY <2>1, <2>2, <3>1, <3>2 DEF OneAtATime
    <2>5. QED BY <1>5, <2>3, <2>4
  <1>15. ExchangedOnce'
    <2> SUFFICES ASSUME NEW s \in Outstanding', NEW t \in Outstanding',
                        token'[s].parent # 0, token'[s].parent = token'[t].parent,
                        s # t, token'[s].user \notin disturbed'
                 PROVE  FALSE
      BY DEF ExchangedOnce
    <2>1. CASE s \in Outstanding /\ t \in Outstanding
      BY <1>7, <2>1 DEF ExchangeInv, ExchangedOnce
    <2>2. CASE s = n /\ t \in Outstanding
      BY <1>6, <1>7, <1>11, <2>2
    <2>3. CASE t = n /\ s \in Outstanding
      <3>1. token[s].parent = p /\ p # 0
        BY <1>6, <1>7, <2>3
      <3>2. token[s].user = u
        BY <1>10, <2>3, <3>1 DEF ExchangeInv, ParentIsOwn
      <3>3. QED BY <1>7, <1>11, <2>3, <3>1, <3>2
    <2>4. QED BY <1>5, <2>1, <2>2, <2>3
  <1>16. QED BY <1>12, <1>13, <1>14, <1>15 DEF ExchangeInv

\* Nobody has a token at first.
LEMMA ExchangeInvInit == AuthInit => ExchangeInv
  BY DEF AuthInit, ExchangeInv, HeldIsOwn, ParentIsOwn, Unexchanged, ExchangedOnce, Holds,
     Outstanding, Idle

\* Every step keeps the invariant.
LEMMA ExchangeInvNext ==
    ASSUME AuthInv, OneAtATime, ExchangeInv, [AuthNext]_sessionVars PROVE ExchangeInv'
  <1>a. Idle.pc = "idle" /\ \A u : Revoking(u).pc = "list"
    BY DEF Idle, Revoking
  <1>1. ASSUME NEW r \in Calls, RequestStep(r), disturbed \subseteq disturbed'
        PROVE  ExchangeInv'
    <2>1. ASSUME NEW u \in Accounts, AuthenticateUser(r, u) PROVE ExchangeInv'
      <3>1. PICK rec : rec = [pc |-> "issue", op |-> "login", user |-> u, token |-> 0,
                              password |-> account[u].password]
        OBVIOUS
      <3>2. QED BY <1>1, <2>1, <3>1, ExchangeMove DEF AuthenticateUser
    <2>2. CASE LogoutAPI(r) \/ \E t \in Outstanding : VerifyToken(r, t, "refresh")
      BY <1>1, <2>2, ExchangeVerify DEF LogoutAPI
    <2>3. CASE LoadForRefresh(r)
      <3>1. call[r] \in Session
        BY <2>3, KindOfState DEF LoadForRefresh, AuthInv, TablesTypeOK
      <3>2. PICK rec : rec = AfterLoad(r)
        OBVIOUS
      <3>3. rec.pc \in {"load", "blacklist", "issue"} =>
               rec.token = call[r].token /\ rec.user = call[r].user
        BY <1>a, <3>1, <3>2 DEF AfterLoad, Session
      <3>4. QED BY <1>1, <2>3, <3>2, <3>3, ExchangeMove DEF LoadForRefresh
    <2>4. CASE Blacklist(r)
      <3>1. call[r] \in Session
        BY <2>4, KindOfState DEF Blacklist, AuthInv, TablesTypeOK
      <3>2. PICK rec : rec = IF call[r].op = "refresh" THEN [call[r] EXCEPT !.pc = "issue"]
                             ELSE Idle
        OBVIOUS
      <3>3. rec.pc \in {"load", "blacklist", "issue"} =>
               rec.token = call[r].token /\ rec.user = call[r].user
        BY <1>a, <3>1, <3>2 DEF Session
      <3>4. QED BY <1>1, <2>4, <3>2, <3>3, ExchangeMove DEF Blacklist
    <2>5. CASE IssueTokens(r)
      BY <1>1, <2>5, ExchangeIssue
    <2>6. ASSUME NEW u \in Accounts, NEW op, LoadOwner(r, u, op) PROVE ExchangeInv'
      <3>1. PICK rec : rec = [pc |-> "save", op |-> op, user |-> u]
        OBVIOUS
      <3>2. QED BY <1>1, <2>6, <3>1, ExchangeMove DEF LoadOwner
    <2>7. CASE SaveDelete(r) \/ SavePassword(r)
      BY <1>1, <1>a, <2>7, ExchangeMove DEF SaveDelete, SavePassword
    <2>8. CASE \E u \in Accounts : RestoreLock(r, u)
      <3>1. PICK u \in Accounts : RestoreLock(r, u)
        BY <2>8
      <3>2. PICK rec : rec = [pc |-> "restore", op |-> "restore", user |-> u]
        OBVIOUS
      <3>3. QED BY <1>1, <3>1, <3>2, ExchangeMove DEF RestoreLock
    <2>9. CASE RestoreCommit(r) \/ RowIsGone(r)
      BY <1>1, <1>a, <2>9, ExchangeMove DEF RestoreCommit, RowIsGone, Finish
    <2>10. ASSUME NEW u \in Accounts, NEW a \in BOOLEAN, AdminLoad(r, u, a) PROVE ExchangeInv'
      <3>1. PICK rec : rec = [pc |-> "status", user |-> u, active |-> a,
                              seenActive |-> account[u].active,
                              seenDeleted |-> account[u].deletedAt # Never]
        OBVIOUS
      <3>2. QED BY <1>1, <2>10, <3>1, ExchangeMove DEF AdminLoad
    <2>11. CASE AdminSave(r)
      BY <1>1, <1>a, <2>11, ExchangeMove DEF AdminSave
    <2>12. CASE ListTokens(r)
      <3>1. PICK rec : rec = IF TokensOf(call[r].user) = {} THEN Idle
                             ELSE [pc |-> "revoke", user |-> call[r].user,
                                   todo |-> TokensOf(call[r].user)]
        OBVIOUS
      <3>2. rec.pc \in {"idle", "revoke"}
        BY <1>a, <3>1
      <3>3. QED BY <1>1, <2>12, <3>1, <3>2, ExchangeMove DEF ListTokens
    <2>13. CASE RevokeOne(r)
      <3>1. call[r] \in Revocation
        BY <2>13, KindOfState DEF RevokeOne, AuthInv, TablesTypeOK
      <3>2. PICK rec : rec.pc \in {"idle", "revoke"} /\ Become(r, rec)
        BY <1>a, <2>13, <3>1 DEF RevokeOne, Revocation
      <3>3. QED BY <1>1, <2>13, <3>2, ExchangeMove DEF RevokeOne
    <2>14. QED
      BY <1>1, <2>1, <2>2, <2>3, <2>4, <2>5, <2>6, <2>7, <2>8, <2>9, <2>10, <2>11, <2>12, <2>13
         DEF RequestStep, LoginAPI, RefreshAPI, UserMeAPI, PasswordAPI, RestoreAPI,
             AdminStatusAPI, RevokeAll
  <1>2. ASSUME NEW r \in Calls, CallDies(r), disturbed \subseteq disturbed'
        PROVE  ExchangeInv'
    BY <1>a, <1>2, ExchangeMove DEF CallDies, Finish
  <1>3. ASSUME UNCHANGED <<token, nextToken, call>>, disturbed \subseteq disturbed'
        PROVE  ExchangeInv'
    BY <1>3 DEF ExchangeInv, HeldIsOwn, ParentIsOwn, Unexchanged, ExchangedOnce, Holds,
       Outstanding
  <1>4. CASE PurgeSelect \/ PurgeDelete \/ Tick \/ UNCHANGED sessionVars
    <2>1. UNCHANGED <<token, nextToken, call>>
      BY <1>4 DEF PurgeSelect, PurgeDelete, Tick, sessionVars
    <2>2. disturbed \subseteq disturbed'
      BY <1>4 DEF AuthNext, NoteOverlaps, sessionVars
    <2>3. QED BY <1>3, <2>1, <2>2
  <1>5. QED BY <1>1, <1>2, <1>4 DEF AuthNext, AuthStep, NoteOverlaps, RequestStep

\* A refresh token is exchanged for one successor at most, unless requests of its user
\* overlap or are killed.
THEOREM ExchangesAreSingle == AuthSpec => []ExchangedOnce
  <1>1. ExchangeInv => ExchangedOnce
    BY DEF ExchangeInv
  <1>2. UndisturbedInv => OneAtATime
    BY DEF UndisturbedInv
  <1> QED
    BY <1>1, <1>2, AuthInvInit, AuthInvNext, UndisturbedInvInit, UndisturbedInvNext,
       ExchangeInvInit, ExchangeInvNext, PTL DEF AuthSpec


\* Rotation is an exchange: the parent dies, and has one child unless requests overlap.
THEOREM RotationExchanges == AuthSpec => []RotationIsExchange
  <1>1. RotationSpendsParent /\ ExchangedOnce => RotationIsExchange
    BY DEF RotationIsExchange
  <1>2. QED BY <1>1, RotationIsSafe, ExchangesAreSingle, PTL
=============================================================================
