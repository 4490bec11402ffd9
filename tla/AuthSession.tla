----------------------------- MODULE AuthSession -----------------------------
(***************************************************************************)
(* Accounts and refresh tokens.  A request is a sequence of autocommitted  *)
(* statements (only the restore is a transaction that locks the row), so   *)
(* requests, the daily purge and the clock interleave between them.        *)
(***************************************************************************)
EXTENDS Naturals, FiniteSets

CONSTANTS
    Accounts,      \* the rows that table users ever has
    Calls,         \* web requests at one time
    MaxTokens,     \* bound: refresh tokens ever issued
    MaxPasswords,  \* bound: passwords an account ever has
    MaxTime,       \* bound: the clock, in days
    Retention,     \* ACCOUNT_DELETION_RETENTION_DAYS
    Lifetime,      \* REFRESH_TOKEN_LIFETIME
    Crashes        \* TRUE: a request may be killed between two statements

ASSUME SessionAssumption ==
    /\ MaxTokens \in Nat /\ MaxPasswords \in Nat \ {0} /\ MaxTime \in Nat \ {0}
    /\ Retention \in Nat /\ Lifetime \in Nat
    /\ Crashes \in BOOLEAN

VARIABLES
    account,    \* table users
    token,      \* table token_blacklist_outstandingtoken, by primary key
    nextToken,
    blacklist,  \* table token_blacklist_blacklistedtoken: the keys in it
    call,       \* what each web request is doing
    purge,      \* purge_soft_deleted_users: the accounts it has selected
    now,
    disturbed   \* history: users whose requests overlapped or were killed

sessionVars == <<account, token, nextToken, blacklist, call, purge, now, disturbed>>

TokenIds == 1..MaxTokens
Time == 1..MaxTime
Never == 0                      \* deleted_at = NULL

\* password numbers the passwords an account has had
Account == [exists: BOOLEAN, active: BOOLEAN, deletedAt: Time \cup {Never},
            password: 1..MaxPasswords]

\* parent: the token this one was rotated from (0: a login);
\* password: history, the password under which the session was opened
Token == [user: Accounts, parent: TokenIds \cup {0}, issued: Time,
          password: 1..MaxPasswords]
NoToken == [parent |-> 0]

Idle == [pc |-> "idle"]
Session == [pc: {"load", "blacklist", "issue"}, op: {"login", "refresh", "logout"},
            user: Accounts, token: TokenIds \cup {0}, password: 1..MaxPasswords]
Write == [pc: {"save", "list", "restore"}, op: {"delete", "password", "restore"},
          user: Accounts]
Status == [pc: {"status"}, user: Accounts, active: BOOLEAN,
           seenActive: BOOLEAN, seenDeleted: BOOLEAN]
Revocation == [pc: {"revoke"}, user: Accounts, todo: SUBSET TokenIds]
CallState == Session \cup Write \cup Status \cup Revocation \cup {Idle}

TablesTypeOK ==
    /\ account \in [Accounts -> Account]
    /\ token \in [TokenIds -> Token \cup {NoToken}]
    /\ nextToken \in 1..(MaxTokens + 1)
    /\ \A t \in TokenIds : token[t] # NoToken <=> t < nextToken
    /\ blacklist \subseteq 1..(nextToken - 1)
    /\ call \in [Calls -> CallState]
    /\ purge \in SUBSET Accounts
    /\ now \in Time

AuthTypeOK == TablesTypeOK /\ disturbed \subseteq Accounts

AuthInit ==
    /\ account = [u \in Accounts |-> [exists |-> TRUE, active |-> TRUE,
                                      deletedAt |-> Never, password |-> 1]]
    /\ token = [t \in TokenIds |-> NoToken]
    /\ nextToken = 1
    /\ blacklist = {}
    /\ call = [r \in Calls |-> Idle]
    /\ purge = {}
    /\ now = 1
    /\ disturbed = {}

-----------------------------------------------------------------------------
\* get_active_user_or_deactivated
Usable(u) == account[u].exists /\ account[u].active /\ account[u].deletedAt = Never

Outstanding == 1..(nextToken - 1)
TokensOf(u) == {t \in Outstanding : token[t].user = u}

\* mutated form: the constructor does not look at the blacklist
ValidUnchecked(t) == now < token[t].issued + Lifetime

\* RefreshToken(...): the signature, the expiry time and the blacklist
Valid(t) == now < token[t].issued + Lifetime /\ t \notin blacklist

\* select_for_update in the restore
Unlocked(u) ==
    \A r \in Calls : call[r].pc = "restore" => call[r].user # u

MayBegin(r) == call[r].pc = "idle"
Become(r, rec) == call' = [call EXCEPT ![r] = rec]
Finish(r) == Become(r, Idle)
Revoking(u) == [pc |-> "list", op |-> "password", user |-> u]

-----------------------------------------------------------------------------
(* Login, refresh and logout *)

AuthenticateUser(r, u) ==
    /\ MayBegin(r)
    /\ Usable(u)
    /\ Become(r, [pc |-> "issue", op |-> "login", user |-> u, token |-> 0,
                  password |-> account[u].password])
    /\ UNCHANGED <<account, token, nextToken, blacklist, purge, now>>

VerifyToken(r, t, op) ==
    /\ MayBegin(r)
    /\ Valid(t)
    /\ Become(r, [pc |-> IF op = "refresh" THEN "load" ELSE "blacklist", op |-> op,
                  user |-> token[t].user, token |-> t, password |-> token[t].password])
    /\ UNCHANGED <<account, token, nextToken, blacklist, purge, now>>

\* mutated form: BLACKLIST_AFTER_ROTATION is off
AfterLoadKept(r) == IF Usable(call[r].user) THEN [call[r] EXCEPT !.pc = "issue"] ELSE Idle
AfterLoad(r) == IF Usable(call[r].user) THEN [call[r] EXCEPT !.pc = "blacklist"] ELSE Idle

LoadForRefresh(r) ==
    /\ call[r].pc = "load"
    /\ Become(r, AfterLoad(r))
    /\ UNCHANGED <<account, token, nextToken, blacklist, purge, now>>

Blacklist(r) ==
    /\ call[r].pc = "blacklist"
    /\ blacklist' = blacklist \cup {call[r].token}
    /\ Become(r, IF call[r].op = "refresh" THEN [call[r] EXCEPT !.pc = "issue"] ELSE Idle)
    /\ UNCHANGED <<account, token, nextToken, purge, now>>

\* mutated form: the issue time is not set
NewTokenUntimed(r) ==
    [user |-> call[r].user, parent |-> call[r].token, issued |-> 0,
     password |-> call[r].password]
NewToken(r) ==
    [user |-> call[r].user, parent |-> call[r].token, issued |-> now,
     password |-> call[r].password]

\* RefreshToken.for_user looks at nothing but the user's key
IssueTokens(r) ==
    /\ call[r].pc = "issue"
    /\ account[call[r].user].exists
    /\ Unlocked(call[r].user)             \* the foreign key waits for the row's lock
    /\ nextToken <= MaxTokens
    /\ token' = [token EXCEPT ![nextToken] = NewToken(r)]
    /\ nextToken' = nextToken + 1
    /\ Finish(r)
    /\ UNCHANGED <<account, blacklist, purge, now>>

\* the account was purged: the foreign key refuses the token, save() the row
RowIsGone(r) ==
    /\ call[r].pc \in {"issue", "save", "status"}
    /\ ~account[call[r].user].exists
    /\ Finish(r)
    /\ UNCHANGED <<account, token, nextToken, blacklist, purge, now>>

-----------------------------------------------------------------------------
(* Writes to an account: load, save, then revoke every refresh token *)

\* the owner deletes the account, or changes or resets the password
LoadOwner(r, u, op) ==
    /\ MayBegin(r)
    /\ Usable(u)
    /\ Become(r, [pc |-> "save", op |-> op, user |-> u])
    /\ UNCHANGED <<account, token, nextToken, blacklist, purge, now>>

SaveDelete(r) ==
    /\ call[r].pc = "save" /\ call[r].op = "delete"
    /\ LET u == call[r].user
       IN  /\ account[u].exists /\ Unlocked(u)
           /\ account' = [account EXCEPT ![u].deletedAt = now, ![u].active = FALSE]
           /\ Become(r, Revoking(u))
    /\ UNCHANGED <<token, nextToken, blacklist, purge, now>>

\* mutated form: the request ends once the password is saved
SavePasswordOnly(r) ==
    /\ call[r].pc = "save" /\ call[r].op = "password"
    /\ LET u == call[r].user
       IN  /\ account[u].exists /\ Unlocked(u) /\ account[u].password < MaxPasswords
           /\ account' = [account EXCEPT ![u].password = @ + 1]
           /\ Finish(r)
    /\ UNCHANGED <<token, nextToken, blacklist, purge, now>>

SavePassword(r) ==
    /\ call[r].pc = "save" /\ call[r].op = "password"
    /\ LET u == call[r].user
       IN  /\ account[u].exists /\ Unlocked(u) /\ account[u].password < MaxPasswords
           /\ account' = [account EXCEPT ![u].password = @ + 1]
           /\ Become(r, Revoking(u))
    /\ UNCHANGED <<token, nextToken, blacklist, purge, now>>

\* revoke_all_refresh_tokens: one query, then one insert per token
ListTokens(r) ==
    /\ call[r].pc = "list"
    /\ LET todo == TokensOf(call[r].user)
       IN  Become(r, IF todo = {} THEN Idle
                     ELSE [pc |-> "revoke", user |-> call[r].user, todo |-> todo])
    /\ UNCHANGED <<account, token, nextToken, blacklist, purge, now>>

RevokeOne(r) ==
    /\ call[r].pc = "revoke"
    /\ \E t \in call[r].todo :
        /\ blacklist' = blacklist \cup {t}
        /\ Become(r, IF call[r].todo = {t} THEN Idle
                     ELSE [call[r] EXCEPT !.todo = @ \ {t}])
    /\ UNCHANGED <<account, token, nextToken, purge, now>>

\* restore_user_account: the row is locked until the commit
RestoreLock(r, u) ==
    /\ MayBegin(r)
    /\ account[u].exists /\ Unlocked(u)
    /\ account[u].deletedAt # Never
    /\ now <= account[u].deletedAt + Retention
    /\ Become(r, [pc |-> "restore", op |-> "restore", user |-> u])
    /\ UNCHANGED <<account, token, nextToken, blacklist, purge, now>>

RestoreCommit(r) ==
    /\ call[r].pc = "restore"
    /\ LET u == call[r].user
       IN  /\ account' = [account EXCEPT ![u].deletedAt = Never, ![u].active = TRUE]
           /\ blacklist' = blacklist \cup TokensOf(u)
    /\ Finish(r)
    /\ UNCHANGED <<token, nextToken, purge, now>>

\* update_admin_user_status
AdminLoad(r, u, active) ==
    /\ MayBegin(r)
    /\ account[u].exists
    /\ Become(r, [pc |-> "status", user |-> u, active |-> active,
                  seenActive |-> account[u].active,
                  seenDeleted |-> account[u].deletedAt # Never])
    /\ UNCHANGED <<account, token, nextToken, blacklist, purge, now>>

\* mutated form: deleted_at is never written
StatusRowKept(row, req) == [row EXCEPT !.active = req.active]

\* save(update_fields): deleted_at only if the row that was read had one
StatusRow(row, req) ==
    [row EXCEPT !.active = req.active,
                !.deletedAt = IF req.active /\ req.seenDeleted THEN Never ELSE @]

AdminSave(r) ==
    /\ call[r].pc = "status"
    /\ LET u == call[r].user
           changed == \/ call[r].seenActive # call[r].active
                      \/ call[r].active /\ call[r].seenDeleted
       IN  /\ account[u].exists /\ Unlocked(u)
           /\ account' = [account EXCEPT ![u] = StatusRow(@, call[r])]
           /\ Become(r, IF changed THEN Revoking(u) ELSE Idle)
    /\ UNCHANGED <<token, nextToken, blacklist, purge, now>>

CallDies(r) ==
    /\ Crashes
    /\ call[r].pc # "idle"
    /\ Finish(r)
    /\ UNCHANGED <<account, token, nextToken, blacklist, purge, now>>

-----------------------------------------------------------------------------
(* purge_soft_deleted_users: queryset.delete() selects, then deletes by key *)

PurgeSelect ==
    /\ purge = {}
    /\ purge' = {u \in Accounts : /\ account[u].exists
                                  /\ account[u].deletedAt # Never
                                  /\ account[u].deletedAt + Retention <= now}
    /\ UNCHANGED <<account, token, nextToken, blacklist, call, now>>

PurgeDelete ==
    /\ purge # {}
    /\ \A u \in purge : Unlocked(u)
    /\ account' = [u \in Accounts |->
                     IF u \in purge THEN [account[u] EXCEPT !.exists = FALSE] ELSE account[u]]
    /\ purge' = {}
    /\ UNCHANGED <<token, nextToken, blacklist, call, now>>

Tick ==
    /\ now < MaxTime
    /\ now' = now + 1
    /\ UNCHANGED <<account, token, nextToken, blacklist, call, purge>>

-----------------------------------------------------------------------------
\* the endpoints
LoginAPI(r) == (\E u \in Accounts : AuthenticateUser(r, u)) \/ IssueTokens(r)
RefreshAPI(r) ==
    (\E t \in Outstanding : VerifyToken(r, t, "refresh")) \/ LoadForRefresh(r) \/ Blacklist(r)
LogoutAPI(r) == \E t \in Outstanding : VerifyToken(r, t, "logout")
UserMeAPI(r) == (\E u \in Accounts : LoadOwner(r, u, "delete")) \/ SaveDelete(r)
PasswordAPI(r) == (\E u \in Accounts : LoadOwner(r, u, "password")) \/ SavePassword(r)
RestoreAPI(r) == (\E u \in Accounts : RestoreLock(r, u)) \/ RestoreCommit(r)
AdminStatusAPI(r) == (\E u \in Accounts, a \in BOOLEAN : AdminLoad(r, u, a)) \/ AdminSave(r)
RevokeAll(r) == ListTokens(r) \/ RevokeOne(r)

AuthStep ==
    \/ \E r \in Calls :
        \/ LoginAPI(r) \/ RefreshAPI(r) \/ LogoutAPI(r)
        \/ UserMeAPI(r) \/ PasswordAPI(r) \/ RestoreAPI(r) \/ AdminStatusAPI(r)
        \/ RevokeAll(r) \/ RowIsGone(r)
    \/ PurgeSelect \/ PurgeDelete \/ Tick

WorksOn(req, u) == req.pc # "idle" /\ req.user = u

NoteOverlaps ==
    disturbed' = disturbed \cup
        {u \in Accounts : \E r, s \in Calls : /\ r # s
                                             /\ WorksOn(call'[r], u)
                                             /\ WorksOn(call'[s], u)}

AuthNext ==
    \/ AuthStep /\ NoteOverlaps
    \/ \E r \in Calls : /\ CallDies(r)
                         /\ disturbed' = disturbed \cup {call[r].user}

AuthSpec == AuthInit /\ [][AuthNext]_sessionVars

-----------------------------------------------------------------------------
\* Rotation never leaves two usable tokens: whoever holds a rotated token can be
\* sure that the one it came from is dead, even if requests overlap or crash
\* (ROTATE_REFRESH_TOKENS, BLACKLIST_AFTER_ROTATION).
RotationSpendsParent ==
    \A t \in Outstanding : token[t].parent # 0 => token[t].parent \in blacklist

\* A refresh token is exchanged at most once, unless requests of its user overlap.
ExchangedOnce ==
    \A s, t \in Outstanding :
        token[s].parent # 0 /\ token[s].parent = token[t].parent =>
            s = t \/ token[s].user \in disturbed

\* Rotation is an exchange: the parent is dead whatever happens, and it has one child
\* unless requests overlap.
RotationIsExchange == RotationSpendsParent /\ ExchangedOnce

Quiet(u) == \A r \in Calls : call[r].pc # "idle" => call[r].user # u

\* u is in use, and was logged into with the password it has now, by whoever holds t
OpenedAsItIs(u, t) == Usable(u) /\ token[t].password = account[u].password

\* Between requests, a refresh token that still works was opened with the password its
\* account has now: a password reset ends all older sessions
\* (test_password_reset_blacklists_existing_refresh_tokens).
PasswordEndsOlderSessions ==
    \A u \in Accounts : account[u].exists /\ Quiet(u) =>
        \A t \in TokensOf(u) : Valid(t) => token[t].password = account[u].password

\* Of a user whose requests were neither simultaneous nor killed, every refresh token that
\* still works belongs to an account in use and was opened with the password it has now:
\* deletion, deactivation, restore, password change and reset end all older sessions.
UndisturbedSessionsFollow ==
    \A u \in Accounts \ disturbed : account[u].exists /\ Quiet(u) =>
        \A t \in TokensOf(u) : Valid(t) => OpenedAsItIs(u, t)

\* is_active and deleted_at agree: an active account is not waiting for the purge,
\* unless an administrator's change overlapped the deletion.
ActiveIsNotDeleted ==
    \A u \in Accounts \ disturbed :
        account[u].exists /\ account[u].active => account[u].deletedAt = Never
=============================================================================
