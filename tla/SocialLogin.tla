---------------------------- MODULE SocialLogin ----------------------------
(***************************************************************************)
(* Accounts by social login and signup.  A callback checks its state token,*)
(* asks the provider who is there, finds the account by the linked uid or  *)
(* by e-mail, or creates one, and opens a session.  Each query is a step:  *)
(* only the unique constraints tie the steps together.                     *)
(***************************************************************************)
EXTENDS Naturals

CONSTANTS
    Users,     \* bound: the primary keys handed out
    Emails,
    Normalized, \* normalize_email: the address as create_user stores it
    Providers, Uids,
    ProviderOf, \* the provider of a uid
    EmailsOf,   \* the addresses a provider may give for a uid: Kakao's owner may refuse
    States,     \* bound: the random state tokens
    Requests,
    Nothing     \* no provider, no e-mail, no uid

ASSUME SocialAssumption ==
    /\ ProviderOf \in [Uids -> Providers]
    /\ Normalized \in [Emails -> Emails]
    /\ EmailsOf \in [Uids -> SUBSET Emails]
    /\ Nothing \notin Providers \cup Emails \cup Uids

VARIABLES
    account,   \* table users
    link,      \* table social_users: the rows ever made; a purged user's are gone
    oauthState,\* cache: oauth_state:*
    request,   \* what each web request is doing
    entered,   \* history: the sessions opened by a social login
    killed     \* history: accounts whose creating request was killed

socialVars == <<account, link, oauthState, request, entered, killed>>

\* origin: history, the uid a social login created the account for
Account == [status: {"none", "active", "inactive", "purged"},
            email: Emails \cup {Nothing}, origin: Uids \cup {Nothing}]
Link == [user: Users, uid: Uids]

Idle == [pc |-> "idle"]
ClaimState == [pc: {"claim"}, state: States, provider: Providers]
AskState == [pc: {"ask"}, provider: Providers]
FindState == [pc: {"find", "create"}, uid: Uids, email: Emails]
UserState == [pc: {"link", "attach", "enter"}, uid: Uids, user: Users]
SignupState == [pc: {"signup"}, email: Emails]
RequestState == ClaimState \cup AskState \cup FindState \cup UserState
                  \cup SignupState \cup {Idle}

Stored(u) == account[u].status \in {"active", "inactive"}
Linked == {x \in link : Stored(x.user)}
LinkOf(uid) == {x \in Linked : x.uid = uid}
LinksAt(u, provider) == {x \in Linked : x.user = u /\ ProviderOf[x.uid] = provider}
WithEmail(e) == {u \in Users : Stored(u) /\ account[u].email = e}

SocialTypeOK ==
    /\ account \in [Users -> Account]
    /\ link \subseteq Link
    /\ oauthState \in [States -> Providers \cup {Nothing, "unused"}]
    /\ request \in [Requests -> RequestState]
    /\ entered \subseteq Link
    /\ killed \subseteq Users
    \* the unique constraints of the two tables
    /\ \A u, v \in Users :
         Stored(u) /\ Stored(v) /\ account[u].email = account[v].email => u = v
    /\ \A x, y \in Linked :
         \/ x.uid = y.uid
         \/ x.user = y.user /\ ProviderOf[x.uid] = ProviderOf[y.uid]
         => x = y

SocialInit ==
    /\ account = [u \in Users |-> [status |-> "none", email |-> Nothing, origin |-> Nothing]]
    /\ link = {}
    /\ oauthState = [s \in States |-> "unused"]
    /\ request = [r \in Requests |-> Idle]
    /\ entered = {}
    /\ killed = {}

-----------------------------------------------------------------------------
Become(r, rec) == request' = [request EXCEPT ![r] = rec]
Finish(r) == Become(r, Idle)

\* create_user under a unique e-mail; the key is a new one
Create(u, e, origin) ==
    /\ account[u].status = "none"
    /\ WithEmail(Normalized[e]) = {}
    /\ account' = [account EXCEPT ![u] =
                     [status |-> "active", email |-> Normalized[e], origin |-> origin]]

-----------------------------------------------------------------------------
(* The state token *)

LoginAPI(s, p) ==
    /\ oauthState[s] = "unused"
    /\ oauthState' = [oauthState EXCEPT ![s] = p]
    /\ UNCHANGED <<account, link, request, entered, killed>>

StateExpires(s) ==
    /\ oauthState[s] \in Providers
    /\ oauthState' = [oauthState EXCEPT ![s] = Nothing]
    /\ UNCHANGED <<account, link, request, entered, killed>>

\* _validate_oauth_state: a token of another provider is INVALID_STATE
ReadState(r, s) ==
    /\ request[r].pc = "idle"
    /\ oauthState[s] \in Providers
    /\ Become(r, [pc |-> "claim", state |-> s, provider |-> oauthState[s]])
    /\ UNCHANGED <<account, link, oauthState, entered, killed>>

DeleteState(r) ==
    /\ request[r].pc = "claim"
    /\ oauthState' = [oauthState EXCEPT ![request[r].state] = Nothing]
    /\ Become(r, [pc |-> "ask", provider |-> request[r].provider])
    /\ UNCHANGED <<account, link, entered, killed>>

-----------------------------------------------------------------------------
(* _get_or_create_social_user *)

\* where the callback goes with a user it found: ACCOUNT_DEACTIVATED ends it
With(pc, u, uid) ==
    IF account[u].status = "active" THEN [pc |-> pc, user |-> u, uid |-> uid] ELSE Idle

\* the provider answers, and the uid is looked up
FindUid(r, uid, e) ==
    /\ request[r].pc = "ask"
    /\ ProviderOf[uid] = request[r].provider
    /\ \/ \E x \in LinkOf(uid) : Become(r, With("enter", x.user, uid))
       \/ LinkOf(uid) = {} /\ Become(r, [pc |-> "find", uid |-> uid, email |-> e])
    /\ UNCHANGED <<account, link, oauthState, entered, killed>>

FindEmail(r) ==
    /\ request[r].pc = "find"
    /\ LET e == request[r].email
           uid == request[r].uid
       IN  \/ \E u \in WithEmail(e) : Become(r, With("link", u, uid))
           \/ WithEmail(e) = {} /\ Become(r, [request[r] EXCEPT !.pc = "create"])
    /\ UNCHANGED <<account, link, oauthState, entered, killed>>

\* mutated form: the user found by e-mail is let in without a link
LinkExistingUnstored(r) ==
    /\ request[r].pc = "link"
    /\ Become(r, [request[r] EXCEPT !.pc = "enter"])
    /\ UNCHANGED <<account, link, oauthState, entered, killed>>

\* SocialUser.get_or_create(user, provider): a link of the user to another uid of the
\* provider is kept; the constraint refuses a uid that another user has by now
LinkExisting(r) ==
    /\ request[r].pc = "link"
    /\ LET u == request[r].user
           uid == request[r].uid
           has == LinksAt(u, ProviderOf[uid]) # {}
           refused == ~has /\ (LinkOf(uid) # {} \/ ~Stored(u))
       IN  /\ link' = IF has \/ refused THEN link ELSE link \cup {[user |-> u, uid |-> uid]}
           /\ Become(r, IF refused THEN Idle ELSE [request[r] EXCEPT !.pc = "enter"])
    /\ UNCHANGED <<account, oauthState, entered, killed>>

\* mutated form: the session is opened before the link is stored
CreateUserUnlinked(r, u) ==
    /\ request[r].pc = "create"
    /\ Create(u, request[r].email, request[r].uid)
    /\ Become(r, [pc |-> "enter", user |-> u, uid |-> request[r].uid])
    /\ UNCHANGED <<link, oauthState, entered, killed>>

CreateUser(r, u) ==
    /\ request[r].pc = "create"
    /\ Create(u, request[r].email, request[r].uid)
    /\ Become(r, [pc |-> "attach", user |-> u, uid |-> request[r].uid])
    /\ UNCHANGED <<link, oauthState, entered, killed>>

\* the e-mail was taken meanwhile, or is taken in its normal form, which nobody
\* looked up: every nickname fails, the UUID one too
CreateRefused(r) ==
    /\ request[r].pc \in {"create", "signup"}
    /\ WithEmail(Normalized[request[r].email]) # {}
    /\ Finish(r)
    /\ UNCHANGED <<account, link, oauthState, entered, killed>>

\* mutated form: the table has no unique constraint
AttachUnconstrained(r) ==
    /\ request[r].pc = "attach"
    /\ link' = link \cup {[user |-> request[r].user, uid |-> request[r].uid]}
    /\ Become(r, [request[r] EXCEPT !.pc = "enter"])
    /\ UNCHANGED <<account, oauthState, entered, killed>>

\* SocialUser.objects.create for the new user
Attach(r) ==
    /\ request[r].pc = "attach"
    /\ LET u == request[r].user
           uid == request[r].uid
           refused == LinkOf(uid) # {} \/ LinksAt(u, ProviderOf[uid]) # {} \/ ~Stored(u)
       IN  /\ link' = IF refused THEN link ELSE link \cup {[user |-> u, uid |-> uid]}
           /\ Become(r, IF refused THEN Idle ELSE [request[r] EXCEPT !.pc = "enter"])
    /\ UNCHANGED <<account, oauthState, entered, killed>>

\* issue_auth_tokens; a purged user's token is refused by its foreign key
Enter(r) ==
    /\ request[r].pc = "enter"
    /\ entered' = entered \cup {x \in {[user |-> request[r].user, uid |-> request[r].uid]} :
                                  Stored(x.user)}
    /\ Finish(r)
    /\ UNCHANGED <<account, link, oauthState, killed>>

-----------------------------------------------------------------------------
(* signup_user: the code was mailed to an address nobody had *)

CheckSignup(r, e) ==
    /\ request[r].pc = "idle"
    /\ WithEmail(e) = {}
    /\ Become(r, [pc |-> "signup", email |-> e])
    /\ UNCHANGED <<account, link, oauthState, entered, killed>>

Signup(r, u) ==
    /\ request[r].pc = "signup"
    /\ Create(u, request[r].email, Nothing)
    /\ Finish(r)
    /\ UNCHANGED <<link, oauthState, entered, killed>>

-----------------------------------------------------------------------------
(* Failures, and the account's life outside this module *)

\* the provider does not answer, or the process dies between two statements
RequestDies(r) ==
    /\ request[r].pc # "idle"
    /\ Finish(r)
    /\ killed' = killed \cup {u \in Users : /\ request[r].pc = "attach"
                                            /\ u = request[r].user}
    /\ UNCHANGED <<account, link, oauthState, entered>>

SetStatus(u, old, new) ==
    /\ account[u].status = old
    /\ account' = [account EXCEPT ![u].status = new]
    /\ UNCHANGED <<link, oauthState, request, entered, killed>>

CallbackAPI(r) ==
    \/ \E s \in States : ReadState(r, s)
    \/ DeleteState(r)
    \/ \E uid \in Uids : \E e \in EmailsOf[uid] : FindUid(r, uid, e)
    \/ FindEmail(r)
    \/ LinkExisting(r)
    \/ \E u \in Users : CreateUser(r, u)
    \/ CreateRefused(r)
    \/ Attach(r)
    \/ Enter(r)

SignupAPI(r) ==
    \/ \E e \in Emails : CheckSignup(r, e)
    \/ \E u \in Users : Signup(r, u)

SocialNext ==
    \/ \E r \in Requests : CallbackAPI(r) \/ SignupAPI(r) \/ RequestDies(r)
    \/ \E s \in States : StateExpires(s) \/ \E p \in Providers : LoginAPI(s, p)
    \/ \E u \in Users : \/ SetStatus(u, "active", "inactive")
                        \/ SetStatus(u, "inactive", "active")
                        \/ SetStatus(u, "inactive", "purged")

SocialSpec == SocialInit /\ [][SocialNext]_socialVars

-----------------------------------------------------------------------------
\* One provider account opens one account of ours for as long as that exists, however
\* often its e-mail changes and whatever callbacks race - unless it came in by e-mail
\* to a user who is linked to another uid of the provider, which stores no link
\* (test_handle_kakao_callback_returns_existing_social_user).
OneAccountPerUid ==
    \A x, y \in entered :
        x.uid = y.uid /\ x.user # y.user /\ Stored(x.user) /\ Stored(y.user) =>
            \E z \in Linked : /\ z.user \in {x.user, y.user} /\ z.uid # x.uid
                              /\ ProviderOf[z.uid] = ProviderOf[x.uid]

\* The account created for a uid becomes that uid's: it has a link once the callback
\* that made it is done - unless that was killed, or the uid was linked meanwhile to
\* an account under another address (test_handle_kakao_callback_links_existing_user_by_email).
CreatedIsLinked ==
    \A u \in Users \ killed :
        Stored(u) /\ account[u].origin # Nothing =>
            \/ \E x \in Linked : x.user = u
            \/ \E r \in Requests : request[r].pc = "attach" /\ request[r].user = u
            \/ \E x \in link : /\ x.uid = account[u].origin
                               /\ account[x.user].email # account[u].email

\* A provider account and its account here belong together, in both directions.
UidHasItsAccount == OneAccountPerUid /\ CreatedIsLinked
=============================================================================
