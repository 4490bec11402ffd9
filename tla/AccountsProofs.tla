-------------------------- MODULE AccountsProofs --------------------------
(***************************************************************************)
(* Proofs about SocialLogin and EmailCodes, for any number of users, uids, *)
(* addresses, requests and codes.                                          *)
(***************************************************************************)
EXTENDS MCSocialLogin, FiniteSetTheorems, TLAPS

-----------------------------------------------------------------------------
(* SocialLogin: types with the unique constraints, a provider account opens one account *)

\* x, or another link of its user at its provider, is stored
HasLink(x) ==
    \/ x \in link
    \/ \E z \in link : /\ z.user = x.user /\ z.uid # x.uid
                       /\ ProviderOf[z.uid] = ProviderOf[x.uid]

\* Rows, sessions and callbacks are about accounts that were created
UsersExist ==
    /\ \A x \in link \cup entered : account[x.user].status # "none"
    /\ \A r \in Requests : request[r].pc \in {"link", "attach", "enter"} =>
         account[request[r].user].status # "none"

\* Nobody enters an account without a link to the provider, as long as it is stored
EntryHasLink ==
    /\ \A x \in entered : Stored(x.user) => HasLink(x)
    /\ \A r \in Requests : request[r].pc = "enter" /\ Stored(request[r].user) =>
         HasLink([user |-> request[r].user, uid |-> request[r].uid])

SocialInv == SocialTypeOK /\ UsersExist /\ EntryHasLink

-----------------------------------------------------------------------------
LEMMA RequestTypes ==
    ASSUME SocialTypeOK, NEW r \in Requests
    PROVE  /\ request[r].pc = "claim" =>
                request[r].state \in States /\ request[r].provider \in Providers
           /\ request[r].pc = "ask" => request[r].provider \in Providers
           /\ request[r].pc \in {"find", "create"} =>
                request[r].uid \in Uids /\ request[r].email \in Emails
           /\ request[r].pc = "signup" => request[r].email \in Emails
           /\ request[r].pc \in {"link", "attach", "enter"} =>
                request[r].uid \in Uids /\ request[r].user \in Users
  BY DEF SocialTypeOK, RequestState, ClaimState, AskState, FindState, UserState,
         SignupState, Idle

LEMMA KindsOfRequest ==
    /\ Idle \in RequestState
    /\ \A s \in States, p \in Providers :
         [pc |-> "claim", state |-> s, provider |-> p] \in RequestState
    /\ \A p \in Providers : [pc |-> "ask", provider |-> p] \in RequestState
    /\ \A uid \in Uids, e \in Emails :
         [pc |-> "find", uid |-> uid, email |-> e] \in RequestState
    /\ \A e \in Emails : [pc |-> "signup", email |-> e] \in RequestState
    /\ \A uid \in Uids, u \in Users, pc \in {"link", "attach", "enter"} :
         [pc |-> pc, user |-> u, uid |-> uid] \in RequestState
  BY DEF RequestState, ClaimState, AskState, FindState, UserState, SignupState

\* the unique constraints, as conditions on the two tables
UniqueEmails(table) ==
    \A u, v \in Users :
        /\ table[u].status \in {"active", "inactive"}
        /\ table[v].status \in {"active", "inactive"}
        /\ table[u].email = table[v].email
        => u = v

LEMMA AccountsStayTyped ==
    ASSUME SocialTypeOK, NEW u \in Users, NEW e \in Emails, NEW origin \in Uids \cup {Nothing},
           Create(u, e, origin)
    PROVE  /\ account' \in [Users -> Account]
           /\ UniqueEmails(account')
           /\ \A v \in Users : v # u => account'[v] = account[v]
           /\ account[u].status = "none" /\ account'[u].status = "active"
  <1>1. Normalized[e] \in Emails
    BY SocialAssumption
  <1>2. QED BY <1>1 DEF SocialTypeOK, Create, Account, UniqueEmails, WithEmail, Stored

\* creating an account touches no row of the links, which are of older accounts
LEMMA LinkedKept ==
    ASSUME SocialInv, NEW u \in Users, account[u].status = "none",
           \A v \in Users : v # u => account'[v] = account[v],
           link' = link
    PROVE  Linked' = Linked
  BY DEF SocialInv, UsersExist, SocialTypeOK, Linked, Stored, Link

-----------------------------------------------------------------------------
LEMMA SocialInvInit == SocialInit => SocialInv
  BY DEF SocialInit, SocialInv, SocialTypeOK, UsersExist, EntryHasLink, Account, RequestState,
         Idle, Linked, Stored

\* A step that only moves one request
LEMMA RequestMoves ==
    ASSUME SocialInv, NEW r \in Requests, NEW rec \in RequestState, Become(r, rec),
           UNCHANGED <<account, link, entered>>,
           oauthState' \in [States -> Providers \cup {Nothing, "unused"}],
           killed' \subseteq Users,
           rec.pc \in {"link", "attach", "enter"} => account[rec.user].status # "none",
           rec.pc = "enter" /\ Stored(rec.user) => HasLink([user |-> rec.user, uid |-> rec.uid])
    PROVE  SocialInv'
  <1>1. /\ request' \in [Requests -> RequestState]
        /\ \A s \in Requests : request'[s] = IF s = r THEN rec ELSE request[s]
    BY DEF Become, SocialInv, SocialTypeOK
  <1>2. SocialTypeOK'
    BY <1>1 DEF SocialInv, SocialTypeOK, Linked, Stored
  <1>3. UsersExist'
    BY <1>1 DEF SocialInv, UsersExist
  <1>4. EntryHasLink'
    BY <1>1 DEF SocialInv, EntryHasLink, HasLink, Stored
  <1>5. QED BY <1>2, <1>3, <1>4 DEF SocialInv

\* A step that stores a link and lets its owner in
LEMMA LinkIsStored ==
    ASSUME SocialInv, NEW r \in Requests, NEW x \in Link,
           link' = link \cup {x}, Stored(x.user),
           LinkOf(x.uid) = {}, LinksAt(x.user, ProviderOf[x.uid]) = {},
           Become(r, [pc |-> "enter", user |-> x.user, uid |-> x.uid]),
           UNCHANGED <<account, oauthState, entered, killed>>
    PROVE  SocialInv'
  <1> DEFINE rec == [pc |-> "enter", user |-> x.user, uid |-> x.uid]
  <1>a. x.user \in Users /\ x.uid \in Uids
    BY DEF Link
  <1>1. /\ request' \in [Requests -> RequestState]
        /\ \A s \in Requests : request'[s] = IF s = r THEN rec ELSE request[s]
    BY <1>a, KindsOfRequest DEF Become, SocialInv, SocialTypeOK
  <1>2. Linked' = Linked \cup {x}
    BY DEF Linked, Stored
  <1>3. SocialTypeOK'
    <2>1. \A y, z \in Linked' :
             (y.uid = z.uid \/ (y.user = z.user /\ ProviderOf[y.uid] = ProviderOf[z.uid])) => y = z
      BY <1>2 DEF SocialInv, SocialTypeOK, LinkOf, LinksAt
    <2>2. QED BY <1>1, <2>1 DEF SocialInv, SocialTypeOK, Stored
  <1>4. UsersExist'
    BY <1>1 DEF SocialInv, UsersExist, Stored
  <1>5. HasLink([user |-> x.user, uid |-> x.uid])'
    BY <1>a DEF HasLink, Link
  <1>6. EntryHasLink'
    BY <1>1, <1>5 DEF SocialInv, EntryHasLink, HasLink, Stored
  <1>7. QED BY <1>3, <1>4, <1>6 DEF SocialInv

\* An account is created; the request that made it goes on to attach it, or ends
LEMMA AccountIsCreated ==
    ASSUME SocialInv, NEW r \in Requests, NEW u \in Users, NEW e \in Emails,
           NEW origin \in Uids \cup {Nothing}, Create(u, e, origin),
           NEW rec \in RequestState, Become(r, rec),
           rec.pc = "idle" \/ (rec.pc = "attach" /\ rec.user = u),
           UNCHANGED <<link, oauthState, entered, killed>>
    PROVE  SocialInv'
  <1>1. /\ request' \in [Requests -> RequestState]
        /\ \A s \in Requests : request'[s] = IF s = r THEN rec ELSE request[s]
    BY DEF Become, SocialInv, SocialTypeOK
  <1>2. /\ account' \in [Users -> Account]
        /\ UniqueEmails(account')
        /\ \A v \in Users : v # u => account'[v] = account[v]
        /\ account[u].status = "none" /\ account'[u].status = "active"
    BY AccountsStayTyped DEF SocialInv
  <1>3. Linked' = Linked
    BY <1>2, LinkedKept
  <1>4. SocialTypeOK'
    BY <1>1, <1>2, <1>3 DEF SocialInv, SocialTypeOK, UniqueEmails, Stored
  <1>5. \A v \in Users : account[v].status # "none" => account'[v] = account[v]
    BY <1>2
  <1>6. UsersExist'
    <2>1. \A x \in link \cup entered : x.user \in Users
      BY DEF SocialInv, SocialTypeOK, Link
    <2>2. \A s \in Requests : request[s].pc \in {"link", "attach", "enter"} => request[s].user \in Users
      BY RequestTypes DEF SocialInv
    <2>3. QED BY <1>1, <1>2, <1>5, <2>1, <2>2 DEF SocialInv, UsersExist
  <1>7. EntryHasLink'
    <2>1. \A x \in entered : Stored(x.user)' => HasLink(x)'
      BY <1>5 DEF SocialInv, SocialTypeOK, Link, UsersExist, EntryHasLink, HasLink, Stored
    <2>2. ASSUME NEW s \in Requests, request'[s].pc = "enter", Stored(request[s].user)'
          PROVE  request'[s] = request[s]
                 /\ HasLink([user |-> request[s].user, uid |-> request[s].uid])'
      <3>1. request'[s] = request[s] /\ request[s].pc = "enter"
        BY <1>1, <2>2
      <3>2. request[s].user \in Users /\ account[request[s].user].status # "none"
        BY <3>1, RequestTypes DEF SocialInv, UsersExist
      <3>3. Stored(request[s].user)
        BY <2>2, <3>1, <3>2, <1>5 DEF Stored
      <3>4. QED BY <3>1, <3>3 DEF SocialInv, EntryHasLink, HasLink
    <2>3. \A s \in Requests : request'[s].pc = "enter" => request'[s] = request[s]
      BY <1>1
    <2>4. QED BY <2>1, <2>2, <2>3 DEF EntryHasLink
  <1>8. QED BY <1>4, <1>6, <1>7 DEF SocialInv

LEMMA StatusIsSet ==
    ASSUME SocialInv, NEW u \in Users, NEW old, NEW new, SetStatus(u, old, new),
           old \in {"active", "inactive"}, new \in {"active", "inactive", "purged"}
    PROVE  SocialInv'
  <1>1. account' \in [Users -> Account]
    BY DEF SetStatus, SocialInv, SocialTypeOK, Account
  <1>2. \A v \in Users :
          /\ account'[v].email = account[v].email
          /\ Stored(v)' => Stored(v)
          /\ account[v].status # "none" => account'[v].status # "none"
    BY DEF SetStatus, SocialInv, SocialTypeOK, Account, Stored
  <1>a. UNCHANGED <<link, oauthState, request, entered, killed>>
    BY DEF SetStatus
  <1>3. Linked' \subseteq Linked
    <2>1. \A x \in link : x.user \in Users
      BY DEF SocialInv, SocialTypeOK, Link
    <2>2. QED BY <1>2, <1>a, <2>1 DEF Linked, Stored
  <1>4. SocialTypeOK'
    <2>1. \A v, w \in Users :
             Stored(v)' /\ Stored(w)' /\ account'[v].email = account'[w].email => v = w
      <3> SUFFICES ASSUME NEW v \in Users, NEW w \in Users, Stored(v)', Stored(w)',
                          account'[v].email = account'[w].email
                   PROVE  v = w
        OBVIOUS
      <3>1. Stored(v) /\ Stored(w) /\ account[v].email = account[w].email
        BY <1>2 DEF Stored
      <3>2. QED BY <3>1 DEF SocialInv, SocialTypeOK
    <2>2. QED BY <1>1, <1>3, <1>a, <2>1 DEF SocialInv, SocialTypeOK
  <1>5. UsersExist'
    <2>1. \A x \in link \cup entered : x.user \in Users
      BY DEF SocialInv, SocialTypeOK, Link
    <2>2. \A s \in Requests : request[s].pc \in {"link", "attach", "enter"} => request[s].user \in Users
      BY RequestTypes DEF SocialInv
    <2>3. QED BY <1>2, <2>1, <2>2 DEF SetStatus, SocialInv, UsersExist
  <1>6. EntryHasLink'
    <2>1. \A x \in entered : x.user \in Users
      BY DEF SocialInv, SocialTypeOK, Link
    <2>2. \A s \in Requests : request[s].pc = "enter" => request[s].user \in Users
      BY RequestTypes DEF SocialInv
    <2>3. QED BY <1>2, <1>a, <2>1, <2>2 DEF SocialInv, EntryHasLink, HasLink, Stored
  <1>7. QED BY <1>4, <1>5, <1>6 DEF SocialInv

-----------------------------------------------------------------------------
LEMMA FoundByUid ==
    ASSUME SocialInv, NEW r \in Requests, NEW uid \in Uids, NEW e \in EmailsOf[uid],
           FindUid(r, uid, e)
    PROVE  SocialInv'
  <1>1. UNCHANGED <<account, link, oauthState, entered, killed>>
    BY DEF FindUid
  <1>a. e \in Emails /\ oauthState \in [States -> Providers \cup {Nothing, "unused"}]
        /\ killed \subseteq Users
    BY SocialAssumption DEF SocialInv, SocialTypeOK
  <1>2. CASE Become(r, [pc |-> "find", uid |-> uid, email |-> e])
    BY <1>1, <1>2, <1>a, RequestMoves, KindsOfRequest
  <1>3. ASSUME NEW x \in LinkOf(uid), Become(r, With("enter", x.user, uid)) PROVE SocialInv'
    <2>1. x \in link /\ x.user \in Users /\ x.uid = uid /\ account[x.user].status # "none"
          /\ x = [user |-> x.user, uid |-> x.uid]
      BY <1>3 DEF LinkOf, Linked, SocialInv, SocialTypeOK, Link, UsersExist
    <2>2. HasLink([user |-> x.user, uid |-> uid])
      BY <2>1 DEF HasLink
    <2>3. CASE With("enter", x.user, uid) = Idle
      BY <1>1, <1>3, <1>a, <2>3, RequestMoves, KindsOfRequest DEF Idle
    <2>4. CASE With("enter", x.user, uid) = [pc |-> "enter", user |-> x.user, uid |-> uid]
      BY <1>1, <1>3, <1>a, <2>1, <2>2, <2>4, RequestMoves, KindsOfRequest
    <2>5. QED BY <2>3, <2>4 DEF With
  <1>4. QED BY <1>2, <1>3 DEF FindUid

LEMMA FoundByEmail ==
    ASSUME SocialInv, NEW r \in Requests, FindEmail(r)
    PROVE  SocialInv'
  <1>1. UNCHANGED <<account, link, oauthState, entered, killed>>
    BY DEF FindEmail
  <1>a. request[r].pc = "find" /\ request[r] \in RequestState
        /\ oauthState \in [States -> Providers \cup {Nothing, "unused"}] /\ killed \subseteq Users
    BY DEF FindEmail, SocialInv, SocialTypeOK
  <1>b. request[r].uid \in Uids /\ request[r] \in FindState
    BY <1>a, RequestTypes DEF SocialInv, RequestState, ClaimState, AskState, UserState,
       SignupState, Idle
  <1>2. CASE Become(r, [request[r] EXCEPT !.pc = "create"])
    <2>1. [request[r] EXCEPT !.pc = "create"] \in RequestState
          /\ [request[r] EXCEPT !.pc = "create"].pc = "create"
      BY <1>b DEF FindState, RequestState
    <2>2. QED BY <1>1, <1>2, <1>a, <2>1, RequestMoves
  <1>3. ASSUME NEW u \in WithEmail(request[r].email), Become(r, With("link", u, request[r].uid))
        PROVE  SocialInv'
    <2>1. u \in Users /\ account[u].status # "none"
      BY <1>3 DEF WithEmail, Stored
    <2>3. CASE With("link", u, request[r].uid) = Idle
      BY <1>1, <1>3, <1>a, <2>3, RequestMoves, KindsOfRequest DEF Idle
    <2>4. CASE With("link", u, request[r].uid) = [pc |-> "link", user |-> u, uid |-> request[r].uid]
      BY <1>1, <1>3, <1>a, <1>b, <2>1, <2>4, RequestMoves, KindsOfRequest
    <2>5. QED BY <2>3, <2>4 DEF With
  <1>4. QED BY <1>2, <1>3 DEF FindEmail

\* The step that links a user: the row is stored, refused, or there was one
LEMMA UserIsLinked ==
    ASSUME SocialInv, NEW r \in Requests, LinkExisting(r) \/ Attach(r)
    PROVE  SocialInv'
  <1> DEFINE u == request[r].user
             uid == request[r].uid
             x == [user |-> u, uid |-> uid]
  <1>a. u \in Users /\ uid \in Uids /\ account[u].status # "none" /\ x \in Link
        /\ request[r] \in UserState
    BY RequestTypes DEF LinkExisting, Attach, SocialInv, SocialTypeOK, UsersExist, Link,
       RequestState, ClaimState, AskState, FindState, SignupState, Idle
  <1>b. [request[r] EXCEPT !.pc = "enter"] = [pc |-> "enter", user |-> u, uid |-> uid]
    BY <1>a DEF UserState
  <1>c. UNCHANGED <<account, oauthState, entered, killed>>
        /\ oauthState \in [States -> Providers \cup {Nothing, "unused"}] /\ killed \subseteq Users
    BY DEF LinkExisting, Attach, SocialInv, SocialTypeOK
  <1>1. CASE link' = link /\ Become(r, Idle)
    BY <1>1, <1>c, RequestMoves, KindsOfRequest DEF Idle
  <1>2. CASE /\ link' = link \cup {x}
             /\ Stored(u) /\ LinkOf(uid) = {} /\ LinksAt(u, ProviderOf[uid]) = {}
             /\ Become(r, [request[r] EXCEPT !.pc = "enter"])
    BY <1>2, <1>a, <1>b, <1>c, LinkIsStored
  <1>3. CASE /\ link' = link /\ LinksAt(u, ProviderOf[uid]) # {}
             /\ Become(r, [request[r] EXCEPT !.pc = "enter"])
    <2>1. PICK z \in link : z.user = u /\ ProviderOf[z.uid] = ProviderOf[uid]
      BY <1>3 DEF LinksAt, Linked
    <2>2. z = x \/ z.uid # uid
      BY <2>1 DEF SocialInv, SocialTypeOK, Link
    <2>3. HasLink(x)
      BY <2>1, <2>2 DEF HasLink
    <2>4. QED BY <1>3, <1>a, <1>b, <1>c, <2>3, RequestMoves, KindsOfRequest
  <1>4. QED BY <1>1, <1>2, <1>3 DEF LinkExisting, Attach

LEMMA UserEnters ==
    ASSUME SocialInv, NEW r \in Requests, Enter(r)
    PROVE  SocialInv'
  <1> DEFINE x == [user |-> request[r].user, uid |-> request[r].uid]
  <1>a. x \in Link /\ account[x.user].status # "none" /\ (Stored(x.user) => HasLink(x))
    BY RequestTypes DEF Enter, SocialInv, SocialTypeOK, UsersExist, Link, EntryHasLink
  <1>1. /\ request' \in [Requests -> RequestState]
        /\ \A s \in Requests : request'[s] = IF s = r THEN Idle ELSE request[s]
    BY KindsOfRequest DEF Enter, Finish, Become, SocialInv, SocialTypeOK
  <1>2. entered' \subseteq entered \cup {x}
    BY DEF Enter
  <1>b. UNCHANGED <<account, link, oauthState, killed>>
    BY DEF Enter
  <1> HIDE DEF x
  <1>3. SocialTypeOK'
    BY <1>1, <1>2, <1>a, <1>b DEF SocialInv, SocialTypeOK, Linked, Stored
  <1>4. UsersExist'
    BY <1>1, <1>2, <1>a, <1>b DEF SocialInv, UsersExist, Idle
  <1>5. EntryHasLink'
    BY <1>1, <1>2, <1>a, <1>b DEF SocialInv, EntryHasLink, HasLink, Stored, Idle
  <1>6. QED BY <1>3, <1>4, <1>5 DEF SocialInv

-----------------------------------------------------------------------------
LEMMA SocialInvNext == SocialInv /\ [SocialNext]_socialVars => SocialInv'
  <1> SUFFICES ASSUME SocialInv, [SocialNext]_socialVars PROVE SocialInv'
    OBVIOUS
  <1>a. SocialTypeOK
    BY DEF SocialInv
  <1>1. ASSUME NEW r \in Requests, NEW s \in States, ReadState(r, s) PROVE SocialInv'
    <2>1. [pc |-> "claim", state |-> s, provider |-> oauthState[s]] \in RequestState
      BY <1>1, KindsOfRequest DEF ReadState
    <2>2. QED BY <1>1, <1>a, <2>1, RequestMoves DEF ReadState, SocialTypeOK
  <1>2. ASSUME NEW r \in Requests, DeleteState(r) PROVE SocialInv'
    <2>1. [pc |-> "ask", provider |-> request[r].provider] \in RequestState
      BY <1>2, <1>a, RequestTypes, KindsOfRequest DEF DeleteState
    <2>2. oauthState' \in [States -> Providers \cup {Nothing, "unused"}]
      BY <1>2, <1>a DEF DeleteState, SocialTypeOK
    <2>3. QED BY <1>2, <1>a, <2>1, <2>2, RequestMoves DEF DeleteState, SocialTypeOK
  <1>3. ASSUME NEW r \in Requests, CreateRefused(r) \/ RequestDies(r) PROVE SocialInv'
    <2>1. killed' \subseteq Users
      BY <1>3, <1>a DEF CreateRefused, RequestDies, SocialTypeOK
    <2>2. Become(r, Idle) /\ UNCHANGED <<account, link, entered, oauthState>>
      BY <1>3 DEF CreateRefused, RequestDies, Finish
    <2>3. QED BY <1>a, <2>1, <2>2, RequestMoves, KindsOfRequest DEF SocialTypeOK, Idle
  <1>4. ASSUME NEW r \in Requests, NEW u \in Users, CreateUser(r, u) PROVE SocialInv'
    <2>1. request[r].uid \in Uids /\ request[r].email \in Emails
      BY <1>4, <1>a, RequestTypes DEF CreateUser
    <2>2. [pc |-> "attach", user |-> u, uid |-> request[r].uid] \in RequestState
      BY <2>1, KindsOfRequest
    <2>3. QED BY <1>4, <2>1, <2>2, AccountIsCreated DEF CreateUser
  <1>5. ASSUME NEW r \in Requests, NEW u \in Users, Signup(r, u) PROVE SocialInv'
    <2>1. request[r].email \in Emails
      BY <1>5, <1>a, RequestTypes DEF Signup
    <2>2. QED BY <1>5, <2>1, AccountIsCreated, KindsOfRequest DEF Signup, Finish, Idle
  <1>6. ASSUME NEW r \in Requests, NEW e \in Emails, CheckSignup(r, e) PROVE SocialInv'
    <2>1. [pc |-> "signup", email |-> e] \in RequestState
      BY KindsOfRequest
    <2>2. QED BY <1>6, <1>a, <2>1, RequestMoves DEF CheckSignup, SocialTypeOK
  <1>7. ASSUME NEW s \in States, StateExpires(s) \/ \E p \in Providers : LoginAPI(s, p)
        PROVE  SocialInv'
    <2>1. oauthState' \in [States -> Providers \cup {Nothing, "unused"}]
      BY <1>7, <1>a DEF StateExpires, LoginAPI, SocialTypeOK
    <2>2. UNCHANGED <<account, link, request, entered, killed>>
      BY <1>7 DEF StateExpires, LoginAPI
    <2>3. QED BY <2>1, <2>2 DEF SocialInv, SocialTypeOK, UsersExist, EntryHasLink, HasLink,
                                Linked, Stored
  <1>8. CASE UNCHANGED socialVars
    BY <1>8 DEF socialVars, SocialInv, SocialTypeOK, UsersExist, EntryHasLink, HasLink,
                Linked, Stored
  <1>9. QED BY <1>1, <1>2, <1>3, <1>4, <1>5, <1>6, <1>7, <1>8, FoundByUid, FoundByEmail,
               UserIsLinked, UserEnters, StatusIsSet
            DEF SocialNext, CallbackAPI, SignupAPI

\* Every reachable state is type correct and keeps the unique constraints.
THEOREM SocialTypes == SocialSpec => []SocialTypeOK
  <1>1. SocialInv => SocialTypeOK
    BY DEF SocialInv
  <1>2. QED BY <1>1, SocialInvInit, SocialInvNext, PTL DEF SocialSpec

\* A provider account opens one account, unless that user has another uid of the provider.
THEOREM OneAccount == SocialSpec => []OneAccountPerUid
  <1>1. SocialInv => OneAccountPerUid
    <2> SUFFICES ASSUME SocialInv, NEW x \in entered, NEW y \in entered,
                        x.uid = y.uid, x.user # y.user, Stored(x.user), Stored(y.user)
                 PROVE  \E z \in Linked : /\ z.user \in {x.user, y.user} /\ z.uid # x.uid
                                          /\ ProviderOf[z.uid] = ProviderOf[x.uid]
      BY DEF OneAccountPerUid
    <2>1. HasLink(x) /\ HasLink(y)
      BY DEF SocialInv, EntryHasLink
    <2>2. ~(x \in link /\ y \in link)
      BY DEF SocialInv, SocialTypeOK, Linked
    <2>3. QED BY <2>1, <2>2 DEF HasLink, Linked
  <1>2. QED BY <1>1, SocialInvInit, SocialInvNext, PTL DEF SocialSpec

-----------------------------------------------------------------------------
(* An account that a callback created gets its link *)

\* what excuses an account that nobody is about to link
Settled(u) ==
    \/ ~Stored(u)
    \/ \E x \in Linked : x.user = u
    \/ \E x \in link : /\ x.uid = account[u].origin
                       /\ account[x.user].email # account[u].email

\* the account that a callback is about to link was created for its uid
AttachIsOrigin ==
    \A r \in Requests : request[r].pc = "attach" =>
        account[request[r].user].origin = request[r].uid

CreatedInv == CreatedIsLinked /\ AttachIsOrigin

\* A step that leaves the accounts alone and lets a callback go only with the account settled
LEMMA LinksGrow ==
    ASSUME SocialInv, CreatedInv,
           account' = account, link \subseteq link', killed \subseteq killed',
           \A s \in Requests : request'[s].pc = "attach" => request'[s] = request[s],
           \A s \in Requests : request[s].pc = "attach" =>
               \/ request'[s] = request[s]
               \/ request[s].user \in killed'
               \/ \E v \in Users : v = request[s].user /\ Settled(v)'
    PROVE  CreatedInv'
  <1>1. AttachIsOrigin'
    BY DEF CreatedInv, AttachIsOrigin
  <1>2. ASSUME NEW u \in Users \ killed', Stored(u)', account'[u].origin # Nothing
        PROVE  Settled(u)' \/ \E r \in Requests : request'[r].pc = "attach" /\ request'[r].user = u
    <2>1. u \in Users \ killed /\ Stored(u) /\ account[u].origin # Nothing
      BY <1>2 DEF Stored
    <2>2. Settled(u) \/ \E r \in Requests : request[r].pc = "attach" /\ request[r].user = u
      BY <2>1 DEF CreatedInv, CreatedIsLinked, Settled
    <2>3. CASE Settled(u)
      BY <2>1, <2>3 DEF Settled, Linked, Stored
    <2>4. CASE \E r \in Requests : request[r].pc = "attach" /\ request[r].user = u
      BY <1>2, <2>4
    <2>5. QED BY <2>2, <2>3, <2>4
  <1>3. CreatedIsLinked'
    BY <1>2 DEF CreatedIsLinked, Settled
  <1>4. QED BY <1>1, <1>3 DEF CreatedInv

\* A step of a request that is not about to link an account it created
LEMMA OthersStayPut ==
    ASSUME SocialInv, CreatedInv, NEW r \in Requests, NEW rec, Become(r, rec),
           rec.pc # "attach", request[r].pc # "attach",
           account' = account, link \subseteq link', killed \subseteq killed'
    PROVE  CreatedInv'
  <1>1. \A s \in Requests : request'[s] = IF s = r THEN rec ELSE request[s]
    BY DEF Become, SocialInv, SocialTypeOK
  <1>2. QED BY <1>1, LinksGrow

\* The uid, or the user's place at the provider, is taken: of a uid another user has,
\* that user has another address.
LEMMA AttachSettles ==
    ASSUME SocialInv, CreatedInv, NEW r \in Requests, Attach(r)
    PROVE  CreatedInv'
  <1>1. request[r].pc = "attach" /\ account' = account /\ killed' = killed /\ link \subseteq link'
    BY DEF Attach
  <1>2. PICK u \in Users, uid \in Uids : u = request[r].user /\ uid = request[r].uid
    BY <1>1, RequestTypes DEF SocialInv
  <1>3. account[u].origin = uid
    BY <1>1, <1>2 DEF CreatedInv, AttachIsOrigin
  <1>4. Settled(u)'
    <2>1. CASE ~Stored(u)
      BY <1>1, <2>1 DEF Settled, Stored
    <2>2. CASE Stored(u) /\ LinksAt(u, ProviderOf[uid]) # {}
      BY <1>1, <2>2 DEF Settled, Stored, LinksAt, Linked
    <2>3. CASE Stored(u) /\ LinkOf(uid) # {}
      <3>1. PICK x \in link : Stored(x.user) /\ x.uid = uid
        BY <2>3 DEF LinkOf, Linked
      <3>2. x.user \in Users
        BY <3>1 DEF SocialInv, SocialTypeOK, Link
      <3>3. x.user = u \/ account[x.user].email # account[u].email
        BY <2>3, <3>1, <3>2 DEF SocialInv, SocialTypeOK
      <3>4. QED BY <1>1, <1>3, <3>1, <3>3 DEF Settled, Linked, Stored
    <2>4. CASE Stored(u) /\ link' = link \cup {[user |-> u, uid |-> uid]}
      <3>1. PICK x : x = [user |-> u, uid |-> uid]
        OBVIOUS
      <3>2. x \in Linked' /\ x.user = u
        BY <1>1, <2>4, <3>1 DEF Linked, Stored
      <3>3. QED BY <3>2 DEF Settled
    <2>5. QED BY <1>2, <2>1, <2>2, <2>3, <2>4 DEF Attach
  <1>5. PICK rec : Become(r, rec) /\ rec.pc # "attach"
    <2>1. request[r] \in UserState
      BY <1>1, RequestTypes DEF SocialInv, SocialTypeOK, RequestState, ClaimState, AskState,
         FindState, SignupState, Idle
    <2>2. Idle.pc # "attach" /\ [request[r] EXCEPT !.pc = "enter"].pc # "attach"
      BY <2>1 DEF Idle, UserState
    <2>3. QED BY <2>2 DEF Attach
  <1>6. \A s \in Requests : request'[s] = IF s = r THEN rec ELSE request[s]
    BY <1>5 DEF Become, SocialInv, SocialTypeOK
  <1>7. QED BY <1>1, <1>2, <1>4, <1>5, <1>6, LinksGrow

LEMMA CreationIsOwned ==
    ASSUME SocialInv, CreatedInv, NEW r \in Requests, NEW u \in Users,
           CreateUser(r, u) \/ Signup(r, u)
    PROVE  CreatedInv'
  <1>1. PICK e \in Emails, origin \in Uids \cup {Nothing}, rec \in RequestState :
          /\ Create(u, e, origin)
          /\ Become(r, rec)
          /\ rec.pc = "idle" \/ (rec.pc = "attach" /\ rec.user = u /\ rec.uid = origin)
          /\ origin = Nothing \/ rec.pc = "attach"
          /\ request[r].pc # "attach"
    <2>1. CASE CreateUser(r, u)
      <3>1. request[r].uid \in Uids /\ request[r].email \in Emails /\ request[r].pc = "create"
        BY <2>1, RequestTypes DEF CreateUser, SocialInv
      <3>2. [pc |-> "attach", user |-> u, uid |-> request[r].uid] \in RequestState
        BY <3>1, KindsOfRequest
      <3>3. QED BY <2>1, <3>1, <3>2 DEF CreateUser
    <2>2. CASE Signup(r, u)
      <3>1. request[r].email \in Emails /\ request[r].pc = "signup"
        BY <2>2, RequestTypes DEF Signup, SocialInv
      <3>2. QED BY <2>2, <3>1, KindsOfRequest DEF Signup, Finish, Idle
    <2>3. QED BY <2>1, <2>2
  <1>2. link' = link /\ killed' = killed
    BY DEF CreateUser, Signup
  <1>3. /\ account' \in [Users -> Account]
        /\ \A v \in Users : v # u => account'[v] = account[v]
        /\ account[u].status = "none"
        /\ account'[u].origin = origin
    BY <1>1, AccountsStayTyped DEF SocialInv, SocialTypeOK, Create
  <1>4. \A s \in Requests : request'[s] = IF s = r THEN rec ELSE request[s]
    BY <1>1 DEF Become, SocialInv, SocialTypeOK
  <1>5. \A x \in link : x.user \in Users /\ x.user # u
    BY <1>3 DEF SocialInv, SocialTypeOK, UsersExist, Link
  <1>6. AttachIsOrigin'
    <2> SUFFICES ASSUME NEW s \in Requests, request'[s].pc = "attach"
                 PROVE  account'[request'[s].user].origin = request'[s].uid
      BY DEF AttachIsOrigin
    <2>1. CASE s = r
      BY <1>1, <1>3, <1>4, <2>1
    <2>2. CASE s # r
      <3>1. request'[s] = request[s] /\ request[s].pc = "attach"
        BY <1>4, <2>2
      <3>2. request[s].user \in Users /\ request[s].user # u
        BY <1>3, <3>1, RequestTypes DEF SocialInv, UsersExist
      <3>3. QED BY <1>3, <3>1, <3>2 DEF CreatedInv, AttachIsOrigin
    <2>3. QED BY <2>1, <2>2
  <1>7. ASSUME NEW v \in Users \ killed', Stored(v)', account'[v].origin # Nothing
        PROVE  Settled(v)' \/ \E s \in Requests : request'[s].pc = "attach" /\ request'[s].user = v
    <2>1. CASE v = u
      BY <1>1, <1>3, <1>4, <1>7, <2>1
    <2>2. CASE v # u
      <3>1. account'[v] = account[v] /\ v \in Users \ killed /\ Stored(v)
        BY <1>2, <1>3, <1>7, <2>2 DEF Stored
      <3>2. Settled(v) \/ \E s \in Requests : request[s].pc = "attach" /\ request[s].user = v
        BY <1>7, <3>1 DEF CreatedInv, CreatedIsLinked, Settled
      <3>3. Settled(v) => Settled(v)'
        BY <1>2, <1>3, <1>5, <3>1 DEF Settled, Linked, Stored
      <3>4. QED BY <1>1, <1>4, <3>2, <3>3
    <2>3. QED BY <2>1, <2>2
  <1>8. CreatedIsLinked'
    BY <1>7 DEF CreatedIsLinked, Settled
  <1>9. QED BY <1>6, <1>8 DEF CreatedInv

LEMMA StatusKeepsLinks ==
    ASSUME SocialInv, CreatedInv, NEW u \in Users, NEW old, NEW new, SetStatus(u, old, new),
           old \in {"active", "inactive"}
    PROVE  CreatedInv'
  <1>1. \A v \in Users :
          /\ account'[v].email = account[v].email
          /\ account'[v].origin = account[v].origin
          /\ Stored(v)' => Stored(v)
    BY DEF SetStatus, SocialInv, SocialTypeOK, Account, Stored
  <1>2. UNCHANGED <<link, request, killed>>
    BY DEF SetStatus
  <1>3. \A x \in link : x.user \in Users
    BY DEF SocialInv, SocialTypeOK, Link
  <1>4. AttachIsOrigin'
    <2>1. \A s \in Requests : request[s].pc = "attach" => request[s].user \in Users
      BY RequestTypes DEF SocialInv
    <2>2. QED BY <1>1, <1>2, <2>1 DEF CreatedInv, AttachIsOrigin
  <1>5. ASSUME NEW v \in Users \ killed, Stored(v)', account'[v].origin # Nothing
        PROVE  Settled(v)' \/ \E s \in Requests : request[s].pc = "attach" /\ request[s].user = v
    <2>1. Stored(v) /\ account[v].origin # Nothing
      BY <1>1, <1>5
    <2>2. Settled(v) \/ \E s \in Requests : request[s].pc = "attach" /\ request[s].user = v
      BY <2>1 DEF CreatedInv, CreatedIsLinked, Settled
    <2>3. CASE \E x \in Linked : x.user = v
      <3>1. PICK x \in link : x.user = v
        BY <2>3 DEF Linked
      <3>2. x \in Linked'
        BY <1>2, <1>5, <3>1 DEF Linked, Stored
      <3>3. QED BY <3>1, <3>2 DEF Settled
    <2>4. CASE \E x \in link : /\ x.uid = account[v].origin
                              /\ account[x.user].email # account[v].email
      BY <1>1, <1>2, <1>3, <2>4 DEF Settled
    <2>5. QED BY <2>1, <2>2, <2>3, <2>4 DEF Settled
  <1>6. CreatedIsLinked'
    BY <1>2, <1>5 DEF CreatedIsLinked, Settled
  <1>7. QED BY <1>4, <1>6 DEF CreatedInv

LEMMA CreatedInvNext ==
    ASSUME SocialInv, CreatedInv, [SocialNext]_socialVars
    PROVE  CreatedInv'
  <1>a. Idle.pc # "attach"
    BY DEF Idle
  <1>1. CASE UNCHANGED socialVars
    BY <1>1, LinksGrow DEF socialVars
  <1>2. ASSUME NEW r \in Requests,
               \/ \E s \in States : ReadState(r, s)
               \/ DeleteState(r) \/ CreateRefused(r) \/ Enter(r)
               \/ \E e \in Emails : CheckSignup(r, e)
        PROVE  CreatedInv'
    BY <1>2, <1>a, OthersStayPut DEF ReadState, DeleteState, CreateRefused, Enter, CheckSignup, Finish
  <1>3. ASSUME NEW r \in Requests, NEW uid \in Uids, NEW e, FindUid(r, uid, e)
        PROVE  CreatedInv'
    <2>1. \A u : With("enter", u, uid).pc # "attach"
      BY <1>a DEF With
    <2>2. QED BY <1>3, <2>1, OthersStayPut DEF FindUid
  <1>4. ASSUME NEW r \in Requests, FindEmail(r) PROVE CreatedInv'
    <2>1. \A u : With("link", u, request[r].uid).pc # "attach"
      BY <1>a DEF With
    <2>2. request[r] \in FindState
      BY <1>4, RequestTypes DEF FindEmail, SocialInv, SocialTypeOK, RequestState, ClaimState,
         AskState, UserState, SignupState, Idle
    <2>3. [request[r] EXCEPT !.pc = "create"].pc # "attach"
      BY <2>2 DEF FindState
    <2>4. QED BY <1>4, <2>1, <2>3, OthersStayPut DEF FindEmail
  <1>5. ASSUME NEW r \in Requests, LinkExisting(r) PROVE CreatedInv'
    <2>1. request[r] \in UserState
      BY <1>5, RequestTypes DEF LinkExisting, SocialInv, SocialTypeOK, RequestState, ClaimState,
         AskState, FindState, SignupState, Idle
    <2>2. [request[r] EXCEPT !.pc = "enter"].pc # "attach"
      BY <2>1 DEF UserState
    <2>3. account' = account /\ link \subseteq link' /\ killed' = killed /\ request[r].pc = "link"
      BY <1>5 DEF LinkExisting
    <2>4. Become(r, Idle) \/ Become(r, [request[r] EXCEPT !.pc = "enter"])
      BY <1>5 DEF LinkExisting
    <2>5. QED BY <1>a, <2>2, <2>3, <2>4, OthersStayPut
  <1>6. ASSUME NEW r \in Requests, RequestDies(r) PROVE CreatedInv'
    <2>1. \A s \in Requests : request'[s] = IF s = r THEN Idle ELSE request[s]
      BY <1>6 DEF RequestDies, Finish, Become, SocialInv, SocialTypeOK
    <2>2. request[r].pc = "attach" => request[r].user \in killed'
      BY <1>6, RequestTypes DEF RequestDies, SocialInv
    <2>3. account' = account /\ link' = link /\ killed \subseteq killed'
      BY <1>6 DEF RequestDies
    <2>4. QED BY <1>a, <2>1, <2>2, <2>3, LinksGrow
  <1>7. ASSUME NEW s \in States, StateExpires(s) \/ \E p \in Providers : LoginAPI(s, p)
        PROVE  CreatedInv'
    BY <1>7, LinksGrow DEF StateExpires, LoginAPI
  <1>8. QED BY <1>1, <1>2, <1>3, <1>4, <1>5, <1>6, <1>7, AttachSettles, CreationIsOwned,
               StatusKeepsLinks, SocialAssumption
            DEF SocialNext, CallbackAPI, SignupAPI

\* An account that a callback created is linked, or about to be, unless the callback was
\* killed or the uid was linked meanwhile to an account under another address.
THEOREM CreatedAreLinked == SocialSpec => []CreatedIsLinked
  <1>1. SocialInit => CreatedInv
    BY DEF SocialInit, CreatedInv, CreatedIsLinked, AttachIsOrigin, Stored, Idle
  <1>2. CreatedInv => CreatedIsLinked
    BY DEF CreatedInv
  <1>3. SocialInv /\ CreatedInv /\ [SocialNext]_socialVars => CreatedInv'
    BY CreatedInvNext
  <1>4. QED BY <1>1, <1>2, <1>3, SocialInvInit, SocialInvNext, PTL DEF SocialSpec


\* A provider account and its account here belong together, in both directions.
THEOREM UidsHaveTheirAccounts == SocialSpec => []UidHasItsAccount
  <1>1. OneAccountPerUid /\ CreatedIsLinked => UidHasItsAccount
    BY DEF UidHasItsAccount
  <1>2. QED BY <1>1, OneAccount, CreatedAreLinked, PTL

-----------------------------------------------------------------------------
(* EmailCodes: a used code never comes back, what counter and mails say serially *)

ClientState == Sending \cup Verifying \cup {Free}

\* what a request that verifies a code knows of it
Sound(rec, n) ==
    rec \in Verifying =>
        /\ rec.typed <= n
        /\ rec.pc \in {"create", "save", "drop"} => rec.typed # None
        /\ rec.pc = "compare" => rec.failed < MaxAttempts

\* what is known of a key whatever else happens to it
KeySound(k) ==
    /\ codeEntry[k].code # None => /\ codeEntry[k].code = issued[k]
                                   /\ codeEntry[k].until <= clock + CodeTTL
    /\ \A n \in spent[k] : n <= issued[k] /\ n # codeEntry[k].code

CodesInv ==
    /\ EmailCodesTypeOK
    /\ \A c \in Clients : client[c].pc # "free" => Sound(client[c], issued[client[c].key])
    /\ \A k \in Keys : KeySound(k)

-----------------------------------------------------------------------------
LEMMA CodeTypes ==
    /\ Codes \subseteq Nat \ {0} /\ None = 0 /\ None \notin Codes
    /\ \A n \in Codes \cup {None} : n \in Nat
  BY EmailCodesAssumption DEF Codes, None

LEMMA EntryTypes ==
    /\ NoEntry \in Entry /\ NoEntry.code = None /\ NoEntry.until = 0
    /\ NoCounter \in Counter /\ NoCounter.n = 0 /\ NoCounter.until = 0
    /\ Free \in ClientState /\ Free.pc = "free" /\ Free \notin Verifying
  BY EmailCodesAssumption DEF NoEntry, Entry, NoCounter, Counter, Free, ClientState, Verifying, None

\* the state of a request that is at one of the steps
LEMMA SendingAt ==
    ASSUME EmailCodesTypeOK, NEW c \in Clients,
           client[c].pc \in {"cooldown", "store", "clear", "mail"}
    PROVE  client[c] \in Sending /\ client[c].key \in Keys
  <1>1. client[c] \in Sending \cup Verifying \cup {Free}
    BY DEF EmailCodesTypeOK
  <1>2. client[c] \notin Verifying /\ client[c] # Free
    BY DEF Verifying, Free
  <1>3. QED BY <1>1, <1>2 DEF Sending

LEMMA VerifyingAt ==
    ASSUME EmailCodesTypeOK, NEW c \in Clients,
           client[c].pc \in {"compare", "count", "kill", "create", "save", "drop", "uncount"}
    PROVE  client[c] \in Verifying /\ client[c].key \in Keys
  <1>1. client[c] \in Sending \cup Verifying \cup {Free}
    BY DEF EmailCodesTypeOK
  <1>2. client[c] \notin Sending /\ client[c] # Free
    BY DEF Sending, Free
  <1>3. QED BY <1>1, <1>2 DEF Verifying

LEMMA BusyTypes ==
    ASSUME EmailCodesTypeOK, NEW c \in Clients, client[c].pc # "free"
    PROVE  client[c].key \in Keys
  <1>1. client[c] \in Sending \cup Verifying \cup {Free}
    BY DEF EmailCodesTypeOK
  <1>2. QED BY <1>1 DEF Sending, Verifying, Free

\* one request goes on, the others stay where they are
LEMMA GotoTypes ==
    ASSUME EmailCodesTypeOK, NEW c \in Clients, NEW rec \in ClientState, Goto(c, rec)
    PROVE  /\ client' \in [Clients -> ClientState]
           /\ client'[c] = rec
           /\ \A d \in Clients \ {c} : client'[d] = client[d]
  BY DEF EmailCodesTypeOK, Goto, ClientState

\* A step of one request keeps what is known of all of them, if no number went down.
LEMMA RequestsStaySound ==
    ASSUME CodesInv, NEW c \in Clients, NEW rec \in ClientState, Goto(c, rec),
           \A k \in Keys : issued'[k] \in Nat /\ issued[k] \in Nat /\ issued[k] <= issued'[k],
           rec.pc # "free" => Sound(rec, issued'[rec.key])
    PROVE  \A d \in Clients : client'[d].pc # "free" => Sound(client'[d], issued'[client'[d].key])
  <1> SUFFICES ASSUME NEW d \in Clients, client'[d].pc # "free"
               PROVE  Sound(client'[d], issued'[client'[d].key])
    OBVIOUS
  <1>1. CASE d = c
    BY <1>1, GotoTypes DEF CodesInv
  <1>2. CASE d # c
    <2>1. client'[d] = client[d] /\ client[d].key \in Keys
      BY <1>2, GotoTypes, BusyTypes DEF CodesInv
    <2>2. Sound(client[d], issued[client[d].key])
      BY <2>1 DEF CodesInv
    <2>3. client[d] \in Verifying => client[d].typed \in Codes \cup {None}
      BY DEF Verifying
    <2>4. client[d] \in Verifying => client[d].typed \in Nat
      <3> DEFINE n == client[d].typed
      <3> HIDE DEF n
      <3>1. n \in Codes \cup {None} => n \in Nat
        BY CodeTypes
      <3>2. QED BY <2>3, <3>1 DEF n
    <2>5. QED BY <2>1, <2>2, <2>4 DEF Sound
  <1>3. QED BY <1>1, <1>2

LEMMA CodesHoldInitially == EmailCodesInit => CodesInv
  <1> SUFFICES ASSUME EmailCodesInit PROVE CodesInv
    OBVIOUS
  <1>1. EmailCodesTypeOK
    BY EntryTypes, EmailCodesAssumption DEF EmailCodesInit, EmailCodesTypeOK, ClientState
  <1>2. QED BY <1>1, EntryTypes DEF EmailCodesInit, CodesInv, KeySound

\* Keys stay sound as long as entries only disappear and the clock only moves on.
LEMMA KeysStaySound ==
    ASSUME CodesInv, NEW k \in Keys,
           codeEntry'[k] \in {codeEntry[k], NoEntry}, UNCHANGED <<issued, spent>>,
           clock' \in Nat, clock <= clock'
    PROVE  KeySound(k)'
  <1>1. KeySound(k) /\ codeEntry[k] \in Entry /\ clock \in Nat /\ spent[k] \subseteq Codes
    BY EmailCodesAssumption DEF CodesInv, EmailCodesTypeOK
  <1>2. CASE codeEntry'[k] = NoEntry
    BY <1>1, <1>2, EntryTypes, CodeTypes DEF KeySound
  <1>3. CASE codeEntry'[k] = codeEntry[k]
    BY <1>1, <1>3, EmailCodesAssumption DEF KeySound, Entry
  <1>4. QED BY <1>2, <1>3

LEMMA ClockTypes == EmailCodesTypeOK => clock \in Nat /\ clock <= clock
  BY EmailCodesAssumption DEF EmailCodesTypeOK

LEMMA IssuedTypes ==
    ASSUME EmailCodesTypeOK, UNCHANGED issued
    PROVE  \A k \in Keys : issued'[k] \in Nat /\ issued[k] \in Nat /\ issued[k] <= issued'[k]
  <1>1. \A k \in Keys : issued[k] \in 0..MaxCodes
    BY DEF EmailCodesTypeOK
  <1>2. QED BY <1>1, EmailCodesAssumption

\* what a user may type is a code or none
LEMMA TypedTypes ==
    ASSUME EmailCodesTypeOK, NEW k \in Keys, NEW typed \in Typed(k)
    PROVE  typed \in Codes \cup {None} /\ typed <= issued[k]
  <1>1. issued[k] \in 0..MaxCodes
    BY DEF EmailCodesTypeOK
  <1>2. QED BY <1>1, EmailCodesAssumption DEF Typed, Codes, None

\* A request that takes up a key knows at most what was issued.
LEMMA TakeUpIsSound ==
    ASSUME CodesInv, NEW c \in Clients, NEW rec \in Sending \cup Verifying, TakeUp(c, rec),
           Sound(rec, issued[rec.key]),
           UNCHANGED <<member, codeEntry, cooldown, attempts, issued, mailed, clock, wrong, spent,
                       cut>>
    PROVE  CodesInv'
  <1>1. Goto(c, rec) /\ rec \in ClientState /\ rec.key \in Keys
    BY DEF TakeUp, ClientState, Sending, Verifying
  <1>2. client' \in [Clients -> ClientState]
    BY <1>1, GotoTypes DEF CodesInv
  <1>3. overlapped' \subseteq Keys
    BY <1>1 DEF TakeUp, CodesInv, EmailCodesTypeOK
  <1>4. EmailCodesTypeOK'
    BY <1>2, <1>3 DEF CodesInv, EmailCodesTypeOK, ClientState
  <1>5. \A d \in Clients : client'[d].pc # "free" => Sound(client'[d], issued'[client'[d].key])
    BY <1>1, IssuedTypes, RequestsStaySound DEF CodesInv
  <1>6. \A k \in Keys : KeySound(k)'
    BY KeysStaySound, ClockTypes DEF CodesInv
  <1>7. QED BY <1>4, <1>5, <1>6 DEF CodesInv

LEMMA LookupsAreSound ==
    ASSUME CodesInv, NEW c \in Clients, NEW k \in Keys
    PROVE  /\ SendLookup(c, k) => CodesInv'
           /\ \A typed \in Typed(k) : ReadAttempts(c, k, typed) \/ SignupCheck(c, k, typed)
                => CodesInv'
  <1>1. ASSUME SendLookup(c, k) PROVE CodesInv'
    <2> DEFINE rec == [pc |-> "cooldown", key |-> k, seen |-> member[k[2]], code |-> None]
    <2>1. k[2] \in Addresses
      BY DEF Keys
    <2>2. rec \in Sending /\ rec \notin Verifying
      BY <2>1 DEF Sending, Verifying, CodesInv, EmailCodesTypeOK
    <2>3. QED BY <1>1, <2>2, TakeUpIsSound DEF SendLookup, Sound
  <1>2. ASSUME NEW typed \in Typed(k), ReadAttempts(c, k, typed) PROVE CodesInv'
    <2> DEFINE rec == [pc |-> "compare", key |-> k, typed |-> typed,
                       failed |-> FailedAttempts(k)]
    <2>1. FailedAttempts(k) \in 0..MaxAttempts /\ FailedAttempts(k) < MaxAttempts
      BY <1>2 DEF ReadAttempts, FailedAttempts, CodesInv, EmailCodesTypeOK, Counter
    <2>2. typed \in Codes \cup {None} /\ typed <= issued[k]
      BY TypedTypes DEF CodesInv
    <2>3. rec \in Verifying
      BY <2>1, <2>2 DEF Verifying
    <2>4. Sound(rec, issued[rec.key])
      BY <2>1, <2>2 DEF Sound
    <2>5. QED BY <1>2, <2>3, <2>4, TakeUpIsSound DEF ReadAttempts
  <1>3. ASSUME NEW typed \in Typed(k), SignupCheck(c, k, typed) PROVE CodesInv'
    <2> DEFINE rec == [pc |-> "create", key |-> k, typed |-> typed, failed |-> 0]
    <2>1. typed \in Codes \cup {None} /\ typed <= issued[k] /\ typed # None
      BY <1>3, TypedTypes DEF CodesInv, SignupCheck
    <2>2. rec \in Verifying
      BY <2>1, EmailCodesAssumption DEF Verifying
    <2>3. Sound(rec, issued[rec.key])
      BY <2>1 DEF Sound
    <2>4. QED BY <1>3, <2>2, <2>3, TakeUpIsSound DEF SignupCheck
  <1>4. QED BY <1>1, <1>2, <1>3

\* the tables and keys that a step may write freely, within their types
TablesOK ==
    /\ member \in [Addresses -> {"none", "active", "deactivated", "social"}]
    /\ cooldown \in [Keys -> Nat]
    /\ attempts \in [Keys -> Counter]
    /\ mailed \in [Keys -> Codes \cup {None}]
    /\ wrong \in [Keys -> Nat]
    /\ cut \in [Keys -> SUBSET CutPoints]

\* A step that issues and spends nothing and stores no code.
LEMMA StepIsSound ==
    ASSUME CodesInv, NEW c \in Clients, NEW rec \in ClientState, Goto(c, rec),
           rec.pc # "free" => rec.key \in Keys /\ Sound(rec, issued[rec.key]),
           codeEntry' = codeEntry \/ \E k \in Keys : DeleteCode(k),
           UNCHANGED <<issued, spent, clock, overlapped>>, TablesOK'
    PROVE  CodesInv'
  <1>1. client' \in [Clients -> ClientState]
    BY GotoTypes DEF CodesInv
  <1>2. /\ codeEntry' \in [Keys -> Entry]
        /\ \A k \in Keys : codeEntry'[k] \in {codeEntry[k], NoEntry}
    BY EntryTypes DEF DeleteCode, CodesInv, EmailCodesTypeOK
  <1>3. EmailCodesTypeOK'
    BY <1>1, <1>2 DEF CodesInv, EmailCodesTypeOK, ClientState, TablesOK
  <1>4. \A d \in Clients : client'[d].pc # "free" => Sound(client'[d], issued'[client'[d].key])
    BY IssuedTypes, RequestsStaySound DEF CodesInv
  <1>5. \A k \in Keys : KeySound(k)'
    BY <1>2, KeysStaySound, ClockTypes DEF CodesInv
  <1>6. QED BY <1>3, <1>4, <1>5 DEF CodesInv

LEMMA TablesAreTyped == EmailCodesTypeOK => TablesOK
  BY DEF EmailCodesTypeOK, TablesOK

LEMMA CountersStayTyped ==
    ASSUME EmailCodesTypeOK, NEW k \in Keys, DeleteCounter(k)
    PROVE  attempts' \in [Keys -> Counter]
  BY EntryTypes DEF EmailCodesTypeOK, DeleteCounter

\* the steps of send_email_code that store no code
LEMMA SendingIsSound ==
    ASSUME CodesInv, NEW c \in Clients, SetCooldown(c) \/ ClearAttempts(c) \/ SendMail(c)
    PROVE  CodesInv'
  <1> DEFINE rec == client[c]
  <1>1. rec \in Sending /\ rec.key \in Keys /\ rec.code \in Codes \cup {None}
    <2>1. rec \in Sending
      BY SendingAt DEF SetCooldown, ClearAttempts, SendMail, At, CodesInv
    <2>2. QED BY <2>1 DEF Sending
  <1>2. \A pc \in {"store", "mail"} :
          LET new == [rec EXCEPT !.pc = pc]
          IN new \in ClientState /\ new.key \in Keys /\ new \notin Verifying
    BY <1>1 DEF Sending, Verifying, ClientState
  <1>3. CASE SetCooldown(c)
    <2>1. clock + CooldownTTL \in Nat
      BY ClockTypes, EmailCodesAssumption DEF CodesInv
    <2>2. TablesOK'
      BY <1>1, <1>3, <2>1, TablesAreTyped DEF SetCooldown, TablesOK, CodesInv
    <2>3. PICK new \in {[rec EXCEPT !.pc = "store"], Free} : Goto(c, new)
      BY <1>3 DEF SetCooldown, End
    <2>4. new \in ClientState /\ (new.pc # "free" => new.key \in Keys /\ new \notin Verifying)
      BY <1>2, EntryTypes
    <2>5. QED BY <1>3, <2>2, <2>3, <2>4, StepIsSound DEF SetCooldown, Sound
  <1>4. CASE ClearAttempts(c)
    <2>1. TablesOK'
      BY <1>1, <1>4, TablesAreTyped, CountersStayTyped DEF ClearAttempts, TablesOK, CodesInv
    <2>2. Goto(c, [rec EXCEPT !.pc = "mail"])
      BY <1>4 DEF ClearAttempts
    <2>3. QED BY <1>2, <1>4, <2>1, <2>2, StepIsSound DEF ClearAttempts, Sound
  <1>5. CASE SendMail(c)
    <2>1. mailed' \in [Keys -> Codes \cup {None}]
      BY <1>1, <1>5 DEF SendMail, CodesInv, EmailCodesTypeOK
    <2>2. TablesOK'
      BY <1>5, <2>1, TablesAreTyped DEF SendMail, TablesOK, CodesInv
    <2>3. QED BY <1>5, <2>2, StepIsSound, EntryTypes DEF SendMail, End
  <1>6. QED BY <1>3, <1>4, <1>5

\* Only the sender stores a code: the next one, which nobody has used.
LEMMA StoringIsSound ==
    ASSUME CodesInv, NEW c \in Clients, StoreCode(c)
    PROVE  CodesInv'
  <1> PICK k \in Keys : k = client[c].key
    BY SendingAt DEF StoreCode, At, CodesInv
  <1> DEFINE rec == [client[c] EXCEPT !.pc = "clear", !.code = issued[k] + 1]
  <1> DEFINE ent == [code |-> issued[k] + 1, until |-> clock + CodeTTL]
  <1>1. client[c] \in Sending /\ issued[k] + 1 \in Codes /\ Goto(c, rec)
    BY SendingAt DEF StoreCode, At, CodesInv
  <1>2. rec \in Sending /\ rec \notin Verifying /\ rec.key = k
    BY <1>1 DEF Sending, Verifying
  <1>3. /\ issued' = [issued EXCEPT ![k] = issued[k] + 1]
        /\ codeEntry' = [codeEntry EXCEPT ![k] = ent]
        /\ wrong' = [wrong EXCEPT ![k] = 0]
        /\ cut' = [cut EXCEPT ![k] = {}]
        /\ UNCHANGED <<member, cooldown, attempts, mailed, clock, spent, overlapped>>
    BY DEF StoreCode
  <1>4. /\ \A x \in Keys : issued[x] \in Nat /\ spent[x] \subseteq Codes
        /\ clock + CodeTTL \in Nat /\ ent \in Entry
        /\ issued[k] + 1 \in 0..MaxCodes
    <2>1. \A x \in Keys : issued[x] \in Nat /\ spent[x] \subseteq Codes
      BY EmailCodesAssumption DEF CodesInv, EmailCodesTypeOK
    <2>2. clock + CodeTTL \in Nat
      BY ClockTypes, EmailCodesAssumption DEF CodesInv
    <2>3. QED BY <1>1, <2>1, <2>2, EmailCodesAssumption DEF Entry, Codes
  <1>5. EmailCodesTypeOK'
    <2>1. client' \in [Clients -> ClientState]
      BY <1>1, <1>2, GotoTypes DEF CodesInv, ClientState
    <2>2. QED BY <1>3, <1>4, <2>1 DEF CodesInv, EmailCodesTypeOK, ClientState
  <1>6. \A x \in Keys : issued'[x] \in Nat /\ issued[x] \in Nat /\ issued[x] <= issued'[x]
    BY <1>3, <1>4 DEF CodesInv, EmailCodesTypeOK
  <1>7. \A d \in Clients : client'[d].pc # "free" => Sound(client'[d], issued'[client'[d].key])
    BY <1>1, <1>2, <1>6, RequestsStaySound DEF ClientState, Sound
  <1>8. ASSUME NEW x \in Keys PROVE KeySound(x)'
    <2>1. CASE x = k
      <3>1. codeEntry'[k] = ent /\ issued'[k] = issued[k] + 1
        BY <1>3 DEF CodesInv, EmailCodesTypeOK
      <3>2. \A n \in spent[k] : n \in Nat /\ n <= issued[k]
        BY <1>4, CodeTypes DEF CodesInv, KeySound
      <3>3. \A n \in spent[k] : n <= issued[k] + 1 /\ n # issued[k] + 1
        BY <1>4, <3>2
      <3>4. clock + CodeTTL <= clock + CodeTTL
        BY <1>4
      <3>5. QED BY <1>3, <2>1, <3>1, <3>3, <3>4 DEF KeySound
    <2>2. CASE x # k
      BY <1>3, <2>2 DEF CodesInv, KeySound, EmailCodesTypeOK
    <2>3. QED BY <2>1, <2>2
  <1>9. QED BY <1>5, <1>7, <1>8 DEF CodesInv

\* a request that goes on with a verification keeps what it typed
LEMMA GoOnIsSound ==
    ASSUME CodesInv, NEW c \in Clients, client[c] \in Verifying,
           NEW pc \in {"count", "kill", "create", "save", "drop", "uncount"},
           pc \in {"create", "save", "drop"} => client[c].typed # None
    PROVE  LET rec == [client[c] EXCEPT !.pc = pc]
           IN /\ rec \in ClientState /\ rec.pc = pc /\ rec.key = client[c].key
              /\ rec.key \in Keys /\ rec.failed = client[c].failed
              /\ Sound(rec, issued[rec.key])
  <1> DEFINE rec == [client[c] EXCEPT !.pc = pc]
  <1>1. rec \in Verifying /\ rec.pc = pc /\ rec.key = client[c].key /\ rec.key \in Keys
        /\ rec.typed = client[c].typed /\ rec.failed = client[c].failed
    BY DEF Verifying
  <1>2. client[c].pc # "free"
    BY DEF Verifying
  <1>3. Sound(client[c], issued[client[c].key])
    BY <1>2 DEF CodesInv
  <1>4. QED BY <1>1, <1>3 DEF Sound, ClientState

LEMMA ComparingIsSound ==
    ASSUME CodesInv, NEW c \in Clients, Compare(c)
    PROVE  CodesInv'
  <1> PICK k \in Keys : k = client[c].key
    BY VerifyingAt DEF Compare, At, CodesInv
  <1>1. client[c] \in Verifying /\ client[c].pc = "compare"
    BY VerifyingAt DEF Compare, At, CodesInv
  <1>2. client[c].failed < MaxAttempts /\ client[c].failed \in 0..MaxAttempts
    BY <1>1 DEF CodesInv, Sound, Verifying
  <1>3. TablesOK'
    <2>1. wrong[k] + 1 \in Nat
      BY DEF CodesInv, EmailCodesTypeOK
    <2>2. wrong' \in [Keys -> Nat]
      BY <2>1 DEF Compare, CodesInv, EmailCodesTypeOK
    <2>3. QED BY <2>2, TablesAreTyped DEF Compare, TablesOK, CodesInv
  <1>4. /\ codeEntry' = codeEntry
        /\ UNCHANGED <<issued, spent, clock, overlapped>>
    BY DEF Compare
  <1>5. CASE StoredCode(k) # None /\ StoredCode(k) = client[c].typed
    <2>1. Goto(c, [client[c] EXCEPT !.pc = "save"]) \/ Goto(c, Free)
      BY <1>5 DEF Compare, End
    <2>2. CASE Goto(c, Free)
      BY <1>3, <1>4, <2>2, EntryTypes, StepIsSound
    <2>3. CASE Goto(c, [client[c] EXCEPT !.pc = "save"])
      BY <1>1, <1>3, <1>4, <1>5, <2>3, GoOnIsSound, StepIsSound
    <2>4. QED BY <2>1, <2>2, <2>3
  <1>6. CASE ~(StoredCode(k) # None /\ StoredCode(k) = client[c].typed)
    <2> DEFINE rec == [client[c] EXCEPT !.pc = "count", !.failed = client[c].failed + 1]
    <2>1. Goto(c, rec)
      BY <1>6 DEF Compare
    <2>2. client[c].failed + 1 \in 0..MaxAttempts
      BY <1>2, EmailCodesAssumption
    <2>3. rec \in Verifying /\ rec.pc = "count" /\ rec.key = k /\ rec.typed = client[c].typed
      BY <1>1, <2>2 DEF Verifying
    <2>4. Sound(rec, issued[k])
      BY <1>1, <2>3 DEF CodesInv, Sound
    <2>5. QED BY <1>3, <1>4, <2>1, <2>3, <2>4, StepIsSound DEF ClientState
  <1>7. QED BY <1>5, <1>6

LEMMA CountingIsSound ==
    ASSUME CodesInv, NEW c \in Clients, CountFailed(c)
    PROVE  CodesInv'
  <1> PICK k \in Keys : k = client[c].key
    BY VerifyingAt DEF CountFailed, At, CodesInv
  <1>1. client[c] \in Verifying /\ client[c].failed \in 0..MaxAttempts
    BY VerifyingAt DEF CountFailed, At, CodesInv, Verifying
  <1>2. TablesOK'
    <2>1. clock + BlockTTL \in Nat
      BY ClockTypes, EmailCodesAssumption DEF CodesInv
    <2>2. [n |-> client[c].failed, until |-> clock + BlockTTL] \in Counter
      BY <1>1, <2>1 DEF Counter
    <2>3. QED BY <2>2, TablesAreTyped DEF CountFailed, TablesOK, CodesInv
  <1>3. codeEntry' = codeEntry /\ UNCHANGED <<issued, spent, clock, overlapped>>
    BY DEF CountFailed
  <1>4. CASE Goto(c, Free)
    BY <1>2, <1>3, <1>4, EntryTypes, StepIsSound
  <1>5. CASE Goto(c, [client[c] EXCEPT !.pc = "kill"])
    BY <1>1, <1>2, <1>3, <1>5, GoOnIsSound, StepIsSound
  <1>6. QED BY <1>4, <1>5 DEF CountFailed, End

LEMMA EndingIsSound ==
    ASSUME CodesInv, NEW c \in Clients, KillCode(c) \/ DropCounter(c)
    PROVE  CodesInv'
  <1>1. client[c].key \in Keys
    BY VerifyingAt DEF KillCode, DropCounter, At, CodesInv
  <1>2. TablesOK'
    BY <1>1, TablesAreTyped, CountersStayTyped DEF KillCode, DropCounter, TablesOK, CodesInv
  <1>3. QED
    BY <1>1, <1>2, EntryTypes, StepIsSound DEF KillCode, DropCounter, End

LEMMA UsingIsSound ==
    ASSUME CodesInv, NEW c \in Clients, SavePassword(c) \/ CreateMember(c)
    PROVE  CodesInv'
  <1>1. /\ client[c] \in Verifying /\ client[c].pc \in {"save", "create"}
        /\ client[c].key \in Keys
    BY VerifyingAt DEF SavePassword, CreateMember, At, CodesInv
  <1>2. client[c].typed # None
    BY <1>1 DEF CodesInv, Sound
  <1>3. TablesOK'
    <2>1. client[c].key[2] \in Addresses
      BY <1>1 DEF Keys
    <2>2. member' \in [Addresses -> {"none", "active", "deactivated", "social"}]
      BY <2>1 DEF SavePassword, CreateMember, CodesInv, EmailCodesTypeOK
    <2>3. QED BY <2>2, TablesAreTyped DEF SavePassword, CreateMember, TablesOK, CodesInv
  <1>4. codeEntry' = codeEntry /\ UNCHANGED <<issued, spent, clock, overlapped>>
    BY DEF SavePassword, CreateMember
  <1>5. CASE Goto(c, Free)
    BY <1>3, <1>4, <1>5, EntryTypes, StepIsSound
  <1>6. CASE Goto(c, [client[c] EXCEPT !.pc = "drop"])
    BY <1>1, <1>2, <1>3, <1>4, <1>6, GoOnIsSound, StepIsSound
  <1>7. QED BY <1>5, <1>6 DEF SavePassword, CreateMember, End

\* The code is gone with the step that spends it.
LEMMA DroppingIsSound ==
    ASSUME CodesInv, NEW c \in Clients, DropCode(c)
    PROVE  CodesInv'
  <1> PICK k \in Keys : k = client[c].key
    BY VerifyingAt DEF DropCode, At, CodesInv
  <1> DEFINE rec == [client[c] EXCEPT !.pc = "uncount"]
  <1>1. /\ client[c] \in Verifying /\ client[c].pc = "drop" /\ Goto(c, rec)
        /\ codeEntry' = [codeEntry EXCEPT ![k] = NoEntry]
        /\ spent' = [spent EXCEPT ![k] = @ \cup {client[c].typed}]
        /\ UNCHANGED <<member, cooldown, attempts, issued, mailed, clock, wrong, overlapped,
                       cut>>
    BY VerifyingAt DEF DropCode, At, CodesInv, DeleteCode
  <1>2. client[c].typed \in Codes /\ client[c].typed <= issued[k]
    BY <1>1 DEF CodesInv, Sound, Verifying
  <1>3. rec \in ClientState /\ rec.pc # "free" /\ Sound(rec, issued[rec.key])
    BY <1>1, GoOnIsSound
  <1>4. EmailCodesTypeOK'
    <2>1. client' \in [Clients -> ClientState]
      BY <1>1, <1>3, GotoTypes DEF CodesInv
    <2>2. QED BY <1>1, <1>2, <2>1, EntryTypes DEF CodesInv, EmailCodesTypeOK, ClientState
  <1>5. \A d \in Clients : client'[d].pc # "free" => Sound(client'[d], issued'[client'[d].key])
    BY <1>1, <1>3, IssuedTypes, RequestsStaySound DEF CodesInv
  <1>6. ASSUME NEW x \in Keys PROVE KeySound(x)'
    <2>1. CASE x = k
      <3>1. codeEntry'[k] = NoEntry /\ spent'[k] = spent[k] \cup {client[c].typed}
        BY <1>1 DEF CodesInv, EmailCodesTypeOK
      <3>2. \A n \in spent'[k] : n \in Codes /\ n <= issued[k]
        BY <1>2, <3>1 DEF CodesInv, EmailCodesTypeOK, KeySound
      <3>3. QED BY <1>1, <2>1, <3>1, <3>2, CodeTypes, EntryTypes DEF KeySound
    <2>2. CASE x # k
      BY <1>1, <2>2 DEF CodesInv, KeySound, EmailCodesTypeOK
    <2>3. QED BY <2>1, <2>2
  <1>7. QED BY <1>4, <1>5, <1>6 DEF CodesInv

\* A request that dies leaves a note and nothing else.
LEMMA DyingIsSound ==
    ASSUME CodesInv, NEW c \in Clients, CodeRequestDies(c)
    PROVE  CodesInv'
  <1>1. client[c].key \in Keys
    BY BusyTypes DEF CodeRequestDies, At, CodesInv
  <1>2. cut' \in [Keys -> SUBSET CutPoints]
    BY <1>1 DEF CodeRequestDies, CodesInv, EmailCodesTypeOK
  <1>3. TablesOK'
    BY <1>2, TablesAreTyped DEF CodeRequestDies, TablesOK, CodesInv
  <1>4. QED BY <1>3, EntryTypes, StepIsSound DEF CodeRequestDies, End

LEMMA TimeIsSound ==
    ASSUME CodesInv, PassTime \/ \E a \in Addresses : Deactivate(a)
    PROVE  CodesInv'
  <1>1. CASE PassTime
    <2>1. clock' \in 0..MaxClock /\ clock' \in Nat /\ clock <= clock'
      BY <1>1, EmailCodesAssumption DEF PassTime, CodesInv, EmailCodesTypeOK
    <2>2. /\ codeEntry' \in [Keys -> Entry] /\ attempts' \in [Keys -> Counter]
          /\ cooldown' \in [Keys -> Nat]
      BY <1>1, EntryTypes DEF PassTime, CodesInv, EmailCodesTypeOK
    <2>3. EmailCodesTypeOK'
      BY <1>1, <2>1, <2>2 DEF PassTime, CodesInv, EmailCodesTypeOK
    <2>4. \A k \in Keys : KeySound(k)'
      BY <1>1, <2>1, KeysStaySound DEF PassTime
    <2>5. QED BY <1>1, <2>3, <2>4 DEF CodesInv, PassTime
  <1>2. ASSUME NEW a \in Addresses, Deactivate(a) PROVE CodesInv'
    <2>1. EmailCodesTypeOK'
      BY <1>2 DEF Deactivate, CodesInv, EmailCodesTypeOK
    <2>2. QED BY <1>2, <2>1 DEF Deactivate, CodesInv, KeySound
  <1>3. QED BY <1>1, <1>2

\* Every step preserves the invariant.
LEMMA CodesArePreserved ==
    ASSUME CodesInv, [EmailCodesNext]_codeVars
    PROVE  CodesInv'
  <1>1. CASE UNCHANGED codeVars
    BY <1>1 DEF codeVars, CodesInv, EmailCodesTypeOK, KeySound
  <1>2. ASSUME NEW c \in Clients, SendEmailCode(c) PROVE CodesInv'
    BY <1>2, LookupsAreSound, SendingIsSound, StoringIsSound DEF SendEmailCode
  <1>3. ASSUME NEW c \in Clients, ResetPassword(c) PROVE CodesInv'
    BY <1>3, LookupsAreSound, ComparingIsSound, CountingIsSound, EndingIsSound, UsingIsSound
       DEF ResetPassword
  <1>4. ASSUME NEW c \in Clients, SignupWithCode(c) PROVE CodesInv'
    BY <1>4, LookupsAreSound, UsingIsSound DEF SignupWithCode
  <1>5. ASSUME NEW c \in Clients, DropCode(c) \/ DropCounter(c) PROVE CodesInv'
    BY <1>5, DroppingIsSound, EndingIsSound
  <1>6. QED
    BY <1>1, <1>2, <1>3, <1>4, <1>5, DyingIsSound, TimeIsSound DEF EmailCodesNext

\* Every state of every behaviour has the types EmailCodesTypeOK says: no request counts
\* past the limit of attempts.
THEOREM EmailCodesTypesAreInvariant == EmailCodesSpec => []EmailCodesTypeOK
  <1>1. CodesInv => EmailCodesTypeOK
    BY DEF CodesInv
  <1>2. QED BY <1>1, CodesHoldInitially, CodesArePreserved, PTL DEF EmailCodesSpec

\* A code that has opened an account or changed a password never comes back, whatever
\* other requests for the address do in the meantime.
THEOREM SpentCodesStayGone == EmailCodesSpec => []SpentCodeIsGone
  <1>1. CodesInv => SpentCodeIsGone
    BY DEF CodesInv, KeySound, SpentCodeIsGone
  <1>2. QED BY <1>1, CodesHoldInitially, CodesArePreserved, PTL DEF EmailCodesSpec

-----------------------------------------------------------------------------
(* Requests for an address that come one at a time *)

\* n failures are those of the live code, up to what a dead request left
Failing(k, n) ==
    /\ "count" \notin cut[k] => wrong[k] <= n
    /\ cut[k] \cap {"clear", "count"} = {} => n = wrong[k]

\* the counter lives as long as the code
Lives(k) == FailedAttempts(k) # 0 => codeEntry[k].until <= attempts[k].until
Tallied(k) ==
    StoredCode(k) # None =>
        /\ Failing(k, FailedAttempts(k))
        /\ "clear" \notin cut[k] \/ ("count" \notin cut[k] /\ wrong[k] # 0) => Lives(k)

Below(k) ==
    StoredCode(k) # None /\ cut[k] \cap {"clear", "kill"} = {} => FailedAttempts(k) < MaxAttempts
Counted(k) == Tallied(k) /\ Below(k)
Mailed(k) ==
    StoredCode(k) # None /\ cut[k] \cap {"clear", "mail"} = {} => mailed[k] \in {None, StoredCode(k)}
Calm(k) == Counted(k) /\ Mailed(k)

\* what the only request for a key knows of it, step by step
Serves(k, rec) ==
    /\ rec.pc \in {"cooldown", "store", "save", "create", "drop"} => Calm(k)
    /\ rec.pc = "clear" => rec.code = issued[k] /\ (StoredCode(k) # None => wrong[k] = 0)
    /\ rec.pc = "mail" => rec.code = issued[k] /\ Counted(k)
    /\ rec.pc = "compare" => Calm(k) /\ (StoredCode(k) # None => Failing(k, rec.failed))
    /\ rec.pc = "count" =>
         /\ Mailed(k) /\ Below(k)
         /\ StoredCode(k) # None =>
              Failing(k, rec.failed) /\ ("clear" \notin cut[k] => Lives(k))
    /\ rec.pc = "kill" => Mailed(k) /\ Tallied(k)
    /\ rec.pc = "uncount" => StoredCode(k) = None

SerialOf(k) ==
    k \notin overlapped =>
        /\ \A c, d \in OnKey(k) : c = d
        /\ OnKey(k) = {} => Calm(k)
        /\ \A c \in OnKey(k) : Serves(k, client[c])

SerialInv == CodesInv /\ \A k \in Keys : SerialOf(k)

LEMMA SerialHoldsInitially == EmailCodesInit => SerialInv
  <1> SUFFICES ASSUME EmailCodesInit PROVE SerialInv
    OBVIOUS
  <1>1. \A k \in Keys : OnKey(k) = {} /\ StoredCode(k) = None
    BY EntryTypes DEF EmailCodesInit, OnKey, StoredCode
  <1>2. QED BY <1>1, CodesHoldInitially DEF SerialInv, SerialOf, Calm, Counted, Tallied, Below, Mailed

\* A step of one request on its key leaves what is said of the other keys.
LEMMA OtherKeysStaySerial ==
    ASSUME SerialInv, NEW c \in Clients, NEW k \in Keys, NEW rec \in ClientState, Goto(c, rec),
           client[c].pc # "free" => client[c].key = k,
           rec.pc # "free" => rec.key = k,
           overlapped \subseteq overlapped',
           NEW x \in Keys, x # k,
           codeEntry'[x] = codeEntry[x], attempts'[x] = attempts[x], issued'[x] = issued[x],
           wrong'[x] = wrong[x], mailed'[x] = mailed[x], cut'[x] = cut[x]
    PROVE  SerialOf(x)'
  <1>1. /\ client'[c] = rec /\ \A d \in Clients \ {c} : client'[d] = client[d]
    BY GotoTypes DEF SerialInv, CodesInv
  <1>2. OnKey(x)' = OnKey(x) /\ c \notin OnKey(x)
    BY <1>1 DEF OnKey
  <1>3. \A d \in OnKey(x) : client'[d] = client[d]
    BY <1>1, <1>2 DEF OnKey
  <1>4. /\ StoredCode(x)' = StoredCode(x) /\ Tallied(x)' = Tallied(x)
        /\ Below(x)' = Below(x) /\ Mailed(x)' = Mailed(x) /\ Lives(x)' = Lives(x)
    BY DEF StoredCode, Tallied, Failing, Lives, Below, Mailed, FailedAttempts
  <1>5. \A d \in OnKey(x) : Serves(x, client[d]) => Serves(x, client[d])'
    BY <1>3, <1>4 DEF Serves, Calm, Counted, Failing
  <1>6. QED BY <1>2, <1>4, <1>5 DEF SerialInv, SerialOf, Calm, Counted

\* The request that is alone on a key goes on, or ends and leaves it calm.
LEMMA OwnKeyStaysSerial ==
    ASSUME SerialInv, NEW c \in Clients, NEW k \in Keys, NEW rec \in ClientState, Goto(c, rec),
           client[c].pc # "free", client[c].key = k, UNCHANGED overlapped,
           Serves(k, client[c]) =>
               IF rec.pc = "free" THEN Calm(k)' ELSE rec.key = k /\ Serves(k, rec)'
    PROVE  SerialOf(k)'
  <1> SUFFICES ASSUME k \notin overlapped PROVE SerialOf(k)'
    BY DEF SerialOf
  <1>1. client'[c] = rec /\ \A d \in Clients \ {c} : client'[d] = client[d]
    BY GotoTypes DEF SerialInv, CodesInv
  <1>2. OnKey(k) = {c} /\ Serves(k, client[c])
    BY DEF SerialInv, SerialOf, OnKey
  <1>3. CASE rec.pc = "free"
    <2>1. OnKey(k)' = {}
      BY <1>1, <1>2, <1>3 DEF OnKey
    <2>2. QED BY <1>2, <1>3, <2>1 DEF SerialOf
  <1>4. CASE rec.pc # "free"
    <2>1. OnKey(k)' = {c}
      BY <1>1, <1>2, <1>4 DEF OnKey
    <2>2. Serves(k, client[c])'
      BY <1>1, <1>2, <1>4 DEF Serves
    <2>3. QED BY <2>1, <2>2 DEF SerialOf
  <1>5. QED BY <1>3, <1>4

\* A request that takes up a key finds it calm, or its requests overlap.
LEMMA TakeUpIsSerial ==
    ASSUME SerialInv, CodesInv', NEW c \in Clients, NEW k \in Keys,
           NEW rec \in Sending \cup Verifying, TakeUp(c, rec), rec.key = k,
           Calm(k) => Serves(k, rec),
           UNCHANGED <<member, codeEntry, cooldown, attempts, issued, mailed, clock, wrong, spent,
                       cut>>
    PROVE  SerialInv'
  <1>1. Goto(c, rec) /\ rec \in ClientState /\ client[c].pc = "free" /\ rec.pc # "free"
    BY DEF TakeUp, ClientState, At, Sending, Verifying
  <1>2. overlapped \subseteq overlapped' /\ (k \notin overlapped' => OnKey(k) = {})
    BY DEF TakeUp
  <1>3. ASSUME NEW x \in Keys, x # k PROVE SerialOf(x)'
    BY <1>1, <1>2, <1>3, OtherKeysStaySerial
  <1>4. SerialOf(k)'
    <2> SUFFICES ASSUME k \notin overlapped' PROVE SerialOf(k)'
      BY DEF SerialOf
    <2>1. client'[c] = rec /\ \A d \in Clients \ {c} : client'[d] = client[d]
      BY <1>1, GotoTypes DEF SerialInv, CodesInv
    <2>2. OnKey(k) = {} /\ Calm(k)
      BY <1>2 DEF SerialInv, SerialOf
    <2>3. OnKey(k)' = {c}
      BY <1>1, <2>1, <2>2 DEF OnKey
    <2>4. Serves(k, client[c])'
      BY <2>1, <2>2 DEF Serves, Calm, Counted, Tallied, Failing, Lives, Below, Mailed, StoredCode,
         FailedAttempts
    <2>5. QED BY <2>3, <2>4 DEF SerialOf
  <1>5. QED BY <1>3, <1>4 DEF SerialInv

LEMMA StepIsSerial ==
    ASSUME SerialInv, CodesInv', NEW c \in Clients, NEW k \in Keys, NEW rec \in ClientState,
           Goto(c, rec), client[c].pc # "free", client[c].key = k, UNCHANGED overlapped,
           rec.pc # "free" => rec.key = k,
           \A x \in Keys \ {k} : /\ codeEntry'[x] = codeEntry[x] /\ attempts'[x] = attempts[x]
                                 /\ issued'[x] = issued[x] /\ wrong'[x] = wrong[x]
                                 /\ mailed'[x] = mailed[x] /\ cut'[x] = cut[x],
           Serves(k, client[c]) => IF rec.pc = "free" THEN Calm(k)' ELSE Serves(k, rec)'
    PROVE  SerialInv'
  <1>1. ASSUME NEW x \in Keys, x # k PROVE SerialOf(x)'
    BY <1>1, OtherKeysStaySerial
  <1>2. SerialOf(k)'
    BY OwnKeyStaysSerial
  <1>3. QED BY <1>1, <1>2 DEF SerialInv

LEMMA LookupsAreSerial ==
    ASSUME SerialInv, CodesInv', NEW c \in Clients, NEW k \in Keys
    PROVE  /\ SendLookup(c, k) => SerialInv'
           /\ \A typed \in Typed(k) : ReadAttempts(c, k, typed) \/ SignupCheck(c, k, typed)
                => SerialInv'
  <1>1. ASSUME SendLookup(c, k) PROVE SerialInv'
    <2> PICK rec : rec = [pc |-> "cooldown", key |-> k, seen |-> member[k[2]], code |-> None]
      OBVIOUS
    <2>1. k[2] \in Addresses
      BY DEF Keys
    <2>2. rec \in Sending /\ rec.key = k /\ rec.pc = "cooldown"
      BY <2>1 DEF Sending, SerialInv, CodesInv, EmailCodesTypeOK
    <2>3. QED BY <1>1, <2>2, TakeUpIsSerial DEF SendLookup, Serves
  <1>2. ASSUME NEW typed \in Typed(k), ReadAttempts(c, k, typed) PROVE SerialInv'
    <2> PICK rec : rec = [pc |-> "compare", key |-> k, typed |-> typed,
                          failed |-> FailedAttempts(k)]
      OBVIOUS
    <2>1. FailedAttempts(k) \in 0..MaxAttempts
      BY DEF FailedAttempts, SerialInv, CodesInv, EmailCodesTypeOK, Counter
    <2>2. rec \in Verifying /\ rec.key = k /\ rec.pc = "compare" /\ rec.failed = FailedAttempts(k)
      BY <2>1, TypedTypes DEF Verifying, SerialInv, CodesInv
    <2>3. Calm(k) => Serves(k, rec)
      BY <2>2 DEF Serves, Calm, Counted, Tallied
    <2>4. QED BY <1>2, <2>2, <2>3, TakeUpIsSerial DEF ReadAttempts
  <1>3. ASSUME NEW typed \in Typed(k), SignupCheck(c, k, typed) PROVE SerialInv'
    <2> PICK rec : rec = [pc |-> "create", key |-> k, typed |-> typed, failed |-> 0]
      OBVIOUS
    <2>1. rec \in Verifying /\ rec.key = k /\ rec.pc = "create"
      BY TypedTypes, EmailCodesAssumption DEF Verifying, SerialInv, CodesInv
    <2>2. QED BY <1>3, <2>1, TakeUpIsSerial DEF SignupCheck, Serves
  <1>4. QED BY <1>1, <1>2, <1>3

\* The steps of a sender: a new code comes with no failures and with its own mail.
LEMMA SendingIsSerial ==
    ASSUME SerialInv, CodesInv', NEW c \in Clients,
           SetCooldown(c) \/ StoreCode(c) \/ ClearAttempts(c) \/ SendMail(c)
    PROVE  SerialInv'
  <1> PICK k \in Keys : k = client[c].key
    BY SendingAt DEF SetCooldown, StoreCode, ClearAttempts, SendMail, At, SerialInv, CodesInv
  <1>1. client[c] \in Sending /\ client[c].pc # "free"
    BY SendingAt DEF SetCooldown, StoreCode, ClearAttempts, SendMail, At, SerialInv, CodesInv
  <1>2. Free \in ClientState /\ Free.pc = "free"
    BY EntryTypes
  <1>3. CASE SetCooldown(c)
    <2> PICK rec \in {[client[c] EXCEPT !.pc = "store"], Free} : Goto(c, rec)
      BY <1>3 DEF SetCooldown, End
    <2>1. rec \in ClientState /\ (rec.pc # "free" => rec.key = k /\ rec.pc = "store")
      BY <1>1, <1>2 DEF ClientState, Sending
    <2>2. client[c].pc = "cooldown"
      BY <1>3 DEF SetCooldown, At
    <2>3. Serves(k, client[c]) => IF rec.pc = "free" THEN Calm(k)' ELSE Serves(k, rec)'
      BY <1>3, <2>1, <2>2 DEF SetCooldown, Serves, Calm, Counted, Tallied, Failing, Lives, Below, Mailed,
         StoredCode, FailedAttempts
    <2>4. QED BY <1>1, <1>3, <2>1, <2>3, StepIsSerial DEF SetCooldown
  <1>4. CASE StoreCode(c)
    <2> PICK rec : rec = [client[c] EXCEPT !.pc = "clear", !.code = issued[k] + 1]
      OBVIOUS
    <2>1. /\ rec \in ClientState /\ rec.key = k /\ rec.pc = "clear" /\ rec.code = issued[k] + 1
          /\ Goto(c, rec)
      BY <1>1, <1>4 DEF StoreCode, ClientState, Sending
    <2>2. issued'[k] = issued[k] + 1 /\ wrong'[k] = 0
      BY <1>4 DEF StoreCode, SerialInv, CodesInv, EmailCodesTypeOK
    <2>3. Serves(k, rec)'
      BY <2>1, <2>2 DEF Serves
    <2>4. \A x \in Keys \ {k} : /\ codeEntry'[x] = codeEntry[x] /\ attempts'[x] = attempts[x]
                                /\ issued'[x] = issued[x] /\ wrong'[x] = wrong[x]
                                /\ mailed'[x] = mailed[x] /\ cut'[x] = cut[x]
      BY <1>4 DEF StoreCode, SerialInv, CodesInv, EmailCodesTypeOK
    <2>5. QED BY <1>1, <1>4, <2>1, <2>3, <2>4, StepIsSerial DEF StoreCode
  <1>5. CASE ClearAttempts(c)
    <2> PICK rec : rec = [client[c] EXCEPT !.pc = "mail"]
      OBVIOUS
    <2>1. /\ rec \in ClientState /\ rec.key = k /\ rec.pc = "mail" /\ rec.code = client[c].code
          /\ Goto(c, rec) /\ client[c].pc = "clear"
      BY <1>1, <1>5 DEF ClearAttempts, ClientState, Sending, At
    <2>2. FailedAttempts(k)' = 0
      BY <1>5, EntryTypes DEF ClearAttempts, DeleteCounter, FailedAttempts, SerialInv, CodesInv,
         EmailCodesTypeOK
    <2>3. Serves(k, client[c]) => Serves(k, rec)'
      BY <1>5, <2>1, <2>2, EmailCodesAssumption
         DEF ClearAttempts, Serves, Counted, Tallied, Failing, Lives, Below, StoredCode
    <2>4. \A x \in Keys \ {k} : attempts'[x] = attempts[x]
      BY <1>5 DEF ClearAttempts, DeleteCounter, SerialInv, CodesInv, EmailCodesTypeOK
    <2>5. QED BY <1>1, <1>5, <2>1, <2>3, <2>4, StepIsSerial DEF ClearAttempts
  <1>6. CASE SendMail(c)
    <2>1. client[c].pc = "mail" /\ Goto(c, Free)
      BY <1>6 DEF SendMail, At, End
    <2>2. mailed'[k] \in {None, client[c].code} /\ \A x \in Keys \ {k} : mailed'[x] = mailed[x]
      BY <1>6 DEF SendMail, SerialInv, CodesInv, EmailCodesTypeOK
    <2>3. StoredCode(k) # None => StoredCode(k) = issued[k]
      BY DEF SerialInv, CodesInv, KeySound, StoredCode
    <2>4. Serves(k, client[c]) => Calm(k)'
      BY <1>6, <2>1, <2>2, <2>3
         DEF SendMail, Serves, Calm, Counted, Tallied, Failing, Lives, Below, Mailed, StoredCode,
             FailedAttempts
    <2>5. QED BY <1>1, <1>2, <1>6, <2>1, <2>2, <2>4, StepIsSerial DEF SendMail
  <1>7. QED BY <1>3, <1>4, <1>5, <1>6

\* a right code is used, a wrong one is counted as often as it was compared
LEMMA ComparingIsSerial ==
    ASSUME SerialInv, CodesInv', NEW c \in Clients, Compare(c)
    PROVE  SerialInv'
  <1> PICK k \in Keys : k = client[c].key
    BY VerifyingAt DEF Compare, At, SerialInv, CodesInv
  <1>1. client[c] \in Verifying /\ client[c].pc = "compare"
    BY VerifyingAt DEF Compare, At, SerialInv, CodesInv
  <1>2. client[c].failed \in 0..MaxAttempts /\ client[c].failed < MaxAttempts
    BY <1>1 DEF SerialInv, CodesInv, Sound, Verifying
  <1>3. CASE StoredCode(k) # None /\ StoredCode(k) = client[c].typed
    <2>1. Goto(c, [client[c] EXCEPT !.pc = "save"]) \/ Goto(c, Free)
      BY <1>3 DEF Compare, End
    <2> PICK rec \in {[client[c] EXCEPT !.pc = "save"], Free} : Goto(c, rec)
      BY <2>1
    <2>2. rec \in ClientState /\ (rec.pc # "free" => rec.key = k /\ rec.pc = "save")
      BY <1>1, EntryTypes DEF ClientState, Verifying
    <2>3. UNCHANGED <<codeEntry, attempts, issued, mailed, wrong, overlapped, cut>>
      BY <1>3 DEF Compare
    <2>4. Serves(k, client[c]) => IF rec.pc = "free" THEN Calm(k)' ELSE Serves(k, rec)'
      BY <1>1, <2>2, <2>3 DEF Serves, Calm, Counted, Tallied, Failing, Lives, Below, Mailed, StoredCode,
         FailedAttempts
    <2>5. QED BY <1>1, <2>2, <2>3, <2>4, StepIsSerial
  <1>4. CASE ~(StoredCode(k) # None /\ StoredCode(k) = client[c].typed)
    <2> PICK rec : rec = [client[c] EXCEPT !.pc = "count", !.failed = client[c].failed + 1]
      OBVIOUS
    <2>1. client[c].failed + 1 \in 0..MaxAttempts
      BY <1>2, EmailCodesAssumption
    <2>2. /\ rec \in ClientState /\ rec.key = k /\ rec.pc = "count"
          /\ rec.failed = client[c].failed + 1
      BY <1>1, <2>1 DEF ClientState, Verifying
    <2>3. /\ Goto(c, rec)
          /\ wrong' = IF StoredCode(k) = None THEN wrong ELSE [wrong EXCEPT ![k] = @ + 1]
          /\ UNCHANGED <<codeEntry, attempts, issued, mailed, overlapped, cut>>
      BY <1>4 DEF Compare
    <2>4. /\ StoredCode(k) # None => wrong'[k] = wrong[k] + 1
          /\ \A x \in Keys \ {k} : wrong'[x] = wrong[x]
      BY <2>3 DEF SerialInv, CodesInv, EmailCodesTypeOK
    <2>5. Serves(k, client[c]) => Serves(k, rec)'
      <3>1. client[c].failed \in Nat /\ wrong[k] \in Nat
        BY <1>2 DEF SerialInv, CodesInv, EmailCodesTypeOK
      <3>2. QED BY <1>1, <2>2, <2>3, <2>4, <3>1
            DEF Serves, Calm, Counted, Tallied, Failing, Lives, Below, Mailed, StoredCode,
                FailedAttempts
    <2>6. QED BY <1>1, <2>2, <2>3, <2>4, <2>5, StepIsSerial
  <1>5. QED BY <1>3, <1>4

\* The counter is written to live at least as long as any code stored by now.
LEMMA CountingIsSerial ==
    ASSUME SerialInv, CodesInv', NEW c \in Clients, CountFailed(c)
    PROVE  SerialInv'
  <1> PICK k \in Keys : k = client[c].key
    BY VerifyingAt DEF CountFailed, At, SerialInv, CodesInv
  <1>1. /\ client[c] \in Verifying /\ client[c].pc = "count"
        /\ client[c].failed \in 0..MaxAttempts
    BY VerifyingAt DEF CountFailed, At, SerialInv, CodesInv, Verifying
  <1> PICK rec : rec = IF client[c].failed >= MaxAttempts
                         THEN [client[c] EXCEPT !.pc = "kill"] ELSE Free
    OBVIOUS
  <1>2. rec \in ClientState /\ Goto(c, rec) /\ rec.pc \in {"kill", "free"}
        /\ (rec.pc # "free" => rec.key = k)
        /\ (rec.pc = "free" => client[c].failed < MaxAttempts)
    <2>1. Goto(c, rec)
      BY DEF CountFailed, End
    <2>2. CASE client[c].failed >= MaxAttempts
      BY <1>1, <2>1, <2>2 DEF ClientState, Verifying
    <2>3. CASE ~(client[c].failed >= MaxAttempts)
      BY <1>1, <2>1, <2>3, EntryTypes, EmailCodesAssumption
    <2>4. QED BY <2>2, <2>3
  <1>3. /\ attempts'[k] = [n |-> client[c].failed, until |-> clock + BlockTTL]
        /\ \A x \in Keys \ {k} : attempts'[x] = attempts[x]
        /\ UNCHANGED <<codeEntry, issued, mailed, wrong, overlapped, cut>>
    BY DEF CountFailed, SerialInv, CodesInv, EmailCodesTypeOK
  <1>4. StoredCode(k) # None => codeEntry[k].until <= clock + BlockTTL
    <2>1. /\ StoredCode(k) # None => codeEntry[k].until <= clock + CodeTTL
          /\ codeEntry[k].until \in Nat /\ clock \in Nat
      BY ClockTypes DEF SerialInv, CodesInv, KeySound, StoredCode, EmailCodesTypeOK, Entry
    <2>2. QED BY <2>1, EmailCodesAssumption
  <1>5. Serves(k, client[c]) => IF rec.pc = "free" THEN Calm(k)' ELSE Serves(k, rec)'
    <2>1. CASE rec.pc = "free"
      BY <1>1, <1>2, <1>3, <1>4, <2>1
         DEF Serves, Calm, Counted, Tallied, Failing, Lives, Below, Mailed, StoredCode,
             FailedAttempts
    <2>2. CASE rec.pc = "kill"
      BY <1>1, <1>3, <1>4, <2>2
         DEF Serves, Tallied, Failing, Lives, Mailed, StoredCode, FailedAttempts
    <2>3. QED BY <1>2, <2>1, <2>2
  <1>6. QED BY <1>1, <1>2, <1>3, <1>5, StepIsSerial

\* Without a code everything is calm.
LEMMA DeletionIsCalm ==
    ASSUME CodesInv, NEW k \in Keys, DeleteCode(k)
    PROVE  /\ StoredCode(k)' = None /\ Calm(k)'
           /\ \A x \in Keys \ {k} : codeEntry'[x] = codeEntry[x]
  BY EntryTypes DEF CodesInv, EmailCodesTypeOK, DeleteCode, Calm, Counted, Tallied, Below, Mailed,
     StoredCode

LEMMA KillingIsSerial ==
    ASSUME SerialInv, CodesInv', NEW c \in Clients, KillCode(c)
    PROVE  SerialInv'
  <1> PICK k \in Keys : k = client[c].key
    BY VerifyingAt DEF KillCode, At, SerialInv, CodesInv
  <1>1. client[c].pc # "free" /\ Goto(c, Free) /\ DeleteCode(k)
        /\ UNCHANGED <<attempts, issued, mailed, wrong, overlapped, cut>>
    BY DEF KillCode, At, End
  <1>2. QED BY <1>1, DeletionIsCalm, StepIsSerial, EntryTypes DEF SerialInv

LEMMA UsingIsSerial ==
    ASSUME SerialInv, CodesInv', NEW c \in Clients,
           SavePassword(c) \/ CreateMember(c) \/ DropCode(c)
    PROVE  SerialInv'
  <1> PICK k \in Keys : k = client[c].key
    BY VerifyingAt DEF SavePassword, CreateMember, DropCode, At, SerialInv, CodesInv
  <1>1. client[c] \in Verifying /\ client[c].pc \in {"save", "create", "drop"}
    BY VerifyingAt DEF SavePassword, CreateMember, DropCode, At, SerialInv, CodesInv
  <1>2. \A pc \in {"drop", "uncount"} :
          LET rec == [client[c] EXCEPT !.pc = pc]
          IN rec \in ClientState /\ rec.pc = pc /\ rec.key = k
    BY <1>1 DEF ClientState, Verifying
  <1>3. CASE SavePassword(c) \/ CreateMember(c)
    <2>1. Goto(c, [client[c] EXCEPT !.pc = "drop"]) \/ Goto(c, Free)
      BY <1>3 DEF SavePassword, CreateMember, End
    <2> PICK rec \in {[client[c] EXCEPT !.pc = "drop"], Free} : Goto(c, rec)
      BY <2>1
    <2>2. rec \in ClientState /\ (rec.pc # "free" => rec.key = k /\ rec.pc = "drop")
      BY <1>2, EntryTypes
    <2>3. UNCHANGED <<codeEntry, attempts, issued, mailed, wrong, overlapped, cut>>
      BY <1>3 DEF SavePassword, CreateMember
    <2>4. client[c].pc \in {"save", "create"}
      BY <1>3 DEF SavePassword, CreateMember, At
    <2>5. Serves(k, client[c]) => IF rec.pc = "free" THEN Calm(k)' ELSE Serves(k, rec)'
      BY <2>2, <2>3, <2>4 DEF Serves, Calm, Counted, Tallied, Failing, Lives, Below, Mailed, StoredCode,
         FailedAttempts
    <2>6. QED BY <1>1, <2>2, <2>3, <2>5, StepIsSerial
  <1>4. CASE DropCode(c)
    <2> PICK rec : rec = [client[c] EXCEPT !.pc = "uncount"]
      OBVIOUS
    <2>1. rec \in ClientState /\ rec.pc = "uncount" /\ rec.key = k
      BY <1>2
    <2>2. /\ Goto(c, rec) /\ DeleteCode(k)
          /\ UNCHANGED <<attempts, issued, mailed, wrong, overlapped, cut>>
      BY <1>4 DEF DropCode
    <2>3. Serves(k, rec)'
      BY <2>1, <2>2, DeletionIsCalm DEF Serves, SerialInv
    <2>4. QED BY <1>1, <2>1, <2>2, <2>3, DeletionIsCalm, StepIsSerial DEF SerialInv
  <1>5. QED BY <1>3, <1>4

LEMMA UncountingIsSerial ==
    ASSUME SerialInv, CodesInv', NEW c \in Clients, DropCounter(c)
    PROVE  SerialInv'
  <1> PICK k \in Keys : k = client[c].key
    BY VerifyingAt DEF DropCounter, At, SerialInv, CodesInv
  <1>1. client[c].pc = "uncount" /\ Goto(c, Free) /\ DeleteCounter(k)
        /\ UNCHANGED <<codeEntry, issued, mailed, wrong, overlapped, cut>>
    BY DEF DropCounter, At, End
  <1>2. \A x \in Keys \ {k} : attempts'[x] = attempts[x]
    BY <1>1 DEF DeleteCounter, SerialInv, CodesInv, EmailCodesTypeOK
  <1>3. Serves(k, client[c]) => Calm(k)'
    BY <1>1 DEF Serves, Calm, Counted, Tallied, Below, Mailed, StoredCode
  <1>4. QED BY <1>1, <1>2, <1>3, StepIsSerial, EntryTypes

\* A request that dies leaves its key as its next command would have found it; what it
\* took from the counter and the mail is noted.
LEMMA DyingIsSerial ==
    ASSUME SerialInv, CodesInv', NEW c \in Clients, CodeRequestDies(c)
    PROVE  SerialInv'
  <1> PICK k \in Keys : k = client[c].key
    BY BusyTypes DEF CodeRequestDies, At, SerialInv, CodesInv
  <1> PICK at : at = client[c].pc
    OBVIOUS
  <1>1. /\ at # "free" /\ Goto(c, Free)
        /\ cut'[k] = cut[k] \cup ({at} \cap CutPoints)
        /\ \A x \in Keys \ {k} : cut'[x] = cut[x]
        /\ UNCHANGED <<codeEntry, attempts, issued, mailed, wrong, overlapped>>
    BY DEF CodeRequestDies, At, End, SerialInv, CodesInv, EmailCodesTypeOK
  <1>2. /\ StoredCode(k)' = StoredCode(k) /\ FailedAttempts(k)' = FailedAttempts(k)
        /\ Lives(k)' = Lives(k)
    BY <1>1 DEF StoredCode, FailedAttempts, Lives
  <1>3. /\ Tallied(k) => Tallied(k)'
        /\ Below(k) => Below(k)'
        /\ Mailed(k) => Mailed(k)'
    BY <1>1, <1>2 DEF Tallied, Failing, Below, Mailed
  <1>4. at \in CutPoints => at \in cut'[k]
    BY <1>1
  <1>5. FailedAttempts(k) \in Nat
    BY DEF FailedAttempts, SerialInv, CodesInv, EmailCodesTypeOK, Counter
  <1>6. ASSUME Serves(k, client[c]) PROVE Calm(k)'
    <2>1. CASE at \in {"cooldown", "store", "save", "create", "drop", "compare"}
      BY <1>3, <1>6, <2>1 DEF Serves, Calm, Counted
    <2>2. CASE at = "clear"
      <3>1. "clear" \in cut'[k] /\ (StoredCode(k)' # None => wrong'[k] = 0)
        BY <1>1, <1>2, <1>4, <1>6, <2>2 DEF Serves, CutPoints
      <3>2. QED BY <1>2, <1>5, <3>1 DEF Calm, Counted, Tallied, Failing, Below, Mailed
    <2>3. CASE at = "mail"
      <3>1. "mail" \in cut'[k]
        BY <1>4, <2>3 DEF CutPoints
      <3>2. QED BY <1>3, <1>6, <2>3, <3>1 DEF Serves, Calm, Counted, Mailed
    <2>4. CASE at = "count"
      <3>1. "count" \in cut'[k] /\ cut[k] \subseteq cut'[k]
        BY <1>1, <1>4, <2>4 DEF CutPoints
      <3>2. Tallied(k)'
        BY <1>2, <1>6, <2>4, <3>1 DEF Serves, Tallied, Failing
      <3>3. QED BY <1>3, <1>6, <2>4, <3>2 DEF Serves, Calm, Counted
    <2>5. CASE at = "kill"
      <3>1. "kill" \in cut'[k]
        BY <1>4, <2>5 DEF CutPoints
      <3>2. QED BY <1>3, <1>6, <2>5, <3>1 DEF Serves, Calm, Counted, Below
    <2>6. CASE at = "uncount"
      BY <1>2, <1>6, <2>6 DEF Serves, Calm, Counted, Tallied, Below, Mailed
    <2>7. at \in {"cooldown", "store", "clear", "mail", "compare", "count", "kill", "create",
                 "save", "drop", "uncount"}
      <3>1. client[c] \in Sending \cup Verifying \cup {Free}
        BY DEF SerialInv, CodesInv, EmailCodesTypeOK
      <3>2. QED BY <1>1, <3>1 DEF Sending, Verifying, Free
    <2>8. QED BY <2>1, <2>2, <2>3, <2>4, <2>5, <2>6, <2>7
  <1>7. QED BY <1>1, <1>6, StepIsSerial, EntryTypes

\* A counter outlives its code, and nothing is said of a key without one.
LEMMA TimeIsSerial ==
    ASSUME SerialInv, CodesInv', PassTime
    PROVE  SerialInv'
  <1>1. UNCHANGED <<issued, mailed, client, wrong, overlapped, cut>>
    BY DEF PassTime
  <1>2. \A k \in Keys : /\ codeEntry[k].until \in Nat /\ attempts[k].until \in Nat
                        /\ clock' \in Nat
    BY ClockTypes DEF SerialInv, CodesInv, EmailCodesTypeOK, Entry, Counter
  <1>3. ASSUME NEW k \in Keys, StoredCode(k)' # None
        PROVE  codeEntry'[k] = codeEntry[k] /\ codeEntry[k].until > clock'
    BY <1>3, EntryTypes DEF PassTime, StoredCode
  <1>4. ASSUME NEW k \in Keys, StoredCode(k)' # None
        PROVE  /\ codeEntry'[k] = codeEntry[k] /\ StoredCode(k) # None
               /\ attempts'[k] \in {attempts[k], NoCounter}
               /\ Lives(k) => attempts'[k] = attempts[k] \/ FailedAttempts(k) = 0
    <2>1. codeEntry'[k] = codeEntry[k] /\ codeEntry[k].until > clock' /\ StoredCode(k) # None
      BY <1>3, <1>4 DEF StoredCode
    <2>2. /\ attempts'[k] \in {attempts[k], NoCounter}
          /\ attempts[k].until > clock' => attempts'[k] = attempts[k]
      BY DEF PassTime
    <2>3. QED BY <1>2, <2>1, <2>2 DEF Lives
  <1>5. ASSUME NEW k \in Keys, StoredCode(k)' # None
        PROVE  FailedAttempts(k)' \in {FailedAttempts(k), 0} /\ (Lives(k) => Lives(k)')
               /\ (Lives(k) => FailedAttempts(k)' = FailedAttempts(k))
    BY <1>4, <1>5, EntryTypes DEF Lives, FailedAttempts
  <1>6. ASSUME NEW k \in Keys, Tallied(k) PROVE Tallied(k)'
    <2> SUFFICES ASSUME StoredCode(k)' # None
                 PROVE  /\ Failing(k, FailedAttempts(k))'
                        /\ "clear" \notin cut[k] \/ ("count" \notin cut[k] /\ wrong[k] # 0)
                             => Lives(k)'
      BY <1>1 DEF Tallied
    <2>1. /\ Failing(k, FailedAttempts(k))
          /\ "clear" \notin cut[k] \/ ("count" \notin cut[k] /\ wrong[k] # 0) => Lives(k)
      BY <1>4, <1>6 DEF Tallied
    <2>2. wrong[k] \in Nat /\ FailedAttempts(k) \in Nat
      BY DEF SerialInv, CodesInv, EmailCodesTypeOK, Counter, FailedAttempts
    <2>3. CASE Lives(k)
      BY <1>1, <1>5, <2>1, <2>3 DEF Failing
    <2>4. CASE ~Lives(k)
      BY <1>1, <1>5, <2>1, <2>2, <2>4 DEF Failing
    <2>5. QED BY <2>3, <2>4
  <1>7. ASSUME NEW k \in Keys, Below(k) PROVE Below(k)'
    BY <1>1, <1>4, <1>5, <1>7, EmailCodesAssumption DEF Below
  <1>8. ASSUME NEW k \in Keys, Mailed(k) PROVE Mailed(k)'
    BY <1>1, <1>3, <1>8 DEF Mailed, StoredCode
  <1>9. ASSUME NEW k \in Keys, NEW rec, Serves(k, rec) PROVE Serves(k, rec)'
    <2>1. StoredCode(k)' # None => StoredCode(k) # None /\ (Lives(k) => Lives(k)')
      BY <1>4, <1>5
    <2>2. Failing(k, rec.failed)' = Failing(k, rec.failed)
      BY <1>1 DEF Failing
    <2>3. QED BY <1>1, <1>8, <1>9, <1>6, <1>7, <2>1, <2>2 DEF Serves, Calm, Counted
  <1>10. ASSUME NEW k \in Keys PROVE SerialOf(k)'
    <2>1. \A c \in Clients : Serves(k, client[c]) => Serves(k, client[c])'
      <3> SUFFICES ASSUME NEW c \in Clients, Serves(k, client[c]) PROVE Serves(k, client[c])'
        OBVIOUS
      <3> PICK rec : rec = client[c]
        OBVIOUS
      <3>1. Serves(k, rec)'
        BY <1>9
      <3>2. QED BY <1>1, <3>1 DEF Serves
    <2>2. OnKey(k)' = OnKey(k) /\ OnKey(k) \subseteq Clients
      BY <1>1 DEF OnKey
    <2>3. Calm(k) => Calm(k)'
      BY <1>8, <1>6, <1>7 DEF Calm, Counted
    <2>4. QED BY <1>1, <2>1, <2>2, <2>3 DEF SerialInv, SerialOf
  <1>11. QED BY <1>10 DEF SerialInv

\* Every step preserves the strengthened invariant.
LEMMA SerialIsPreserved ==
    ASSUME SerialInv, [EmailCodesNext]_codeVars
    PROVE  SerialInv'
  <1>1. CodesInv'
    BY CodesArePreserved DEF SerialInv
  <1>2. CASE UNCHANGED <<codeEntry, attempts, issued, mailed, client, wrong, overlapped, cut>>
    BY <1>1, <1>2 DEF SerialInv, SerialOf, Serves, Calm, Counted, Tallied, Failing, Lives, Below, Mailed,
       StoredCode, FailedAttempts, OnKey
  <1>3. CASE UNCHANGED codeVars
    BY <1>2, <1>3 DEF codeVars
  <1>4. ASSUME NEW c \in Clients, SendEmailCode(c) PROVE SerialInv'
    BY <1>1, <1>4, LookupsAreSerial, SendingIsSerial DEF SendEmailCode
  <1>5. ASSUME NEW c \in Clients, ResetPassword(c) PROVE SerialInv'
    BY <1>1, <1>5, LookupsAreSerial, ComparingIsSerial, CountingIsSerial, KillingIsSerial,
       UsingIsSerial DEF ResetPassword
  <1>6. ASSUME NEW c \in Clients, SignupWithCode(c) PROVE SerialInv'
    BY <1>1, <1>6, LookupsAreSerial, UsingIsSerial DEF SignupWithCode
  <1>7. ASSUME NEW c \in Clients, DropCode(c) \/ DropCounter(c) PROVE SerialInv'
    BY <1>1, <1>7, UsingIsSerial, UncountingIsSerial
  <1>8. ASSUME NEW a \in Addresses, Deactivate(a) PROVE SerialInv'
    BY <1>2, <1>8 DEF Deactivate
  <1>9. QED
    BY <1>1, <1>3, <1>4, <1>5, <1>6, <1>7, <1>8, DyingIsSerial, TimeIsSerial DEF EmailCodesNext

\* While requests for an address come one at a time, the failure counter is the number of
\* wrong guesses at the live code and stays below the limit, even if requests die, but
\* for a death at the very command that clears, counts or deletes.
THEOREM CounterIsExactSerially == EmailCodesSpec => []SerialCounterIsExact
  <1>1. SerialInv => SerialCounterIsExact
    BY DEF SerialInv, SerialOf, Calm, Counted, Tallied, Failing, Below, SerialCounterIsExact
  <1>2. QED BY <1>1, SerialHoldsInitially, SerialIsPreserved, PTL DEF EmailCodesSpec

\* While requests for an address come one at a time, the live code is that of the last
\* mail, unless that mail could not be sent or its request died before it.
THEOREM LatestMailWorksSerially == EmailCodesSpec => []LatestMailWorks
  <1>1. SerialInv => LatestMailWorks
    BY DEF SerialInv, SerialOf, Calm, Mailed, LatestMailWorks
  <1>2. QED BY <1>1, SerialHoldsInitially, SerialIsPreserved, PTL DEF EmailCodesSpec

\* Without overlaps the code is the one mailed and the counter is its own.
THEOREM CodesWorkSerially == EmailCodesSpec => []SerialCodesWork
  <1>1. SerialCounterIsExact /\ LatestMailWorks => SerialCodesWork
    BY DEF SerialCodesWork
  <1>2. QED BY <1>1, CounterIsExactSerially, LatestMailWorksSerially, PTL

-----------------------------------------------------------------------------
(* The two ways to open an account, side by side *)

\* A behaviour of the two together is a behaviour of each of them.
THEOREM AccountsParts == AccountsSpec => SocialSpec /\ EmailCodesSpec
  <1>1. AccountsInit => SocialInit /\ EmailCodesInit
    BY DEF AccountsInit
  <1>2. [AccountsNext]_<<socialVars, codeVars, part>> =>
          [SocialNext]_socialVars /\ [EmailCodesNext]_codeVars
    BY DEF AccountsNext
  <1> QED
    BY <1>1, <1>2, PTL DEF AccountsSpec, SocialSpec, EmailCodesSpec

\* Every table, link, state and cache key stays well typed in the instance of both modules,
\* whichever of them is explored.
THEOREM AccountsTypes == AccountsSpec => []AccountsTypeOK
  <1>1. SocialTypeOK /\ EmailCodesTypeOK => AccountsTypeOK
    BY DEF AccountsTypeOK
  <1> QED
    BY <1>1, AccountsParts, SocialTypes, EmailCodesTypesAreInvariant, PTL

-----------------------------------------------------------------------------
(* Overlapping requests: how many codes are issued *)

\* a quotient of natural numbers, by the two products next to the number
LEMMA Division ==
    ASSUME NEW t \in Nat, NEW d \in Nat \ {0}
    PROVE  t \div d \in Nat /\ d * (t \div d) <= t /\ t < d * (t \div d) + d
  OBVIOUS

LEMMA ProductsGrow ==
    ASSUME NEW d \in Nat, NEW q \in Nat, NEW p \in Nat, q <= p
    PROVE  d * q <= d * p
  OBVIOUS

\* Numbers that are d apart have different quotients.
LEMMA QuotientsGrow ==
    ASSUME NEW t \in Nat, NEW u \in Nat, NEW d \in Nat \ {0}
    PROVE  /\ t <= u => t \div d <= u \div d
           /\ t + d <= u => t \div d < u \div d
  <1>1. PICK q \in Nat : q = t \div d /\ d * q <= t /\ t < d * q + d
    BY Division
  <1>2. PICK p \in Nat : p = u \div d /\ d * p <= u /\ u < d * p + d
    BY Division
  <1>3. d * (p + 1) = d * p + d /\ d * p \in Int /\ d * q \in Int
    BY <1>1, <1>2
  <1>4. ASSUME p < q PROVE d * p + d <= d * q
    <2>1. d * (p + 1) <= d * q
      BY <1>4, ProductsGrow
    <2> QED
      BY <1>3, <2>1
  <1>5. ASSUME p <= q PROVE d * p <= d * q
    BY <1>5, ProductsGrow
  <1>6. t <= u => q <= p
    BY <1>1, <1>2, <1>3, <1>4
  <1>7. t + d <= u => q < p
    BY <1>1, <1>2, <1>3, <1>5
  <1> QED
    BY <1>1, <1>2, <1>6, <1>7

\* moments of several clients, those of one client d apart
Spaced(S, d) == \A c \in Clients, t, u \in Nat :
    <<c, t>> \in S /\ <<c, u>> \in S /\ t < u => t + d <= u

\* Each client has at most one such moment in every stretch of length d.
LEMMA SpacedAreFew ==
    ASSUME NEW d \in Nat \ {0}, NEW n \in Nat, NEW S \in SUBSET (Clients \X (0..n)), Spaced(S, d)
    PROVE  Cardinality(S) <= Cardinality(Clients) * (1 + n \div d)
  <1> DEFINE q == n \div d
             T == Clients \X (0..q)
             f == [x \in S |-> <<x[1], x[2] \div d>>]
  <1>1. q \in Nat
    BY Division DEF q
  <1> HIDE DEF q
  <1>2. IsFiniteSet(T) /\ Cardinality(T) = Cardinality(Clients) * (1 + q)
    <2>1. IsFiniteSet(0..q) /\ Cardinality(0..q) = q + 1
      BY ONLY <1>1, FS_Interval
    <2>2. IsFiniteSet(Clients)
      BY EmailCodesAssumption
    <2>3. Cardinality(T) = Cardinality(Clients) * Cardinality(0..q) /\ IsFiniteSet(T)
      BY <2>1, <2>2, FS_Product
    <2>4. q + 1 = 1 + q
      BY <1>1
    <2> QED
      BY <2>1, <2>3, <2>4
  <1>3. \A x \in S : x[1] \in Clients /\ x[2] \in 0..n /\ x[2] \in Nat /\ x = <<x[1], x[2]>>
    OBVIOUS
  <1>4. ASSUME NEW x \in S PROVE f[x] \in T
    <2>1. x[2] \div d \in Nat /\ x[2] \div d <= q
      BY <1>3, Division, QuotientsGrow DEF q
    <2>2. x[2] \div d \in 0..q
      BY <1>1, <2>1
    <2> QED
      BY <1>3, <2>2
  <1>5. ASSUME NEW x \in S, NEW y \in S, f[x] = f[y] PROVE x = y
    <2>1. x[1] = y[1] /\ x[2] \div d = y[2] \div d
      BY <1>5
    <2>2. PICK c \in Clients, t \in Nat, u \in Nat : x = <<c, t>> /\ y = <<c, u>>
      BY <1>3, <2>1
    <2>3. t \div d = u \div d /\ t \div d \in Nat
      BY <2>1, <2>2, Division
    <2>4. (t < u => t + d <= u) /\ (u < t => u + d <= t)
      BY <2>2 DEF Spaced
    <2>5. (t + d <= u => t \div d < u \div d) /\ (u + d <= t => u \div d < t \div d)
      BY QuotientsGrow
    <2>6. t = u
      BY <2>3, <2>4, <2>5
    <2> QED
      BY <2>2, <2>6
  <1>6. f \in Injection(S, T)
    <2>1. f \in [S -> T]
      BY <1>4
    <2> HIDE DEF f, T
    <2> QED
      BY <1>5, <2>1 DEF Injection, IsInjective
  <1> HIDE DEF f, T
  <1> QED
    BY <1>2, <1>6, FS_Injection DEF q

\* who is about to store a code of k
Storing(k) == {c \in Clients : client[c].pc = "store" /\ client[c].key = k}

\* S: who set the cooldown of k to issue a code, and when; one that died issued none.  A
\* client that has found no cooldown since then comes too late for a code within the
\* cooldown of its last one.
SetFor(k, S) ==
    /\ S \subseteq Clients \X (0..clock)
    /\ issued[k] + Cardinality(Storing(k)) <= Cardinality(S)
    /\ Spaced(S, CooldownTTL)
    /\ \A c \in Clients, t \in Nat : <<c, t>> \in S =>
          /\ t + CooldownTTL <= clock \/ t + CooldownTTL <= cooldown[k]
          /\ client[c].pc = "cooldown" /\ client[c].key = k => t + CooldownTTL <= clock

CooldownInv ==
    /\ CodesInv
    /\ \A k \in Keys : \E S : SetFor(k, S)

LEMMA StoringCounted ==
    /\ \A k \in Keys : IsFiniteSet(Storing(k)) /\ Cardinality(Storing(k)) \in Nat
    /\ \A S : S \subseteq Clients \X (0..clock) /\ clock \in Nat =>
          IsFiniteSet(S) /\ Cardinality(S) \in Nat
  <1>1. ASSUME NEW k \in Keys PROVE IsFiniteSet(Storing(k))
    BY EmailCodesAssumption, FS_Subset DEF Storing
  <1>2. ASSUME NEW S, S \subseteq Clients \X (0..clock), clock \in Nat PROVE IsFiniteSet(S)
    <2>1. IsFiniteSet(0..clock)
      BY <1>2, FS_Interval
    <2>2. IsFiniteSet(Clients \X (0..clock))
      BY <2>1, EmailCodesAssumption, FS_Product
    <2> QED
      BY <1>2, <2>2, FS_Subset
  <1> QED
    BY <1>1, <1>2, FS_CardinalityType

LEMMA CooldownsHoldInitially == EmailCodesInit => CooldownInv
  <1> SUFFICES ASSUME EmailCodesInit PROVE CooldownInv
    OBVIOUS
  <1>1. ASSUME NEW k \in Keys PROVE SetFor(k, {})
    <2>1. Storing(k) = {} /\ issued[k] = 0
      BY EntryTypes DEF EmailCodesInit, Storing
    <2> QED
      BY <2>1, FS_EmptySet DEF SetFor, Spaced
  <1> QED
    BY <1>1, CodesHoldInitially DEF CooldownInv

\* A step that neither sets the cooldown for a code of k nor stores one.
LEMMA CooldownsStay ==
    ASSUME CooldownInv, EmailCodesTypeOK', NEW k \in Keys, clock <= clock',
           Storing(k)' \subseteq Storing(k), issued'[k] = issued[k],
           \/ cooldown'[k] \in {cooldown[k], clock + CooldownTTL}
           \/ cooldown[k] <= clock',
           \A c \in Clients : client'[c].pc = "cooldown" /\ client'[c].key = k =>
              \/ client[c].pc = "cooldown" /\ client[c].key = k
              \/ cooldown[k] = 0
    PROVE  \E S : SetFor(k, S)'
  <1>1. PICK S : SetFor(k, S)
    BY DEF CooldownInv
  <1>2. /\ clock \in Nat /\ clock' \in Nat /\ cooldown[k] \in Nat /\ cooldown'[k] \in Nat
        /\ CooldownTTL \in Nat /\ CooldownTTL # 0
    BY EmailCodesAssumption DEF CooldownInv, CodesInv, EmailCodesTypeOK
  <1>3. S \subseteq Clients \X (0..clock')
    <2>1. 0..clock \subseteq 0..clock'
      BY <1>2
    <2> QED
      BY <1>1, <2>1 DEF SetFor
  <1>4. ASSUME NEW c \in Clients, NEW t \in Nat, <<c, t>> \in S
        PROVE  /\ t + CooldownTTL <= clock' \/ t + CooldownTTL <= cooldown'[k]
               /\ client'[c].pc = "cooldown" /\ client'[c].key = k => t + CooldownTTL <= clock'
    <2>1. t \in 0..clock
      BY <1>1, <1>4 DEF SetFor
    <2>2. /\ t + CooldownTTL <= clock \/ t + CooldownTTL <= cooldown[k]
          /\ client[c].pc = "cooldown" /\ client[c].key = k => t + CooldownTTL <= clock
      BY <1>1, <1>4 DEF SetFor
    <2>3. t + CooldownTTL <= clock' \/ t + CooldownTTL <= cooldown'[k]
      BY <1>2, <2>1, <2>2
    <2>4. ASSUME client'[c].pc = "cooldown", client'[c].key = k
          PROVE  t + CooldownTTL <= clock'
      <3>1. \/ client[c].pc = "cooldown" /\ client[c].key = k
            \/ cooldown[k] = 0
        BY <2>4
      <3>2. t + CooldownTTL <= clock
        BY <1>2, <2>2, <3>1
      <3> QED
        BY <1>2, <3>2
    <2> QED
      BY <2>3, <2>4
  <1>5. issued'[k] + Cardinality(Storing(k)') <= Cardinality(S)
    <2>1. issued[k] + Cardinality(Storing(k)) <= Cardinality(S)
      BY <1>1 DEF SetFor
    <2>2. /\ IsFiniteSet(Storing(k)) /\ Cardinality(Storing(k)) \in Nat /\ Cardinality(S) \in Nat
          /\ issued[k] \in Nat
      BY <1>1, <1>2, StoringCounted, EmailCodesAssumption
         DEF SetFor, CooldownInv, CodesInv, EmailCodesTypeOK
    <2>3. Cardinality(Storing(k)') <= Cardinality(Storing(k)) /\ Cardinality(Storing(k)') \in Nat
      BY <2>2, FS_Subset, FS_CardinalityType
    <2> QED
      BY <2>1, <2>2, <2>3
  <1> QED
    BY <1>1, <1>3, <1>4, <1>5 DEF SetFor

\* One request goes on or ends, and is not about to store a code of k.
LEMMA CooldownsOfOthers ==
    ASSUME CooldownInv, CodesInv', NEW c \in Clients, NEW rec \in ClientState, Goto(c, rec),
           NEW k \in Keys, UNCHANGED clock, issued'[k] = issued[k],
           cooldown'[k] \in {cooldown[k], clock + CooldownTTL},
           ~(rec.pc = "store" /\ rec.key = k),
           rec.pc = "cooldown" /\ rec.key = k => cooldown[k] = 0
    PROVE  \E S : SetFor(k, S)'
  <1>1. client'[c] = rec /\ \A x \in Clients \ {c} : client'[x] = client[x]
    BY GotoTypes DEF CooldownInv, CodesInv
  <1>2. Storing(k)' \subseteq Storing(k)
    BY <1>1 DEF Storing
  <1>3. \A x \in Clients : client'[x].pc = "cooldown" /\ client'[x].key = k =>
              \/ client[x].pc = "cooldown" /\ client[x].key = k
              \/ cooldown[k] = 0
    BY <1>1
  <1>4. clock <= clock' /\ EmailCodesTypeOK'
    BY ClockTypes DEF CooldownInv, CodesInv
  <1> QED
    BY <1>2, <1>3, <1>4, CooldownsStay

\* The client that sets the cooldown for a code has not done so within the last one.
LEMMA CooldownIsSet ==
    ASSUME CooldownInv, CodesInv', NEW c \in Clients, SetCooldown(c),
           NEW k \in Keys, client[c].key = k, ShouldIssue(k, client[c].seen)
    PROVE  \E S : SetFor(k, S)'
  <1> DEFINE rec == [client[c] EXCEPT !.pc = "store"]
  <1>1. /\ client[c] \in Sending /\ client[c].pc = "cooldown" /\ Goto(c, rec)
        /\ cooldown' = [cooldown EXCEPT ![k] = clock + CooldownTTL]
        /\ UNCHANGED <<issued, clock>>
    BY SendingAt DEF SetCooldown, At, CooldownInv, CodesInv
  <1>2. rec \in ClientState /\ rec.pc = "store" /\ rec.key = k
    BY <1>1 DEF Sending, ClientState
  <1> HIDE DEF rec
  <1>3. client'[c] = rec /\ \A x \in Clients \ {c} : client'[x] = client[x]
    BY <1>1, <1>2, GotoTypes DEF CooldownInv, CodesInv
  <1>4. PICK S : SetFor(k, S)
    BY DEF CooldownInv
  <1>5. clock \in Nat /\ CooldownTTL \in Nat /\ CooldownTTL # 0 /\ cooldown'[k] = clock + CooldownTTL
        /\ issued[k] \in Nat
    BY <1>1, ClockTypes, EmailCodesAssumption DEF CooldownInv, CodesInv, EmailCodesTypeOK
  <1> DEFINE R == S \cup {<<c, clock>>}
  <1>6. \A x \in Clients, t \in Nat : <<x, t>> \in S => t \in 0..clock /\ t <= clock
    BY <1>4, <1>5 DEF SetFor
  <1>7. \A t \in Nat : <<c, t>> \in S => t + CooldownTTL <= clock
    BY <1>1, <1>4 DEF SetFor
  <1>8. <<c, clock>> \notin S
    BY <1>5, <1>7
  <1>9. Storing(k)' = Storing(k) \cup {c} /\ c \notin Storing(k)
    BY <1>1, <1>2, <1>3 DEF Storing
  <1>10. /\ Cardinality(R) = Cardinality(S) + 1
         /\ Cardinality(Storing(k)') = Cardinality(Storing(k)) + 1
    <2>1. IsFiniteSet(S) /\ IsFiniteSet(Storing(k))
      BY <1>4, <1>5, StoringCounted DEF SetFor
    <2> QED
      BY <1>8, <1>9, <2>1, FS_AddElement
  <1>11. issued'[k] + Cardinality(Storing(k)') <= Cardinality(R)
    <2>1. /\ issued[k] + Cardinality(Storing(k)) <= Cardinality(S)
          /\ Cardinality(Storing(k)) \in Nat /\ Cardinality(S) \in Nat
      BY <1>4, <1>5, StoringCounted DEF SetFor
    <2> QED
      BY <1>1, <1>5, <1>10, <2>1
  <1>12. R \subseteq Clients \X (0..clock')
    <2>1. clock \in 0..clock'
      BY <1>1, <1>5
    <2> QED
      BY <1>1, <1>4, <2>1 DEF SetFor
  <1>13. Spaced(R, CooldownTTL)
    <2> SUFFICES ASSUME NEW x \in Clients, NEW t \in Nat, NEW u \in Nat,
                        <<x, t>> \in R, <<x, u>> \in R, t < u
                 PROVE  t + CooldownTTL <= u
      BY DEF Spaced
    <2>1. CASE <<x, t>> \in S /\ <<x, u>> \in S
      BY <1>4, <2>1 DEF SetFor, Spaced
    <2>2. CASE <<x, u>> \notin S
      BY <1>7, <2>2
    <2>3. CASE <<x, t>> \notin S
      BY <1>6, <2>3
    <2> QED
      BY <2>1, <2>2, <2>3
  <1>14. ASSUME NEW x \in Clients, NEW t \in Nat, <<x, t>> \in R
         PROVE  /\ t + CooldownTTL <= clock' \/ t + CooldownTTL <= cooldown'[k]
                /\ client'[x].pc = "cooldown" /\ client'[x].key = k => t + CooldownTTL <= clock'
    <2>1. t <= clock
      BY <1>5, <1>6, <1>14
    <2>2. t + CooldownTTL <= cooldown'[k]
      BY <1>5, <2>1
    <2>3. ASSUME client'[x].pc = "cooldown", client'[x].key = k PROVE t + CooldownTTL <= clock'
      <3>1. x # c
        BY <1>2, <1>3, <2>3
      <3>2. <<x, t>> \in S /\ client[x] = client'[x]
        BY <1>3, <1>14, <3>1
      <3> QED
        BY <1>1, <1>4, <2>3, <3>2 DEF SetFor
    <2> QED
      BY <2>2, <2>3
  <1>15. SetFor(k, R)'
    BY <1>1, <1>11, <1>12, <1>13, <1>14 DEF SetFor
  <1> QED
    BY <1>15

\* Who was about to store a code stores it.
LEMMA CodeIsIssued ==
    ASSUME CooldownInv, CodesInv', NEW c \in Clients, StoreCode(c),
           NEW k \in Keys, client[c].key = k
    PROVE  \E S : SetFor(k, S)'
  <1> DEFINE rec == [client[c] EXCEPT !.pc = "clear", !.code = issued[k] + 1]
  <1>1. /\ client[c] \in Sending /\ client[c].pc = "store" /\ Goto(c, rec)
        /\ issued' = [issued EXCEPT ![k] = issued[k] + 1] /\ issued[k] + 1 \in Codes
        /\ UNCHANGED <<cooldown, clock>>
    BY SendingAt DEF StoreCode, At, CooldownInv, CodesInv
  <1>2. rec \in ClientState /\ rec.pc = "clear"
    BY <1>1 DEF Sending, ClientState
  <1> HIDE DEF rec
  <1>3. client'[c] = rec /\ \A x \in Clients \ {c} : client'[x] = client[x]
    BY <1>1, <1>2, GotoTypes DEF CooldownInv, CodesInv
  <1>4. PICK S : SetFor(k, S)
    BY DEF CooldownInv
  <1>5. Storing(k)' = Storing(k) \ {c} /\ c \in Storing(k)
    BY <1>1, <1>2, <1>3 DEF Storing
  <1>6. Cardinality(Storing(k)') = Cardinality(Storing(k)) - 1
    BY <1>5, StoringCounted, FS_RemoveElement
  <1>7. issued'[k] = issued[k] + 1 /\ issued[k] \in Nat
    BY <1>1, EmailCodesAssumption DEF CooldownInv, CodesInv, EmailCodesTypeOK
  <1>8. issued'[k] + Cardinality(Storing(k)') <= Cardinality(S)
    <2>1. clock \in Nat
      BY ClockTypes DEF CooldownInv, CodesInv
    <2>2. /\ issued[k] + Cardinality(Storing(k)) <= Cardinality(S)
          /\ Cardinality(Storing(k)) \in Nat /\ Cardinality(S) \in Nat
      BY <1>4, <2>1, StoringCounted DEF SetFor
    <2> QED
      BY <1>6, <1>7, <2>2
  <1>9. \A x \in Clients : client'[x].pc = "cooldown" => client[x] = client'[x]
    BY <1>2, <1>3
  <1>10. SetFor(k, S)'
    BY <1>1, <1>4, <1>8, <1>9 DEF SetFor
  <1> QED
    BY <1>10

\* the steps of a request that neither set the cooldown nor store a code
OffTheCooldown(c) ==
    \/ ClearAttempts(c) \/ SendMail(c)
    \/ \E k \in Keys : \E typed \in Typed(k) : ReadAttempts(c, k, typed) \/ SignupCheck(c, k, typed)
    \/ Compare(c) \/ CountFailed(c) \/ KillCode(c) \/ SavePassword(c) \/ CreateMember(c)
    \/ DropCode(c) \/ DropCounter(c) \/ CodeRequestDies(c)

LEMMA OffTheCooldownGoes ==
    ASSUME CodesInv, CodesInv', NEW c \in Clients, OffTheCooldown(c)
    PROVE  \E rec \in ClientState : Goto(c, rec) /\ rec.pc \notin {"store", "cooldown"}
  <1>1. client \in [Clients -> ClientState] /\ client' \in [Clients -> ClientState]
    BY DEF CodesInv, EmailCodesTypeOK, ClientState
  <1>2. ASSUME NEW rec, Goto(c, rec) PROVE rec \in ClientState
    BY <1>1, <1>2 DEF Goto
  <1> SUFFICES \E rec : Goto(c, rec) /\ rec.pc \notin {"store", "cooldown"}
    BY <1>2
  <1>3. CASE Goto(c, Free)
    BY <1>3, EntryTypes
  <1>4. CASE ClearAttempts(c)
    <2>1. client[c] \in Sending
      BY <1>4, SendingAt DEF ClearAttempts, At, CodesInv
    <2>2. [client[c] EXCEPT !.pc = "mail"].pc = "mail"
      BY <2>1 DEF Sending
    <2> QED
      BY <1>4, <2>2 DEF ClearAttempts
  <1>5. ASSUME NEW k \in Keys, NEW typed \in Typed(k), ReadAttempts(c, k, typed) \/ SignupCheck(c, k, typed)
        PROVE  \E rec : Goto(c, rec) /\ rec.pc \notin {"store", "cooldown"}
    BY <1>5 DEF ReadAttempts, SignupCheck, TakeUp
  <1>6. CASE Compare(c) \/ CountFailed(c) \/ SavePassword(c) \/ CreateMember(c) \/ DropCode(c)
    <2>1. client[c] \in Verifying
      BY <1>6, VerifyingAt DEF Compare, CountFailed, SavePassword, CreateMember, DropCode, At, CodesInv
    <2>2. \A pc \in {"save", "kill", "drop", "uncount"} : [client[c] EXCEPT !.pc = pc].pc = pc
      BY <2>1 DEF Verifying
    <2>3. [client[c] EXCEPT !.pc = "count", !.failed = client[c].failed + 1].pc = "count"
      BY <2>1 DEF Verifying
    <2>4. \/ Goto(c, Free)
          \/ \E pc \in {"save", "kill", "drop", "uncount"} : Goto(c, [client[c] EXCEPT !.pc = pc])
          \/ Goto(c, [client[c] EXCEPT !.pc = "count", !.failed = client[c].failed + 1])
      BY <1>6 DEF Compare, CountFailed, SavePassword, CreateMember, DropCode, End
    <2> QED
      BY <1>3, <2>2, <2>3, <2>4
  <1> QED
    BY <1>3, <1>4, <1>5, <1>6 DEF OffTheCooldown, SendMail, KillCode, DropCounter, CodeRequestDies, End

LEMMA OffTheCooldownKeeps ==
    ASSUME NEW c \in Clients, OffTheCooldown(c)
    PROVE  UNCHANGED <<clock, issued, cooldown>>
  BY DEF OffTheCooldown, ClearAttempts, SendMail, ReadAttempts, SignupCheck, Compare, CountFailed,
         KillCode, SavePassword, CreateMember, DropCode, DropCounter, CodeRequestDies, TakeUp

\* Every step preserves the invariant.
LEMMA CooldownsArePreserved ==
    ASSUME CooldownInv, [EmailCodesNext]_codeVars
    PROVE  CooldownInv'
  <1>1. CodesInv' /\ EmailCodesTypeOK'
    BY CodesArePreserved DEF CooldownInv, CodesInv
  <1> SUFFICES ASSUME NEW k \in Keys PROVE \E S : SetFor(k, S)'
    BY <1>1 DEF CooldownInv
  <1>2. CASE UNCHANGED codeVars
    <2>1. PICK S : SetFor(k, S)
      BY DEF CooldownInv
    <2>2. SetFor(k, S)'
      BY <1>2, <2>1 DEF SetFor, Storing, codeVars
    <2> QED
      BY <2>2
  <1>3. CASE PassTime
    <2>1. /\ UNCHANGED <<client, issued>> /\ clock' = clock + 1
          /\ cooldown'[k] = IF cooldown[k] > clock' THEN cooldown[k] ELSE 0
      BY <1>3 DEF PassTime
    <2>2. clock \in Nat /\ cooldown[k] \in Nat
      BY ClockTypes DEF CooldownInv, CodesInv, EmailCodesTypeOK
    <2>3. /\ clock <= clock'
          /\ cooldown'[k] \in {cooldown[k], clock + CooldownTTL} \/ cooldown[k] <= clock'
      BY <2>1, <2>2
    <2>4. Storing(k)' = Storing(k)
      BY <2>1 DEF Storing
    <2> QED
      BY <1>1, <2>1, <2>3, <2>4, CooldownsStay
  <1>4. ASSUME NEW a \in Addresses, Deactivate(a) PROVE \E S : SetFor(k, S)'
    <2>1. UNCHANGED <<client, issued, clock, cooldown>>
      BY <1>4 DEF Deactivate
    <2>2. Storing(k)' = Storing(k) /\ clock <= clock'
      BY <2>1, ClockTypes DEF Storing, CooldownInv, CodesInv
    <2> QED
      BY <1>1, <2>1, <2>2, CooldownsStay
  <1>5. ASSUME NEW c \in Clients, SetCooldown(c) PROVE \E S : SetFor(k, S)'
    <2>1. client[c] \in Sending /\ client[c].pc = "cooldown" /\ client[c].key \in Keys
      BY <1>5, SendingAt DEF SetCooldown, At, CooldownInv, CodesInv
    <2>2. CASE client[c].key = k /\ ShouldIssue(client[c].key, client[c].seen)
      BY <1>1, <1>5, <2>2, CooldownIsSet
    <2>3. CASE ~(client[c].key = k /\ ShouldIssue(client[c].key, client[c].seen))
      <3>1. PICK rec \in ClientState :
              /\ Goto(c, rec) /\ ~(rec.pc = "store" /\ rec.key = k) /\ rec.pc # "cooldown"
        <4>1. CASE ShouldIssue(client[c].key, client[c].seen)
          <5> DEFINE r == [client[c] EXCEPT !.pc = "store"]
          <5>1. Goto(c, r)
            BY <1>5, <4>1 DEF SetCooldown
          <5>2. r \in ClientState /\ r.pc = "store" /\ r.key # k
            BY <2>1, <2>3, <4>1 DEF Sending, ClientState
          <5> QED
            BY <5>1, <5>2
        <4>2. CASE ~ShouldIssue(client[c].key, client[c].seen)
          BY <1>5, <4>2, EntryTypes DEF SetCooldown, End
        <4> QED
          BY <4>1, <4>2
      <3>2. /\ UNCHANGED <<clock, issued>>
            /\ cooldown'[k] \in {cooldown[k], clock + CooldownTTL}
        BY <1>5 DEF SetCooldown, CooldownInv, CodesInv, EmailCodesTypeOK
      <3> QED
        BY <1>1, <2>1, <3>1, <3>2, CooldownsOfOthers
    <2> QED
      BY <2>2, <2>3
  <1>6. ASSUME NEW c \in Clients, StoreCode(c) PROVE \E S : SetFor(k, S)'
    <2>1. client[c] \in Sending /\ client[c].pc = "store" /\ client[c].key \in Keys
      BY <1>6, SendingAt DEF StoreCode, At, CooldownInv, CodesInv
    <2>2. CASE client[c].key = k
      BY <1>1, <1>6, <2>2, CodeIsIssued
    <2>3. CASE client[c].key # k
      <3> DEFINE r == [client[c] EXCEPT !.pc = "clear", !.code = issued[client[c].key] + 1]
      <3>1. Goto(c, r) /\ issued[client[c].key] + 1 \in Codes
        BY <1>6 DEF StoreCode
      <3>2. r \in ClientState /\ r.pc = "clear"
        BY <2>1, <3>1 DEF Sending, ClientState
      <3> HIDE DEF r
      <3>3. UNCHANGED <<clock, cooldown>> /\ issued'[k] = issued[k]
        BY <1>6, <2>1, <2>3 DEF StoreCode, CooldownInv, CodesInv, EmailCodesTypeOK
      <3> QED
        BY <1>1, <2>1, <2>3, <3>1, <3>2, <3>3, CooldownsOfOthers
    <2> QED
      BY <2>2, <2>3
  <1>7. ASSUME NEW c \in Clients, NEW x \in Keys, SendLookup(c, x) PROVE \E S : SetFor(k, S)'
    <2> DEFINE r == [pc |-> "cooldown", key |-> x, seen |-> member[x[2]], code |-> None]
    <2>1. Goto(c, r) /\ client[c].pc = "free" /\ cooldown[x] = 0
          /\ UNCHANGED <<cooldown, issued, clock>>
      BY <1>7 DEF SendLookup, TakeUp, CoolingDown, At
    <2>2. x[2] \in Addresses
      BY DEF Keys
    <2>3. r \in ClientState
      BY <2>2 DEF ClientState, Sending, CooldownInv, CodesInv, EmailCodesTypeOK
    <2> QED
      BY <1>1, <2>1, <2>3, CooldownsOfOthers
  <1>8. ASSUME NEW c \in Clients, OffTheCooldown(c) PROVE \E S : SetFor(k, S)'
    <2>1. PICK rec \in ClientState : Goto(c, rec) /\ rec.pc \notin {"store", "cooldown"}
      BY <1>1, <1>8, OffTheCooldownGoes DEF CooldownInv
    <2>2. UNCHANGED <<clock, issued, cooldown>>
      BY <1>8, OffTheCooldownKeeps
    <2> QED
      BY <1>1, <2>1, <2>2, CooldownsOfOthers
  <1> QED
    BY <1>2, <1>3, <1>4, <1>5, <1>6, <1>7, <1>8
       DEF EmailCodesNext, SendEmailCode, ResetPassword, SignupWithCode, OffTheCooldown

\* Whatever the interleaving, no client issues more than one code per cooldown.
THEOREM CodesAreSpaced == EmailCodesSpec => []IssuedPerCooldown
  <1>1. CooldownInv => IssuedPerCooldown
    <2> SUFFICES ASSUME CooldownInv, NEW k \in Keys
                 PROVE  issued[k] <= Cardinality(Clients) * (1 + clock \div CooldownTTL)
      BY DEF IssuedPerCooldown
    <2>1. PICK S : SetFor(k, S)
      BY DEF CooldownInv
    <2>2. clock \in Nat /\ CooldownTTL \in Nat \ {0} /\ issued[k] \in Nat
      BY ClockTypes, EmailCodesAssumption DEF CooldownInv, CodesInv, EmailCodesTypeOK
    <2>3. Cardinality(S) <= Cardinality(Clients) * (1 + clock \div CooldownTTL)
      BY <2>1, <2>2, SpacedAreFew DEF SetFor
    <2>4. issued[k] <= Cardinality(S) /\ Cardinality(S) \in Nat
      BY <2>1, <2>2, StoringCounted DEF SetFor
    <2>5. PICK b \in Int : b = Cardinality(Clients) * (1 + clock \div CooldownTTL)
      BY <2>2, Division, EmailCodesAssumption, FS_CardinalityType
    <2> QED
      BY <2>2, <2>3, <2>4, <2>5
  <1> QED
    BY <1>1, CooldownsHoldInitially, CooldownsArePreserved, PTL DEF EmailCodesSpec

-----------------------------------------------------------------------------
(* Overlapping requests: how often one code is guessed wrong *)

\* The failure counter as far as it is about the live code: it may have been written for
\* an earlier one, and expires before this one then.
Shown(k) == IF attempts[k].until < codeEntry[k].until THEN 0 ELSE attempts[k].n

\* what a client does about a key
PartOf(x, k) == IF x \in Clients /\ client[x].pc # "free" /\ client[x].key = k
                THEN client[x] ELSE Free

Lesser(m, n) == IF m < n THEN m ELSE n

\* The lowest count from which a request, or the next one of its client, still guesses.
\* One that is about to take the code away guesses once more at most.
Level(rec, n) ==
    IF rec.pc = "compare" THEN Lesser(rec.failed, n)
    ELSE IF rec.pc = "count" THEN Lesser(rec.failed - 1, n)
    ELSE IF rec.pc = "kill" THEN MaxAttempts - 1
    ELSE Lesser(n, MaxAttempts - 1)

\* Everything below counts guesses twice.  One that is made and not yet written back is owed.
Owed(rec) == IF rec.pc \in {"count", "kill"} THEN 2 ELSE 0
Resets(rec) == rec.pc \in {"clear", "uncount"}

\* the guesses two clients can make in turn, when the lower count is l and comes after it
Rest(l) == (MaxAttempts - 1 - l) * (MaxAttempts - l)

\* the guesses left to two clients at the levels x and y
LeftAt(x, y) == IF x < y THEN 2 * (MaxAttempts - y) + Rest(x) + 2
                         ELSE 2 * (MaxAttempts - x) + Rest(y) + 2

Limit == MaxAttempts * (MaxAttempts + 3)

\* the guesses left of two requests for one code; who is about to delete the counter takes
\* both clients back to the start
Room(r, s, n) ==
    IF Resets(r) /\ Resets(s) THEN Limit
    ELSE IF Resets(r) THEN LeftAt(0, 0) + 2 * (MaxAttempts - 1 - Level(s, n)) - Owed(s)
    ELSE IF Resets(s) THEN LeftAt(0, 0) + 2 * (MaxAttempts - 1 - Level(r, n)) - Owed(r)
    ELSE LeftAt(Level(r, n), Level(s, n)) - Owed(r) - Owed(s)

Ready(rec) ==
    /\ rec \in ClientState
    /\ rec.pc = "compare" => rec.failed < MaxAttempts
    /\ rec.pc = "count" => rec.failed # 0

LEMMA RestSteps ==
    ASSUME NEW m \in Nat, NEW l \in Nat, NEW h \in Nat, l < h, h <= m - 1
    PROVE  (m - 1 - l) * (m - l) >= (m - 1 - h) * (m - h) + 2 * (m - h)
  <1>1. PICK e \in Nat : e = m - 1 - h
    OBVIOUS
  <1>2. PICK x \in Nat : x = h - l - 1
    OBVIOUS
  <1>3. m - 1 - l = e + x + 1 /\ m - l = e + x + 2 /\ m - h = e + 1
    BY <1>1, <1>2
  <1>4. (e + x + 1) * (e + x + 2) = e * e + 3 * e + 2 + 2 * (e * x) + x * x + 3 * x
    OBVIOUS
  <1>5. e * (e + 1) + 2 * (e + 1) = e * e + 3 * e + 2
    OBVIOUS
  <1>6. e * x >= 0 /\ x * x >= 0 /\ e * e \in Int /\ e * x \in Int /\ x * x \in Int
    OBVIOUS
  <1>7. (e + x + 1) * (e + x + 2) >= e * (e + 1) + 2 * (e + 1)
    BY <1>4, <1>5, <1>6
  <1> QED
    BY ONLY <1>1, <1>3, <1>7

LEMMA RestFacts ==
    /\ \A l \in 0..(MaxAttempts - 1) : Rest(l) \in Nat
    /\ \A l, h \in 0..(MaxAttempts - 1) : l < h => Rest(l) >= Rest(h) + 2 * (MaxAttempts - h)
    /\ \A l \in 1..(MaxAttempts - 1) : Rest(l - 1) = Rest(l) + 2 * (MaxAttempts - l)
    /\ Limit \in Nat
    /\ 2 * MaxAttempts + Rest(0) + 2 + 2 * (MaxAttempts - 1) = Limit
  <1>1. MaxAttempts \in Nat /\ MaxAttempts # 0
    BY EmailCodesAssumption
  <1>2. PICK m \in Nat : m = MaxAttempts /\ m # 0
    BY <1>1
  <1>3. \A l \in 0..(m - 1) : (m - 1 - l) * (m - l) \in Nat
    <2> SUFFICES ASSUME NEW l \in 0..(m - 1) PROVE (m - 1 - l) * (m - l) \in Nat
      OBVIOUS
    <2>1. m - 1 - l \in Nat /\ m - l \in Nat
      OBVIOUS
    <2> QED
      BY ONLY <2>1
  <1>4. \A l, h \in 0..(m - 1) :
           l < h => (m - 1 - l) * (m - l) >= (m - 1 - h) * (m - h) + 2 * (m - h)
    BY ONLY <1>2, RestSteps
  <1>5. \A l \in 1..(m - 1) :
           (m - 1 - (l - 1)) * (m - (l - 1)) = (m - 1 - l) * (m - l) + 2 * (m - l)
    OBVIOUS
  <1>6. m * (m + 3) \in Nat
    OBVIOUS
  <1>7. 2 * m + (m - 1 - 0) * (m - 0) + 2 + 2 * (m - 1) = m * (m + 3)
    OBVIOUS
  <1> QED
    BY ONLY <1>2, <1>3, <1>4, <1>5, <1>6, <1>7 DEF Rest, Limit

LEMMA LeftFacts ==
    ASSUME NEW x \in 0..(MaxAttempts - 1), NEW y \in 0..(MaxAttempts - 1)
    PROVE  /\ LeftAt(x, y) \in Int /\ LeftAt(x, y) = LeftAt(y, x) /\ 4 <= LeftAt(x, y)
           /\ LeftAt(x, y) <= LeftAt(0, 0) /\ LeftAt(0, 0) \in Int
           /\ LeftAt(0, 0) + 2 * (MaxAttempts - 1) = Limit
           /\ \A z \in 0..(MaxAttempts - 1) :
                 /\ x <= z => LeftAt(z, y) <= LeftAt(x, y)
                 /\ x < z => LeftAt(z, y) + 2 <= LeftAt(x, y)
           /\ \A f \in 1..(MaxAttempts - 1) :
                 f < y => LeftAt(f, f) + 2 <= LeftAt(f - 1, y)
  <1>1. MaxAttempts \in Nat /\ MaxAttempts # 0
    BY EmailCodesAssumption
  <1>2. /\ LeftAt(x, y) \in Int /\ LeftAt(x, y) = LeftAt(y, x) /\ 4 <= LeftAt(x, y)
        /\ LeftAt(x, y) <= LeftAt(0, 0) /\ LeftAt(0, 0) \in Int
        /\ LeftAt(0, 0) + 2 * (MaxAttempts - 1) = Limit
    BY <1>1, RestFacts DEF LeftAt
  <1>3. ASSUME NEW z \in 0..(MaxAttempts - 1), x < z PROVE LeftAt(z, y) + 2 <= LeftAt(x, y)
    BY <1>1, <1>3, RestFacts DEF LeftAt
  <1>4. ASSUME NEW f \in 1..(MaxAttempts - 1), f < y PROVE LeftAt(f, f) + 2 <= LeftAt(f - 1, y)
    <2>1. Rest(f - 1) = Rest(f) + 2 * (MaxAttempts - f) /\ Rest(f) \in Nat
      BY <1>1, RestFacts
    <2>2. /\ LeftAt(f, f) = 2 * (MaxAttempts - f) + Rest(f) + 2
          /\ LeftAt(f - 1, y) = 2 * (MaxAttempts - y) + Rest(f - 1) + 2
      BY <1>1, <1>4 DEF LeftAt
    <2> QED
      BY <1>1, <2>1, <2>2
  <1>5. \A z \in 0..(MaxAttempts - 1) : LeftAt(z, y) \in Int
    BY <1>1, RestFacts DEF LeftAt
  <1> QED
    BY <1>1, <1>2, <1>3, <1>4, <1>5

LEMMA LevelFacts ==
    ASSUME NEW rec, Ready(rec), NEW n \in 0..MaxAttempts
    PROVE  /\ Level(rec, n) \in 0..(MaxAttempts - 1)
           /\ \A m \in 0..MaxAttempts : n <= m => Level(rec, n) <= Level(rec, m)
           /\ \A f \in 0..(MaxAttempts - 1) : Lesser(Level(rec, n), f) <= Level(rec, f)
           /\ Owed(rec) \in {0, 2} /\ (Resets(rec) => Owed(rec) = 0)
  <1>1. MaxAttempts \in Nat /\ MaxAttempts # 0
    BY EmailCodesAssumption
  <1>2. rec.pc \in {"compare", "count"} => rec.failed \in 0..MaxAttempts
    BY DEF Ready, ClientState, Sending, Verifying, Free
  <1>3. Owed(rec) \in {0, 2} /\ (Resets(rec) => Owed(rec) = 0)
    BY DEF Owed, Resets
  <1>4. rec.pc = "compare" => rec.failed < MaxAttempts
    BY DEF Ready
  <1>5. rec.pc = "count" => rec.failed # 0
    BY DEF Ready
  <1>6. CASE rec.pc = "compare"
    BY <1>1, <1>2, <1>3, <1>4, <1>6 DEF Level, Lesser
  <1>7. CASE rec.pc = "count"
    BY <1>1, <1>2, <1>3, <1>5, <1>7 DEF Level, Lesser
  <1>8. CASE rec.pc \notin {"compare", "count"}
    BY <1>1, <1>3, <1>8 DEF Level, Lesser
  <1> QED
    BY <1>6, <1>7, <1>8

LEMMA RoomIsSymmetric ==
    ASSUME NEW r, NEW s, Ready(r), Ready(s), NEW n \in 0..MaxAttempts
    PROVE  Room(r, s, n) = Room(s, r, n)
  <1>1. /\ Level(r, n) \in 0..(MaxAttempts - 1) /\ Level(s, n) \in 0..(MaxAttempts - 1)
        /\ Owed(r) \in {0, 2} /\ Owed(s) \in {0, 2}
    BY LevelFacts
  <1>2. /\ LeftAt(Level(r, n), Level(s, n)) = LeftAt(Level(s, n), Level(r, n))
        /\ LeftAt(Level(r, n), Level(s, n)) \in Int
    BY <1>1, LeftFacts
  <1> QED
    BY <1>1, <1>2 DEF Room

\* What is left is never negative, and never more than the limit.
LEMMA RoomIsBounded ==
    ASSUME NEW r, NEW s, Ready(r), Ready(s), NEW n \in 0..MaxAttempts
    PROVE  Room(r, s, n) \in Int /\ 0 <= Room(r, s, n) /\ Room(r, s, n) <= Limit
  <1>1. /\ Level(r, n) \in 0..(MaxAttempts - 1) /\ Level(s, n) \in 0..(MaxAttempts - 1)
        /\ Owed(r) \in {0, 2} /\ Owed(s) \in {0, 2}
    BY LevelFacts
  <1>2. /\ LeftAt(Level(r, n), Level(s, n)) \in Int /\ 4 <= LeftAt(Level(r, n), Level(s, n))
        /\ LeftAt(Level(r, n), Level(s, n)) <= LeftAt(0, 0) /\ LeftAt(0, 0) \in Int
        /\ LeftAt(0, 0) + 2 * (MaxAttempts - 1) = Limit /\ Limit \in Nat
        /\ MaxAttempts \in Nat /\ MaxAttempts # 0
    BY <1>1, LeftFacts, RestFacts, EmailCodesAssumption
  <1> QED
    BY <1>1, <1>2 DEF Room

\* Nothing is gained by a step to a level that is not lower.
LEMMA RoomOnlyShrinks ==
    ASSUME NEW r, NEW t, NEW s, Ready(r), Ready(t), Ready(s),
           NEW n \in 0..MaxAttempts, NEW m \in 0..MaxAttempts, ~Resets(r), ~Resets(t),
           Level(r, n) <= Level(t, m), Level(s, n) <= Level(s, m), Owed(r) = Owed(t)
    PROVE  Room(t, s, m) <= Room(r, s, n)
  <1>1. /\ Level(r, n) \in 0..(MaxAttempts - 1) /\ Level(s, n) \in 0..(MaxAttempts - 1)
        /\ Level(t, m) \in 0..(MaxAttempts - 1) /\ Level(s, m) \in 0..(MaxAttempts - 1)
        /\ Owed(r) \in {0, 2} /\ Owed(s) \in {0, 2}
    BY LevelFacts
  <1>2. /\ LeftAt(Level(t, m), Level(s, m)) <= LeftAt(Level(r, n), Level(s, m))
        /\ LeftAt(Level(s, m), Level(r, n)) <= LeftAt(Level(s, n), Level(r, n))
    BY <1>1, LeftFacts
  <1>3. /\ LeftAt(Level(s, m), Level(r, n)) = LeftAt(Level(r, n), Level(s, m))
        /\ LeftAt(Level(s, n), Level(r, n)) = LeftAt(Level(r, n), Level(s, n))
        /\ LeftAt(Level(t, m), Level(s, m)) \in Int /\ LeftAt(Level(r, n), Level(s, m)) \in Int
        /\ LeftAt(Level(r, n), Level(s, n)) \in Int /\ LeftAt(0, 0) \in Int
    BY <1>1, LeftFacts
  <1>4. MaxAttempts \in Nat
    BY EmailCodesAssumption
  <1> QED
    BY <1>1, <1>2, <1>3, <1>4 DEF Room

\* The counter is deleted, and who was about to delete it goes on.
LEMMA RoomAfterReset ==
    ASSUME NEW r, NEW t, NEW s, Ready(r), Ready(t), Ready(s),
           NEW n \in 0..MaxAttempts, Resets(r), t.pc \in {"mail", "free"}
    PROVE  Room(t, s, 0) <= Room(r, s, n)
  <1>1. MaxAttempts \in Nat /\ MaxAttempts # 0 /\ 0 \in 0..MaxAttempts
    BY EmailCodesAssumption
  <1>2. ~Resets(t) /\ Owed(t) = 0 /\ Level(t, 0) = 0
    BY <1>1 DEF Resets, Owed, Level, Lesser
  <1>3. /\ Level(s, n) \in 0..(MaxAttempts - 1) /\ Level(s, 0) \in 0..(MaxAttempts - 1)
        /\ Owed(s) \in {0, 2} /\ (Resets(s) => Owed(s) = 0)
    BY <1>1, LevelFacts
  <1>4. /\ LeftAt(0, Level(s, 0)) \in Int /\ LeftAt(0, Level(s, 0)) <= LeftAt(0, 0)
        /\ LeftAt(0, 0) \in Int /\ LeftAt(0, 0) + 2 * (MaxAttempts - 1) = Limit
    BY <1>1, <1>3, LeftFacts
  <1> QED
    BY <1>1, <1>2, <1>3, <1>4 DEF Room

\* A wrong guess is owed by who made it.
LEMMA RoomAfterGuess ==
    ASSUME NEW r, NEW t, NEW s, Ready(r), Ready(t), Ready(s),
           NEW n \in 0..MaxAttempts, r.pc = "compare", t.pc = "count", t.failed = r.failed + 1
    PROVE  Room(t, s, n) + 2 = Room(r, s, n)
  <1>1. r.failed \in 0..MaxAttempts /\ MaxAttempts \in Nat
    BY EmailCodesAssumption DEF Ready, ClientState, Sending, Verifying, Free
  <1>2. /\ ~Resets(r) /\ ~Resets(t) /\ Owed(r) = 0 /\ Owed(t) = 2
        /\ Level(t, n) = Level(r, n)
    BY <1>1 DEF Resets, Owed, Level
  <1>3. /\ Level(r, n) \in 0..(MaxAttempts - 1) /\ Level(s, n) \in 0..(MaxAttempts - 1)
        /\ Owed(s) \in {0, 2}
    BY LevelFacts
  <1>4. LeftAt(Level(r, n), Level(s, n)) \in Int /\ LeftAt(0, 0) \in Int
    BY <1>3, LeftFacts
  <1> QED
    BY <1>1, <1>2, <1>3, <1>4 DEF Room

\* A count is written back, which may take the counter down: then the other client starts
\* no lower than this one.
LEMMA RoomAfterCount ==
    ASSUME NEW r, NEW t, NEW s, Ready(r), Ready(t), Ready(s), NEW n \in 0..MaxAttempts,
           r.pc = "count",
           t.pc = IF r.failed >= MaxAttempts THEN "kill" ELSE "free"
    PROVE  Room(t, s, r.failed) <= Room(r, s, n)
  <1> DEFINE f == r.failed
  <1>1. f \in 1..MaxAttempts /\ f \in 0..MaxAttempts /\ MaxAttempts \in Nat /\ MaxAttempts # 0
    <2>1. f \in 0..MaxAttempts /\ f # 0
      BY DEF Ready, ClientState, Sending, Verifying, Free
    <2> QED
      BY <2>1, EmailCodesAssumption
  <1> HIDE DEF f
  <1>2. /\ ~Resets(r) /\ ~Resets(t) /\ Owed(r) = 2
        /\ Level(r, n) = Lesser(f - 1, n)
        /\ f < MaxAttempts => Owed(t) = 0 /\ Level(t, f) = f
        /\ f >= MaxAttempts => Owed(t) = 2 /\ Level(t, f) = MaxAttempts - 1
    BY <1>1 DEF Resets, Owed, Level, Lesser, f
  <1>3. /\ Level(r, n) \in 0..(MaxAttempts - 1) /\ Level(s, n) \in 0..(MaxAttempts - 1)
        /\ Level(s, f) \in 0..(MaxAttempts - 1)
        /\ Owed(s) \in {0, 2} /\ (n <= f => Level(s, n) <= Level(s, f))
        /\ f < MaxAttempts => Lesser(Level(s, n), f) <= Level(s, f)
    <2>1. f < MaxAttempts => f \in 0..(MaxAttempts - 1)
      BY <1>1
    <2>2. \A x \in {r, s} : Level(x, n) \in 0..(MaxAttempts - 1)
      BY LevelFacts
    <2>3. Level(s, f) \in 0..(MaxAttempts - 1) /\ Owed(s) \in {0, 2}
      BY <1>1, LevelFacts
    <2>4. n <= f => Level(s, n) <= Level(s, f)
      BY <1>1, LevelFacts
    <2>5. f \in 0..(MaxAttempts - 1) => Lesser(Level(s, n), f) <= Level(s, f)
      BY LevelFacts
    <2> QED
      BY <2>1, <2>2, <2>3, <2>4, <2>5
  <1>4. CASE f >= MaxAttempts
    <2>1. Level(r, n) <= Level(t, f) /\ Level(s, n) <= Level(s, f) /\ Owed(r) = Owed(t)
      BY <1>1, <1>2, <1>3, <1>4
    <2> QED
      BY <1>1, <1>2, <2>1, RoomOnlyShrinks DEF f
  <1>5. CASE f < MaxAttempts
    <2>1. f \in 0..(MaxAttempts - 1) /\ f \in 1..(MaxAttempts - 1) /\ Level(r, n) < f
      BY <1>1, <1>2, <1>3, <1>5 DEF Lesser
    <2>2. LeftAt(0, 0) \in Int
      BY <1>3, LeftFacts
    <2>3. CASE Resets(s)
      BY <1>1, <1>2, <1>3, <1>5, <2>1, <2>2, <2>3 DEF Room, f
    <2>4. CASE ~Resets(s)
      <3> DEFINE x == Level(r, n)  y == Level(s, n)  z == Level(s, f)
      <3>1. LeftAt(f, z) + 2 <= LeftAt(x, y)
        <4>1. x \in 0..(MaxAttempts - 1) /\ y \in 0..(MaxAttempts - 1) /\ z \in 0..(MaxAttempts - 1)
              /\ x < f
          BY <1>3, <2>1
        <4>2. y <= z \/ (f < y /\ f <= z /\ x = f - 1)
          BY <1>1, <1>2, <1>3, <1>5 DEF Lesser
        <4> HIDE DEF x, y, z
        <4>3. CASE y <= z
          <5>1. LeftAt(f, y) + 2 <= LeftAt(x, y)
            BY <2>1, <4>1, LeftFacts
          <5>2. LeftAt(z, f) <= LeftAt(y, f)
            BY <2>1, <4>1, <4>3, LeftFacts
          <5>3. /\ LeftAt(z, f) = LeftAt(f, z) /\ LeftAt(y, f) = LeftAt(f, y)
                /\ LeftAt(f, z) \in Int /\ LeftAt(f, y) \in Int /\ LeftAt(x, y) \in Int
            BY <2>1, <4>1, LeftFacts
          <5> QED
            BY <5>1, <5>2, <5>3
        <4>4. CASE f < y /\ f <= z /\ x = f - 1
          <5>1. LeftAt(f, f) + 2 <= LeftAt(x, y)
            BY <2>1, <4>1, <4>4, LeftFacts
          <5>2. LeftAt(z, f) <= LeftAt(f, f)
            BY <2>1, <4>1, <4>4, LeftFacts
          <5>3. /\ LeftAt(z, f) = LeftAt(f, z) /\ LeftAt(f, z) \in Int
                /\ LeftAt(f, f) \in Int /\ LeftAt(x, y) \in Int
            BY <2>1, <4>1, LeftFacts
          <5> QED
            BY <5>1, <5>2, <5>3
        <4> QED
          BY <4>2, <4>3, <4>4
      <3>2. LeftAt(f, z) \in Int /\ LeftAt(x, y) \in Int
        BY <1>3, <2>1, LeftFacts
      <3>3. Room(t, s, f) = LeftAt(f, z) - Owed(s) /\ Room(r, s, n) = LeftAt(x, y) - 2 - Owed(s)
        BY <1>2, <1>3, <1>5, <2>4, <3>2 DEF Room
      <3> HIDE DEF x, y, z
      <3> QED
        BY <1>3, <3>1, <3>2, <3>3 DEF f
    <2> QED
      BY <2>3, <2>4
  <1> QED
    BY <1>1, <1>4, <1>5

\* w guesses fit in with what two requests have left of the code, if it is live
Fits(w, r, s, n, code) ==
    /\ 2 * w <= Limit
    /\ code # None => 2 * w + Room(r, s, n) <= Limit

\* no request died that had compared the code and not yet counted that or taken it away
Whole(points) == points \cap {"count", "kill"} = {}

Bounded(a, b, k) ==
    Whole(cut[k]) => Fits(wrong[k], PartOf(a, k), PartOf(b, k), Shown(k), StoredCode(k))

\* a and b are all the clients there are; either may be an outsider
GuessInv ==
    /\ CodesInv
    /\ \A c \in Clients : Ready(client[c])
    /\ \A a, b : a # b /\ Clients \subseteq {a, b} => \A k \in Keys : Bounded(a, b, k)

LEMMA FreeIsReady ==
    Ready(Free) /\ \A r \in ClientState : r.pc = "free" => r = Free
  BY DEF Ready, ClientState, Free, Sending, Verifying

LEMMA PartsAreReady ==
    ASSUME CodesInv, \A c \in Clients : Ready(client[c]), NEW k \in Keys
    PROVE  /\ \A x : Ready(PartOf(x, k))
           /\ Shown(k) \in 0..MaxAttempts /\ wrong[k] \in Nat
  <1>1. ASSUME NEW x PROVE Ready(PartOf(x, k))
    BY FreeIsReady DEF PartOf
  <1>2. attempts[k] \in Counter /\ wrong[k] \in Nat
    BY DEF CodesInv, EmailCodesTypeOK
  <1> QED
    BY <1>1, <1>2, EmailCodesAssumption DEF Shown, Counter

LEMMA GuessesHoldInitially == EmailCodesInit => GuessInv
  <1> SUFFICES ASSUME EmailCodesInit PROVE GuessInv
    OBVIOUS
  <1>1. \A c \in Clients : Ready(client[c])
    BY FreeIsReady DEF EmailCodesInit
  <1>2. \A k \in Keys : wrong[k] = 0 /\ StoredCode(k) = None
    BY EntryTypes DEF EmailCodesInit, StoredCode
  <1>3. 2 * 0 <= Limit
    BY RestFacts
  <1> QED
    BY <1>1, <1>2, <1>3, CodesHoldInitially DEF GuessInv, Bounded, Fits

\* the two clients may be named in either order
LEMMA FitsBothWays ==
    ASSUME NEW w, NEW r, NEW s, NEW n \in 0..MaxAttempts, NEW code, Ready(r), Ready(s),
           Fits(w, r, s, n, code)
    PROVE  Fits(w, s, r, n, code)
  BY RoomIsSymmetric DEF Fits

\* A step of one request, on its key: the other keys keep what is said of them.
LEMMA GuessStep ==
    ASSUME GuessInv, CodesInv', NEW c \in Clients, NEW k \in Keys, NEW rec, Ready(rec), Goto(c, rec),
           client[c].pc # "free" => client[c].key = k,
           rec.pc # "free" => rec.key = k,
           \A x \in Keys \ {k} : /\ codeEntry'[x] = codeEntry[x] /\ attempts'[x] = attempts[x]
                                 /\ wrong'[x] = wrong[x] /\ cut'[x] = cut[x],
           \A s : Ready(s) /\ Whole(cut'[k])
                  /\ (Whole(cut[k]) => Fits(wrong[k], client[c], s, Shown(k), StoredCode(k)))
                     => Fits(wrong'[k], rec, s, Shown(k)', StoredCode(k)')
    PROVE  GuessInv'
  <1>1. client'[c] = rec /\ \A x \in Clients \ {c} : client'[x] = client[x]
    BY GotoTypes DEF GuessInv, CodesInv, Ready
  <1>2. \A x \in Clients : Ready(client'[x])
    BY <1>1 DEF GuessInv
  <1>3. ASSUME NEW d, c # d, Clients \subseteq {c, d}, NEW x \in Keys PROVE Bounded(c, d, x)'
    <2>1. Bounded(c, d, x)
      BY <1>3 DEF GuessInv
    <2>2. PartOf(d, x)' = PartOf(d, x)
      BY <1>1, <1>3 DEF PartOf
    <2>3. CASE x = k
      <3>1. PartOf(c, k) = client[c] /\ PartOf(c, k)' = rec
        BY <1>1, FreeIsReady DEF PartOf, GuessInv, Ready
      <3>2. Ready(PartOf(d, k))
        BY PartsAreReady DEF GuessInv
      <3>3. Whole(cut[k]) => Fits(wrong[k], client[c], PartOf(d, k), Shown(k), StoredCode(k))
        BY <2>1, <2>3, <3>1 DEF Bounded
      <3>4. Whole(cut'[k]) => Fits(wrong'[k], rec, PartOf(d, k), Shown(k)', StoredCode(k)')
        BY <3>2, <3>3
      <3> QED
        BY <2>2, <2>3, <3>1, <3>4 DEF Bounded
    <2>4. CASE x # k
      <3>1. PartOf(c, x)' = PartOf(c, x)
        BY <1>1, <2>4 DEF PartOf
      <3>2. /\ StoredCode(x)' = StoredCode(x) /\ Shown(x)' = Shown(x) /\ wrong'[x] = wrong[x]
            /\ Whole(cut'[x]) = Whole(cut[x])
        BY <2>4 DEF StoredCode, Shown, Whole
      <3> QED
        BY <2>1, <2>2, <3>1, <3>2 DEF Bounded
    <2> QED
      BY <2>3, <2>4
  <1>4. ASSUME NEW a, NEW b, a # b, Clients \subseteq {a, b}, NEW x \in Keys
        PROVE  Bounded(a, b, x)'
    <2>1. CASE a = c
      BY <1>3, <1>4, <2>1
    <2>2. CASE b = c
      <3>1. Bounded(c, a, x)'
        BY <1>3, <1>4, <2>2
      <3>2. Ready(PartOf(a, x)') /\ Ready(PartOf(c, x)')
        BY <1>2, FreeIsReady DEF PartOf
      <3>3. attempts'[x] \in Counter
        BY DEF CodesInv, EmailCodesTypeOK
      <3>4. Shown(x)' \in 0..MaxAttempts
        BY <3>3, EmailCodesAssumption DEF Shown, Counter
      <3> QED
        BY <2>2, <3>1, <3>2, <3>4, FitsBothWays DEF Bounded
    <2> QED
      BY <1>4, <2>1, <2>2
  <1> QED
    BY <1>2, <1>4 DEF GuessInv

\* A step that leaves no more room than there was, and makes no guess.
LEMMA RoomStep ==
    ASSUME GuessInv, CodesInv', NEW c \in Clients, NEW k \in Keys, NEW rec, Ready(rec), Goto(c, rec),
           client[c].pc # "free" => client[c].key = k,
           rec.pc # "free" => rec.key = k,
           UNCHANGED <<codeEntry, wrong>>,
           \A x \in Keys \ {k} : attempts'[x] = attempts[x] /\ cut'[x] = cut[x],
           Whole(cut'[k]) => Whole(cut[k]),
           Shown(k)' \in 0..MaxAttempts,
           Whole(cut'[k]) /\ StoredCode(k) # None => \A s : Ready(s) =>
              Room(rec, s, Shown(k)') <= Room(client[c], s, Shown(k))
    PROVE  GuessInv'
  <1>1. Shown(k) \in 0..MaxAttempts /\ wrong[k] \in Nat /\ Ready(client[c])
    BY PartsAreReady DEF GuessInv
  <1>2. StoredCode(k)' = StoredCode(k) /\ wrong'[k] = wrong[k]
    BY DEF StoredCode
  <1>3. ASSUME NEW s, Ready(s), Whole(cut'[k]),
               Fits(wrong[k], client[c], s, Shown(k), StoredCode(k))
        PROVE  Fits(wrong[k], rec, s, Shown(k)', StoredCode(k))
    <2>1. /\ Room(rec, s, Shown(k)') \in Int /\ Room(client[c], s, Shown(k)) \in Int
          /\ Limit \in Int
      BY <1>1, <1>3, RoomIsBounded, RestFacts
    <2>2. StoredCode(k) # None => Room(rec, s, Shown(k)') <= Room(client[c], s, Shown(k))
      BY <1>3
    <2> QED
      BY <1>1, <1>3, <2>1, <2>2 DEF Fits
  <1> QED
    BY <1>2, <1>3, GuessStep

\* A step that goes to no lower level.
LEMMA LevelStep ==
    ASSUME GuessInv, CodesInv', NEW c \in Clients, NEW k \in Keys, NEW rec, Ready(rec), Goto(c, rec),
           client[c].pc # "free" => client[c].key = k,
           rec.pc # "free" => rec.key = k,
           UNCHANGED <<codeEntry, attempts, wrong, cut>>,
           ~Resets(client[c]), ~Resets(rec), Owed(client[c]) = Owed(rec),
           Level(client[c], Shown(k)) <= Level(rec, Shown(k))
    PROVE  GuessInv'
  <1>1. Shown(k) \in 0..MaxAttempts /\ Ready(client[c]) /\ Shown(k)' = Shown(k)
    BY PartsAreReady DEF GuessInv, Shown
  <1>2. ASSUME NEW s, Ready(s) PROVE Room(rec, s, Shown(k)) <= Room(client[c], s, Shown(k))
    <2>1. Level(s, Shown(k)) <= Level(s, Shown(k))
      BY <1>1, <1>2, LevelFacts
    <2> QED
      BY <1>1, <1>2, <2>1, RoomOnlyShrinks
  <1>3. Whole(cut'[k]) = Whole(cut[k])
    BY DEF Whole
  <1> QED
    BY <1>1, <1>2, <1>3, RoomStep

\* A step that takes the code away, or stores one that nobody has guessed at.
LEMMA NewCodeStep ==
    ASSUME GuessInv, CodesInv', NEW c \in Clients, NEW k \in Keys, NEW rec, Ready(rec), Goto(c, rec),
           client[c].pc # "free" => client[c].key = k,
           rec.pc # "free" => rec.key = k,
           UNCHANGED attempts,
           \A x \in Keys \ {k} : /\ codeEntry'[x] = codeEntry[x] /\ wrong'[x] = wrong[x]
                                 /\ cut'[x] = cut[x],
           \/ StoredCode(k)' = None /\ wrong'[k] = wrong[k] /\ cut'[k] = cut[k]
           \/ wrong'[k] = 0
    PROVE  GuessInv'
  <1>1. (CodesInv => attempts[k] \in Counter)'
    BY DEF CodesInv, EmailCodesTypeOK
  <1>2. Shown(k)' \in 0..MaxAttempts
    BY <1>1, EmailCodesAssumption DEF Shown, Counter
  <1>3. ASSUME NEW s, Ready(s), Whole(cut'[k]),
               Whole(cut[k]) => Fits(wrong[k], client[c], s, Shown(k), StoredCode(k))
        PROVE  Fits(wrong'[k], rec, s, Shown(k)', StoredCode(k)')
    <2>1. CASE StoredCode(k)' = None /\ wrong'[k] = wrong[k] /\ cut'[k] = cut[k]
      BY <1>3, <2>1 DEF Fits, Whole
    <2>2. CASE wrong'[k] = 0
      BY <1>2, <1>3, <2>2, RoomIsBounded, RestFacts DEF Fits
    <2> QED
      BY <2>1, <2>2
  <1> QED
    BY <1>3, GuessStep

\* the steps of a request that leave the code and its counter to others
Plain == {"free", "cooldown", "store", "mail", "create", "save", "drop"}

LEMMA PlainLevels ==
    ASSUME NEW rec, rec.pc \in Plain
    PROVE  ~Resets(rec) /\ Owed(rec) = 0 /\ \A n : Level(rec, n) = Lesser(n, MaxAttempts - 1)
  BY DEF Plain, Resets, Owed, Level

LEMMA PlainStep ==
    ASSUME GuessInv, CodesInv', NEW c \in Clients, NEW k \in Keys, NEW rec \in ClientState, Goto(c, rec),
           client[c].pc # "free" => client[c].key = k,
           rec.pc # "free" => rec.key = k,
           UNCHANGED <<codeEntry, attempts, wrong, cut>>,
           client[c].pc \in Plain, rec.pc \in Plain
    PROVE  GuessInv'
  <1>1. Ready(rec) /\ Shown(k) \in 0..MaxAttempts
    BY PartsAreReady DEF Ready, Plain, GuessInv
  <1>2. Level(client[c], Shown(k)) <= Level(rec, Shown(k))
    <2>1. Level(client[c], Shown(k)) = Level(rec, Shown(k))
      BY PlainLevels
    <2>2. Level(rec, Shown(k)) \in 0..(MaxAttempts - 1)
      BY <1>1, LevelFacts
    <2> QED
      BY <2>1, <2>2, EmailCodesAssumption
  <1> QED
    BY <1>1, <1>2, PlainLevels, LevelStep

LEMMA LookupsFit ==
    ASSUME GuessInv, CodesInv', NEW c \in Clients, NEW k \in Keys
    PROVE  /\ SendLookup(c, k) => GuessInv'
           /\ \A typed : ReadAttempts(c, k, typed) \/ SignupCheck(c, k, typed) => GuessInv'
  <1>1. client' \in [Clients -> ClientState] /\ client \in [Clients -> ClientState]
    BY DEF GuessInv, CodesInv, EmailCodesTypeOK, ClientState
  <1>2. ASSUME NEW rec, Goto(c, rec) PROVE rec \in ClientState
    BY <1>1, <1>2 DEF Goto
  <1>3. ASSUME SendLookup(c, k) PROVE GuessInv'
    <2> DEFINE rec == [pc |-> "cooldown", key |-> k, seen |-> member[k[2]], code |-> None]
    <2>1. Goto(c, rec) /\ client[c].pc = "free" /\ UNCHANGED <<codeEntry, attempts, wrong, cut>>
      BY <1>3 DEF SendLookup, TakeUp, At
    <2> QED
      BY <1>2, <2>1, PlainStep DEF Plain
  <1>4. ASSUME NEW typed, ReadAttempts(c, k, typed) PROVE GuessInv'
    <2> DEFINE rec == [pc |-> "compare", key |-> k, typed |-> typed,
                       failed |-> FailedAttempts(k)]
    <2>1. /\ Goto(c, rec) /\ client[c].pc = "free" /\ UNCHANGED <<codeEntry, attempts, wrong, cut>>
          /\ attempts[k].n < MaxAttempts
      BY <1>4 DEF ReadAttempts, TakeUp, At, FailedAttempts
    <2>2. Ready(rec) /\ rec.key = k
      BY <1>2, <2>1 DEF Ready, FailedAttempts
    <2>3. /\ ~Resets(client[c]) /\ ~Resets(rec) /\ Owed(client[c]) = 0 /\ Owed(rec) = 0
          /\ Level(client[c], Shown(k)) = Lesser(Shown(k), MaxAttempts - 1)
          /\ Level(rec, Shown(k)) = Lesser(attempts[k].n, Shown(k))
      BY <2>1 DEF Resets, Owed, Level, FailedAttempts
    <2>4. attempts[k].n \in 0..MaxAttempts /\ Shown(k) \in {0, attempts[k].n}
      BY DEF GuessInv, CodesInv, EmailCodesTypeOK, Counter, Shown
    <2>5. Level(client[c], Shown(k)) <= Level(rec, Shown(k))
      BY <2>1, <2>3, <2>4, EmailCodesAssumption DEF Lesser
    <2> HIDE DEF rec
    <2> QED
      BY <2>1, <2>2, <2>3, <2>5, LevelStep
  <1>5. ASSUME NEW typed, SignupCheck(c, k, typed) PROVE GuessInv'
    <2> DEFINE rec == [pc |-> "create", key |-> k, typed |-> typed, failed |-> 0]
    <2>1. Goto(c, rec) /\ client[c].pc = "free" /\ UNCHANGED <<codeEntry, attempts, wrong, cut>>
      BY <1>5 DEF SignupCheck, TakeUp, At
    <2> QED
      BY <1>2, <2>1, PlainStep DEF Plain
  <1> QED
    BY <1>3, <1>4, <1>5

\* A request deletes the counter and goes on.
LEMMA ResetFits ==
    ASSUME GuessInv, CodesInv', NEW c \in Clients, NEW k \in Keys, NEW rec \in ClientState, Goto(c, rec),
           client[c].key = k, rec.pc # "free" => rec.key = k,
           UNCHANGED <<codeEntry, wrong, cut>>, DeleteCounter(k),
           client[c].pc \in {"clear", "uncount"}, rec.pc \in {"mail", "free"}
    PROVE  GuessInv'
  <1>1. Shown(k) \in 0..MaxAttempts /\ Ready(client[c]) /\ Ready(rec) /\ Resets(client[c])
    BY PartsAreReady DEF GuessInv, Ready, Resets
  <1>2. Shown(k)' = 0 /\ \A x \in Keys \ {k} : attempts'[x] = attempts[x]
    BY EntryTypes DEF DeleteCounter, Shown, GuessInv, CodesInv, EmailCodesTypeOK
  <1>3. \A s : Ready(s) => Room(rec, s, 0) <= Room(client[c], s, Shown(k))
    BY <1>1, RoomAfterReset
  <1>4. Shown(k)' \in 0..MaxAttempts /\ Whole(cut'[k]) = Whole(cut[k])
    BY <1>2, EmailCodesAssumption DEF Whole
  <1> QED
    BY <1>1, <1>2, <1>3, <1>4, RoomStep

LEMMA SendingFits ==
    ASSUME GuessInv, CodesInv', NEW c \in Clients,
           SetCooldown(c) \/ StoreCode(c) \/ ClearAttempts(c) \/ SendMail(c)
    PROVE  GuessInv'
  <1> DEFINE r == client[c]  k == r.key
  <1>1. r \in Sending /\ k \in Keys
    BY SendingAt DEF SetCooldown, StoreCode, ClearAttempts, SendMail, At, GuessInv, CodesInv
  <1>2. \A pc \in {"store", "mail"} :
          LET rec == [r EXCEPT !.pc = pc]
          IN rec \in ClientState /\ rec.pc = pc /\ rec.key = k
    BY <1>1 DEF Sending, ClientState
  <1>3. CASE SetCooldown(c)
    <2>1. /\ r.pc = "cooldown" /\ UNCHANGED <<codeEntry, attempts, wrong, cut>>
          /\ Goto(c, Free) \/ Goto(c, [r EXCEPT !.pc = "store"])
      BY <1>3 DEF SetCooldown, At, End
    <2> QED
      BY <1>1, <1>2, <2>1, EntryTypes, PlainStep DEF Plain
  <1>4. CASE SendMail(c)
    <2>1. r.pc = "mail" /\ UNCHANGED <<codeEntry, attempts, wrong, cut>> /\ Goto(c, Free)
      BY <1>4 DEF SendMail, At, End
    <2> QED
      BY <1>1, <2>1, EntryTypes, PlainStep DEF Plain
  <1>5. CASE ClearAttempts(c)
    <2>1. /\ r.pc = "clear" /\ UNCHANGED <<codeEntry, wrong, cut>> /\ DeleteCounter(k)
          /\ Goto(c, [r EXCEPT !.pc = "mail"])
      BY <1>5 DEF ClearAttempts, At
    <2> QED
      BY <1>1, <1>2, <2>1, ResetFits
  <1>6. CASE StoreCode(c)
    <2> DEFINE rec == [r EXCEPT !.pc = "clear", !.code = issued[k] + 1]
               ent == [code |-> issued[k] + 1, until |-> clock + CodeTTL]
    <2>1. /\ r.pc = "store" /\ UNCHANGED attempts /\ Goto(c, rec) /\ issued[k] + 1 \in Codes
          /\ codeEntry' = [codeEntry EXCEPT ![k] = ent] /\ wrong' = [wrong EXCEPT ![k] = 0]
          /\ cut' = [cut EXCEPT ![k] = {}]
      BY <1>6 DEF StoreCode, At
    <2>2. rec \in ClientState /\ rec.pc = "clear" /\ rec.key = k
      BY <1>1, <2>1 DEF Sending, ClientState
    <2> HIDE DEF rec, ent
    <2>3. /\ \A x \in Keys \ {k} : /\ codeEntry'[x] = codeEntry[x] /\ wrong'[x] = wrong[x]
                                   /\ cut'[x] = cut[x]
          /\ wrong'[k] = 0
      BY <1>1, <2>1 DEF GuessInv, CodesInv, EmailCodesTypeOK
    <2>4. Ready(rec)
      BY <2>2 DEF Ready
    <2> QED
      BY <1>1, <2>1, <2>2, <2>3, <2>4, NewCodeStep
  <1> QED
    BY <1>3, <1>4, <1>5, <1>6

\* A right code ends the guessing or takes the code away; a wrong one is owed.
LEMMA ComparingFits ==
    ASSUME GuessInv, CodesInv', NEW c \in Clients, Compare(c)
    PROVE  GuessInv'
  <1> PICK k \in Keys : k = client[c].key
    BY VerifyingAt DEF Compare, At, GuessInv, CodesInv
  <1> DEFINE r == client[c]  n == Shown(k)
  <1>1. r \in Verifying /\ r.key = k /\ r.pc = "compare" /\ Ready(r)
    BY VerifyingAt DEF Compare, At, GuessInv, CodesInv
  <1>2. /\ r.failed \in 0..MaxAttempts /\ r.failed < MaxAttempts /\ n \in 0..MaxAttempts
        /\ wrong[k] \in Nat
    BY <1>1, PartsAreReady DEF Verifying, Ready, GuessInv
  <1>3. UNCHANGED <<codeEntry, attempts, cut>>
    BY DEF Compare
  <1>4. /\ ~Resets(r) /\ Owed(r) = 0 /\ Level(r, n) = Lesser(r.failed, n)
        /\ MaxAttempts \in Nat /\ MaxAttempts # 0
    BY <1>1, EmailCodesAssumption DEF Resets, Owed, Level
  <1>5. CASE StoredCode(k) # None /\ StoredCode(k) = r.typed
    <2>1. UNCHANGED wrong /\ (Goto(c, [r EXCEPT !.pc = "save"]) \/ Goto(c, Free))
      BY <1>5 DEF Compare, End
    <2>2. PICK rec : /\ Goto(c, rec) /\ rec \in ClientState /\ rec.pc \in {"save", "free"}
                     /\ rec.pc # "free" => rec.key = k
      <3>1. LET rec == [r EXCEPT !.pc = "save"]
            IN rec \in ClientState /\ rec.pc = "save" /\ rec.key = k
        BY <1>1 DEF Verifying, ClientState
      <3> QED
        BY <2>1, <3>1, EntryTypes
    <2>3. /\ Ready(rec) /\ ~Resets(rec) /\ Owed(rec) = 0
          /\ Level(rec, n) \in {MaxAttempts - 1, Lesser(n, MaxAttempts - 1)}
      BY <2>2 DEF Ready, Resets, Owed, Level
    <2>4. Level(r, n) <= Level(rec, n)
      BY <1>2, <1>4, <2>3 DEF Lesser
    <2> QED
      BY <1>1, <1>3, <1>4, <2>1, <2>2, <2>3, <2>4, LevelStep
  <1>6. CASE ~(StoredCode(k) # None /\ StoredCode(k) = r.typed)
    <2> DEFINE rec == [r EXCEPT !.pc = "count", !.failed = r.failed + 1]
    <2>1. /\ Goto(c, rec)
          /\ wrong' = IF StoredCode(k) = None THEN wrong ELSE [wrong EXCEPT ![k] = @ + 1]
      BY <1>6 DEF Compare
    <2>2. r.failed + 1 \in 0..MaxAttempts /\ r.failed + 1 # 0
      BY <1>2, <1>4
    <2>3. rec \in ClientState /\ rec.pc = "count" /\ rec.key = k /\ rec.failed = r.failed + 1
      BY <1>1, <2>2 DEF Verifying, ClientState
    <2> HIDE DEF rec
    <2>4. Ready(rec)
      BY <2>2, <2>3 DEF Ready
    <2>5. /\ \A x \in Keys \ {k} : wrong'[x] = wrong[x]
          /\ StoredCode(k) # None => wrong'[k] = wrong[k] + 1
          /\ StoredCode(k) = None => wrong'[k] = wrong[k]
      BY <1>1, <2>1 DEF GuessInv, CodesInv, EmailCodesTypeOK
    <2>6. Shown(k)' = n /\ StoredCode(k)' = StoredCode(k) /\ Whole(cut'[k]) = Whole(cut[k])
      BY <1>3 DEF Shown, StoredCode, Whole
    <2>7. ASSUME NEW s, Ready(s), Fits(wrong[k], r, s, n, StoredCode(k))
          PROVE  Fits(wrong'[k], rec, s, n, StoredCode(k))
      <3>1. Room(rec, s, n) + 2 = Room(r, s, n)
        BY <1>1, <1>2, <2>3, <2>4, <2>7, RoomAfterGuess
      <3>2. Room(rec, s, n) \in Int /\ 0 <= Room(rec, s, n) /\ Limit \in Int
        BY <1>2, <2>4, <2>7, RoomIsBounded, RestFacts
      <3>3. CASE StoredCode(k) = None
        BY <2>5, <2>7, <3>3 DEF Fits
      <3>4. CASE StoredCode(k) # None
        <4>1. 2 * wrong[k] + Room(r, s, n) <= Limit
          BY <2>7, <3>4 DEF Fits
        <4>2. 2 * (wrong[k] + 1) + Room(rec, s, n) <= Limit /\ 2 * (wrong[k] + 1) <= Limit
          BY <1>2, <3>1, <3>2, <4>1
        <4> QED
          BY <2>5, <3>4, <4>2 DEF Fits
      <3> QED
        BY <3>3, <3>4
    <2> QED
      BY <1>1, <1>3, <2>1, <2>3, <2>4, <2>5, <2>6, <2>7, GuessStep
  <1> QED
    BY <1>5, <1>6

\* The new counter outlives the code, so that it shows what was written.
LEMMA CountingFits ==
    ASSUME GuessInv, CodesInv', NEW c \in Clients, CountFailed(c)
    PROVE  GuessInv'
  <1> PICK k \in Keys : k = client[c].key
    BY VerifyingAt DEF CountFailed, At, GuessInv, CodesInv
  <1> DEFINE r == client[c]  n == Shown(k)
  <1>1. r \in Verifying /\ r.key = k /\ r.pc = "count" /\ Ready(r)
    BY VerifyingAt DEF CountFailed, At, GuessInv, CodesInv
  <1>2. /\ r.failed \in 0..MaxAttempts /\ n \in 0..MaxAttempts
    BY <1>1, PartsAreReady DEF Verifying, GuessInv
  <1>3. /\ UNCHANGED <<codeEntry, wrong, cut>>
        /\ attempts' = [attempts EXCEPT ![k] = [n |-> r.failed, until |-> clock + BlockTTL]]
        /\ IF r.failed >= MaxAttempts THEN Goto(c, [r EXCEPT !.pc = "kill"]) ELSE Goto(c, Free)
    BY DEF CountFailed, End
  <1>4. PICK rec : /\ Goto(c, rec) /\ rec \in ClientState
                   /\ rec.pc = IF r.failed >= MaxAttempts THEN "kill" ELSE "free"
                   /\ rec.pc # "free" => rec.key = k
    <2>1. LET rec == [r EXCEPT !.pc = "kill"]
          IN rec \in ClientState /\ rec.pc = "kill" /\ rec.key = k
      BY <1>1 DEF Verifying, ClientState
    <2> QED
      BY <1>3, <2>1, EntryTypes
  <1>5. Ready(rec)
    BY <1>4 DEF Ready
  <1>6. /\ attempts'[k].n = r.failed /\ attempts'[k].until = clock + BlockTTL
        /\ \A x \in Keys \ {k} : attempts'[x] = attempts[x]
    BY <1>1, <1>3 DEF GuessInv, CodesInv, EmailCodesTypeOK
  <1>7. StoredCode(k) # None => codeEntry[k].until \in Nat /\ codeEntry[k].until <= clock + CodeTTL
    BY <1>1 DEF GuessInv, CodesInv, KeySound, StoredCode, EmailCodesTypeOK, Entry
  <1>8. StoredCode(k) # None => Shown(k)' = r.failed
    <2>1. CodeTTL \in Nat /\ BlockTTL \in Nat /\ CodeTTL <= BlockTTL /\ clock \in Nat
      BY EmailCodesAssumption, ClockTypes DEF GuessInv, CodesInv
    <2>2. StoredCode(k) # None => ~(clock + BlockTTL < codeEntry[k].until)
      BY <1>7, <2>1
    <2> QED
      BY <1>3, <1>6, <2>2 DEF Shown
  <1>9. Shown(k)' \in 0..MaxAttempts
    BY <1>2, <1>6, EmailCodesAssumption DEF Shown
  <1>10. \A s : Ready(s) => Room(rec, s, r.failed) <= Room(r, s, n)
    BY <1>1, <1>2, <1>4, <1>5, RoomAfterCount
  <1>11. StoredCode(k) # None => \A s : Ready(s) => Room(rec, s, Shown(k)') <= Room(r, s, n)
    BY <1>8, <1>10
  <1>12. Whole(cut'[k]) = Whole(cut[k])
    BY <1>3 DEF Whole
  <1> QED
    BY <1>1, <1>3, <1>4, <1>5, <1>6, <1>9, <1>11, <1>12, RoomStep

LEMMA UsingFits ==
    ASSUME GuessInv, CodesInv', NEW c \in Clients,
           \/ KillCode(c) \/ SavePassword(c) \/ CreateMember(c) \/ DropCode(c) \/ DropCounter(c)
    PROVE  GuessInv'
  <1> PICK k \in Keys : k = client[c].key
    BY VerifyingAt DEF KillCode, SavePassword, CreateMember, DropCode, DropCounter, At,
                       GuessInv, CodesInv
  <1> DEFINE r == client[c]  n == Shown(k)
  <1>1. r \in Verifying /\ r.key = k /\ r.pc # "free" /\ Ready(r)
    BY VerifyingAt DEF KillCode, SavePassword, CreateMember, DropCode, DropCounter, At,
                       GuessInv, CodesInv
  <1>2. \A pc \in {"drop", "uncount"} :
          LET rec == [r EXCEPT !.pc = pc]
          IN rec \in ClientState /\ rec.pc = pc /\ rec.key = k /\ Ready(rec)
    BY <1>1 DEF Verifying, ClientState, Ready
  <1>3. n \in 0..MaxAttempts /\ MaxAttempts \in Nat /\ MaxAttempts # 0
    BY <1>1, PartsAreReady, EmailCodesAssumption DEF GuessInv
  <1>4. ASSUME DeleteCode(k)
        PROVE  /\ StoredCode(k)' = None
               /\ \A x \in Keys \ {k} : codeEntry'[x] = codeEntry[x]
    BY <1>1, <1>4, EntryTypes DEF DeleteCode, StoredCode, GuessInv, CodesInv, EmailCodesTypeOK
  <1>5. CASE KillCode(c)
    <2>1. Goto(c, Free) /\ DeleteCode(k) /\ UNCHANGED <<attempts, wrong, cut>>
      BY <1>5 DEF KillCode, End
    <2> QED
      BY <1>1, <1>4, <2>1, FreeIsReady, EntryTypes, NewCodeStep
  <1>6. CASE DropCode(c)
    <2>1. Goto(c, [r EXCEPT !.pc = "uncount"]) /\ DeleteCode(k) /\ UNCHANGED <<attempts, wrong, cut>>
      BY <1>6 DEF DropCode
    <2> QED
      BY <1>1, <1>2, <1>4, <2>1, NewCodeStep
  <1>7. CASE DropCounter(c)
    <2>1. Goto(c, Free) /\ DeleteCounter(k) /\ UNCHANGED <<codeEntry, wrong, cut>> /\ r.pc = "uncount"
      BY <1>7 DEF DropCounter, End, At
    <2> QED
      BY <1>1, <2>1, EntryTypes, ResetFits
  <1>8. CASE SavePassword(c) \/ (CreateMember(c) /\ Goto(c, [r EXCEPT !.pc = "drop"]))
    <2> DEFINE rec == [r EXCEPT !.pc = "drop"]
    <2>1. Goto(c, rec) /\ UNCHANGED <<codeEntry, attempts, wrong, cut>> /\ r.pc \in {"save", "create"}
      BY <1>8 DEF SavePassword, CreateMember, At
    <2>2. Ready(rec) /\ rec.pc = "drop" /\ rec.key = k
      BY <1>2
    <2> HIDE DEF rec
    <2> QED
      BY <1>1, <2>1, <2>2, PlainStep DEF Plain, Ready
  <1>9. CASE CreateMember(c) /\ Goto(c, Free)
    <2>1. UNCHANGED <<codeEntry, attempts, wrong, cut>> /\ r.pc = "create"
      BY <1>9 DEF CreateMember, At
    <2> QED
      BY <1>1, <1>9, <2>1, EntryTypes, PlainStep DEF Plain
  <1>10. CreateMember(c) => Goto(c, Free) \/ Goto(c, [r EXCEPT !.pc = "drop"])
    BY DEF CreateMember, End
  <1> QED
    BY <1>5, <1>6, <1>7, <1>8, <1>9, <1>10

\* Who was about to delete the counter leaves it to the others.
LEMMA RoomWithoutReset ==
    ASSUME NEW r, NEW s, Ready(r), Ready(s), NEW n \in 0..MaxAttempts, Resets(r)
    PROVE  Room(Free, s, n) <= Room(r, s, n)
  <1>1. /\ Ready(Free) /\ ~Resets(Free) /\ Owed(Free) = 0 /\ Level(Free, n) \in 0..(MaxAttempts - 1)
        /\ Level(s, n) \in 0..(MaxAttempts - 1) /\ Owed(s) \in {0, 2}
    BY FreeIsReady, LevelFacts, EntryTypes DEF Resets, Owed
  <1>2. CASE Resets(s)
    BY <1>1, <1>2, RoomIsBounded DEF Room
  <1>3. CASE ~Resets(s)
    <2>1. /\ LeftAt(Level(Free, n), Level(s, n)) <= LeftAt(0, 0) /\ LeftAt(0, 0) \in Int
          /\ LeftAt(Level(Free, n), Level(s, n)) \in Int /\ MaxAttempts \in Nat
      BY <1>1, LeftFacts, EmailCodesAssumption
    <2> QED
      BY <1>1, <1>3, <2>1 DEF Room
  <1> QED
    BY <1>2, <1>3

\* A request that dies leaves no more guesses than it would have, but for the two
\* commands after its comparison.
LEMMA DyingFits ==
    ASSUME GuessInv, CodesInv', NEW c \in Clients, CodeRequestDies(c)
    PROVE  GuessInv'
  <1> PICK k \in Keys : k = client[c].key
    BY BusyTypes DEF CodeRequestDies, At, GuessInv, CodesInv
  <1> DEFINE r == client[c]  n == Shown(k)
  <1>1. /\ r.pc # "free" /\ r.key = k /\ Goto(c, Free)
        /\ UNCHANGED <<codeEntry, attempts, wrong>>
        /\ cut'[k] = cut[k] \cup ({r.pc} \cap CutPoints)
        /\ \A x \in Keys \ {k} : cut'[x] = cut[x]
    BY DEF CodeRequestDies, At, End, GuessInv, CodesInv, EmailCodesTypeOK
  <1>2. /\ Ready(r) /\ Ready(Free) /\ Free.pc = "free" /\ n \in 0..MaxAttempts
        /\ Shown(k)' = n
    BY <1>1, PartsAreReady, FreeIsReady, EntryTypes DEF GuessInv, Shown
  <1>3. Whole(cut'[k]) => Whole(cut[k])
    BY <1>1 DEF Whole
  <1>4. Whole(cut'[k]) => r.pc \notin {"count", "kill"}
    BY <1>1 DEF Whole, CutPoints
  <1>5. ASSUME Whole(cut'[k]), NEW s, Ready(s) PROVE Room(Free, s, n) <= Room(r, s, n)
    <2>1. CASE Resets(r)
      BY <1>2, <1>5, <2>1, RoomWithoutReset
    <2>2. CASE ~Resets(r)
      <3>1. Owed(r) = 0 /\ Owed(Free) = 0 /\ ~Resets(Free)
        BY <1>2, <1>4, <1>5 DEF Owed, Resets
      <3>2. Level(Free, n) = Lesser(n, MaxAttempts - 1)
        BY <1>2 DEF Level
      <3>3. Level(r, n) \in {Lesser(r.failed, n), Lesser(n, MaxAttempts - 1)}
            /\ (r.pc # "compare" => Level(r, n) = Lesser(n, MaxAttempts - 1))
        BY <1>4, <1>5 DEF Level
      <3>4. Level(Free, n) \in 0..(MaxAttempts - 1) /\ Level(r, n) \in 0..(MaxAttempts - 1)
            /\ Level(s, n) \in 0..(MaxAttempts - 1) /\ MaxAttempts \in Nat
        BY <1>2, <1>5, LevelFacts, EmailCodesAssumption
      <3>5. Level(r, n) <= Level(Free, n)
        <4>1. CASE r.pc = "compare"
          <5>1. r \in Verifying
            BY <4>1, VerifyingAt DEF GuessInv, CodesInv
          <5>2. r.failed \in 0..MaxAttempts /\ r.failed < MaxAttempts
            BY <1>2, <4>1, <5>1 DEF Ready, Verifying
          <5> QED
            BY <1>2, <3>2, <3>3, <3>4, <5>2 DEF Lesser
        <4>2. CASE r.pc # "compare"
          BY <3>2, <3>3, <3>4, <4>2
        <4> QED
          BY <4>1, <4>2
      <3> QED
        BY <1>2, <1>5, <2>2, <3>1, <3>4, <3>5, RoomOnlyShrinks
    <2> QED
      BY <2>1, <2>2
  <1> QED
    BY <1>1, <1>2, <1>3, <1>5, RoomStep

\* A counter that expires before the code was not about the code.
LEMMA TimeFits ==
    ASSUME GuessInv, CodesInv', PassTime \/ \E a \in Addresses : Deactivate(a)
    PROVE  GuessInv'
  <1>1. UNCHANGED <<client, wrong, cut>>
    BY DEF PassTime, Deactivate
  <1>2. ASSUME NEW k \in Keys
        PROVE  \/ StoredCode(k)' = None
               \/ StoredCode(k)' = StoredCode(k) /\ Shown(k)' = Shown(k)
    <2>1. CASE \E a \in Addresses : Deactivate(a)
      BY <2>1 DEF Deactivate, StoredCode, Shown
    <2>2. CASE PassTime
      <3>1. /\ codeEntry'[k] = IF codeEntry[k].until > clock' THEN codeEntry[k] ELSE NoEntry
            /\ attempts'[k] = IF attempts[k].until > clock' THEN attempts[k] ELSE NoCounter
            /\ clock' = clock + 1
        BY <2>2 DEF PassTime
      <3>2. clock \in Nat /\ codeEntry[k].until \in Nat /\ attempts[k].until \in Nat
        BY ClockTypes DEF GuessInv, CodesInv, EmailCodesTypeOK, Entry, Counter
      <3>3. CASE codeEntry[k].until > clock'
        BY <3>1, <3>2, <3>3, EntryTypes DEF StoredCode, Shown
      <3>4. CASE ~(codeEntry[k].until > clock')
        BY <3>1, <3>4, EntryTypes DEF StoredCode
      <3> QED
        BY <3>3, <3>4
    <2> QED
      BY <2>1, <2>2
  <1>3. ASSUME NEW a, NEW b, NEW k \in Keys, Bounded(a, b, k) PROVE Bounded(a, b, k)'
    <2>1. PartOf(a, k)' = PartOf(a, k) /\ PartOf(b, k)' = PartOf(b, k)
      BY <1>1 DEF PartOf
    <2> QED
      BY <1>1, <1>2, <1>3, <2>1 DEF Bounded, Fits, Whole
  <1> QED
    BY <1>1, <1>3 DEF GuessInv

\* Every step preserves the invariant.
LEMMA GuessesArePreserved ==
    ASSUME GuessInv, [EmailCodesNext]_codeVars
    PROVE  GuessInv'
  <1>1. CodesInv'
    BY CodesArePreserved DEF GuessInv
  <1>2. CASE UNCHANGED codeVars
    <2>1. ASSUME NEW a, NEW b, NEW k \in Keys, Bounded(a, b, k) PROVE Bounded(a, b, k)'
      BY <1>2, <2>1 DEF Bounded, Whole, PartOf, Shown, StoredCode, codeVars
    <2> QED
      BY <1>1, <1>2, <2>1 DEF GuessInv, codeVars
  <1>3. ASSUME NEW c \in Clients, SendEmailCode(c) PROVE GuessInv'
    BY <1>1, <1>3, LookupsFit, SendingFits DEF SendEmailCode
  <1>4. ASSUME NEW c \in Clients, ResetPassword(c) PROVE GuessInv'
    BY <1>1, <1>4, LookupsFit, ComparingFits, CountingFits, UsingFits DEF ResetPassword
  <1>5. ASSUME NEW c \in Clients, SignupWithCode(c) PROVE GuessInv'
    BY <1>1, <1>5, LookupsFit, UsingFits DEF SignupWithCode
  <1> QED
    BY <1>1, <1>2, <1>3, <1>4, <1>5, UsingFits, DyingFits, TimeFits DEF EmailCodesNext

LEMMA TwoClients ==
    ASSUME Cardinality(Clients) <= 2
    PROVE  \E a, b : a # b /\ Clients \subseteq {a, b}
  <1>1. CASE Clients = {}
    <2>1. 0 # 1 /\ Clients \subseteq {0, 1}
      BY <1>1
    <2> QED
      BY <2>1
  <1>2. ASSUME NEW a \in Clients PROVE \E x, y : x # y /\ Clients \subseteq {x, y}
    <2>1. IsFiniteSet(Clients \ {a}) /\ Cardinality(Clients \ {a}) = Cardinality(Clients) - 1
          /\ Cardinality(Clients) \in Nat
      BY <1>2, EmailCodesAssumption, FS_RemoveElement, FS_CardinalityType
    <2>2. CASE Clients \ {a} = {}
      <3>1. PICK b \in {0, 1} : a # b
        OBVIOUS
      <3> QED
        BY <2>2, <3>1
    <2>3. ASSUME NEW b \in Clients \ {a} PROVE \E x, y : x # y /\ Clients \subseteq {x, y}
      <3> DEFINE R == (Clients \ {a}) \ {b}
      <3>1. IsFiniteSet(R) /\ Cardinality(R) = Cardinality(Clients \ {a}) - 1 /\ Cardinality(R) \in Nat
        BY <2>1, <2>3, FS_RemoveElement, FS_CardinalityType
      <3>2. Cardinality(R) = 0
        BY <2>1, <3>1
      <3>3. R = {}
        BY <3>1, <3>2, FS_EmptySet
      <3> QED
        BY <2>3, <3>3
    <2> QED
      BY <2>2, <2>3
  <1> QED
    BY <1>1, <1>2

\* Two overlapping clients guess one code at most M * (M + 3) / 2 times, M the limit of
\* attempts, unless a request dies between its comparison and what it has to write.
THEOREM ParallelGuessesAreFew == EmailCodesSpec => []ParallelGuessesBounded
  <1>1. GuessInv => ParallelGuessesBounded
    <2> SUFFICES ASSUME GuessInv, Cardinality(Clients) <= 2, NEW k \in Keys, Whole(cut[k])
                 PROVE  wrong[k] <= (MaxAttempts * (MaxAttempts + 3)) \div 2
      BY DEF ParallelGuessesBounded, Whole
    <2>1. PICK a, b : a # b /\ Clients \subseteq {a, b}
      BY TwoClients
    <2>2. 2 * wrong[k] <= Limit
      BY <2>1 DEF GuessInv, Bounded, Fits
    <2>3. PICK w \in Nat : w = wrong[k]
      BY DEF GuessInv, CodesInv, EmailCodesTypeOK
    <2>4. PICK l \in Nat : l = Limit
      BY RestFacts
    <2>5. 2 * w <= l => w <= l \div 2
      OBVIOUS
    <2> QED
      BY <2>2, <2>3, <2>4, <2>5 DEF Limit
  <1> QED
    BY <1>1, GuessesHoldInitially, GuessesArePreserved, PTL DEF EmailCodesSpec

\* The limits of attempts and of cooldown hold for overlapping requests up to these bounds.
THEOREM ParallelLimitsHold == EmailCodesSpec => []ParallelLimits
  BY CodesAreSpaced, ParallelGuessesAreFew, PTL DEF ParallelLimits
=============================================================================
