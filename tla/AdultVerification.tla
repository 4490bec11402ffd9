------------------------- MODULE AdultVerification -------------------------
(***************************************************************************)
(* Adult verification through the external provider: a state token ties    *)
(* the callback to the user who began, the callback asks the provider who  *)
(* the person is, and a verification row is stored with the user's expiry. *)
(* No table constraint backs the checks, and callbacks overlap.            *)
(***************************************************************************)
EXTENDS Naturals, FiniteSets

CONSTANTS
    Users,
    Persons,   \* provider_uid: the people the provider knows
    States,    \* the random tokens of the flow
    Requests,
    Nobody,    \* a state token that is not in the cache
    ValidFor,  \* ADULT_VERIFICATION_TTL_DAYS
    MaxTime    \* bound: the clock

ASSUME AdultAssumption ==
    /\ Nobody \notin Users
    /\ ValidFor \in Nat \ {0} /\ MaxTime \in Nat

VARIABLES
    account,      \* table users: its status and its two verification columns
    verification, \* table adult_verifications
    stateUser,    \* cache: adult_verification_state:*
    fresh,        \* the tokens not handed out yet
    request,      \* what each callback is doing
    overlapped,   \* history: users and persons two callbacks worked on at once
    now

adultVars == <<account, verification, stateUser, fresh, request, overlapped, now>>

Time == 0..MaxTime
\* verified, until: is_adult_verified, adult_verification_expires_at
Account == [status: {"active", "inactive", "purged"}, verified: BOOLEAN,
            until: 0..(MaxTime + ValidFor)]
Verification == [user: Users, person: Persons, at: Time]

Idle == [pc |-> "idle"]
ClaimState == [pc: {"claim"}, state: States, user: Users]
UserState == [pc: {"load", "ask"}, user: Users]
SaveState == [pc: {"save"}, user: Users, person: Persons, at: Time]
RequestState == ClaimState \cup UserState \cup SaveState \cup {Idle}

AdultTypeOK ==
    /\ account \in [Users -> Account]
    /\ verification \subseteq Verification
    /\ stateUser \in [States -> Users \cup {Nobody}]
    /\ fresh \subseteq States
    /\ request \in [Requests -> RequestState]
    /\ overlapped \subseteq Users \cup Persons
    /\ now \in Time

AdultInit ==
    /\ account = [u \in Users |-> [status |-> "active", verified |-> FALSE, until |-> 0]]
    /\ verification = {}
    /\ stateUser = [s \in States |-> Nobody]
    /\ fresh = States
    /\ request = [r \in Requests |-> Idle]
    /\ overlapped = {}
    /\ now = 0

-----------------------------------------------------------------------------
Become(r, rec) == request' = [request EXCEPT ![r] = rec]
Finish(r) == Become(r, Idle)

Expires(x) == x.at + ValidFor

\* mutated form: a verification that has not expired does not count
ValidNever(u) == account[u].verified /\ account[u].until < now

\* _is_adult_verification_valid
Valid(u) == account[u].verified /\ now < account[u].until

\* initiate_adult_verification
Initiate(u) ==
    /\ account[u].status = "active"
    /\ \E s \in fresh : /\ stateUser' = [stateUser EXCEPT ![s] = u]
                        /\ fresh' = fresh \ {s}
    /\ UNCHANGED <<account, verification, request, now>>

StateExpires(s) ==
    /\ stateUser[s] # Nobody
    /\ stateUser' = [stateUser EXCEPT ![s] = Nobody]
    /\ UNCHANGED <<account, verification, fresh, request, now>>

-----------------------------------------------------------------------------
(* complete_adult_verification *)

ReadState(r, s) ==
    /\ request[r].pc = "idle"
    /\ stateUser[s] # Nobody
    /\ Become(r, [pc |-> "claim", state |-> s, user |-> stateUser[s]])
    /\ UNCHANGED <<account, verification, stateUser, fresh, now>>

\* mutated form: the user is read from the cache a second time
DeleteStateReread(r) ==
    /\ request[r].pc = "claim"
    /\ stateUser' = [stateUser EXCEPT ![request[r].state] = Nobody]
    /\ Become(r, [pc |-> "load", user |-> stateUser[request[r].state]])
    /\ UNCHANGED <<account, verification, fresh, now>>

DeleteState(r) ==
    /\ request[r].pc = "claim"
    /\ stateUser' = [stateUser EXCEPT ![request[r].state] = Nobody]
    /\ Become(r, [pc |-> "load", user |-> request[r].user])
    /\ UNCHANGED <<account, verification, fresh, now>>

\* USER_NOT_FOUND, ACCOUNT_DEACTIVATED and ALREADY_VERIFIED end the callback
LoadUser(r) ==
    /\ request[r].pc = "load"
    /\ LET u == request[r].user
       IN  Become(r, IF account[u].status = "active" /\ ~Valid(u)
                       THEN [pc |-> "ask", user |-> u] ELSE Idle)
    /\ UNCHANGED <<account, verification, stateUser, fresh, now>>

\* mutated form: a person counts as used only while the verification is valid
UsedByAnotherNow(p, u) ==
    \E x \in verification : x.person = p /\ x.user # u /\ now < Expires(x)

UsedByAnother(p, u) == \E x \in verification : x.person = p /\ x.user # u

\* VERIFICATION_ALREADY_USED, then verified_at is taken
ProviderAnswers(r, p) ==
    /\ request[r].pc = "ask"
    /\ Become(r, IF UsedByAnother(p, request[r].user) THEN Idle
                 ELSE [pc |-> "save", user |-> request[r].user, person |-> p, at |-> now])
    /\ UNCHANGED <<account, verification, stateUser, fresh, now>>

\* the provider fails or the person is UNDERAGE
ProviderRefuses(r) ==
    /\ request[r].pc = "ask"
    /\ Finish(r)
    /\ UNCHANGED <<account, verification, stateUser, fresh, now>>

\* mutated form: the expiry counts from the old one when there is one
VerifiedAccountExtended(old, req) ==
    [old EXCEPT !.verified = TRUE, !.until = (IF old.verified THEN old.until ELSE req.at) + ValidFor]

VerifiedAccount(old, req) ==
    [old EXCEPT !.verified = TRUE, !.until = Expires(req)]

\* the transaction: the row is created and the loaded user saved, update_fields
SaveVerification(r) ==
    /\ request[r].pc = "save"
    /\ LET req == request[r]
       IN  /\ account[req.user].status # "purged"
           /\ verification' = verification \cup
                {[user |-> req.user, person |-> req.person, at |-> req.at]}
           /\ account' = [account EXCEPT ![req.user] = VerifiedAccount(@, req)]
    /\ Finish(r)
    /\ UNCHANGED <<stateUser, fresh, now>>

\* the foreign key refuses a row for a user who is gone; the transaction rolls back
SaveRefused(r) ==
    /\ request[r].pc = "save"
    /\ account[request[r].user].status = "purged"
    /\ Finish(r)
    /\ UNCHANGED <<account, verification, stateUser, fresh, now>>

-----------------------------------------------------------------------------
(* What happens around it: deletion, restore, the purge's cascade, time *)

SetStatus(u, old, new) ==
    /\ account[u].status = old
    /\ account' = [account EXCEPT ![u].status = new]
    /\ verification' = IF new = "purged" THEN {x \in verification : x.user # u}
                       ELSE verification
    /\ UNCHANGED <<stateUser, fresh, request, now>>

Tick ==
    /\ now < MaxTime
    /\ now' = now + 1
    /\ UNCHANGED <<account, verification, stateUser, fresh, request>>

CallbackAPI(r) ==
    \/ \E s \in States : ReadState(r, s)
    \/ DeleteState(r)
    \/ LoadUser(r)
    \/ \E p \in Persons : ProviderAnswers(r, p)
    \/ ProviderRefuses(r)
    \/ SaveVerification(r)
    \/ SaveRefused(r)

AdultStep ==
    \/ \E r \in Requests : CallbackAPI(r)
    \/ \E u \in Users : \/ Initiate(u)
                        \/ SetStatus(u, "active", "inactive")
                        \/ SetStatus(u, "inactive", "active")
                        \/ SetStatus(u, "inactive", "purged")
    \/ \E s \in States : StateExpires(s)
    \/ Tick

\* A callback works on a user from the check that the user is not verified, and on a
\* person from the check that nobody else is, until it has saved both
WorksOn(req) ==
    {x \in Users \cup Persons :
        \/ req.pc \in {"ask", "save"} /\ x = req.user
        \/ req.pc = "save" /\ x = req.person}

NoteOverlaps ==
    overlapped' = overlapped \cup
        {x \in Users \cup Persons :
            \E r, s \in Requests : /\ r # s
                                   /\ x \in WorksOn(request[r])'
                                   /\ x \in WorksOn(request[s])'}

AdultNext == AdultStep /\ NoteOverlaps

AdultSpec == AdultInit /\ [][AdultNext]_adultVars

-----------------------------------------------------------------------------
\* One person verifies one account, for ever: two rows of a provider_uid belong to
\* one user, unless two callbacks checked that person at once - no constraint of the
\* table would stop those (test_callback_returns_conflict_for_reused_provider_uid).
PersonVerifiesOneUser ==
    \A x, y \in verification :
        x.person = y.person => x.user = y.user \/ x.person \in overlapped

\* A user is not verified again while a verification is valid (ALREADY_VERIFIED): the
\* periods of a user do not overlap, unless two callbacks of that user did.
PeriodsAreConsecutive ==
    \A x, y \in verification :
        x.user = y.user /\ x # y =>
            Expires(x) <= y.at \/ Expires(y) <= x.at \/ x.user \in overlapped

\* The columns of the user agree with the rows: the expiry is that of a stored
\* verification, and of the last one unless callbacks of the user overlapped.
ExpiryIsLatest ==
    \A u \in Users : account[u].status # "purged" =>
        /\ account[u].verified =>
             \E x \in verification : x.user = u /\ account[u].until = Expires(x)
        /\ \A x \in verification :
             x.user = u => account[u].verified
                           /\ (Expires(x) <= account[u].until \/ u \in overlapped)

\* The rows of a user form a sequence of periods, and the columns say the last of them.
LastPeriodCounts == PeriodsAreConsecutive /\ ExpiryIsLatest

\* filter_adult_games and detail_game look at the flag only
SeesAdultGames(u) == account[u].status = "active" /\ account[u].verified

\* get_adult_verification_status
StatusSaysVerified(u) == Valid(u)

\* "Adult games are not shown to users without adult verification": whoever sees them
\* is verified as the status endpoint understands it.  The flag outlives the expiry.
AdultGamesNeedVerification ==
    \A u \in Users : SeesAdultGames(u) => StatusSaysVerified(u)
=============================================================================
