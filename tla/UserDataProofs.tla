-------------------------- MODULE UserDataProofs --------------------------
(***************************************************************************)
(* Proofs about AdultVerification, ProfileImage, RecentSearches and        *)
(* Autocomplete, and about the four together, for any number of users,     *)
(* persons, tokens, requests, images, keywords and games.                  *)
(***************************************************************************)
EXTENDS MCUserData, ListsProofs

-----------------------------------------------------------------------------
(* AdultVerification: a person verifies one user, the periods of a user are consecutive *)

Saving(r) == request[r].pc = "save"
WorkingIn(r) == request[r].pc \in {"ask", "save"}

\* Two callbacks at work on the same thing have been noted
OverlapIsNoted ==
    \A r, s \in Requests : r # s =>
        WorksOn(request[r]) \cap WorksOn(request[s]) \subseteq overlapped

\* What a callback checked still holds when it saves, unless another one worked on
\* the same person or user
CheckedPersonHolds ==
    \A r \in Requests : Saving(r) =>
        \A x \in verification : x.person = request[r].person =>
            x.user = request[r].user \/ x.person \in overlapped

\* the columns of an account bound the rows it has
RowsEndBy ==
    \A x \in verification :
        /\ account[x.user].verified
        /\ Expires(x) <= account[x.user].until \/ x.user \in overlapped

CheckedUserHolds ==
    \A r \in Requests : WorkingIn(r) =>
        \A x \in verification : x.user = request[r].user =>
            \/ x.user \in overlapped
            \/ request[r].pc = "ask" /\ Expires(x) <= now
            \/ request[r].pc = "save" /\ Expires(x) <= request[r].at

SavedAtPast == \A r \in Requests : Saving(r) => request[r].at <= now

AdultInv ==
    /\ AdultTypeOK
    /\ OverlapIsNoted
    /\ CheckedPersonHolds
    /\ RowsEndBy
    /\ CheckedUserHolds
    /\ SavedAtPast
    /\ PersonVerifiesOneUser
    /\ PeriodsAreConsecutive

-----------------------------------------------------------------------------
LEMMA WorksOnUser == \A req : req.pc \in {"ask", "save"} /\ req.user \in Users
                                => req.user \in WorksOn(req)
  BY DEF WorksOn

LEMMA WorksOnPerson == \A req : req.pc = "save" /\ req.person \in Persons
                                  => req.person \in WorksOn(req)
  BY DEF WorksOn

\* what the type invariant says of the request of a callback
LEMMA RequestTypes ==
    ASSUME AdultTypeOK, NEW r \in Requests
    PROVE  /\ request[r].pc = "claim" => request[r].user \in Users /\ request[r].state \in States
           /\ request[r].pc \in {"load", "ask", "save"} => request[r].user \in Users
           /\ request[r].pc = "save" => request[r].person \in Persons /\ request[r].at \in Time
  BY DEF AdultTypeOK, RequestState, ClaimState, UserState, SaveState, Idle

\* the request a step may put in the place of another has the right type
LEMMA RequestChanges ==
    ASSUME AdultTypeOK, NEW r \in Requests, NEW rec \in RequestState, Become(r, rec)
    PROVE  request' \in [Requests -> RequestState]
  BY DEF AdultTypeOK, Become

LEMMA IdleIsRequest == Idle \in RequestState
  BY DEF RequestState

LEMMA ExpiresTypes ==
    ASSUME AdultTypeOK, NEW x \in verification
    PROVE  x \in Verification /\ x.user \in Users /\ x.at \in Time /\ Expires(x) \in Nat
  BY AdultAssumption DEF AdultTypeOK, Verification, Expires, Time

LEMMA OverlapsGrow ==
    ASSUME NoteOverlaps
    PROVE  overlapped \subseteq overlapped' /\ OverlapIsNoted'
  <1>1. overlapped \subseteq overlapped'
    BY DEF NoteOverlaps
  <1>2. ASSUME NEW r \in Requests, NEW s \in Requests, r # s,
               NEW x \in WorksOn(request[r])' \cap WorksOn(request[s])'
        PROVE  x \in overlapped'
    <2>1. x \in Users \cup Persons
      BY <1>2 DEF WorksOn
    <2>2. QED BY <1>2, <2>1 DEF NoteOverlaps
  <1>3. QED BY <1>1, <1>2 DEF OverlapIsNoted

-----------------------------------------------------------------------------
LEMMA AdultTypesHoldInitially == AdultInit => AdultTypeOK
  BY AdultAssumption DEF AdultInit, AdultTypeOK, Account, RequestState, Time, Idle

\* Every step preserves the types.
LEMMA AdultTypesArePreserved ==
    ASSUME AdultTypeOK, [AdultNext]_adultVars
    PROVE  AdultTypeOK'
  <1> USE DEF AdultTypeOK
  <1>1. CASE UNCHANGED adultVars
    BY <1>1 DEF adultVars
  <1>2. ASSUME AdultStep, NoteOverlaps PROVE AdultTypeOK'
    <2>0. overlapped' \subseteq Users \cup Persons
      BY <1>2 DEF NoteOverlaps
    <2>1. ASSUME NEW r \in Requests, NEW s \in States, ReadState(r, s) PROVE AdultTypeOK'
      <3>1. [pc |-> "claim", state |-> s, user |-> stateUser[s]] \in RequestState
        BY <2>1 DEF ReadState, RequestState, ClaimState
      <3>2. request' \in [Requests -> RequestState]
        BY <2>1, <3>1, RequestChanges DEF ReadState
      <3>3. QED BY <2>0, <2>1, <3>2 DEF ReadState
    <2>2. ASSUME NEW r \in Requests, DeleteState(r) PROVE AdultTypeOK'
      <3>1. [pc |-> "load", user |-> request[r].user] \in RequestState
        BY <2>2, RequestTypes DEF DeleteState, RequestState, UserState
      <3>2. request' \in [Requests -> RequestState]
        BY <2>2, <3>1, RequestChanges DEF DeleteState
      <3>3. QED BY <2>0, <2>2, <3>2 DEF DeleteState
    <2>3. ASSUME NEW r \in Requests, LoadUser(r) PROVE AdultTypeOK'
      <3>1. [pc |-> "ask", user |-> request[r].user] \in RequestState
        BY <2>3, RequestTypes DEF LoadUser, RequestState, UserState
      <3>2. request' \in [Requests -> RequestState]
        BY <2>3, <3>1, RequestChanges, IdleIsRequest DEF LoadUser
      <3>3. QED BY <2>0, <2>3, <3>2 DEF LoadUser
    <2>4. ASSUME NEW r \in Requests, NEW p \in Persons, ProviderAnswers(r, p)
          PROVE  AdultTypeOK'
      <3>1. [pc |-> "save", user |-> request[r].user, person |-> p, at |-> now] \in RequestState
        BY <2>4, RequestTypes DEF ProviderAnswers, RequestState, SaveState
      <3>2. request' \in [Requests -> RequestState]
        BY <2>4, <3>1, RequestChanges, IdleIsRequest DEF ProviderAnswers
      <3>3. QED BY <2>0, <2>4, <3>2 DEF ProviderAnswers
    <2>5. ASSUME NEW r \in Requests, ProviderRefuses(r) \/ SaveRefused(r)
          PROVE  AdultTypeOK'
      <3>1. request' \in [Requests -> RequestState]
        BY <2>5, RequestChanges, IdleIsRequest DEF ProviderRefuses, SaveRefused, Finish
      <3>2. QED BY <2>0, <2>5, <3>1 DEF ProviderRefuses, SaveRefused
    <2>6. ASSUME NEW r \in Requests, SaveVerification(r) PROVE AdultTypeOK'
      <3>1. request' \in [Requests -> RequestState]
        BY <2>6, RequestChanges, IdleIsRequest DEF SaveVerification, Finish
      <3>2. request[r].user \in Users /\ request[r].person \in Persons /\ request[r].at \in Time
        BY <2>6, RequestTypes DEF SaveVerification
      <3>3. [user |-> request[r].user, person |-> request[r].person, at |-> request[r].at]
              \in Verification
        BY <3>2 DEF Verification
      <3>4. Expires(request[r]) \in 0..(MaxTime + ValidFor)
        BY <3>2, AdultAssumption DEF Expires, Time
      <3>5. VerifiedAccount(account[request[r].user], request[r]) \in Account
        BY ZenonT(40), <3>2, <3>4 DEF VerifiedAccount, Account
      <3>6. account' \in [Users -> Account]
        BY <2>6, <3>5 DEF SaveVerification
      <3>7. QED BY <2>0, <2>6, <3>1, <3>3, <3>6 DEF SaveVerification
    <2>7. ASSUME NEW u \in Users, Initiate(u) PROVE AdultTypeOK'
      BY <2>0, <2>7 DEF Initiate
    <2>8. ASSUME NEW u \in Users, NEW old, NEW new \in {"active", "inactive", "purged"},
                 SetStatus(u, old, new)
          PROVE  AdultTypeOK'
      BY <2>0, <2>8 DEF SetStatus, Account
    <2>9. ASSUME NEW s \in States, StateExpires(s) PROVE AdultTypeOK'
      BY <2>0, <2>9 DEF StateExpires
    <2>10. CASE Tick
      BY <2>0, <2>10, AdultAssumption DEF Tick, Time
    <2>11. QED BY <1>2, <2>1, <2>2, <2>3, <2>4, <2>5, <2>6, <2>7, <2>8, <2>9, <2>10
               DEF AdultStep, CallbackAPI
  <1>3. QED BY <1>1, <1>2 DEF AdultNext

\* Every reachable state of the flow is type correct.
THEOREM AdultTypes == AdultSpec => []AdultTypeOK
  BY AdultTypesHoldInitially, AdultTypesArePreserved, PTL DEF AdultSpec

-----------------------------------------------------------------------------
(* The steps, by what they do to the callbacks at work *)

Bystander ==
    /\ verification' \subseteq verification
    /\ \A u \in Users :
         account[u].verified' = account[u].verified /\ account[u].until' = account[u].until
    /\ now <= now'
    /\ \A r \in Requests : WorkingIn(r)' => request'[r] = request[r]

LEMMA StepKinds ==
    ASSUME AdultTypeOK, AdultStep
    PROVE  \/ Bystander
           \/ \E r \in Requests : LoadUser(r)
           \/ \E r \in Requests, p \in Persons : ProviderAnswers(r, p)
           \/ \E r \in Requests : SaveVerification(r)
  <1> USE DEF AdultTypeOK
  <1>a. now <= now
    BY DEF Time
  <1>1. ASSUME NEW r \in Requests,
               (\E s \in States : ReadState(r, s)) \/ DeleteState(r)
                 \/ ProviderRefuses(r) \/ SaveRefused(r)
        PROVE  Bystander
    BY <1>a, <1>1 DEF ReadState, DeleteState, ProviderRefuses, SaveRefused, Finish, Become,
                      Idle, Bystander, WorkingIn
  <1>2. ASSUME NEW u \in Users, Initiate(u) PROVE Bystander
    BY <1>a, <1>2 DEF Initiate, Bystander
  <1>3. ASSUME NEW u \in Users, NEW old, NEW new, SetStatus(u, old, new) PROVE Bystander
    <2>1. verification' \subseteq verification
      BY <1>3 DEF SetStatus
    <2>2. ASSUME NEW v \in Users
          PROVE  account[v].verified' = account[v].verified /\ account[v].until' = account[v].until
      BY <1>3 DEF SetStatus, Account
    <2>3. QED BY <1>a, <1>3, <2>1, <2>2 DEF SetStatus, Bystander
  <1>4. ASSUME NEW s \in States, StateExpires(s) PROVE Bystander
    BY <1>a, <1>4 DEF StateExpires, Bystander
  <1>5. CASE Tick
    BY <1>5 DEF Tick, Bystander, Time
  <1>6. QED BY <1>1, <1>2, <1>3, <1>4, <1>5 DEF AdultStep, CallbackAPI

-----------------------------------------------------------------------------
(* Each part of the invariant, for each kind of step *)

LEMMA BystandersKeepIt ==
    ASSUME AdultInv, Bystander, overlapped \subseteq overlapped', AdultTypeOK'
    PROVE  CheckedPersonHolds' /\ RowsEndBy' /\ CheckedUserHolds' /\ SavedAtPast'
           /\ PersonVerifiesOneUser' /\ PeriodsAreConsecutive'
  <1> USE DEF AdultInv, Bystander
  <1>1. CheckedPersonHolds'
    BY DEF CheckedPersonHolds, Saving, WorkingIn
  <1>2. RowsEndBy'
    <2>1. \A x \in verification : x.user \in Users
      BY ExpiresTypes
    <2>2. QED BY <2>1 DEF RowsEndBy, Expires
  <1>3. CheckedUserHolds'
    <2> SUFFICES ASSUME NEW r \in Requests, WorkingIn(r)', NEW x \in verification',
                        x.user = request'[r].user, x.user \notin overlapped'
                 PROVE  \/ request'[r].pc = "ask" /\ Expires(x) <= now'
                        \/ request'[r].pc = "save" /\ Expires(x) <= request'[r].at
      BY DEF CheckedUserHolds, Expires
    <2>1. request'[r] = request[r] /\ WorkingIn(r) /\ x \in verification /\ x.user \notin overlapped
      BY DEF WorkingIn
    <2>2. \/ request[r].pc = "ask" /\ Expires(x) <= now
          \/ request[r].pc = "save" /\ Expires(x) <= request[r].at
      BY <2>1 DEF CheckedUserHolds
    <2>3. Expires(x) \in Nat /\ now \in Nat /\ now' \in Nat
      BY <2>1, ExpiresTypes DEF AdultTypeOK, Time
    <2>4. QED BY <2>1, <2>2, <2>3
  <1>4. SavedAtPast'
    <2> SUFFICES ASSUME NEW r \in Requests, Saving(r)' PROVE request'[r].at <= now'
      BY DEF SavedAtPast
    <2>1. request'[r] = request[r] /\ Saving(r)
      BY DEF Saving, WorkingIn
    <2>2. request[r].at \in Time
      BY <2>1, RequestTypes DEF Saving
    <2>3. QED BY <2>1, <2>2 DEF SavedAtPast, AdultTypeOK, Time
  <1>5. PersonVerifiesOneUser' /\ PeriodsAreConsecutive'
    BY DEF PersonVerifiesOneUser, PeriodsAreConsecutive, Expires
  <1>6. QED BY <1>1, <1>2, <1>3, <1>4, <1>5

LEMMA LoadKeepsIt ==
    ASSUME AdultInv, NEW r \in Requests, LoadUser(r), overlapped \subseteq overlapped'
    PROVE  CheckedPersonHolds' /\ RowsEndBy' /\ CheckedUserHolds' /\ SavedAtPast'
           /\ PersonVerifiesOneUser' /\ PeriodsAreConsecutive'
  <1> USE DEF AdultInv, LoadUser
  <1>a. \A s \in Requests : s # r => request'[s] = request[s]
    BY DEF Become, AdultTypeOK
  <1>b. ~Saving(r)'
    BY DEF Become, AdultTypeOK, Saving, Idle
  <1>1. CheckedPersonHolds' /\ SavedAtPast'
    BY <1>a, <1>b DEF CheckedPersonHolds, SavedAtPast, Saving
  <1>2. RowsEndBy'
    BY DEF RowsEndBy, Expires
  <1>3. CheckedUserHolds'
    <2> SUFFICES ASSUME NEW s \in Requests, WorkingIn(s)', NEW x \in verification,
                        x.user = request'[s].user, x.user \notin overlapped'
                 PROVE  \/ request'[s].pc = "ask" /\ Expires(x) <= now
                        \/ request'[s].pc = "save" /\ Expires(x) <= request'[s].at
      BY DEF CheckedUserHolds, Expires
    <2>1. CASE s # r
      BY <2>1, <1>a DEF CheckedUserHolds, WorkingIn
    <2>2. CASE s = r
      <3>1. request'[r] = [pc |-> "ask", user |-> request[r].user] /\ ~Valid(request[r].user)
        BY <2>2 DEF Become, AdultTypeOK, WorkingIn, Idle
      <3>2. account[x.user].verified /\ Expires(x) <= account[x.user].until
        BY DEF RowsEndBy
      <3>3. x.user = request[r].user
        BY <2>2, <3>1
      <3>4. ~(now < account[x.user].until)
        BY <3>1, <3>2, <3>3 DEF Valid
      <3>5. account[x.user].until \in Nat /\ now \in Nat /\ Expires(x) \in Nat
        BY ExpiresTypes, AdultAssumption DEF AdultTypeOK, Account, Time
      <3>6. Expires(x) <= now
        BY <3>2, <3>4, <3>5
      <3>7. QED BY <2>2, <3>1, <3>6
    <2>3. QED BY <2>1, <2>2
  <1>4. PersonVerifiesOneUser' /\ PeriodsAreConsecutive'
    BY DEF PersonVerifiesOneUser, PeriodsAreConsecutive, Expires
  <1>5. QED BY <1>1, <1>2, <1>3, <1>4

LEMMA AnswerKeepsIt ==
    ASSUME AdultInv, NEW r \in Requests, NEW p \in Persons, ProviderAnswers(r, p),
           overlapped \subseteq overlapped'
    PROVE  CheckedPersonHolds' /\ RowsEndBy' /\ CheckedUserHolds' /\ SavedAtPast'
           /\ PersonVerifiesOneUser' /\ PeriodsAreConsecutive'
  <1> USE DEF AdultInv, ProviderAnswers
  <1>a. \A s \in Requests : s # r => request'[s] = request[s]
    BY DEF Become, AdultTypeOK
  <1>b. WorkingIn(r)' =>
           /\ request'[r] = [pc |-> "save", user |-> request[r].user, person |-> p, at |-> now]
           /\ ~UsedByAnother(p, request[r].user)
    BY DEF Become, AdultTypeOK, WorkingIn, Idle
  <1>1. CheckedPersonHolds'
    BY <1>a, <1>b DEF CheckedPersonHolds, Saving, WorkingIn, UsedByAnother
  <1>2. SavedAtPast'
    BY <1>a, <1>b DEF SavedAtPast, Saving, WorkingIn, AdultTypeOK, Time
  <1>3. RowsEndBy'
    BY DEF RowsEndBy, Expires
  <1>4. CheckedUserHolds'
    <2> SUFFICES ASSUME NEW s \in Requests, WorkingIn(s)', NEW x \in verification,
                        x.user = request'[s].user, x.user \notin overlapped'
                 PROVE  \/ request'[s].pc = "ask" /\ Expires(x) <= now
                        \/ request'[s].pc = "save" /\ Expires(x) <= request'[s].at
      BY DEF CheckedUserHolds, Expires
    <2>1. CASE s # r
      BY <2>1, <1>a DEF CheckedUserHolds, WorkingIn
    <2>2. CASE s = r
      <3>1. request[r].pc = "ask" /\ x.user = request[r].user
        BY <2>2, <1>b
      <3>2. Expires(x) <= now
        BY <3>1 DEF CheckedUserHolds, WorkingIn
      <3>3. QED BY <2>2, <1>b, <3>2
    <2>3. QED BY <2>1, <2>2
  <1>5. PersonVerifiesOneUser' /\ PeriodsAreConsecutive'
    BY DEF PersonVerifiesOneUser, PeriodsAreConsecutive, Expires
  <1>6. QED BY <1>1, <1>2, <1>3, <1>4, <1>5

LEMMA SaveKeepsIt ==
    ASSUME AdultInv, NEW r \in Requests, SaveVerification(r), overlapped \subseteq overlapped'
    PROVE  CheckedPersonHolds' /\ RowsEndBy' /\ CheckedUserHolds' /\ SavedAtPast'
           /\ PersonVerifiesOneUser' /\ PeriodsAreConsecutive'
  <1> DEFINE u == request[r].user
             p == request[r].person
             n == [user |-> u, person |-> p, at |-> request[r].at]
  <1> USE DEF AdultInv
  <1>a. u \in Users /\ p \in Persons /\ request[r].at \in Time /\ Saving(r) /\ WorkingIn(r)
    BY RequestTypes DEF SaveVerification, Saving, WorkingIn
  <1>b. verification' = verification \cup {n} /\ now' = now
    BY DEF SaveVerification
  <1>c. /\ ~WorkingIn(r)' /\ ~Saving(r)'
        /\ \A s \in Requests : s # r => request'[s] = request[s]
    BY DEF SaveVerification, Finish, Become, Idle, AdultTypeOK, WorkingIn, Saving
  <1>d. /\ account'[u].verified /\ account'[u].until = Expires(n)
        /\ \A v \in Users : v # u => account'[v] = account[v]
    BY <1>a DEF SaveVerification, VerifiedAccount, Expires, AdultTypeOK, Account
  <1>e. \A s \in Requests : s # r /\ WorkingIn(s) /\ request[s].user = u => u \in overlapped
    <2> SUFFICES ASSUME NEW s \in Requests, s # r, WorkingIn(s), request[s].user = u
                 PROVE  u \in overlapped
      OBVIOUS
    <2>1. u \in WorksOn(request[s]) /\ u \in WorksOn(request[r])
      BY <1>a, WorksOnUser DEF WorkingIn
    <2>2. QED BY <2>1 DEF OverlapIsNoted
  <1>f. \A s \in Requests : s # r /\ Saving(s) /\ request[s].person = p => p \in overlapped
    <2> SUFFICES ASSUME NEW s \in Requests, s # r, Saving(s), request[s].person = p
                 PROVE  p \in overlapped
      OBVIOUS
    <2>1. p \in WorksOn(request[s]) /\ p \in WorksOn(request[r])
      BY <1>a, WorksOnPerson DEF Saving
    <2>2. QED BY <2>1 DEF OverlapIsNoted
  \* the older rows of the user ended before the new one begins
  <1>g. \A x \in verification : x.user = u => Expires(x) <= n.at \/ u \in overlapped
    BY <1>a DEF CheckedUserHolds, WorkingIn, Saving
  <1>h. \A x \in verification : x.person = p => x.user = u \/ p \in overlapped
    BY <1>a DEF CheckedPersonHolds
  <1>i. n.at <= Expires(n) /\ n.at \in Nat /\ Expires(n) \in Nat
    BY <1>a, AdultAssumption DEF Expires, Time
  <1> HIDE DEF n, u, p
  <1>1. CheckedPersonHolds'
    <2> SUFFICES ASSUME NEW s \in Requests, Saving(s)', NEW x \in verification',
                        x.person = request'[s].person
                 PROVE  x.user = request'[s].user \/ x.person \in overlapped'
      BY DEF CheckedPersonHolds
    <2>1. s # r /\ request'[s] = request[s] /\ Saving(s)
      BY <1>c DEF Saving
    <2>2. CASE x \in verification
      BY <2>1, <2>2 DEF CheckedPersonHolds
    <2>3. CASE x = n
      BY <2>1, <2>3, <1>f DEF n
    <2>4. QED BY <1>b, <2>2, <2>3
  <1>2. RowsEndBy'
    <2> SUFFICES ASSUME NEW x \in verification'
                 PROVE  /\ account'[x.user].verified
                        /\ Expires(x) <= account'[x.user].until \/ x.user \in overlapped'
      BY DEF RowsEndBy, Expires
    <2>1. CASE x = n
      BY <2>1, <1>d, <1>i DEF n
    <2>2. CASE x \in verification /\ x.user = u
      <3>1. Expires(x) \in Nat
        BY <2>2, ExpiresTypes
      <3>2. QED BY <2>2, <3>1, <1>d, <1>g, <1>i
    <2>3. CASE x \in verification /\ x.user # u
      <3>1. x.user \in Users
        BY <2>3, ExpiresTypes
      <3>2. QED BY <2>3, <3>1, <1>d DEF RowsEndBy
    <2>4. QED BY <1>b, <2>1, <2>2, <2>3
  <1>3. CheckedUserHolds'
    <2> SUFFICES ASSUME NEW s \in Requests, WorkingIn(s)', NEW x \in verification',
                        x.user = request'[s].user, x.user \notin overlapped'
                 PROVE  \/ request'[s].pc = "ask" /\ Expires(x) <= now'
                        \/ request'[s].pc = "save" /\ Expires(x) <= request'[s].at
      BY DEF CheckedUserHolds, Expires
    <2>1. s # r /\ request'[s] = request[s] /\ WorkingIn(s)
      BY <1>c DEF WorkingIn
    <2>2. CASE x \in verification
      BY <2>1, <2>2, <1>b DEF CheckedUserHolds
    <2>3. CASE x = n
      BY <2>1, <2>3, <1>e DEF n
    <2>4. QED BY <1>b, <2>2, <2>3
  <1>4. SavedAtPast'
    BY <1>b, <1>c DEF SavedAtPast, Saving
  <1>5. PersonVerifiesOneUser'
    <2> SUFFICES ASSUME NEW x \in verification', NEW y \in verification', x.person = y.person
                 PROVE  x.user = y.user \/ x.person \in overlapped'
      BY DEF PersonVerifiesOneUser
    <2>1. n.user = u /\ n.person = p
      BY DEF n
    <2>2. CASE x \in verification /\ y \in verification
      BY <2>2 DEF PersonVerifiesOneUser
    <2>3. CASE x = n \/ y = n
      BY <2>1, <2>3, <1>b, <1>h
    <2>4. QED BY <1>b, <2>2, <2>3
  <1>6. PeriodsAreConsecutive'
    <2> SUFFICES ASSUME NEW x \in verification', NEW y \in verification', x.user = y.user, x # y
                 PROVE  Expires(x) <= y.at \/ Expires(y) <= x.at \/ x.user \in overlapped'
      BY DEF PeriodsAreConsecutive, Expires
    <2>1. n.user = u
      BY DEF n
    <2>2. CASE x \in verification /\ y \in verification
      BY <2>2 DEF PeriodsAreConsecutive
    <2>3. CASE x = n \/ y = n
      BY <2>1, <2>3, <1>b, <1>g
    <2>4. QED BY <1>b, <2>2, <2>3
  <1>7. QED BY <1>1, <1>2, <1>3, <1>4, <1>5, <1>6

-----------------------------------------------------------------------------
LEMMA AdultInvHoldsInitially == AdultInit => AdultInv
  <1> SUFFICES ASSUME AdultInit PROVE AdultInv
    OBVIOUS
  <1>1. AdultTypeOK
    BY AdultTypesHoldInitially
  <1>2. \A r \in Requests : request[r].pc = "idle"
    BY DEF AdultInit, Idle
  <1>3. OverlapIsNoted /\ CheckedPersonHolds /\ CheckedUserHolds /\ SavedAtPast
    BY <1>2 DEF OverlapIsNoted, WorksOn, CheckedPersonHolds, CheckedUserHolds, SavedAtPast,
                Saving, WorkingIn
  <1>4. RowsEndBy /\ PersonVerifiesOneUser /\ PeriodsAreConsecutive
    BY DEF AdultInit, RowsEndBy, PersonVerifiesOneUser, PeriodsAreConsecutive
  <1>5. QED BY <1>1, <1>3, <1>4 DEF AdultInv

LEMMA AdultInvIsPreserved ==
    ASSUME AdultInv, [AdultNext]_adultVars
    PROVE  AdultInv'
  <1>1. AdultTypeOK'
    BY AdultTypesArePreserved DEF AdultInv
  <1>2. CASE UNCHANGED adultVars
    BY <1>2 DEF AdultInv, adultVars, AdultTypeOK, OverlapIsNoted, WorksOn, CheckedPersonHolds,
                RowsEndBy, CheckedUserHolds, SavedAtPast, PersonVerifiesOneUser,
                PeriodsAreConsecutive, Saving, WorkingIn, Expires
  <1>3. ASSUME AdultStep, NoteOverlaps PROVE AdultInv'
    <2>1. overlapped \subseteq overlapped' /\ OverlapIsNoted'
      BY <1>3, OverlapsGrow
    <2>2. CheckedPersonHolds' /\ RowsEndBy' /\ CheckedUserHolds' /\ SavedAtPast'
          /\ PersonVerifiesOneUser' /\ PeriodsAreConsecutive'
      <3>1. AdultTypeOK
        BY DEF AdultInv
      <3>2. QED BY <1>1, <1>3, <2>1, <3>1, StepKinds, BystandersKeepIt, LoadKeepsIt,
                   AnswerKeepsIt, SaveKeepsIt
    <2>3. QED BY <1>1, <2>1, <2>2 DEF AdultInv
  <1>4. QED BY <1>2, <1>3 DEF AdultNext

\* One person verifies one account unless two callbacks checked that person at once.
THEOREM OnePersonOneUser == AdultSpec => []PersonVerifiesOneUser
  <1>1. AdultInv => PersonVerifiesOneUser
    BY DEF AdultInv
  <1>2. QED BY <1>1, AdultInvHoldsInitially, AdultInvIsPreserved, PTL DEF AdultSpec

\* The periods of a user follow one another unless two callbacks of that user overlapped.
THEOREM PeriodsFollow == AdultSpec => []PeriodsAreConsecutive
  <1>1. AdultInv => PeriodsAreConsecutive
    BY DEF AdultInv
  <1>2. QED BY <1>1, AdultInvHoldsInitially, AdultInvIsPreserved, PTL DEF AdultSpec

-----------------------------------------------------------------------------
(* The columns of an account come from a row it has *)

FlagHasRow ==
    \A u \in Users : account[u].status # "purged" /\ account[u].verified =>
        \E x \in verification : x.user = u /\ account[u].until = Expires(x)

LEMMA FlagKeepsRow ==
    ASSUME AdultTypeOK, FlagHasRow, [AdultNext]_adultVars
    PROVE  FlagHasRow'
  <1>1. CASE UNCHANGED <<account, verification>>
    BY <1>1 DEF FlagHasRow, Expires
  <1>2. ASSUME NEW r \in Requests, SaveVerification(r) PROVE FlagHasRow'
    <2>0. PICK n : n = [user |-> request[r].user, person |-> request[r].person,
                        at |-> request[r].at]
      OBVIOUS
    <2>1. /\ n \in verification' /\ verification \subseteq verification'
          /\ n.user = request[r].user
          /\ account' = [account EXCEPT ![n.user] = VerifiedAccount(@, n)]
      <3>1. Expires(n) = Expires(request[r])
        BY <2>0 DEF Expires
      <3>2. \A old : VerifiedAccount(old, n) = VerifiedAccount(old, request[r])
        BY <3>1 DEF VerifiedAccount
      <3>3. QED BY <1>2, <2>0, <3>2 DEF SaveVerification
    <2>2. n.user \in Users
      BY <1>2, <2>1, RequestTypes DEF SaveVerification
    <2>3. account'[n.user].until = Expires(n)
      BY <2>1, <2>2 DEF AdultTypeOK, Account, VerifiedAccount
    <2>4. \A v \in Users : v # n.user => account'[v] = account[v]
      BY <2>1 DEF AdultTypeOK
    <2>5. QED BY <2>1, <2>3, <2>4 DEF FlagHasRow, Expires
  <1>3. ASSUME NEW u \in Users, NEW old \in {"active", "inactive"}, NEW new,
               SetStatus(u, old, new)
        PROVE  FlagHasRow'
    <2>1. /\ account' = [account EXCEPT ![u].status = new]
          /\ account[u].status = old
          /\ new = "purged" => verification' = {x \in verification : x.user # u}
          /\ new # "purged" => verification' = verification
      BY <1>3 DEF SetStatus
    <2>2. account'[u].status = new
      BY <2>1 DEF AdultTypeOK, Account
    <2>3. \A v \in Users : /\ account'[v].verified = account[v].verified
                            /\ account'[v].until = account[v].until
                            /\ v # u => account'[v].status = account[v].status
      BY <2>1 DEF AdultTypeOK, Account
    <2>4. account[u].status # "purged"
      BY <2>1
    <2>5. QED BY <2>1, <2>2, <2>3, <2>4 DEF FlagHasRow, Expires
  <1>4. ASSUME AdultStep PROVE FlagHasRow'
    <2>1. ASSUME NEW r \in Requests, CallbackAPI(r) PROVE FlagHasRow'
      BY <1>1, <1>2, <2>1 DEF CallbackAPI, ReadState, DeleteState, LoadUser, ProviderAnswers,
                              ProviderRefuses, SaveRefused
    <2>2. ASSUME NEW u \in Users, Initiate(u) PROVE FlagHasRow'
      BY <1>1, <2>2 DEF Initiate
    <2>3. ASSUME NEW s \in States, StateExpires(s) PROVE FlagHasRow'
      BY <1>1, <2>3 DEF StateExpires
    <2>4. CASE Tick
      BY <1>1, <2>4 DEF Tick
    <2>5. QED BY <1>3, <1>4, <2>1, <2>2, <2>3, <2>4 DEF AdultStep
  <1>5. QED BY <1>1, <1>4 DEF AdultNext, adultVars

\* The expiry of a verified user is that of a stored verification, and of the last one
\* unless callbacks of the user overlapped.
THEOREM ExpiryFollowsRows == AdultSpec => []ExpiryIsLatest
  <1>1. AdultInit => FlagHasRow
    BY DEF AdultInit, FlagHasRow
  <1>2. AdultInv /\ FlagHasRow => ExpiryIsLatest
    BY DEF AdultInv, FlagHasRow, RowsEndBy, ExpiryIsLatest
  <1>3. AdultInv /\ FlagHasRow /\ [AdultNext]_adultVars => FlagHasRow'
    BY FlagKeepsRow DEF AdultInv
  <1>4. QED BY <1>1, <1>2, <1>3, AdultInvHoldsInitially, AdultInvIsPreserved, PTL DEF AdultSpec

\* The periods of a user follow one another and the columns say the last one.
THEOREM ColumnsSayLastPeriod == AdultSpec => []LastPeriodCounts
  <1>1. PeriodsAreConsecutive /\ ExpiryIsLatest => LastPeriodCounts
    BY DEF LastPeriodCounts
  <1>2. QED BY <1>1, PeriodsFollow, ExpiryFollowsRows, PTL

-----------------------------------------------------------------------------
(* ProfileImage: rows name missing objects only through a half-done request, serial images match *)

Busy(w) == worker[w].pc # "rest"
HasNew(w) == worker[w].pc \in {"delete", "save"} /\ worker[w].new # NoImage
OwnedBy(o, u, n) == o = NoImage \/ (o \in Objects /\ o[1] = u /\ o[2] <= n)

\* rows and requests only know objects that their user has put so far
Owned ==
    /\ \A u \in Owners : OwnedBy(image[u], u, uploads[u])
    /\ \A w \in Workers : Busy(w) =>
         LET u == worker[w].user
         IN OwnedBy(worker[w].old, u, uploads[u]) /\ OwnedBy(worker[w].new, u, uploads[u])

\* An object that was put and is not in the row yet is known to its request alone.
NewIsUnknown ==
    \A w \in Workers : HasNew(w) =>
        /\ worker[w].new \in bucket
        /\ \A u \in Owners : image[u] # worker[w].new
        /\ \A v \in Workers : Busy(v) => /\ worker[v].old # worker[w].new
                                         /\ v # w => worker[v].new # worker[w].new

ImageInv == ProfileImageTypeOK /\ Owned /\ NewIsUnknown /\ MissingOnlyHalfDone

-----------------------------------------------------------------------------
\* what the type invariant says of a request
LEMMA WorkerTypes ==
    ASSUME ProfileImageTypeOK, NEW w \in Workers, Busy(w)
    PROVE  /\ worker[w].pc \in {"put", "delete", "save"}
           /\ worker[w].user \in Owners
           /\ worker[w].old \in Objects \cup {NoImage}
           /\ worker[w].new \in Objects \cup {NoImage}
           /\ worker[w] \in Working
  BY DEF ProfileImageTypeOK, Working, Resting, Busy

LEMMA ObjectTypes ==
    /\ NoImage \notin Objects
    /\ \A o \in Objects : o[1] \in Owners /\ o[2] \in 1..MaxImages /\ o = <<o[1], o[2]>>
    /\ \A u \in Owners, n \in 1..MaxImages : <<u, n>> \in Objects
  BY ProfileImageAssumption DEF Objects

\* the request that a step puts in the place of another has the right type
LEMMA ServeTypes ==
    ASSUME ProfileImageTypeOK, NEW w \in Workers, NEW rec \in Working \cup {Resting},
           Serve(w, rec)
    PROVE  /\ worker' \in [Workers -> Working \cup {Resting}]
           /\ worker'[w] = rec
           /\ \A v \in Workers \ {w} : worker'[v] = worker[v]
  BY DEF ProfileImageTypeOK, Serve

LEMMA AuthenticatedTypes ==
    ASSUME ProfileImageTypeOK, NEW w \in Workers, NEW u \in Owners, Upload(w, u) \/ DeleteImage(w, u)
    PROVE  \E pc \in {"put", "delete", "save"} :
             /\ worker[w].pc = "rest" /\ standing[u] = "active"
             /\ pc = "delete" => image[u] # NoImage
             /\ pc = "save" => image[u] = NoImage
             /\ Serve(w, [pc |-> pc, user |-> u, old |-> image[u], new |-> NoImage])
             /\ [pc |-> pc, user |-> u, old |-> image[u], new |-> NoImage] \in Working
             /\ unsettled' = IF BusyFor(u) = {} THEN unsettled ELSE unsettled \cup {u}
             /\ UNCHANGED <<standing, image, bucket, uploads, halfDone>>
  <1>1. image[u] \in Objects \cup {NoImage}
    BY DEF ProfileImageTypeOK
  <1>2. CASE Upload(w, u)
    <2>1. [pc |-> "put", user |-> u, old |-> image[u], new |-> NoImage] \in Working
      BY <1>1 DEF Working
    <2>2. QED BY <1>2, <2>1 DEF Upload, Authenticated
  <1>3. CASE DeleteImage(w, u)
    <2>1. \A pc \in {"delete", "save"} :
            [pc |-> pc, user |-> u, old |-> image[u], new |-> NoImage] \in Working
      BY <1>1 DEF Working
    <2>2. CASE image[u] = NoImage
      BY <1>3, <2>1, <2>2 DEF DeleteImage, Authenticated
    <2>3. CASE image[u] # NoImage
      BY <1>3, <2>1, <2>3 DEF DeleteImage, Authenticated
    <2>4. QED BY <2>2, <2>3
  <1>4. QED BY <1>2, <1>3

\* the four ways a request can fail
LEMMA AbortCases ==
    ASSUME ProfileImageTypeOK, NEW w \in Workers, Abort(w)
    PROVE  /\ Busy(w) /\ Rest(w)
           /\ unsettled' = unsettled \cup {worker[w].user}
           /\ UNCHANGED <<standing, image>>
           /\ \/ UNCHANGED <<bucket, uploads, halfDone>> /\ worker[w].pc # "save"
              \/ /\ worker[w].pc = "put" /\ uploads[worker[w].user] < MaxImages
                 /\ uploads' = [uploads EXCEPT ![worker[w].user] = @ + 1]
                 /\ bucket' = bucket \cup {<<worker[w].user, uploads[worker[w].user] + 1>>}
                 /\ UNCHANGED halfDone
              \/ /\ worker[w].pc = "delete"
                 /\ bucket' = bucket \ {worker[w].old}
                 /\ halfDone' = halfDone \cup {worker[w].old} /\ UNCHANGED uploads
              \/ /\ worker[w].pc = "save"
                 /\ halfDone' = halfDone \cup ({worker[w].old} \ {NoImage})
                 /\ UNCHANGED <<bucket, uploads>>
  <1>1. Busy(w) /\ Rest(w) /\ UNCHANGED <<standing, image>>
           /\ unsettled' = unsettled \cup {worker[w].user}
    BY DEF Abort, Busy
  <1>2. CASE worker[w].pc = "put"
    BY <1>1, <1>2 DEF Abort
  <1>3. CASE worker[w].pc = "delete"
    BY <1>1, <1>3 DEF Abort
  <1>4. CASE worker[w].pc = "save"
    BY <1>1, <1>4 DEF Abort
  <1>5. QED BY <1>1, <1>2, <1>3, <1>4, WorkerTypes

-----------------------------------------------------------------------------
LEMMA ImageTypesHoldInitially == ProfileImageInit => ProfileImageTypeOK
  BY ProfileImageAssumption DEF ProfileImageInit, ProfileImageTypeOK, Resting

LEMMA RestIsServe == \A w \in Workers : Rest(w) => Serve(w, Resting)
  BY DEF Rest

\* a request that is served or rests keeps the rule that a deletion has an object
LEMMA DeletionsHaveObjects ==
    ASSUME ProfileImageTypeOK, NEW w \in Workers, NEW rec \in Working \cup {Resting},
           Serve(w, rec), rec.pc = "delete" => rec.old # NoImage
    PROVE  \A v \in Workers : worker'[v].pc = "delete" => worker'[v].old # NoImage
  BY ServeTypes DEF ProfileImageTypeOK

\* Every step preserves the types.
LEMMA ImageTypesArePreserved ==
    ASSUME ProfileImageTypeOK, [ProfileImageNext]_imageVars
    PROVE  ProfileImageTypeOK'
  <1>0. Resting.pc # "delete" /\ Resting \in Working \cup {Resting}
    BY DEF Resting
  <1>1. CASE UNCHANGED imageVars
    BY <1>1 DEF imageVars, ProfileImageTypeOK
  <1>2. ASSUME NEW w \in Workers, NEW u \in Owners, Upload(w, u) \/ DeleteImage(w, u)
        PROVE  ProfileImageTypeOK'
    <2>1. PICK pc \in {"put", "delete", "save"} :
             /\ pc = "delete" => image[u] # NoImage
             /\ Serve(w, [pc |-> pc, user |-> u, old |-> image[u], new |-> NoImage])
             /\ [pc |-> pc, user |-> u, old |-> image[u], new |-> NoImage] \in Working
             /\ unsettled' = IF BusyFor(u) = {} THEN unsettled ELSE unsettled \cup {u}
             /\ UNCHANGED <<standing, image, bucket, uploads, halfDone>>
      BY <1>2, AuthenticatedTypes
    <2>2. worker' \in [Workers -> Working \cup {Resting}]
      BY <2>1, ServeTypes
    <2>3. \A v \in Workers : worker'[v].pc = "delete" => worker'[v].old # NoImage
      BY <2>1, DeletionsHaveObjects
    <2>4. QED BY <2>1, <2>2, <2>3 DEF ProfileImageTypeOK
  <1>3. ASSUME NEW w \in Workers, PutObject(w) PROVE ProfileImageTypeOK'
    <2> DEFINE u == worker[w].user
    <2> DEFINE new == <<u, uploads[u] + 1>>
    <2> DEFINE rec == [worker[w] EXCEPT !.pc = AfterPut(worker[w]), !.new = new]
    <2>1. Busy(w) /\ u \in Owners /\ worker[w] \in Working
      BY <1>3, WorkerTypes DEF PutObject, Busy
    <2>2. uploads[u] \in 0..MaxImages /\ uploads[u] < MaxImages
      BY <1>3, <2>1 DEF PutObject, ProfileImageTypeOK
    <2>3. uploads[u] + 1 \in 1..MaxImages /\ new \in Objects
      BY <2>1, <2>2, ObjectTypes, ProfileImageAssumption
    <2>4. /\ rec \in Working
          /\ rec.pc = "delete" => rec.old # NoImage
      BY <2>1, <2>3 DEF Working, AfterPut
    <2>5. Serve(w, rec) /\ bucket' = bucket \cup {new} /\ uploads' = [uploads EXCEPT ![u] = @ + 1]
          /\ UNCHANGED <<standing, image, halfDone, unsettled>>
      BY <1>3 DEF PutObject
    <2>6. worker' \in [Workers -> Working \cup {Resting}]
      BY <2>4, <2>5, ServeTypes
    <2>7. \A v \in Workers : worker'[v].pc = "delete" => worker'[v].old # NoImage
      BY <2>4, <2>5, DeletionsHaveObjects
    <2>8. uploads' \in [Owners -> 0..MaxImages]
      BY <2>1, <2>2, <2>3, <2>5 DEF ProfileImageTypeOK
    <2>9. QED BY <2>3, <2>5, <2>6, <2>7, <2>8 DEF ProfileImageTypeOK
  <1>4. ASSUME NEW w \in Workers, DeleteObject(w) PROVE ProfileImageTypeOK'
    <2> DEFINE rec == [worker[w] EXCEPT !.pc = "save"]
    <2>1. Busy(w) /\ worker[w] \in Working
      BY <1>4, WorkerTypes DEF DeleteObject, Busy
    <2>2. rec \in Working /\ rec.pc = "save"
      BY <2>1 DEF Working
    <2>3. Serve(w, rec)
      BY <1>4 DEF DeleteObject
    <2>4. worker' \in [Workers -> Working \cup {Resting}]
      BY <2>2, <2>3, ServeTypes
    <2>5. \A v \in Workers : worker'[v].pc = "delete" => worker'[v].old # NoImage
      BY <2>2, <2>3, DeletionsHaveObjects
    <2>6. QED BY <1>4, <2>4, <2>5 DEF DeleteObject, ProfileImageTypeOK
  <1>5. ASSUME NEW w \in Workers, SaveRow(w) PROVE ProfileImageTypeOK'
    <2>1. Busy(w) /\ Serve(w, Resting)
      BY <1>5, RestIsServe DEF SaveRow, Busy
    <2>2. worker[w].user \in Owners /\ worker[w].new \in Objects \cup {NoImage}
      BY <2>1, WorkerTypes
    <2>3. /\ worker' \in [Workers -> Working \cup {Resting}]
          /\ \A v \in Workers : worker'[v].pc = "delete" => worker'[v].old # NoImage
      BY <1>0, <2>1, ServeTypes, DeletionsHaveObjects
    <2>4. QED BY <1>5, <2>2, <2>3 DEF SaveRow, ProfileImageTypeOK
  <1>6. ASSUME NEW w \in Workers, Abort(w) PROVE ProfileImageTypeOK'
    <2>1. Busy(w) /\ Serve(w, Resting)
      BY <1>6, AbortCases, RestIsServe
    <2>2. worker[w].user \in Owners /\ worker[w].old \in Objects \cup {NoImage}
      BY <2>1, WorkerTypes
    <2>3. /\ worker' \in [Workers -> Working \cup {Resting}]
          /\ \A v \in Workers : worker'[v].pc = "delete" => worker'[v].old # NoImage
      BY <1>0, <2>1, ServeTypes, DeletionsHaveObjects
    <2>4. /\ unsettled' = unsettled \cup {worker[w].user} /\ UNCHANGED <<standing, image>>
          /\ worker[w].pc = "delete" => worker[w].old # NoImage
      BY <1>6, AbortCases DEF ProfileImageTypeOK
    <2>5. bucket' \subseteq Objects /\ halfDone' \subseteq Objects
          /\ uploads' \in [Owners -> 0..MaxImages]
      <3> DEFINE u == worker[w].user
      <3>1. CASE uploads[u] < MaxImages /\ uploads' = [uploads EXCEPT ![u] = @ + 1]
                 /\ bucket' = bucket \cup {<<u, uploads[u] + 1>>} /\ UNCHANGED halfDone
        <4>1. uploads[u] + 1 \in 1..MaxImages /\ <<u, uploads[u] + 1>> \in Objects
          <5>1. uploads[u] \in 0..MaxImages
            BY <2>2 DEF ProfileImageTypeOK
          <5>2. uploads[u] + 1 \in 1..MaxImages
            BY <3>1, <5>1, ProfileImageAssumption
          <5>3. QED BY <2>2, <5>2, ObjectTypes
        <4>2. QED BY <2>2, <3>1, <4>1 DEF ProfileImageTypeOK
      <3>2. CASE bucket' \subseteq bucket /\ UNCHANGED uploads
                 /\ halfDone' \subseteq halfDone \cup ({worker[w].old} \ {NoImage})
        BY <2>2, <3>2 DEF ProfileImageTypeOK
      <3>3. QED BY <1>6, <2>4, <3>1, <3>2, AbortCases
    <2>6. QED BY <2>2, <2>3, <2>4, <2>5 DEF ProfileImageTypeOK
  <1>7. ASSUME NEW u \in Owners, AccountChanges(u) \/ PurgeAccount(u) PROVE ProfileImageTypeOK'
    BY <1>7 DEF AccountChanges, PurgeAccount, ProfileImageTypeOK
  <1>8. QED BY <1>1, <1>2, <1>3, <1>4, <1>5, <1>6, <1>7 DEF ProfileImageNext

\* Every state of every behaviour has the types ProfileImageTypeOK says.
THEOREM ProfileImageTypesAreInvariant == ProfileImageSpec => []ProfileImageTypeOK
  BY ImageTypesHoldInitially, ImageTypesArePreserved, PTL DEF ProfileImageSpec

-----------------------------------------------------------------------------
LEMMA ImageInvHoldsInitially == ProfileImageInit => ImageInv
  <1> SUFFICES ASSUME ProfileImageInit PROVE ImageInv
    OBVIOUS
  <1>1. \A w \in Workers : worker[w].pc = "rest"
    BY DEF ProfileImageInit, Resting
  <1>2. QED
    BY <1>1, ImageTypesHoldInitially DEF ImageInv, ProfileImageInit, Owned, OwnedBy, NewIsUnknown,
       MissingOnlyHalfDone, Busy, HasNew

\* The rows and the requests as they are after a step know owned objects, if those of the
\* request it serves are, and no number went down.
LEMMA OwnedIsKept ==
    ASSUME ImageInv, NEW w \in Workers,
           \A u \in Owners : uploads'[u] \in Nat /\ uploads[u] <= uploads'[u],
           \A v \in Workers \ {w} : worker'[v] = worker[v],
           \A u \in Owners : OwnedBy(image'[u], u, uploads'[u]),
           worker'[w].pc # "rest" =>
               /\ OwnedBy(worker'[w].old, worker'[w].user, uploads'[worker'[w].user])
               /\ OwnedBy(worker'[w].new, worker'[w].user, uploads'[worker'[w].user])
    PROVE  Owned'
  <1>1. \A v \in Workers : Busy(v) => worker[v].user \in Owners
    BY WorkerTypes DEF ImageInv
  <1>2. \A o, u : u \in Owners /\ OwnedBy(o, u, uploads[u]) => OwnedBy(o, u, uploads'[u])
    BY ObjectTypes DEF OwnedBy, ImageInv, ProfileImageTypeOK
  <1>3. ASSUME NEW v \in Workers, Busy(v)'
        PROVE  LET u == worker'[v].user
               IN OwnedBy(worker'[v].old, u, uploads'[u]) /\ OwnedBy(worker'[v].new, u, uploads'[u])
    <2>1. CASE v = w
      BY <1>3, <2>1 DEF Busy
    <2>2. CASE v # w
      BY <1>1, <1>2, <1>3, <2>2 DEF ImageInv, Owned, Busy
    <2>3. QED BY <2>1, <2>2
  <1>4. QED BY <1>3 DEF Owned

\* The next object of a user is not one that is known.
LEMMA NextIsUnknown ==
    ASSUME NEW u \in Owners, NEW n \in Nat
    PROVE  \A v, o, m : OwnedBy(o, v, m) /\ (v = u => m = n) => o # <<u, n + 1>> \/ o = NoImage
  BY ObjectTypes DEF OwnedBy

LEMMA InvIsPreservedByPut ==
    ASSUME ImageInv, ProfileImageTypeOK', NEW w \in Workers, PutObject(w)
    PROVE  ImageInv'
  <1> DEFINE u == worker[w].user
  <1> DEFINE new == <<u, uploads[u] + 1>>
  <1>1. /\ Busy(w) /\ u \in Owners /\ worker[w] \in Working /\ uploads[u] \in Nat
        /\ uploads[u] < MaxImages /\ new \in Objects /\ new # NoImage
    <2>1. Busy(w) /\ u \in Owners /\ worker[w] \in Working
      BY WorkerTypes DEF PutObject, Busy, ImageInv
    <2>2. uploads[u] \in 0..MaxImages /\ uploads[u] < MaxImages
      BY <2>1 DEF PutObject, ImageInv, ProfileImageTypeOK
    <2>3. uploads[u] + 1 \in 1..MaxImages
      BY <2>2, ProfileImageAssumption
    <2>4. QED BY <2>1, <2>2, <2>3, ObjectTypes
  <1>2. /\ worker'[w].pc \in {"delete", "save"} /\ worker'[w].user = u
        /\ worker'[w].old = worker[w].old /\ worker'[w].new = new
        /\ worker'[w].pc = "save" => worker[w].old = NoImage
        /\ \A v \in Workers \ {w} : worker'[v] = worker[v]
    BY <1>1 DEF PutObject, Serve, AfterPut, ImageInv, ProfileImageTypeOK, Working
  <1>3. /\ bucket' = bucket \cup {new} /\ UNCHANGED <<image, halfDone>>
        /\ uploads' = [uploads EXCEPT ![u] = @ + 1] /\ worker[w].pc = "put"
    BY DEF PutObject
  <1>4. \A v \in Owners : uploads'[v] \in Nat /\ uploads[v] \in Nat /\ uploads[v] <= uploads'[v]
                          /\ (v = u => uploads'[v] = uploads[v] + 1)
    <2> SUFFICES ASSUME NEW v \in Owners
                 PROVE  uploads'[v] \in Nat /\ uploads[v] \in Nat /\ uploads[v] <= uploads'[v]
                        /\ (v = u => uploads'[v] = uploads[v] + 1)
      OBVIOUS
    <2>1. uploads[v] \in 0..MaxImages
      BY DEF ImageInv, ProfileImageTypeOK
    <2>2. uploads'[v] = IF v = u THEN uploads[v] + 1 ELSE uploads[v]
      BY <1>1, <1>3 DEF ImageInv, ProfileImageTypeOK
    <2>3. QED BY <2>1, <2>2, ProfileImageAssumption
  <1>5. OwnedBy(new, u, uploads'[u])
    BY <1>1, <1>4 DEF OwnedBy
  <1>6. \A o : \A v \in Owners : OwnedBy(o, v, uploads[v]) => OwnedBy(o, v, uploads'[v])
    BY <1>4, ObjectTypes DEF OwnedBy
  <1>7. Owned'
    <2>1. \A v \in Owners : OwnedBy(image'[v], v, uploads'[v])
      BY <1>3, <1>6 DEF ImageInv, Owned
    <2>2. OwnedBy(worker'[w].old, u, uploads'[u]) /\ OwnedBy(worker'[w].new, u, uploads'[u])
      BY <1>1, <1>2, <1>5, <1>6 DEF ImageInv, Owned
    <2>3. QED BY <1>2, <1>4, <2>1, <2>2, OwnedIsKept
  <1>8. NewIsUnknown'
    <2>1. /\ \A v \in Owners : image[v] # new
          /\ \A v \in Workers : Busy(v) => worker[v].old # new /\ worker[v].new # new
      <3>1. \A v, o : OwnedBy(o, v, uploads[v]) => o # new \/ o = NoImage
        BY <1>1, NextIsUnknown
      <3>2. \A v, o : OwnedBy(o, v, uploads[v]) => o # new
        BY <1>1, <3>1
      <3>3. ASSUME NEW v \in Owners PROVE image[v] # new
        <4>1. OwnedBy(image[v], v, uploads[v])
          BY DEF ImageInv, Owned
        <4>2. QED BY <3>2, <4>1
      <3>4. ASSUME NEW v \in Workers, Busy(v) PROVE worker[v].old # new /\ worker[v].new # new
        <4>1. /\ OwnedBy(worker[v].old, worker[v].user, uploads[worker[v].user])
              /\ OwnedBy(worker[v].new, worker[v].user, uploads[worker[v].user])
          BY <3>4 DEF ImageInv, Owned
        <4>2. QED BY <3>2, <4>1
      <3>5. QED BY <3>3, <3>4
    <2>2. \A v \in Workers \ {w} : (Busy(v)' <=> Busy(v)) /\ (HasNew(v)' <=> HasNew(v))
      BY <1>2 DEF Busy, HasNew
    <2>3. \A v \in Workers \ {w} : HasNew(v) => Busy(v)
      BY DEF Busy, HasNew
    <2>4. ASSUME NEW v \in Workers, HasNew(v)'
          PROVE  /\ worker'[v].new \in bucket'
                 /\ \A x \in Owners : image'[x] # worker'[v].new
                 /\ \A y \in Workers : Busy(y)' => /\ worker'[y].old # worker'[v].new
                                                   /\ y # v => worker'[y].new # worker'[v].new
      <3>1. CASE v = w
        BY <1>1, <1>2, <1>3, <2>1, <2>2, <3>1
      <3>2. CASE v # w
        BY <1>1, <1>2, <1>3, <2>1, <2>2, <2>3, <2>4, <3>2 DEF ImageInv, NewIsUnknown
      <3>3. QED BY <3>1, <3>2
    <2>5. QED BY <2>4 DEF NewIsUnknown
  <1>9. MissingOnlyHalfDone'
    <2>1. ASSUME NEW x \in Owners, image'[x] # NoImage, image'[x] \notin bucket'
          PROVE  \/ image'[x] \in halfDone'
                 \/ \E v \in Workers : worker'[v].pc = "save" /\ worker'[v].old = image'[x]
      BY <1>2, <1>3, <2>1 DEF ImageInv, MissingOnlyHalfDone
    <2>2. QED BY <2>1 DEF MissingOnlyHalfDone
  <1>10. QED BY <1>7, <1>8, <1>9 DEF ImageInv

\* What is new stays unknown, if the step takes nothing new from the bucket and writes
\* at most the new object of the request that ends into a row.
LEMMA NewStaysUnknown ==
    ASSUME ImageInv, NEW w \in Workers,
           \A v \in Workers \ {w} : worker'[v] = worker[v],
           HasNew(w)' => HasNew(w) /\ worker'[w].new = worker[w].new,
           Busy(w)' => \/ /\ Busy(w) /\ worker'[w].old = worker[w].old
                          /\ worker'[w].new = worker[w].new
                       \/ worker'[w].new = NoImage /\ \E u \in Owners : worker'[w].old = image[u],
           \A u \in Owners : \/ image'[u] \in {image[u], NoImage}
                             \/ Busy(w) /\ ~Busy(w)' /\ image'[u] = worker[w].new,
           \A v \in Workers : HasNew(v)' => worker[v].new \in bucket'
    PROVE  NewIsUnknown'
  <1>1. SUFFICES ASSUME NEW v \in Workers, HasNew(v)'
        PROVE  /\ worker'[v].new \in bucket'
               /\ \A x \in Owners : image'[x] # worker'[v].new
               /\ \A y \in Workers : Busy(y)' => /\ worker'[y].old # worker'[v].new
                                                 /\ y # v => worker'[y].new # worker'[v].new
    BY DEF NewIsUnknown
  <1>2. HasNew(v) /\ worker'[v].new = worker[v].new /\ worker[v].new # NoImage
    BY <1>1 DEF HasNew
  <1>3. /\ \A x \in Owners : image[x] # worker[v].new
        /\ \A y \in Workers : Busy(y) => /\ worker[y].old # worker[v].new
                                         /\ y # v => worker[y].new # worker[v].new
    BY <1>2 DEF ImageInv, NewIsUnknown
  <1>4. worker'[v].new \in bucket'
    BY <1>1, <1>2
  <1>5. ASSUME NEW x \in Owners PROVE image'[x] # worker'[v].new
    <2>1. CASE image'[x] \in {image[x], NoImage}
      BY <1>2, <1>3, <2>1
    <2>2. CASE Busy(w) /\ ~Busy(w)' /\ image'[x] = worker[w].new
      <3>1. v # w
        BY <1>1, <2>2 DEF HasNew, Busy
      <3>2. QED BY <1>2, <1>3, <2>2, <3>1
    <2>3. QED BY <2>1, <2>2
  <1>6. ASSUME NEW y \in Workers, Busy(y)'
        PROVE  worker'[y].old # worker'[v].new /\ (y # v => worker'[y].new # worker'[v].new)
    <2>1. CASE y # w
      BY <1>2, <1>3, <1>6, <2>1 DEF Busy
    <2>2. CASE y = w
      <3>1. CASE Busy(w) /\ worker'[w].old = worker[w].old /\ worker'[w].new = worker[w].new
        BY <1>2, <1>3, <2>2, <3>1
      <3>2. CASE worker'[w].new = NoImage /\ \E u \in Owners : worker'[w].old = image[u]
        BY <1>2, <1>3, <2>2, <3>2
      <3>3. QED BY <1>6, <2>2, <3>1, <3>2
    <2>3. QED BY <2>1, <2>2
  <1>7. QED BY <1>4, <1>5, <1>6

\* A request is served that knows the image of its row and nothing new.
LEMMA InvIsPreservedByAuthentication ==
    ASSUME ImageInv, ProfileImageTypeOK', NEW w \in Workers, NEW u \in Owners,
           Upload(w, u) \/ DeleteImage(w, u)
    PROVE  ImageInv'
  <1>1. PICK pc \in {"put", "delete", "save"} :
           /\ worker[w].pc = "rest"
           /\ Serve(w, [pc |-> pc, user |-> u, old |-> image[u], new |-> NoImage])
           /\ [pc |-> pc, user |-> u, old |-> image[u], new |-> NoImage] \in Working
           /\ UNCHANGED <<standing, image, bucket, uploads, halfDone>>
    BY AuthenticatedTypes DEF ImageInv
  <1>2. /\ worker'[w].pc = pc /\ worker'[w].user = u
        /\ worker'[w].old = image[u] /\ worker'[w].new = NoImage
        /\ \A v \in Workers \ {w} : worker'[v] = worker[v]
    BY <1>1, ServeTypes DEF ImageInv
  <1>3. \A v \in Owners : uploads'[v] \in Nat /\ uploads[v] <= uploads'[v]
    BY <1>1 DEF ImageInv, ProfileImageTypeOK
  <1>4. /\ \A v \in Owners : OwnedBy(image'[v], v, uploads'[v])
        /\ OwnedBy(NoImage, u, uploads'[u])
    BY <1>1 DEF ImageInv, Owned, OwnedBy
  <1>5. Owned'
    BY <1>1, <1>2, <1>3, <1>4, OwnedIsKept
  <1>6. ~HasNew(w)' /\ \A v \in Workers : HasNew(v)' => worker[v].new \in bucket'
    BY <1>1, <1>2 DEF HasNew, ImageInv, NewIsUnknown
  <1>7. NewIsUnknown'
    BY <1>1, <1>2, <1>6, NewStaysUnknown
  <1>8. MissingOnlyHalfDone'
    BY <1>1, <1>2 DEF ImageInv, MissingOnlyHalfDone
  <1>9. QED BY <1>5, <1>7, <1>8 DEF ImageInv

\* The old object is one that no request holds as its new one.
LEMMA InvIsPreservedByDeletion ==
    ASSUME ImageInv, ProfileImageTypeOK', NEW w \in Workers, DeleteObject(w)
    PROVE  ImageInv'
  <1>1. /\ Busy(w) /\ worker[w] \in Working /\ worker[w].pc = "delete"
        /\ worker[w].user \in Owners
    BY WorkerTypes DEF DeleteObject, Busy, ImageInv
  <1>2. /\ worker'[w].pc = "save" /\ worker'[w].user = worker[w].user
        /\ worker'[w].old = worker[w].old /\ worker'[w].new = worker[w].new
        /\ \A v \in Workers \ {w} : worker'[v] = worker[v]
    BY <1>1 DEF DeleteObject, Serve, ImageInv, ProfileImageTypeOK, Working
  <1>3. bucket' = bucket \ {worker[w].old} /\ UNCHANGED <<image, uploads, halfDone>>
    BY DEF DeleteObject
  <1>4. \A v \in Owners : uploads'[v] \in Nat /\ uploads[v] <= uploads'[v]
    BY <1>3 DEF ImageInv, ProfileImageTypeOK
  <1>5. Owned'
    BY <1>1, <1>2, <1>3, <1>4, OwnedIsKept DEF ImageInv, Owned
  <1>6. \A v \in Workers : HasNew(v)' => HasNew(v)
    BY <1>1, <1>2 DEF HasNew
  <1>7. \A v \in Workers : HasNew(v)' => worker[v].new \in bucket'
    BY <1>1, <1>3, <1>6 DEF ImageInv, NewIsUnknown
  <1>8. NewIsUnknown'
    BY <1>1, <1>2, <1>3, <1>6, <1>7, NewStaysUnknown
  <1>9. MissingOnlyHalfDone'
    <2>1. ASSUME NEW x \in Owners, image[x] # NoImage, image[x] \notin bucket'
          PROVE  \/ image[x] \in halfDone
                 \/ \E v \in Workers : worker'[v].pc = "save" /\ worker'[v].old = image[x]
      <3>1. CASE image[x] = worker[w].old
        BY <1>2, <3>1
      <3>2. CASE image[x] \notin bucket
        BY <1>1, <1>2, <2>1, <3>2 DEF ImageInv, MissingOnlyHalfDone
      <3>3. QED BY <1>3, <2>1, <3>1, <3>2
    <2>2. QED BY <1>3, <2>1 DEF MissingOnlyHalfDone
  <1>10. QED BY <1>5, <1>8, <1>9 DEF ImageInv

\* The row now names the new object, which is in the bucket; a row of another user is
\* not accounted for by this request, since objects are owned.
LEMMA InvIsPreservedBySave ==
    ASSUME ImageInv, ProfileImageTypeOK', NEW w \in Workers, SaveRow(w)
    PROVE  ImageInv'
  <1> DEFINE u == worker[w].user
  <1>1. Busy(w) /\ u \in Owners /\ worker[w].pc = "save"
    BY WorkerTypes DEF SaveRow, Busy, ImageInv
  <1>2. worker'[w].pc = "rest" /\ \A v \in Workers \ {w} : worker'[v] = worker[v]
    <2>1. Serve(w, Resting) /\ Resting \in Working \cup {Resting}
      BY RestIsServe DEF SaveRow
    <2>2. QED BY <2>1, ServeTypes DEF ImageInv, Resting
  <1>3. /\ UNCHANGED <<bucket, uploads, halfDone>>
        /\ \A x \in Owners : image'[x] = IF x = u THEN worker[w].new ELSE image[x]
    BY DEF SaveRow, ImageInv, ProfileImageTypeOK
  <1>4. \A v \in Owners : uploads'[v] \in Nat /\ uploads[v] <= uploads'[v]
    BY <1>3 DEF ImageInv, ProfileImageTypeOK
  <1>5. \A v \in Owners : OwnedBy(image'[v], v, uploads'[v])
    BY <1>1, <1>3 DEF ImageInv, Owned
  <1>6. Owned'
    BY <1>2, <1>4, <1>5, OwnedIsKept
  <1>7. /\ ~Busy(w)' /\ ~HasNew(w)'
        /\ \A v \in Workers : HasNew(v)' => HasNew(v)
    BY <1>2 DEF HasNew, Busy
  <1>8. NewIsUnknown'
    <2>1. \A v \in Workers : HasNew(v)' => worker[v].new \in bucket'
      BY <1>3, <1>7 DEF ImageInv, NewIsUnknown
    <2>2. QED BY <1>1, <1>2, <1>3, <1>7, <2>1, NewStaysUnknown
  <1>9. MissingOnlyHalfDone'
    <2>1. ASSUME NEW x \in Owners, image'[x] # NoImage, image'[x] \notin bucket'
          PROVE  \/ image'[x] \in halfDone'
                 \/ \E v \in Workers : worker'[v].pc = "save" /\ worker'[v].old = image'[x]
      <3>1. x # u
        <4>1. SUFFICES ASSUME x = u PROVE FALSE
          OBVIOUS
        <4>2. HasNew(w)
          BY <1>1, <1>3, <2>1, <4>1 DEF HasNew
        <4>3. QED BY <1>3, <2>1, <4>1, <4>2 DEF ImageInv, NewIsUnknown
      <3>2. image'[x] = image[x] /\ image[x] \notin bucket
        BY <1>3, <2>1, <3>1
      <3>3. worker[w].old # image[x]
        <4>1. OwnedBy(worker[w].old, u, uploads[u]) /\ OwnedBy(image[x], x, uploads[x])
          BY <1>1 DEF ImageInv, Owned
        <4>2. QED BY <2>1, <3>1, <3>2, <4>1 DEF OwnedBy
      <3>4. \/ image[x] \in halfDone
            \/ \E v \in Workers : worker[v].pc = "save" /\ worker[v].old = image[x]
        BY <2>1, <3>2 DEF ImageInv, MissingOnlyHalfDone
      <3>5. QED BY <1>2, <1>3, <3>2, <3>3, <3>4
    <2>2. QED BY <2>1 DEF MissingOnlyHalfDone
  <1>10. QED BY <1>6, <1>8, <1>9 DEF ImageInv

\* A request that fails leaves at most an object nobody names, or a deletion on record.
LEMMA InvIsPreservedByAbort ==
    ASSUME ImageInv, ProfileImageTypeOK', NEW w \in Workers, Abort(w)
    PROVE  ImageInv'
  <1>1. Busy(w) /\ Rest(w) /\ UNCHANGED image /\ worker[w].user \in Owners
    BY AbortCases, WorkerTypes DEF ImageInv
  <1>2. worker'[w].pc = "rest" /\ \A v \in Workers \ {w} : worker'[v] = worker[v]
    <2>1. Serve(w, Resting) /\ Resting \in Working \cup {Resting}
      BY <1>1, RestIsServe
    <2>2. QED BY <2>1, ServeTypes DEF ImageInv, Resting
  <1>3. /\ \A x \in bucket : x \in bucket' \/ (worker[w].pc = "delete" /\ x = worker[w].old)
        /\ \A x \in bucket : x \in bucket' \/ x \in halfDone'
        /\ halfDone \subseteq halfDone'
        /\ worker[w].pc = "save" /\ worker[w].old # NoImage => worker[w].old \in halfDone'
    BY AbortCases DEF ImageInv
  <1>4. \A v \in Owners : uploads'[v] \in Nat /\ uploads[v] <= uploads'[v]
    <2>1. \A v \in Owners : uploads[v] \in Nat
      BY DEF ImageInv, ProfileImageTypeOK
    <2>2. CASE UNCHANGED uploads
      BY <2>1, <2>2
    <2>3. CASE uploads' = [uploads EXCEPT ![worker[w].user] = @ + 1]
      BY <1>1, <2>1, <2>3 DEF ImageInv, ProfileImageTypeOK
    <2>4. QED BY <2>2, <2>3, AbortCases DEF ImageInv
  <1>5. \A v \in Owners : OwnedBy(image'[v], v, uploads'[v])
    BY <1>1, <1>4 DEF ImageInv, Owned, OwnedBy, ProfileImageTypeOK, Objects
  <1>6. Owned'
    BY <1>2, <1>4, <1>5, OwnedIsKept
  <1>7. /\ ~Busy(w)' /\ ~HasNew(w)'
        /\ \A v \in Workers : HasNew(v)' => HasNew(v) /\ v # w
    BY <1>2 DEF HasNew, Busy
  <1>8. NewIsUnknown'
    <2>1. \A v \in Workers : HasNew(v)' => worker[v].new \in bucket'
      BY <1>1, <1>3, <1>7 DEF ImageInv, NewIsUnknown
    <2>2. QED BY <1>1, <1>2, <1>7, <2>1, NewStaysUnknown
  <1>9. MissingOnlyHalfDone'
    <2>1. ASSUME NEW x \in Owners, image[x] # NoImage, image[x] \notin bucket'
          PROVE  \/ image[x] \in halfDone'
                 \/ \E v \in Workers : worker'[v].pc = "save" /\ worker'[v].old = image[x]
      <3>1. CASE image[x] \in bucket
        BY <1>3, <2>1, <3>1
      <3>2. CASE image[x] \notin bucket
        <4>1. \/ image[x] \in halfDone
              \/ \E v \in Workers : worker[v].pc = "save" /\ worker[v].old = image[x]
          BY <2>1, <3>2 DEF ImageInv, MissingOnlyHalfDone
        <4>2. QED BY <1>2, <1>3, <2>1, <4>1
      <3>3. QED BY <3>1, <3>2
    <2>2. QED BY <1>1, <2>1 DEF MissingOnlyHalfDone
  <1>10. QED BY <1>6, <1>8, <1>9 DEF ImageInv

\* A deleted, restored or purged account: at most a row forgets its image.
LEMMA InvIsPreservedByAccounts ==
    ASSUME ImageInv, ProfileImageTypeOK', NEW u \in Owners,
           AccountChanges(u) \/ PurgeAccount(u)
    PROVE  ImageInv'
  <1>1. /\ UNCHANGED <<bucket, uploads, worker, halfDone>>
        /\ \A x \in Owners : image'[x] \in {image[x], NoImage}
    BY DEF AccountChanges, PurgeAccount, ImageInv, ProfileImageTypeOK
  <1>2. Owned'
    BY <1>1 DEF ImageInv, Owned, OwnedBy, Busy
  <1>3. NewIsUnknown'
    BY <1>1 DEF ImageInv, NewIsUnknown, HasNew, Busy
  <1>4. MissingOnlyHalfDone'
    BY <1>1 DEF ImageInv, MissingOnlyHalfDone
  <1>5. QED BY <1>2, <1>3, <1>4 DEF ImageInv

\* Every step preserves the invariant.
LEMMA ImageInvIsPreserved ==
    ASSUME ImageInv, [ProfileImageNext]_imageVars
    PROVE  ImageInv'
  <1>1. ProfileImageTypeOK'
    BY ImageTypesArePreserved DEF ImageInv
  <1>2. CASE UNCHANGED imageVars
    BY <1>1, <1>2 DEF imageVars, ImageInv, Owned, NewIsUnknown, MissingOnlyHalfDone, HasNew, Busy
  <1>3. ASSUME NEW w \in Workers, NEW u \in Owners, Upload(w, u) \/ DeleteImage(w, u) PROVE ImageInv'
    BY <1>1, <1>3, InvIsPreservedByAuthentication
  <1>4. ASSUME NEW w \in Workers, PutObject(w) PROVE ImageInv'
    BY <1>1, <1>4, InvIsPreservedByPut
  <1>5. ASSUME NEW w \in Workers, DeleteObject(w) PROVE ImageInv'
    BY <1>1, <1>5, InvIsPreservedByDeletion
  <1>6. ASSUME NEW w \in Workers, SaveRow(w) PROVE ImageInv'
    BY <1>1, <1>6, InvIsPreservedBySave
  <1>7. ASSUME NEW w \in Workers, Abort(w) PROVE ImageInv'
    BY <1>1, <1>7, InvIsPreservedByAbort
  <1>8. ASSUME NEW u \in Owners, AccountChanges(u) \/ PurgeAccount(u) PROVE ImageInv'
    BY <1>1, <1>8, InvIsPreservedByAccounts
  <1>9. QED BY <1>2, <1>3, <1>4, <1>5, <1>6, <1>7, <1>8 DEF ProfileImageNext

\* Two requests that replace one image never leave the row of a user with an object the
\* other one deleted: a row that names a missing object waits for the save of the
\* request that deleted it, or that request failed before its save.
THEOREM MissingIsHalfDone == ProfileImageSpec => []MissingOnlyHalfDone
  <1>1. ImageInv => MissingOnlyHalfDone
    BY DEF ImageInv
  <1>2. QED BY <1>1, ImageInvHoldsInitially, ImageInvIsPreserved, PTL DEF ProfileImageSpec

-----------------------------------------------------------------------------
(* Requests that come one at a time and succeed *)

Stored(u) == {o \in bucket : o[1] = u}

\* what a request has left in the bucket so far
Left(rec) == (IF rec.pc = "save" THEN {rec.new} ELSE {rec.old, rec.new}) \ {NoImage}

SerialOf(u) ==
    u \notin unsettled =>
        /\ \A v, w \in BusyFor(u) : v = w
        /\ standing[u] # "purged" =>
             /\ BusyFor(u) = {} => Stored(u) = {image[u]} \ {NoImage}
             /\ \A w \in BusyFor(u) :
                  /\ worker[w].old = image[u] /\ Stored(u) = Left(worker[w])
                  /\ worker[w].pc = "put" => worker[w].new = NoImage

SerialInv == ImageInv /\ \A u \in Owners : SerialOf(u)

LEMMA SerialHoldsInitially == ProfileImageInit => SerialInv
  <1> SUFFICES ASSUME ProfileImageInit PROVE SerialInv
    OBVIOUS
  <1>1. \A u \in Owners : BusyFor(u) = {} /\ Stored(u) = {image[u]} \ {NoImage}
    BY DEF ProfileImageInit, BusyFor, Resting, Stored
  <1>2. QED BY <1>1, ImageInvHoldsInitially DEF SerialInv, SerialOf

\* A step that serves one user leaves what is said of the others.
LEMMA SerialOfOthers ==
    ASSUME SerialInv, NEW u \in Owners, NEW w \in Workers,
           Busy(w) => worker[w].user = u, Busy(w)' => worker'[w].user = u,
           \A v \in Workers \ {w} : worker'[v] = worker[v],
           \A o \in (bucket \ bucket') \cup (bucket' \ bucket) : o[1] = u,
           UNCHANGED standing, \A x \in Owners \ {u} : image'[x] = image[x],
           unsettled \subseteq unsettled',
           NEW x \in Owners, x # u
    PROVE  SerialOf(x)'
  <1>1. Stored(x)' = Stored(x)
    BY DEF Stored
  <1>2. BusyFor(x)' = BusyFor(x) /\ w \notin BusyFor(x)
    BY DEF BusyFor, Busy
  <1>3. \A v \in BusyFor(x) : worker'[v] = worker[v]
    BY <1>2 DEF BusyFor
  <1>4. \A v \in BusyFor(x) : Left(worker[v])' = Left(worker[v])
    BY <1>3 DEF Left
  <1>5. QED BY <1>1, <1>2, <1>3, <1>4 DEF SerialInv, SerialOf

\* The first request of a user finds the bucket as its row says.
LEMMA SerialIsPreservedByAuthentication ==
    ASSUME SerialInv, ImageInv', NEW w \in Workers, NEW u \in Owners,
           Upload(w, u) \/ DeleteImage(w, u)
    PROVE  SerialInv'
  <1>1. PICK pc \in {"put", "delete", "save"} :
           /\ worker[w].pc = "rest"
           /\ pc = "delete" => image[u] # NoImage
           /\ pc = "save" => image[u] = NoImage
           /\ standing[u] = "active"
           /\ Serve(w, [pc |-> pc, user |-> u, old |-> image[u], new |-> NoImage])
           /\ [pc |-> pc, user |-> u, old |-> image[u], new |-> NoImage] \in Working
           /\ unsettled' = IF BusyFor(u) = {} THEN unsettled ELSE unsettled \cup {u}
           /\ UNCHANGED <<standing, image, bucket, uploads, halfDone>>
    BY AuthenticatedTypes DEF SerialInv, ImageInv
  <1>2. /\ worker'[w].pc = pc /\ worker'[w].user = u
        /\ worker'[w].old = image[u] /\ worker'[w].new = NoImage
        /\ \A v \in Workers \ {w} : worker'[v] = worker[v]
    BY <1>1, ServeTypes DEF SerialInv, ImageInv
  <1>3. \A x \in Owners : x # u => SerialOf(x)'
    BY <1>1, <1>2, SerialOfOthers DEF Busy
  <1>4. SerialOf(u)'
    <2>1. SUFFICES ASSUME u \notin unsettled' PROVE SerialOf(u)'
      BY DEF SerialOf
    <2>2. BusyFor(u) = {} /\ u \notin unsettled
      BY <1>1, <2>1
    <2>3. Stored(u) = {image[u]} \ {NoImage}
      BY <1>1, <2>2 DEF SerialInv, SerialOf
    <2>4. BusyFor(u)' = {w}
      BY <1>1, <1>2, <2>2 DEF BusyFor
    <2>5. Stored(u)' = Left(worker[w])'
      BY <1>1, <1>2, <2>3 DEF Left, Stored
    <2>6. QED BY <1>1, <1>2, <2>4, <2>5 DEF SerialOf
  <1>5. QED BY <1>3, <1>4 DEF SerialInv

LEMMA SerialIsPreservedByPut ==
    ASSUME SerialInv, ImageInv', NEW w \in Workers, PutObject(w)
    PROVE  SerialInv'
  <1> PICK u \in Owners : u = worker[w].user
    BY WorkerTypes DEF PutObject, Busy, ImageInv, SerialInv
  <1> DEFINE new == <<u, uploads[u] + 1>>
  <1>1. Busy(w) /\ u \in Owners /\ worker[w] \in Working /\ worker[w].pc = "put"
    BY WorkerTypes DEF PutObject, Busy, ImageInv, SerialInv
  <1>2. /\ worker'[w].pc = (IF worker[w].old = NoImage THEN "save" ELSE "delete")
        /\ worker'[w].user = u /\ worker'[w].old = worker[w].old /\ worker'[w].new = new
        /\ \A v \in Workers \ {w} : worker'[v] = worker[v]
    BY <1>1 DEF PutObject, Serve, AfterPut, SerialInv, ImageInv, ProfileImageTypeOK, Working
  <1>3. bucket' = bucket \cup {new} /\ UNCHANGED <<standing, image, unsettled>>
    BY DEF PutObject
  <1>4. new # NoImage /\ new[1] = u
    BY <1>1, <1>3, ObjectTypes DEF ImageInv, ProfileImageTypeOK
  <1>5. \A x \in Owners : x # u => SerialOf(x)'
    BY <1>1, <1>2, <1>3, <1>4, SerialOfOthers
  <1>6. BusyFor(u)' = BusyFor(u) /\ w \in BusyFor(u)
    BY <1>1, <1>2 DEF BusyFor, Busy
  <1>7. SerialOf(u)'
    <2>1. SUFFICES ASSUME u \notin unsettled PROVE SerialOf(u)'
      BY <1>3 DEF SerialOf
    <2>2. BusyFor(u) = {w}
      BY <1>1, <1>6, <2>1 DEF SerialInv, SerialOf
    <2>3. CASE standing[u] = "purged"
      BY <1>3, <1>6, <2>2, <2>3 DEF SerialOf
    <2>4. CASE standing[u] # "purged"
      <3>1. worker[w].old = image[u] /\ Stored(u) = Left(worker[w]) /\ worker[w].new = NoImage
        BY <1>1, <2>1, <2>2, <2>4 DEF SerialInv, SerialOf
      <3>2. Stored(u)' = Stored(u) \cup {new}
        BY <1>3, <1>4 DEF Stored
      <3>3. Stored(u) = {worker[w].old} \ {NoImage}
        BY <1>1, <3>1 DEF Left
      <3>4. Left(worker[w])' = {worker[w].old, new} \ {NoImage}
        BY <1>2, <1>4 DEF Left
      <3>5. QED BY <1>2, <1>3, <1>4, <1>6, <2>2, <3>1, <3>2, <3>3, <3>4 DEF SerialOf
    <2>5. QED BY <2>3, <2>4
  <1>8. QED BY <1>5, <1>7 DEF SerialInv

LEMMA SerialIsPreservedByDeletion ==
    ASSUME SerialInv, ImageInv', NEW w \in Workers, DeleteObject(w)
    PROVE  SerialInv'
  <1> PICK u \in Owners : u = worker[w].user
    BY WorkerTypes DEF DeleteObject, Busy, ImageInv, SerialInv
  <1>1. Busy(w) /\ u \in Owners /\ worker[w] \in Working /\ worker[w].pc = "delete"
    BY WorkerTypes DEF DeleteObject, Busy, ImageInv, SerialInv
  <1>2. /\ worker'[w].pc = "save" /\ worker'[w].user = u
        /\ worker'[w].old = worker[w].old /\ worker'[w].new = worker[w].new
        /\ \A v \in Workers \ {w} : worker'[v] = worker[v]
    BY <1>1 DEF DeleteObject, Serve, SerialInv, ImageInv, ProfileImageTypeOK, Working
  <1>3. bucket' = bucket \ {worker[w].old} /\ UNCHANGED <<standing, image, unsettled>>
    BY DEF DeleteObject
  <1>4. /\ worker[w].old # NoImage /\ worker[w].old # worker[w].new
        /\ OwnedBy(worker[w].old, u, uploads[u])
    <2>1. worker[w].old # NoImage /\ OwnedBy(worker[w].old, u, uploads[u])
      BY <1>1 DEF SerialInv, ImageInv, ProfileImageTypeOK, Owned
    <2>2. CASE worker[w].new # NoImage
      BY <1>1, <2>1, <2>2 DEF SerialInv, ImageInv, NewIsUnknown, HasNew
    <2>3. QED BY <2>1, <2>2
  <1>5. worker[w].old[1] = u
    BY <1>4 DEF OwnedBy
  <1>6. \A x \in Owners : x # u => SerialOf(x)'
    BY <1>1, <1>2, <1>3, <1>5, SerialOfOthers
  <1>7. BusyFor(u)' = BusyFor(u) /\ w \in BusyFor(u)
    BY <1>1, <1>2 DEF BusyFor, Busy
  <1>8. SerialOf(u)'
    <2>1. SUFFICES ASSUME u \notin unsettled PROVE SerialOf(u)'
      BY <1>3 DEF SerialOf
    <2>2. BusyFor(u) = {w}
      BY <1>1, <1>7, <2>1 DEF SerialInv, SerialOf
    <2>3. CASE standing[u] = "purged"
      BY <1>3, <1>7, <2>2, <2>3 DEF SerialOf
    <2>4. CASE standing[u] # "purged"
      <3>1. worker[w].old = image[u] /\ Stored(u) = Left(worker[w])
        BY <1>1, <2>1, <2>2, <2>4 DEF SerialInv, SerialOf
      <3>2. Stored(u)' = Stored(u) \ {worker[w].old}
        BY <1>3 DEF Stored
      <3>3. Left(worker[w]) = {worker[w].old, worker[w].new} \ {NoImage}
        BY <1>1 DEF Left
      <3>4. Left(worker[w])' = {worker[w].new} \ {NoImage}
        BY <1>2 DEF Left
      <3>5. Stored(u)' = Left(worker[w])'
        BY <1>4, <3>1, <3>2, <3>3, <3>4
      <3>6. QED BY <1>2, <1>3, <1>7, <2>2, <3>1, <3>5 DEF SerialOf
    <2>5. QED BY <2>3, <2>4
  <1>9. QED BY <1>6, <1>8 DEF SerialInv

\* The request that saves the row leaves it with the one object the bucket has.
LEMMA SerialIsPreservedBySave ==
    ASSUME SerialInv, ImageInv', NEW w \in Workers, SaveRow(w)
    PROVE  SerialInv'
  <1> PICK u \in Owners : u = worker[w].user
    BY WorkerTypes DEF SaveRow, Busy, ImageInv, SerialInv
  <1>1. Busy(w) /\ u \in Owners /\ worker[w].pc = "save" /\ standing[u] # "purged"
    BY WorkerTypes DEF SaveRow, Busy, ImageInv, SerialInv
  <1>2. worker'[w].pc = "rest" /\ \A v \in Workers \ {w} : worker'[v] = worker[v]
    <2>1. Serve(w, Resting) /\ Resting \in Working \cup {Resting}
      BY RestIsServe DEF SaveRow
    <2>2. QED BY <2>1, ServeTypes DEF SerialInv, ImageInv, Resting
  <1>3. /\ UNCHANGED <<standing, bucket, unsettled>>
        /\ \A x \in Owners : image'[x] = IF x = u THEN worker[w].new ELSE image[x]
    BY DEF SaveRow, SerialInv, ImageInv, ProfileImageTypeOK
  <1>4. ~Busy(w)'
    BY <1>2 DEF Busy
  <1>5. \A x \in Owners : x # u => SerialOf(x)'
    BY <1>1, <1>2, <1>3, <1>4, SerialOfOthers
  <1>6. BusyFor(u)' = BusyFor(u) \ {w} /\ w \in BusyFor(u)
    BY <1>1, <1>2 DEF BusyFor, Busy
  <1>7. SerialOf(u)'
    <2>1. SUFFICES ASSUME u \notin unsettled PROVE SerialOf(u)'
      BY <1>3 DEF SerialOf
    <2>2. BusyFor(u) = {w}
      BY <1>1, <1>6, <2>1 DEF SerialInv, SerialOf
    <2>3. Stored(u) = {worker[w].new} \ {NoImage}
      BY <1>1, <2>1, <2>2 DEF SerialInv, SerialOf, Left
    <2>4. Stored(u)' = Stored(u) /\ image'[u] = worker[w].new
      BY <1>1, <1>3 DEF Stored
    <2>5. QED BY <1>6, <2>2, <2>3, <2>4 DEF SerialOf
  <1>8. QED BY <1>5, <1>7 DEF SerialInv

\* A request that fails unsettles its user.
LEMMA SerialIsPreservedByAbort ==
    ASSUME SerialInv, ImageInv', NEW w \in Workers, Abort(w)
    PROVE  SerialInv'
  <1> PICK u \in Owners : u = worker[w].user
    BY WorkerTypes DEF Abort, Busy, ImageInv, SerialInv
  <1>1. /\ Busy(w) /\ Rest(w) /\ UNCHANGED <<standing, image>> /\ u \in Owners
        /\ unsettled' = unsettled \cup {u}
    BY AbortCases, WorkerTypes DEF ImageInv, SerialInv
  <1>2. worker'[w].pc = "rest" /\ \A v \in Workers \ {w} : worker'[v] = worker[v]
    <2>1. Serve(w, Resting) /\ Resting \in Working \cup {Resting}
      BY <1>1, RestIsServe
    <2>2. QED BY <2>1, ServeTypes DEF SerialInv, ImageInv, Resting
  <1>3. \A o \in (bucket \ bucket') \cup (bucket' \ bucket) : o[1] = u
    <2>1. worker[w].pc = "delete" => worker[w].old[1] = u
      BY <1>1 DEF SerialInv, ImageInv, ProfileImageTypeOK, Owned, OwnedBy
    <2>2. CASE bucket' = bucket \cup {<<u, uploads[u] + 1>>}
      BY <2>2
    <2>3. CASE worker[w].pc = "delete" /\ bucket' = bucket \ {worker[w].old}
      BY <2>1, <2>3
    <2>4. QED BY <2>2, <2>3, AbortCases DEF SerialInv, ImageInv
  <1>4. ~Busy(w)'
    BY <1>2 DEF Busy
  <1>5. \A x \in Owners : x # u => SerialOf(x)'
    BY <1>1, <1>2, <1>3, <1>4, SerialOfOthers
  <1>6. SerialOf(u)'
    BY <1>1 DEF SerialOf
  <1>7. QED BY <1>5, <1>6 DEF SerialInv

\* Every step preserves the strengthened invariant.
LEMMA SerialIsPreserved ==
    ASSUME SerialInv, [ProfileImageNext]_imageVars
    PROVE  SerialInv'
  <1>1. ImageInv'
    BY ImageInvIsPreserved DEF SerialInv
  <1>2. CASE UNCHANGED imageVars
    BY <1>1, <1>2 DEF imageVars, SerialInv, SerialOf, BusyFor, Stored, Left
  <1>3. ASSUME NEW w \in Workers, NEW u \in Owners, Upload(w, u) \/ DeleteImage(w, u) PROVE SerialInv'
    BY <1>1, <1>3, SerialIsPreservedByAuthentication
  <1>4. ASSUME NEW w \in Workers, PutObject(w) PROVE SerialInv'
    BY <1>1, <1>4, SerialIsPreservedByPut
  <1>5. ASSUME NEW w \in Workers, DeleteObject(w) PROVE SerialInv'
    BY <1>1, <1>5, SerialIsPreservedByDeletion
  <1>6. ASSUME NEW w \in Workers, SaveRow(w) PROVE SerialInv'
    BY <1>1, <1>6, SerialIsPreservedBySave
  <1>7. ASSUME NEW w \in Workers, Abort(w) PROVE SerialInv'
    BY <1>1, <1>7, SerialIsPreservedByAbort
  <1>8. ASSUME NEW u \in Owners, AccountChanges(u) \/ PurgeAccount(u) PROVE SerialInv'
    <2>1. /\ UNCHANGED <<bucket, worker, unsettled>>
          /\ \A x \in Owners : \/ /\ image'[x] = image[x]
                                  /\ standing'[x] # "purged" => standing[x] # "purged"
                               \/ standing'[x] = "purged"
      BY <1>8 DEF AccountChanges, PurgeAccount, SerialInv, ImageInv, ProfileImageTypeOK
    <2>2. \A x \in Owners : SerialOf(x)'
      BY <2>1 DEF SerialInv, SerialOf, BusyFor, Stored, Left
    <2>3. QED BY <1>1, <2>2 DEF SerialInv
  <1>9. QED BY <1>2, <1>3, <1>4, <1>5, <1>6, <1>7, <1>8 DEF ProfileImageNext

\* While the requests of a user come one at a time and succeed, the bucket holds the
\* object the row names and no other of that user.
THEOREM SerialRequestsMatch == ProfileImageSpec => []SerialImagesMatch
  <1>1. SerialInv => SerialImagesMatch
    BY DEF SerialInv, SerialOf, SerialImagesMatch, Stored
  <1>2. QED BY <1>1, SerialHoldsInitially, SerialIsPreserved, PTL DEF ProfileImageSpec

\* Row and bucket are apart only by what a request has not completed.
THEOREM RowsAndBucketAgree == ProfileImageSpec => []ImagesAgree
  <1>1. MissingOnlyHalfDone /\ SerialImagesMatch => ImagesAgree
    BY DEF ImagesAgree
  <1>2. QED BY <1>1, MissingIsHalfDone, SerialRequestsMatch, PTL

-----------------------------------------------------------------------------
(* RecentSearches: the list follows the last uses *)

\* What r has, it has in the order of h.
Follows(r, h) ==
    \A i, j \in DOMAIN r, a, b \in DOMAIN h : i < j /\ h[a] = r[i] /\ h[b] = r[j] => a < b

\* k before what is left of s without it, as SaveKeyword puts it
Fronted(s, k) == <<k>> \o Without(s, k)

\* LREM leaves the order of what it leaves.
LEMMA FollowsWithout ==
  ASSUME NEW r \in Seq(Keywords), NEW h \in Seq(Keywords), Follows(r, h), NEW k \in Keywords
  PROVE  Follows(Without(r, k), Without(h, k))
  <1> DEFINE K == Keywords \ {k}
             t == Kept(r, K)
             g == Kept(h, K)
  <1>1. PICK p \in [1..Len(t) -> 1..Len(r)] :
            /\ \A i, j \in 1..Len(t) : i < j => p[i] < p[j]
            /\ \A i \in 1..Len(t) : t[i] = r[p[i]] /\ r[p[i]] \in K
    BY KeptMap
  <1>2. PICK q \in [1..Len(g) -> 1..Len(h)] :
            /\ \A i, j \in 1..Len(g) : i < j => q[i] < q[j]
            /\ \A i \in 1..Len(g) : g[i] = h[q[i]] /\ h[q[i]] \in K
    BY KeptMap
  <1>3. t \in Seq(Keywords) /\ g \in Seq(Keywords)
    BY KeptElements
  <1> HIDE DEF K, t, g
  <1>4. /\ DOMAIN t = 1..Len(t) /\ DOMAIN g = 1..Len(g) /\ DOMAIN r = 1..Len(r)
        /\ DOMAIN h = 1..Len(h) /\ Len(t) \in Nat /\ Len(g) \in Nat
        /\ Len(r) \in Nat /\ Len(h) \in Nat
    BY <1>3
  <1>5. ASSUME NEW i \in 1..Len(t), NEW j \in 1..Len(t), NEW a \in 1..Len(g), NEW b \in 1..Len(g),
               i < j, g[a] = t[i], g[b] = t[j]
        PROVE  a < b
    <2>1. p[i] < p[j] /\ h[q[a]] = r[p[i]] /\ h[q[b]] = r[p[j]]
      BY <1>1, <1>2, <1>5
    <2>2. q[a] < q[b]
      BY <1>4, <2>1 DEF Follows
    <2>3. q[a] \in Int /\ q[b] \in Int
      BY <1>4
    <2>4. ~(b < a) /\ a # b
      BY <1>2, <2>2, <2>3
    <2> QED
      BY <2>4
  <1>6. Follows(t, g)
    BY <1>4, <1>5 DEF Follows
  <1> QED
    BY <1>6 DEF t, g, K, Without

\* What LREM and LPUSH make of a list.
LEMMA FrontedList ==
  ASSUME NEW s \in Seq(Keywords), NEW k \in Keywords
  PROVE  /\ Without(s, k) \in Seq(Keywords) /\ Fronted(s, k) \in Seq(Keywords)
         /\ Len(Without(s, k)) \in Nat /\ Len(Without(s, k)) <= Len(s)
         /\ Len(Fronted(s, k)) = Len(Without(s, k)) + 1
         /\ ToSet(Without(s, k)) = ToSet(s) \ {k}
         /\ Fronted(s, k)[1] = k
         /\ \A i \in 2..Len(Fronted(s, k)) : /\ i - 1 \in DOMAIN Without(s, k)
                                             /\ Fronted(s, k)[i] = Without(s, k)[i - 1]
                                             /\ Fronted(s, k)[i] # k
         /\ ToSet(Fronted(s, k)) = ToSet(s) \cup {k}
         /\ IsInjective(s) => IsInjective(Without(s, k)) /\ IsInjective(Fronted(s, k))
  <1> DEFINE t == Without(s, k)
             f == Fronted(s, k)
  <1>1. /\ t \in Seq(Keywords) /\ Len(t) <= Len(s) /\ ToSet(t) = ToSet(s) \cap (Keywords \ {k})
        /\ IsInjective(s) => IsInjective(t)
    BY KeptElements, KeptInjective DEF Without
  <1>2. ToSet(s) \subseteq Keywords
    BY ElementsFinite
  <1>3. ToSet(t) = ToSet(s) \ {k}
    BY <1>1, <1>2
  <1>4. f = <<k>> \o t
    BY DEF Fronted
  <1> HIDE DEF t, f
  <1>5. /\ f \in Seq(Keywords) /\ Len(f) = Len(t) + 1 /\ f[1] = k
        /\ \A i \in 2..Len(t) + 1 : f[i] = t[i - 1]
    BY <1>1, <1>4, Preceded
  <1>6. Len(t) \in Nat /\ DOMAIN t = 1..Len(t) /\ DOMAIN f = 1..Len(f)
    BY <1>1, <1>5
  <1>7. \A i \in 1..Len(t) : t[i] # k
    BY <1>3, <1>6 DEF ToSet
  <1>8. \A i \in 2..Len(f) : i - 1 \in DOMAIN t /\ f[i] = t[i - 1] /\ f[i] # k
    BY <1>5, <1>6, <1>7
  <1>9. ToSet(f) = ToSet(t) \cup {k}
    <2>1. \A i \in 1..Len(f) : i = 1 \/ i \in 2..Len(f)
      BY <1>5, <1>6
    <2>2. ToSet(f) \subseteq ToSet(t) \cup {k}
      <3> SUFFICES ASSUME NEW i \in 1..Len(f) PROVE f[i] \in ToSet(t) \cup {k}
        BY <1>6 DEF ToSet
      <3>1. CASE i = 1
        BY <1>5, <3>1
      <3>2. CASE i \in 2..Len(f)
        BY <1>8, <3>2 DEF ToSet
      <3> QED
        BY <2>1, <3>1, <3>2
    <2>3. \A i \in 1..Len(t) : i + 1 \in 1..Len(f) /\ f[i + 1] = t[i]
      BY <1>5, <1>6
    <2>4. 1 \in 1..Len(f)
      BY <1>5, <1>6
    <2>5. k \in ToSet(f)
      BY <1>5, <1>6, <2>4 DEF ToSet
    <2>6. ToSet(t) \subseteq ToSet(f)
      BY <1>6, <2>3 DEF ToSet
    <2> QED
      BY <2>2, <2>5, <2>6
  <1>10. ASSUME IsInjective(s) PROVE IsInjective(f)
    <2> SUFFICES ASSUME NEW i \in 1..Len(f), NEW j \in 1..Len(f), f[i] = f[j] PROVE i = j
      BY <1>6 DEF IsInjective
    <2>1. (i = 1 \/ i \in 2..Len(f)) /\ (j = 1 \/ j \in 2..Len(f))
      BY <1>5, <1>6
    <2>2. CASE i = 1 \/ j = 1
      BY <1>5, <1>8, <2>1, <2>2
    <2>3. CASE i \in 2..Len(f) /\ j \in 2..Len(f)
      <3>1. i - 1 = j - 1
        BY <1>1, <1>8, <1>10, <2>3 DEF IsInjective
      <3> QED
        BY <3>1
    <2> QED
      BY <2>1, <2>2, <2>3
  <1> QED
    BY <1>1, <1>3, <1>5, <1>6, <1>8, <1>9, <1>10 DEF t, f

\* The keyword that is searched goes to the front of both.
LEMMA FollowsFronted ==
  ASSUME NEW r \in Seq(Keywords), NEW h \in Seq(Keywords), Follows(r, h), NEW k \in Keywords
  PROVE  Follows(Fronted(r, k), Fronted(h, k))
  <1> DEFINE t == Without(r, k)
             g == Without(h, k)
             x == Fronted(r, k)
             y == Fronted(h, k)
  <1>1. Follows(t, g)
    BY FollowsWithout
  <1>2. /\ x \in Seq(Keywords) /\ x[1] = k
        /\ \A i \in 2..Len(x) : i - 1 \in DOMAIN t /\ x[i] = t[i - 1] /\ x[i] # k
    BY FrontedList
  <1>3. /\ y \in Seq(Keywords) /\ y[1] = k
        /\ \A i \in 2..Len(y) : i - 1 \in DOMAIN g /\ y[i] = g[i - 1] /\ y[i] # k
    BY FrontedList
  <1> HIDE DEF t, g, x, y
  <1>4. DOMAIN x = 1..Len(x) /\ DOMAIN y = 1..Len(y) /\ Len(x) \in Nat /\ Len(y) \in Nat
    BY <1>2, <1>3
  <1>5. ASSUME NEW i \in 1..Len(x), NEW j \in 1..Len(x), NEW a \in 1..Len(y), NEW b \in 1..Len(y),
               i < j, y[a] = x[i], y[b] = x[j]
        PROVE  a < b
    <2>1. j \in 2..Len(x) /\ x[j] # k
      BY <1>2, <1>4, <1>5
    <2>2. b \in 2..Len(y)
      BY <1>3, <1>4, <1>5, <2>1
    <2>3. CASE a = 1
      BY <2>2, <2>3
    <2>4. CASE a # 1
      <3>1. a \in 2..Len(y)
        BY <1>4, <2>4
      <3>2. i \in 2..Len(x)
        BY <1>2, <1>3, <1>4, <1>5, <3>1
      <3>3. /\ i - 1 \in DOMAIN t /\ j - 1 \in DOMAIN t /\ a - 1 \in DOMAIN g /\ b - 1 \in DOMAIN g
            /\ i - 1 < j - 1 /\ g[a - 1] = t[i - 1] /\ g[b - 1] = t[j - 1]
        BY <1>2, <1>3, <1>5, <2>1, <2>2, <3>1, <3>2
      <3>4. a - 1 < b - 1
        BY <1>1, <3>3 DEF Follows
      <3> QED
        BY <3>4
    <2> QED
      BY <2>3, <2>4
  <1>6. Follows(x, y)
    BY <1>4, <1>5 DEF Follows
  <1> QED
    BY <1>6 DEF x, y

\* A place in r is no further than the place of the same keyword in h.
LEMMA PlaceAbove ==
  ASSUME NEW r \in Seq(Keywords), NEW h \in Seq(Keywords), Follows(r, h),
         ToSet(r) \subseteq ToSet(h),
         NEW i \in DOMAIN r, NEW a \in DOMAIN h, h[a] = r[i]
  PROVE  i <= a
  <1>1. /\ DOMAIN r = 1..Len(r) /\ DOMAIN h = 1..Len(h) /\ Len(r) \in Nat /\ Len(h) \in Nat
        /\ i \in Nat /\ a \in Nat
    OBVIOUS
  <1>2. \A j \in 1..i : j \in DOMAIN r
    BY <1>1
  <1>3. \A j \in 1..i : \E b \in DOMAIN h : h[b] = r[j]
    BY <1>2 DEF ToSet
  <1> DEFINE At(j) == IF j = i THEN a ELSE CHOOSE b \in DOMAIN h : h[b] = r[j]
             f == [j \in 1..i |-> At(j)]
  <1>4. \A j \in 1..i : At(j) \in DOMAIN h /\ h[At(j)] = r[j]
    BY <1>3
  <1> HIDE DEF At
  <1>5. \A j, k \in 1..i : j < k => At(j) < At(k)
    BY <1>2, <1>4 DEF Follows
  <1>6. At(i) = a /\ i \in 1..i
    BY <1>1 DEF At
  <1>7. \A j \in 1..i : j = i \/ j < i
    BY <1>1
  <1>8. \A j \in 1..i : At(j) = a \/ At(j) < a
    BY <1>5, <1>6, <1>7
  <1>9. \A j \in 1..i : At(j) \in 1..a
    BY <1>1, <1>4, <1>8
  <1>10. f \in [1..i -> 1..a] /\ \A j, k \in 1..i : j < k => f[j] < f[k]
    BY <1>5, <1>9
  <1> QED
    BY <1>1, <1>10, IncreasingAbove

\* Taking one keyword out moves the others by one place at most.
LEMMA PlaceWithout ==
  ASSUME NEW h \in Seq(Keywords), IsInjective(h), NEW k \in Keywords,
         NEW c \in DOMAIN Without(h, k)
  PROVE  \E b \in DOMAIN h : h[b] = Without(h, k)[c] /\ b <= c + 1
  <1> DEFINE K == Keywords \ {k}
             g == Kept(h, K)
  <1>1. PICK q \in [1..Len(g) -> 1..Len(h)] :
            /\ \A i, j \in 1..Len(g) : i < j => q[i] < q[j]
            /\ \A i \in 1..Len(g) : g[i] = h[q[i]] /\ h[q[i]] \in K
            /\ \A i \in 1..Len(h) : h[i] \in K => \E j \in 1..Len(g) : q[j] = i
    <2> HIDE DEF K
    <2>1. \E f \in [1..Len(Kept(h, K)) -> 1..Len(h)] :
            /\ \A j, l \in 1..Len(Kept(h, K)) : j < l => f[j] < f[l]
            /\ \A l \in 1..Len(Kept(h, K)) : Kept(h, K)[l] = h[f[l]] /\ h[f[l]] \in K
            /\ \A i \in 1..Len(h) : h[i] \in K => \E l \in 1..Len(Kept(h, K)) : f[l] = i
      BY KeptMap
    <2> QED
      BY <2>1
  <1>2. g \in Seq(Keywords) /\ c \in DOMAIN g
    BY KeptElements DEF Without
  <1>0. g = Without(h, k)
    BY DEF Without
  <1> HIDE DEF g
  <1>3. /\ DOMAIN g = 1..Len(g) /\ Len(g) \in Nat /\ DOMAIN h = 1..Len(h) /\ Len(h) \in Nat
        /\ c \in 1..Len(g) /\ q[c] \in 1..Len(h)
    BY <1>1, <1>2
  <1>4. PICK p \in Int : \A i \in 1..Len(h) : h[i] = k => i = p
    <2>1. CASE \E i \in 1..Len(h) : h[i] = k
      <3>1. PICK p \in 1..Len(h) : h[p] = k
        BY <2>1
      <3>2. p \in Int /\ \A i \in 1..Len(h) : h[i] = k => i = p
        BY <1>3, <3>1 DEF IsInjective
      <3> QED
        BY <3>2
    <2>2. CASE \A i \in 1..Len(h) : h[i] # k
      BY <2>2
    <2> QED
      BY <2>1, <2>2
  <1> DEFINE T == {q[l] : l \in 1..c}
             D == (1..q[c]) \ {p}
             f == [l \in 1..c |-> q[l]]
  <1>5. D \subseteq T
    <2> SUFFICES ASSUME NEW i \in 1..q[c], i # p PROVE i \in T
      OBVIOUS
    <2>1. i \in 1..Len(h) /\ h[i] \in K
      BY <1>3, <1>4
    <2>2. PICK l \in 1..Len(g) : q[l] = i
      BY <1>1, <2>1
    <2>3. ~(c < l)
      <3>1. c < l => q[c] < q[l]
        BY <1>1, <1>3
      <3>2. i \in Int /\ i <= q[c] /\ q[c] \in Int
        BY <1>3
      <3> QED
        BY <2>2, <3>1, <3>2
    <2>4. l \in 1..c
      BY <1>3, <2>3
    <2> QED
      BY <2>2, <2>4
  <1>6. IsFiniteSet(T) /\ Cardinality(T) <= c
    <2>1. f \in Surjection(1..c, T)
      BY DEF Surjection
    <2>2. 1 \in Int /\ c \in Int
      BY <1>3
    <2>3. IsFiniteSet(1..c) /\ Cardinality(1..c) = IF 1 > c THEN 0 ELSE c - 1 + 1
      BY <2>2, FS_Interval
    <2> HIDE DEF f, T
    <2>4. IsFiniteSet(T) /\ Cardinality(T) <= Cardinality(1..c)
      BY <2>1, <2>3, FS_Surjection
    <2> QED
      BY <1>3, <2>3, <2>4
  <1>7. Cardinality(D) >= q[c] - 1 /\ Cardinality(D) \in Nat
    <2>1. 1 \in Int /\ q[c] \in Int /\ q[c] >= 1
      BY <1>3
    <2>2. IsFiniteSet(1..q[c]) /\ Cardinality(1..q[c]) = IF 1 > q[c] THEN 0 ELSE q[c] - 1 + 1
      BY <2>1, FS_Interval
    <2>3. /\ IsFiniteSet(D)
          /\ Cardinality(D) = IF p \in 1..q[c] THEN Cardinality(1..q[c]) - 1 ELSE Cardinality(1..q[c])
      BY <2>2, FS_RemoveElement
    <2> QED
      BY <2>1, <2>2, <2>3, FS_CardinalityType
  <1> HIDE DEF D, T, f
  <1>8. Cardinality(D) <= Cardinality(T) /\ Cardinality(T) \in Nat
    BY <1>5, <1>6, FewerElements
  <1>9. q[c] <= c + 1
    BY <1>3, <1>6, <1>7, <1>8
  <1>10. h[q[c]] = g[c]
    BY <1>1, <1>3
  <1> QED
    BY <1>0, <1>3, <1>9, <1>10

\* The list r of a user whose searches are h, latest first, of which d were deleted: a
\* keyword that is neither listed nor deleted lies beyond HistorySize.
HistoryInv(r, h, d) ==
    /\ IsInjective(r) /\ IsInjective(h)
    /\ ToSet(r) \subseteq ToSet(h) \ d
    /\ Follows(r, h)
    /\ \A a \in DOMAIN h : h[a] \notin d \cup ToSet(r) => a > HistorySize

RecentInv ==
    /\ RecentSearchesTypeOK
    /\ \A u \in Searchers : HistoryInv(recent[u], used[u], removed[u])

\* LTRIM leaves the front of a list.
LEMMA PushedList ==
  ASSUME NEW r \in Seq(Keywords), NEW k \in Keywords
  PROVE  /\ Pushed(r, k) \in Seq(Keywords)
         /\ Len(Pushed(r, k)) = IF Len(Fronted(r, k)) < HistorySize THEN Len(Fronted(r, k))
                                                                    ELSE HistorySize
         /\ \A i \in DOMAIN Pushed(r, k) : /\ i \in DOMAIN Fronted(r, k)
                                           /\ Pushed(r, k)[i] = Fronted(r, k)[i]
         /\ 1 \in DOMAIN Pushed(r, k) /\ Pushed(r, k)[1] = k
  <1> DEFINE x == Fronted(r, k)
             m == IF Len(x) < HistorySize THEN Len(x) ELSE HistorySize
  <1>1. x \in Seq(Keywords) /\ Len(x) = Len(Without(r, k)) + 1 /\ x[1] = k
        /\ Without(r, k) \in Seq(Keywords)
    BY FrontedList
  <1>2. Pushed(r, k) = SubSeq(x, 1, m)
    BY DEF Pushed, Fronted
  <1> HIDE DEF x
  <1>3. m \in 1..Len(x) /\ DOMAIN x = 1..Len(x) /\ Len(x) \in Nat
    BY <1>1, RecentSearchesAssumption
  <1> HIDE DEF m
  <1>4. PICK y \in Seq(Keywords) : y = SubSeq(x, 1, m)
    <2>1. m \in 0..Len(x)
      BY <1>3
    <2>2. SubSeq(x, 1, m) \in Seq(Keywords)
      BY <1>1, <2>1, Trimmed
    <2> QED
      BY <2>2
  <1>5. Len(y) = m /\ DOMAIN y = 1..m /\ \A i \in 1..m : y[i] = x[i]
    BY <1>1, <1>3, <1>4, Trimmed
  <1>6. 1 \in 1..m /\ \A i \in 1..m : i \in 1..Len(x)
    BY <1>3
  <1> QED
    BY <1>1, <1>2, <1>3, <1>4, <1>5, <1>6 DEF x, m

\* A search keeps it: what LTRIM drops has HistorySize keywords before it, and all of them
\* were searched later.
LEMMA SaveKeepsHistory ==
  ASSUME NEW r \in Seq(Keywords), NEW h \in Seq(Keywords), NEW d, HistoryInv(r, h, d),
         Len(r) <= HistorySize, NEW k \in Keywords
  PROVE  HistoryInv(Pushed(r, k), Fronted(h, k), d \ {k})
  <1> DEFINE x == Fronted(r, k)
             y == Fronted(h, k)
             z == Pushed(r, k)
             g == Without(h, k)
  <1>0. HistorySize \in Nat /\ HistorySize >= 1
    BY RecentSearchesAssumption
  <1>1. /\ x \in Seq(Keywords) /\ x[1] = k /\ IsInjective(x) /\ ToSet(x) = ToSet(r) \cup {k}
    BY FrontedList DEF HistoryInv
  <1>2. /\ y \in Seq(Keywords) /\ y[1] = k /\ IsInjective(y) /\ ToSet(y) = ToSet(h) \cup {k}
        /\ \A i \in 2..Len(y) : i - 1 \in DOMAIN g /\ y[i] = g[i - 1] /\ y[i] # k
        /\ ToSet(g) = ToSet(h) \ {k}
    <2>1. IsInjective(h)
      BY DEF HistoryInv
    <2>2. /\ y \in Seq(Keywords) /\ y[1] = k /\ ToSet(y) = ToSet(h) \cup {k}
          /\ ToSet(g) = ToSet(h) \ {k}
      BY FrontedList
    <2>3. \A i \in 2..Len(y) : i - 1 \in DOMAIN g /\ y[i] = g[i - 1] /\ y[i] # k
      BY FrontedList
    <2>4. IsInjective(y)
      BY <2>1, FrontedList
    <2> QED
      BY <2>2, <2>3, <2>4
  <1>3. /\ z \in Seq(Keywords) /\ 1 \in DOMAIN z /\ z[1] = k
        /\ Len(z) = IF Len(x) < HistorySize THEN Len(x) ELSE HistorySize
        /\ \A i \in DOMAIN z : i \in DOMAIN x /\ z[i] = x[i]
    BY PushedList
  <1>4. Follows(x, y)
    BY FollowsFronted DEF HistoryInv
  <1>5. \A c \in DOMAIN g : \E b \in DOMAIN h : h[b] = g[c] /\ b <= c + 1
    BY PlaceWithout DEF HistoryInv
  <1>6. \A i \in DOMAIN x, a \in DOMAIN y : y[a] = x[i] => i <= a
    <2> TAKE i \in DOMAIN x, a \in DOMAIN y
    <2> HAVE y[a] = x[i]
    <2>1. ToSet(x) \subseteq ToSet(y)
      BY <1>1, <1>2 DEF HistoryInv
    <2> HIDE DEF x, y
    <2> QED
      BY <1>1, <1>2, <1>4, <2>1, PlaceAbove
  <1> HIDE DEF x, y, z, g
  <1>7. /\ DOMAIN x = 1..Len(x) /\ DOMAIN y = 1..Len(y) /\ DOMAIN z = 1..Len(z)
        /\ Len(x) \in Nat /\ Len(y) \in Nat /\ Len(z) \in Nat
        /\ DOMAIN h = 1..Len(h) /\ Len(h) \in Nat
    BY <1>1, <1>2, <1>3
  <1>8. IsInjective(z)
    BY <1>1, <1>3 DEF IsInjective
  <1>9. ToSet(z) \subseteq ToSet(x) /\ k \in ToSet(z)
    BY <1>3 DEF ToSet
  <1>10. ToSet(z) \subseteq ToSet(y) \ (d \ {k})
    BY <1>1, <1>2, <1>9 DEF HistoryInv
  <1>11. Follows(z, y)
    BY <1>3, <1>4 DEF Follows
  <1>12. ASSUME NEW a \in DOMAIN y, y[a] \notin (d \ {k}) \cup ToSet(z) PROVE a > HistorySize
    <2>1. y[a] # k /\ a \in 2..Len(y)
      BY <1>2, <1>7, <1>9, <1>12
    <2>2. y[a] = g[a - 1] /\ a - 1 \in DOMAIN g /\ a \in Nat
      BY <1>2, <2>1
    <2>3. CASE y[a] \in ToSet(r)
      <3>1. PICK i \in 1..Len(x) : x[i] = y[a]
        BY <1>1, <1>7, <2>3 DEF ToSet
      <3>2. i \notin 1..Len(z)
        BY <1>3, <1>7, <1>12, <3>1 DEF ToSet
      <3>3. i > HistorySize /\ i \in Nat
        BY <1>0, <1>3, <1>7, <3>2
      <3>4. i <= a
        BY <1>6, <1>7, <3>1
      <3> QED
        BY <1>0, <2>2, <3>3, <3>4
    <2>4. CASE y[a] \notin ToSet(r)
      <3>1. PICK b \in DOMAIN h : h[b] = g[a - 1] /\ b <= a - 1 + 1
        BY <1>5, <2>2
      <3>2. h[b] \notin d \cup ToSet(r)
        BY <1>12, <2>1, <2>2, <2>4, <3>1
      <3>3. b > HistorySize /\ b \in Nat
        BY <1>7, <3>2 DEF HistoryInv
      <3> QED
        BY <1>0, <2>2, <3>1, <3>3
    <2> QED
      BY <2>3, <2>4
  <1> QED
    BY <1>2, <1>8, <1>10, <1>11, <1>12 DEF HistoryInv, x, y, z

\* A deletion keeps it.
LEMMA DeletionKeepsHistory ==
  ASSUME NEW r \in Seq(Keywords), NEW h \in Seq(Keywords), NEW d, HistoryInv(r, h, d),
         NEW k \in Keywords
  PROVE  HistoryInv(Without(r, k), h, d \cup {k})
  <1> DEFINE K == Keywords \ {k}
             t == Kept(r, K)
  <1>1. PICK p \in [1..Len(t) -> 1..Len(r)] :
            /\ \A i, j \in 1..Len(t) : i < j => p[i] < p[j]
            /\ \A i \in 1..Len(t) : t[i] = r[p[i]] /\ r[p[i]] \in K
    BY KeptMap
  <1>2. t \in Seq(Keywords) /\ t = Without(r, k)
    BY KeptElements DEF Without
  <1>3. ToSet(t) = ToSet(r) \ {k} /\ IsInjective(t)
    <2>1. IsInjective(r)
      BY DEF HistoryInv
    <2>2. ToSet(Without(r, k)) = ToSet(r) \ {k} /\ IsInjective(Without(r, k))
      BY <2>1, FrontedList
    <2> QED
      BY <1>2, <2>2
  <1> HIDE DEF t
  <1>4. DOMAIN t = 1..Len(t) /\ DOMAIN r = 1..Len(r)
    BY <1>2
  <1>5. Follows(t, h)
    BY <1>1, <1>4 DEF HistoryInv, Follows
  <1>6. HistoryInv(t, h, d \cup {k})
    BY <1>3, <1>5 DEF HistoryInv
  <1> QED
    BY <1>2, <1>6

\* The types are kept by every step.
LEMMA RecentTypesArePreserved ==
  RecentSearchesTypeOK /\ [RecentSearchesNext]_searchVars => RecentSearchesTypeOK'
  <1> SUFFICES ASSUME RecentSearchesTypeOK, [RecentSearchesNext]_searchVars
               PROVE  RecentSearchesTypeOK'
    OBVIOUS
  <1>0. HistorySize \in Nat /\ HistorySize >= 1
    BY RecentSearchesAssumption
  <1>1. ASSUME NEW u \in Searchers, NEW k \in Keywords, SaveKeyword(u, k)
        PROVE  RecentSearchesTypeOK'
    <2>1. recent[u] \in Seq(Keywords) /\ used[u] \in Seq(Keywords)
      BY DEF RecentSearchesTypeOK
    <2>2. Pushed(recent[u], k) \in Seq(Keywords) /\ Len(Pushed(recent[u], k)) <= HistorySize
      <3>1. /\ Pushed(recent[u], k) \in Seq(Keywords)
            /\ Len(Pushed(recent[u], k)) = IF Len(Fronted(recent[u], k)) < HistorySize
                                            THEN Len(Fronted(recent[u], k)) ELSE HistorySize
        BY <2>1, PushedList
      <3>2. Len(Fronted(recent[u], k)) = Len(Without(recent[u], k)) + 1
            /\ Len(Without(recent[u], k)) \in Nat
        BY <2>1, FrontedList
      <3> QED
        BY <1>0, <3>1, <3>2
    <2>3. Fronted(used[u], k) \in Seq(Keywords)
      BY <2>1, FrontedList
    <2>4. used' = [used EXCEPT ![u] = Fronted(used[u], k)]
      BY <1>1 DEF SaveKeyword, Fronted
    <2> QED
      BY <1>1, <2>2, <2>3, <2>4 DEF SaveKeyword, RecentSearchesTypeOK
  <1>2. ASSUME NEW u \in Searchers, NEW k \in Keywords, DeleteKeyword(u, k)
        PROVE  RecentSearchesTypeOK'
    <2>1. recent[u] \in Seq(Keywords) /\ Len(recent[u]) <= HistorySize /\ Len(recent[u]) \in Nat
      BY DEF RecentSearchesTypeOK
    <2>2. Without(recent[u], k) \in Seq(Keywords) /\ Len(Without(recent[u], k)) <= Len(recent[u])
          /\ Len(Without(recent[u], k)) \in Nat
      BY <2>1, FrontedList
    <2>3. Len(Without(recent[u], k)) <= HistorySize
      BY <1>0, <2>1, <2>2
    <2> QED
      BY <1>2, <2>2, <2>3 DEF DeleteKeyword, RecentSearchesTypeOK
  <1>3. ASSUME NEW u \in Searchers, ClearKeywords(u) PROVE RecentSearchesTypeOK'
    <2>1. ToSet(used[u]) \subseteq Keywords
      BY ElementsFinite DEF RecentSearchesTypeOK
    <2>2. <<>> \in Seq(Keywords) /\ Len(<<>>) <= HistorySize
      BY <1>0
    <2> QED
      BY <1>3, <2>1, <2>2 DEF ClearKeywords, RecentSearchesTypeOK
  <1>4. CASE UNCHANGED searchVars
    BY <1>4 DEF searchVars, RecentSearchesTypeOK
  <1> QED
    BY <1>1, <1>2, <1>3, <1>4 DEF RecentSearchesNext

\* So is the history of every user.
LEMMA RecentIsPreserved == RecentInv /\ [RecentSearchesNext]_searchVars => RecentInv'
  <1> SUFFICES ASSUME RecentInv, [RecentSearchesNext]_searchVars PROVE RecentInv'
    OBVIOUS
  <1>0. RecentSearchesTypeOK /\ RecentSearchesTypeOK'
    BY RecentTypesArePreserved DEF RecentInv
  <1>1. ASSUME NEW v \in Searchers PROVE HistoryInv(recent[v], used[v], removed[v])'
    <2>0. /\ recent[v] \in Seq(Keywords) /\ used[v] \in Seq(Keywords)
          /\ Len(recent[v]) <= HistorySize /\ HistoryInv(recent[v], used[v], removed[v])
      BY <1>0 DEF RecentInv, RecentSearchesTypeOK
    <2>1. CASE UNCHANGED <<recent[v], used[v], removed[v]>>
      BY <2>0, <2>1 DEF HistoryInv, Follows
    <2>2. ASSUME NEW k \in Keywords, SaveKeyword(v, k)
          PROVE  HistoryInv(recent[v], used[v], removed[v])'
      <3>1. recent'[v] = Pushed(recent[v], k) /\ used'[v] = Fronted(used[v], k)
            /\ removed'[v] = removed[v] \ {k}
        BY <1>0, <2>2 DEF SaveKeyword, Fronted, RecentSearchesTypeOK
      <3>2. HistoryInv(Pushed(recent[v], k), Fronted(used[v], k), removed[v] \ {k})
        BY <2>0, SaveKeepsHistory
      <3>3. HistoryInv(recent'[v], used'[v], removed'[v])
        BY <3>1, <3>2
      <3> QED
        BY <3>3 DEF HistoryInv, Follows
    <2>3. ASSUME NEW k \in Keywords, DeleteKeyword(v, k)
          PROVE  HistoryInv(recent[v], used[v], removed[v])'
      <3>1. recent'[v] = Without(recent[v], k) /\ used'[v] = used[v]
            /\ removed'[v] = removed[v] \cup {k}
        BY <1>0, <2>3 DEF DeleteKeyword, RecentSearchesTypeOK
      <3>2. HistoryInv(Without(recent[v], k), used[v], removed[v] \cup {k})
        BY <2>0, DeletionKeepsHistory
      <3>3. HistoryInv(recent'[v], used'[v], removed'[v])
        BY <3>1, <3>2
      <3> QED
        BY <3>3 DEF HistoryInv, Follows
    <2>4. CASE ClearKeywords(v)
      <3>1. recent'[v] = <<>> /\ used'[v] = used[v] /\ removed'[v] = ToSet(used[v])
        BY <1>0, <2>4 DEF ClearKeywords, RecentSearchesTypeOK
      <3>2. HistoryInv(<<>>, used[v], ToSet(used[v]))
        BY <2>0 DEF HistoryInv, Follows, ToSet, IsInjective
      <3>3. HistoryInv(recent'[v], used'[v], removed'[v])
        BY <3>1, <3>2
      <3> QED
        BY <3>3 DEF HistoryInv, Follows
    <2>5. ASSUME NEW u \in Searchers, u # v,
                 \/ \E k \in Keywords : SaveKeyword(u, k) \/ DeleteKeyword(u, k)
                 \/ ClearKeywords(u)
          PROVE  UNCHANGED <<recent[v], used[v], removed[v]>>
      BY <1>0, <2>5 DEF SaveKeyword, DeleteKeyword, ClearKeywords, RecentSearchesTypeOK
    <2>6. CASE UNCHANGED searchVars
      BY <2>1, <2>6 DEF searchVars
    <2> QED
      BY <2>1, <2>2, <2>3, <2>4, <2>5, <2>6 DEF RecentSearchesNext
  <1> QED
    BY <1>0, <1>1 DEF RecentInv

\* It holds at first.
LEMMA RecentHoldsInitially == RecentSearchesInit => RecentInv
  <1> SUFFICES ASSUME RecentSearchesInit PROVE RecentInv
    OBVIOUS
  <1>0. HistorySize \in Nat /\ <<>> \in Seq(Keywords) /\ Len(<<>>) = 0
    BY RecentSearchesAssumption
  <1>1. RecentSearchesTypeOK
    BY <1>0 DEF RecentSearchesInit, RecentSearchesTypeOK
  <1>2. HistoryInv(<<>>, <<>>, {})
    BY DEF HistoryInv, Follows, ToSet, IsInjective
  <1> QED
    BY <1>1, <1>2 DEF RecentInv, RecentSearchesInit

\* For any number of users and keywords and any size of the list: after every sequence of
\* searches and deletions the list is in the order of the last use without repetition,
\* holds nothing deleted, and misses only what HistorySize later searches pushed out.
THEOREM ListIsLatest == RecentSearchesSpec => []RecentIsLatest
  <1>2. RecentInv => RecentIsLatest
    <2> SUFFICES ASSUME RecentInv, NEW u \in Searchers
                 PROVE  LET kept == Cardinality(ToSet(recent[u]))
                            Rank(k) == CHOOSE i \in DOMAIN used[u] : used[u][i] = k
                        IN /\ kept = Len(recent[u])
                           /\ ToSet(recent[u]) \subseteq ToSet(used[u]) \ removed[u]
                           /\ \A i, j \in DOMAIN recent[u] :
                                 i < j => Rank(recent[u][i]) < Rank(recent[u][j])
                           /\ \A k \in ToSet(used[u]) \ (removed[u] \cup ToSet(recent[u])) :
                                 Rank(k) > HistorySize
      BY DEF RecentIsLatest
    <2> DEFINE Rank(k) == CHOOSE i \in DOMAIN used[u] : used[u][i] = k
    <2>1. /\ recent[u] \in Seq(Keywords) /\ used[u] \in Seq(Keywords)
          /\ HistoryInv(recent[u], used[u], removed[u])
      BY DEF RecentInv, RecentSearchesTypeOK
    <2>2. Cardinality(ToSet(recent[u])) = Len(recent[u])
      BY <2>1, DistinctCounted DEF HistoryInv
    <2>3. \A k \in ToSet(used[u]) : Rank(k) \in DOMAIN used[u] /\ used[u][Rank(k)] = k
      BY DEF ToSet
    <2> HIDE DEF Rank
    <2>4. \A i \in DOMAIN recent[u] : recent[u][i] \in ToSet(used[u])
      BY <2>1 DEF HistoryInv, ToSet
    <2>5. \A i, j \in DOMAIN recent[u] : i < j => Rank(recent[u][i]) < Rank(recent[u][j])
      BY <2>1, <2>3, <2>4 DEF HistoryInv, Follows
    <2>6. \A k \in ToSet(used[u]) \ (removed[u] \cup ToSet(recent[u])) : Rank(k) > HistorySize
      BY <2>1, <2>3 DEF HistoryInv
    <2>7. ToSet(recent[u]) \subseteq ToSet(used[u]) \ removed[u]
      BY <2>1 DEF HistoryInv
    <2> QED
      BY <2>2, <2>5, <2>6, <2>7 DEF Rank
  <1> QED
    BY <1>2, RecentHoldsInitially, RecentIsPreserved, PTL DEF RecentSearchesSpec

-----------------------------------------------------------------------------
(* Autocomplete: the answer is a ranking of the matches *)

\* The sort keeps the matches and puts the better ones first.
LEMMA SortedList ==
  ASSUME NEW ms \in Seq(Match)
  PROVE  /\ Sorted(ms) \in Seq(Match) /\ ToSet(Sorted(ms)) = ToSet(ms)
         /\ \A i, j \in 1..Len(Sorted(ms)) : i < j => Sorted(ms)[i].priority >= Sorted(ms)[j].priority
  <1> DEFINE A == {m \in Match : m.priority = 3}
             B == {m \in Match : m.priority = 2}
             a == Kept(ms, A)
             b == Kept(ms, B)
  <1>1. /\ a \in Seq(Match) /\ \A i \in 1..Len(a) : a[i] \in A
        /\ ToSet(a) = ToSet(ms) \cap A
    BY KeptElements
  <1>2. /\ b \in Seq(Match) /\ \A i \in 1..Len(b) : b[i] \in B
        /\ ToSet(b) = ToSet(ms) \cap B
    BY KeptElements
  <1>3. Sorted(ms) = a \o b
    BY DEF Sorted
  <1>4. ToSet(ms) \subseteq A \cup B
    <2>1. ToSet(ms) \subseteq Match
      BY ElementsFinite
    <2>2. Match \subseteq A \cup B
      BY DEF Match
    <2> QED
      BY <2>1, <2>2
  <1> HIDE DEF a, b
  <1>5. PICK c \in Seq(Match) : c = a \o b
    BY <1>1, <1>2, Joined
  <1>6. /\ Len(c) = Len(a) + Len(b) /\ ToSet(c) = ToSet(a) \cup ToSet(b)
        /\ \A j \in 1..Len(a) : c[j] = a[j]
        /\ \A j \in Len(a) + 1..Len(a) + Len(b) : c[j] = b[j - Len(a)]
    <2>1. /\ Len(a \o b) = Len(a) + Len(b)
          /\ \A j \in 1..Len(a) : (a \o b)[j] = a[j]
          /\ \A j \in Len(a) + 1..Len(a) + Len(b) : (a \o b)[j] = b[j - Len(a)]
      BY <1>1, <1>2, Joined
    <2>2. ToSet(a \o b) = ToSet(a) \cup ToSet(b)
      BY <1>1, <1>2, JoinedElements
    <2> QED
      BY <1>5, <2>1, <2>2
  <1>7. Len(a) \in Nat /\ Len(b) \in Nat
    BY <1>1, <1>2
  <1>8. \A j \in 1..Len(a) : c[j].priority = 3
    BY <1>1, <1>6
  <1>9. \A j \in Len(a) + 1..Len(a) + Len(b) : c[j].priority = 2
    <2> TAKE j \in Len(a) + 1..Len(a) + Len(b)
    <2>1. j - Len(a) \in 1..Len(b)
      BY <1>7
    <2> QED
      BY <1>2, <1>6, <2>1
  <1>10. \A i, j \in 1..Len(c) : i < j => c[i].priority >= c[j].priority
    <2> TAKE i, j \in 1..Len(c)
    <2> HAVE i < j
    <2>1. i \in 1..Len(a) \/ (i \in Len(a) + 1..Len(a) + Len(b) /\ j \in Len(a) + 1..Len(a) + Len(b))
      BY <1>6, <1>7
    <2>2. j \in 1..Len(a) \/ j \in Len(a) + 1..Len(a) + Len(b)
      BY <1>6, <1>7
    <2> QED
      BY <1>8, <1>9, <2>1, <2>2
  <1>11. ToSet(c) = ToSet(ms)
    BY <1>1, <1>2, <1>4, <1>6
  <1> QED
    BY <1>3, <1>5, <1>10, <1>11

\* Leaving out the repetitions keeps the first match of every game, in order.
LEMMA DistinctList ==
  ASSUME NEW ms \in Seq(Match)
  PROVE  /\ Distinct(ms) \in Seq(Match)
         /\ \E f \in [1..Len(Distinct(ms)) -> 1..Len(ms)] :
               /\ \A j, k \in 1..Len(Distinct(ms)) : j < k => f[j] < f[k]
               /\ \A k \in 1..Len(Distinct(ms)) : Distinct(ms)[k] = ms[f[k]]
               /\ \A k \in 1..Len(Distinct(ms)) : f[k] \in FirstPlaces(ms)
               /\ \A i \in FirstPlaces(ms) : \E k \in 1..Len(Distinct(ms)) : f[k] = i
  <1> DEFINE P == FirstPlaces(ms)
  <1>0. PICK N : N = Nat
    OBVIOUS
  <1>1. PICK ids \in Seq(N) : ids = [i \in DOMAIN ms |-> i]
    <2>1. DOMAIN ms = 1..Len(ms) /\ Len(ms) \in Nat
      OBVIOUS
    <2>2. [i \in 1..Len(ms) |-> i] \in Seq(Nat)
      BY <2>1
    <2> QED
      BY <1>0, <2>1, <2>2
  <1>2. Len(ids) = Len(ms) /\ (\A i \in 1..Len(ms) : ids[i] = i) /\ Len(ms) \in Nat
        /\ DOMAIN ms = 1..Len(ms)
    BY <1>1
  <1>3. P \subseteq 1..Len(ms)
    BY DEF FirstPlaces
  <1> DEFINE order == Kept(ids, P)
  <1> HIDE DEF P
  <1>4. PICK f \in [1..Len(order) -> 1..Len(ids)] :
            /\ \A j, k \in 1..Len(order) : j < k => f[j] < f[k]
            /\ \A k \in 1..Len(order) : order[k] = ids[f[k]] /\ ids[f[k]] \in P
            /\ \A i \in 1..Len(ids) : ids[i] \in P => \E k \in 1..Len(order) : f[k] = i
    <2>1. \E f \in [1..Len(Kept(ids, P)) -> 1..Len(ids)] :
            /\ \A j, k \in 1..Len(Kept(ids, P)) : j < k => f[j] < f[k]
            /\ \A k \in 1..Len(Kept(ids, P)) : Kept(ids, P)[k] = ids[f[k]] /\ ids[f[k]] \in P
            /\ \A i \in 1..Len(ids) : ids[i] \in P => \E k \in 1..Len(Kept(ids, P)) : f[k] = i
      BY KeptMap
    <2> QED
      BY <2>1
  <1>5. order \in Seq(N)
    BY KeptElements
  <1>6. Distinct(ms) = [k \in DOMAIN order |-> ms[order[k]]]
    BY <1>1 DEF Distinct, P
  <1> HIDE DEF order
  <1>7. DOMAIN order = 1..Len(order) /\ Len(order) \in Nat
    BY <1>5
  <1>8. \A k \in 1..Len(order) : order[k] = f[k] /\ f[k] \in P /\ f[k] \in 1..Len(ms)
    BY <1>2, <1>4
  <1>9. PICK d \in Seq(Match) : d = [k \in 1..Len(order) |-> ms[f[k]]]
    <2>1. \A k \in 1..Len(order) : ms[f[k]] \in Match
      BY <1>2, <1>8
    <2>2. [k \in 1..Len(order) |-> ms[f[k]]] \in Seq(Match)
      BY <1>7, <2>1
    <2> QED
      BY <2>2
  <1>10. d = Distinct(ms)
    BY <1>6, <1>7, <1>8, <1>9
  <1>11. Len(d) = Len(order) /\ \A k \in 1..Len(order) : d[k] = ms[f[k]]
    BY <1>7, <1>9
  <1>12. \A i \in P : \E k \in 1..Len(order) : f[k] = i
    BY <1>2, <1>3, <1>4
  <1>13. f \in [1..Len(d) -> 1..Len(ms)]
    BY <1>2, <1>11
  <1>14. /\ \A j, k \in 1..Len(d) : j < k => f[j] < f[k]
         /\ \A k \in 1..Len(d) : d[k] = ms[f[k]] /\ f[k] \in P
         /\ \A i \in P : \E k \in 1..Len(d) : f[k] = i
    BY <1>4, <1>8, <1>11, <1>12
  <1>15. \E g \in [1..Len(d) -> 1..Len(ms)] :
            /\ \A j, k \in 1..Len(d) : j < k => g[j] < g[k]
            /\ \A k \in 1..Len(d) : d[k] = ms[g[k]]
            /\ \A k \in 1..Len(d) : g[k] \in P
            /\ \A i \in P : \E k \in 1..Len(d) : g[k] = i
    BY <1>13, <1>14
  <1> QED
    BY <1>10, <1>15 DEF P

\* The answer has no game twice, its better matches first, and no room for those it
\* leaves out.
LEMMA BestList ==
  ASSUME NEW ms \in Seq(Match)
  PROVE  LET r == BestOf(ms)
         IN  /\ r \in Seq(Match) /\ Len(r) <= MaxResults
             /\ \A i, j \in DOMAIN r : i < j => /\ r[i].game # r[j].game
                                                /\ r[i].priority >= r[j].priority
             /\ \A m \in ToSet(ms) : \/ \E i \in DOMAIN r : r[i].game = m.game
                                     \/ /\ Len(r) = MaxResults
                                        /\ \A i \in DOMAIN r : r[i].priority >= m.priority
  <1>0. MaxResults \in Nat
    BY AutocompleteAssumption
  <1>1. PICK s \in Seq(Match) : s = Sorted(ms)
    BY SortedList
  <1>2. /\ ToSet(s) = ToSet(ms)
        /\ \A i, j \in 1..Len(s) : i < j => s[i].priority >= s[j].priority
    BY <1>1, SortedList
  <1> DEFINE d == Distinct(s)
  <1>3. d \in Seq(Match)
    BY DistinctList
  <1>4. PICK f \in [1..Len(d) -> 1..Len(s)] :
            /\ \A j, k \in 1..Len(d) : j < k => f[j] < f[k]
            /\ \A k \in 1..Len(d) : d[k] = s[f[k]]
            /\ \A k \in 1..Len(d) : f[k] \in FirstPlaces(s)
            /\ \A i \in FirstPlaces(s) : \E k \in 1..Len(d) : f[k] = i
    BY ONLY s \in Seq(Match), DistinctList
  <1> HIDE DEF d
  <1>5. Len(s) \in Nat /\ Len(d) \in Nat /\ DOMAIN s = 1..Len(s) /\ DOMAIN d = 1..Len(d)
    BY <1>3
  <1>6. PICK n \in 0..Len(d) : n = IF MaxResults < Len(d) THEN MaxResults ELSE Len(d)
    <2>1. (IF MaxResults < Len(d) THEN MaxResults ELSE Len(d)) \in 0..Len(d)
      BY <1>0, <1>5
    <2> QED
      BY <2>1
  <1>6a. n <= MaxResults
    <2>1. CASE MaxResults < Len(d)
      BY ONLY <1>0, <1>6, <2>1
    <2>2. CASE ~(MaxResults < Len(d))
      BY ONLY <1>0, <1>5, <1>6, <2>2
    <2> QED
      BY <2>1, <2>2
  <1>7. PICK r \in Seq(Match) : r = SubSeq(d, 1, n)
    BY <1>3, <1>6, Trimmed
  <1>8. Len(r) = n /\ DOMAIN r = 1..n /\ \A i \in 1..n : r[i] = d[i] /\ i \in 1..Len(d)
    <2>1. Len(r) = n /\ DOMAIN r = 1..n /\ \A i \in 1..n : r[i] = d[i]
      BY <1>3, <1>6, <1>7, Trimmed
    <2>2. \A i \in 1..n : i \in 1..Len(d)
      BY ONLY <1>5, n \in 0..Len(d)
    <2> QED
      BY <2>1, <2>2
  <1>9. r = BestOf(ms)
    BY <1>1, <1>6, <1>7 DEF BestOf, Cut, d
  <1>10. \A i \in 1..Len(s) : s[i] \in Match /\ s[i].priority \in Int
    <2>1. \A i \in 1..Len(s) : s[i] \in Match
      OBVIOUS
    <2>2. \A m \in Match : m.priority \in Int
      BY DEF Match
    <2> QED
      BY <2>1, <2>2
  <1>11. ASSUME NEW i \in 1..n, NEW j \in 1..n, i < j
         PROVE  r[i].game # r[j].game /\ r[i].priority >= r[j].priority
    <2>1. /\ r[i] = s[f[i]] /\ r[j] = s[f[j]] /\ f[i] < f[j] /\ f[j] \in FirstPlaces(s)
          /\ f[i] \in 1..Len(s) /\ f[j] \in 1..Len(s)
      BY <1>4, <1>8, <1>11
    <2>2. f[i] \in 1..(f[j] - 1)
      BY <1>5, <2>1
    <2> QED
      BY <1>2, <2>1, <2>2 DEF FirstPlaces
  <1>12. ASSUME NEW m \in ToSet(ms)
         PROVE  \/ \E i \in DOMAIN r : r[i].game = m.game
                \/ Len(r) = MaxResults /\ \A i \in DOMAIN r : r[i].priority >= m.priority
    <2>1. PICK p \in 1..Len(s) : s[p] = m
      BY <1>2, <1>5 DEF ToSet
    <2> DEFINE T == {q \in 1..Len(s) : s[q].game = m.game}
    <2>2. T \subseteq Nat /\ p \in T
      BY <1>5, <2>1
    <2>3. PICK q \in T : \A y \in T : q <= y
      BY <2>2, LeastExists
    <2>4. q \in FirstPlaces(s)
      BY <1>5, <2>3 DEF FirstPlaces
    <2>5. s[q].priority >= m.priority
      <3>1. q = p \/ q < p
        BY <1>5, <2>2, <2>3
      <3>2. q \in 1..Len(s) /\ s[q].priority \in Int
        BY <1>10, <2>3
      <3> QED
        BY <1>2, <2>1, <3>1, <3>2
    <2>6. PICK k \in 1..Len(d) : f[k] = q
      BY <1>4, <2>4
    <2>7. CASE k <= n
      <3>1. k \in DOMAIN r /\ r[k] = s[q]
        BY <1>4, <1>6, <1>8, <2>6, <2>7
      <3> QED
        BY <2>3, <3>1
    <2>8. CASE ~(k <= n)
      <3>0. /\ n \in Int /\ k \in Int /\ Len(d) \in Int /\ MaxResults \in Int
            /\ k <= Len(d) /\ n <= Len(d) /\ n < k
        BY <1>0, <1>5, <2>8
      <3>1. Len(r) = MaxResults
        BY <1>6, <1>8, <3>0
      <3>2. ASSUME NEW i \in 1..n PROVE r[i].priority >= m.priority
        <4>1. i < k /\ i \in 1..Len(d)
          BY <3>0
        <4>2. f[i] < q /\ r[i] = s[f[i]] /\ f[i] \in 1..Len(s) /\ q \in 1..Len(s)
          BY <1>4, <1>8, <2>6, <4>1
        <4>3. r[i].priority >= s[q].priority
          BY <1>2, <4>2
        <4>4. r[i].priority \in Int /\ s[q].priority \in Int /\ m.priority \in Int
          BY <1>10, <2>1, <4>2
        <4>5. PICK x \in Int : x = r[i].priority
          BY <4>4
        <4>6. PICK y \in Int : y = s[q].priority
          BY <4>4
        <4>7. PICK z \in Int : z = m.priority
          BY <4>4
        <4>8. x >= y /\ y >= z
          BY ONLY <2>5, <4>3, <4>5, <4>6, <4>7
        <4>9. x >= z
          BY ONLY <4>8, x \in Int, y \in Int, z \in Int
        <4> QED
          BY ONLY <4>5, <4>7, <4>9
      <3> QED
        BY <1>8, <3>1, <3>2
    <2> QED
      BY <2>7, <2>8
  <1>13. Len(r) <= MaxResults
    BY ONLY <1>6a, <1>8
  <1> QED
    BY <1>8, <1>9, <1>11, <1>12, <1>13

ScanState == [pc: {"scan", "sort"}, owed: SUBSET Hits, matches: Seq(Match),
              iterations: 0..MaxIterations, whole: BOOLEAN, steady: SUBSET Hits]

\* The type of the scan, when there is one.
LEMMA ScanTypes ==
  ASSUME AutocompleteTypeOK, scan # NoScan
  PROVE  scan \in ScanState
  BY DEF AutocompleteTypeOK, ScanState

\* A step of SCAN extends the matches by those among the returned records.
LEMMA BatchMatches ==
  ASSUME AutocompleteTypeOK, scan # NoScan, NEW returned \in Returned, Batch(returned)
  PROVE  /\ scan'.matches \in Seq(Match)
         /\ ToSet(scan.matches) \subseteq ToSet(scan'.matches)
         /\ \A g \in ToSet(returned) : Matches(record[g]) =>
               [game |-> g, priority |-> Priority[record[g]]] \in ToSet(scan'.matches)
         /\ returned \in Seq(Hits)
  <1> DEFINE fitting == {g \in ToSet(returned) : Matches(record[g])}
             found == Kept(returned, fitting)
             Fit(g) == [game |-> g, priority |-> Priority[record[g]]]
             more == [i \in DOMAIN found |-> Fit(found[i])]
  <1>1. returned \in Seq(Hits)
    <2>1. PICK x \in SUBSET Hits : returned \in SetToSeqs(x)
      BY DEF Returned
    <2>2. IsFiniteSet(x)
      BY FS_Subset, AutocompleteAssumption
    <2>3. Cardinality(x) \in Nat /\ returned \in [1..Cardinality(x) -> Hits]
      BY <2>1, <2>2, FS_CardinalityType DEF SetToSeqs
    <2> QED
      BY <2>3
  <1>2. found \in Seq(Hits) /\ ToSet(found) = ToSet(returned) \cap fitting
        /\ \A i \in 1..Len(found) : found[i] \in fitting
    BY <1>1, KeptElements
  <1>3. scan \in ScanState /\ scan.matches \in Seq(Match)
    BY ScanTypes DEF ScanState
  <1>4. scan'.matches = scan.matches \o more
    BY <1>3 DEF Batch, ScanState
  <1>5. ToSet(returned) \subseteq Hits
    BY <1>1, ElementsFinite
  <1>6. \A g \in fitting : Fit(g) \in Match
    <2> TAKE g \in fitting
    <2>1. record[g] \in Fits /\ Priority[record[g]] > 0
      BY <1>5 DEF AutocompleteTypeOK, Matches
    <2>2. Priority[record[g]] \in {2, 3}
      BY <2>1 DEF Fits, Priority
    <2> QED
      BY <1>5, <2>2 DEF Match
  <1> HIDE DEF found, Fit, fitting
  <1>7. DOMAIN found = 1..Len(found) /\ Len(found) \in Nat
    BY <1>2
  <1>8. PICK b \in Seq(Match) : b = more
    <2>1. \A i \in 1..Len(found) : Fit(found[i]) \in Match
      BY <1>2, <1>6
    <2>2. more \in Seq(Match)
      BY <1>7, <2>1
    <2> QED
      BY <2>2
  <1>9. DOMAIN b = DOMAIN found /\ \A i \in DOMAIN found : b[i] = Fit(found[i])
    BY <1>8
  <1> HIDE DEF more
  <1>10. /\ scan'.matches \in Seq(Match)
         /\ ToSet(scan'.matches) = ToSet(scan.matches) \cup ToSet(b)
    BY <1>3, <1>4, <1>8, Joined, JoinedElements
  <1>11. ASSUME NEW g \in ToSet(returned), Matches(record[g])
         PROVE  Fit(g) \in ToSet(b)
    <2>1. g \in ToSet(found)
      BY <1>2, <1>11 DEF fitting
    <2>2. PICK i \in DOMAIN found : found[i] = g
      BY <2>1 DEF ToSet
    <2> QED
      BY <1>9, <2>2 DEF ToSet
  <1> QED
    BY <1>1, <1>10, <1>11 DEF Fit

\* The types are kept.
LEMMA AutocompleteTypesArePreserved ==
  AutocompleteTypeOK /\ [AutocompleteNext]_completeVars => AutocompleteTypeOK'
  <1> SUFFICES ASSUME AutocompleteTypeOK, [AutocompleteNext]_completeVars
               PROVE  AutocompleteTypeOK'
    OBVIOUS
  <1>0. /\ MaxIterations \in Nat /\ MaxIterations >= 1 /\ MaxUpdates \in Nat /\ MaxResults \in Nat
    BY AutocompleteAssumption
  <1>1. ASSUME NEW g \in Hits, NEW fit \in Fits, RecordChanges(g, fit) PROVE AutocompleteTypeOK'
    <2>1. record' \in [Hits -> Fits] /\ updates' \in 0..MaxUpdates /\ shown' = shown
      BY <1>0, <1>1 DEF RecordChanges, AutocompleteTypeOK
    <2>2. CASE scan = NoScan
      BY <1>1, <2>1, <2>2 DEF RecordChanges, AutocompleteTypeOK
    <2>3. CASE scan # NoScan
      <3>1. scan \in ScanState /\ (scan.pc = "scan" => scan.iterations < MaxIterations)
        BY <2>3, ScanTypes DEF AutocompleteTypeOK
      <3>2. scan' = [scan EXCEPT !.owed = IF fit = "absent" THEN scan.owed \ {g} ELSE scan.owed,
                                 !.steady = scan.steady \ {g}]
        BY <1>1, <2>3 DEF RecordChanges
      <3>3. scan' \in ScanState /\ scan'.pc = scan.pc /\ scan'.iterations = scan.iterations
        BY <3>1, <3>2 DEF ScanState
      <3> QED
        BY <2>1, <3>1, <3>3 DEF AutocompleteTypeOK, ScanState
    <2> QED
      BY <2>2, <2>3
  <1>2. ASSUME BeginSearch PROVE AutocompleteTypeOK'
    <2>1. /\ scan' = [pc |-> "scan", owed |-> {g \in Hits : record[g] # "absent"},
                      matches |-> <<>>, iterations |-> 0, whole |-> FALSE, steady |-> Hits]
          /\ record' = record /\ updates' = updates /\ shown' = shown
      BY <1>2 DEF BeginSearch
    <2>2. <<>> \in Seq(Match)
      OBVIOUS
    <2>3. scan' \in ScanState /\ scan'.iterations < MaxIterations
      BY <1>0, <2>1, <2>2 DEF ScanState
    <2> QED
      BY <2>1, <2>3 DEF AutocompleteTypeOK, ScanState
  <1>3. ASSUME NEW returned \in Returned, Batch(returned) PROVE AutocompleteTypeOK'
    <2>1. scan # NoScan /\ scan.pc = "scan"
      BY <1>3 DEF Batch, NoScan
    <2>2. scan \in ScanState /\ scan.iterations < MaxIterations
      BY <2>1, ScanTypes DEF AutocompleteTypeOK
    <2>3. scan'.matches \in Seq(Match)
      BY <1>3, <2>1, BatchMatches
    <2>4. /\ record' = record /\ updates' = updates /\ shown' = shown
          /\ \E ended \in BOOLEAN, owed \in SUBSET Hits, pc \in {"scan", "sort"} :
                /\ scan' = [scan EXCEPT !.matches = scan'.matches, !.owed = owed,
                               !.iterations = scan.iterations + 1, !.whole = ended, !.pc = pc]
                /\ pc = "scan" => scan.iterations + 1 # MaxIterations
      <3> DEFINE fitting == {g \in ToSet(returned) : Matches(record[g])}
                 found == Kept(returned, fitting)
                 matches == scan.matches \o [i \in DOMAIN found |->
                                [game |-> found[i], priority |-> Priority[record[found[i]]]]]
                 owed == scan.owed \ ToSet(returned)
      <3>1. PICK ended \in IF owed = {} THEN BOOLEAN ELSE {FALSE} :
              scan' = [scan EXCEPT !.matches = matches, !.owed = owed, !.iterations = scan.iterations + 1,
                         !.whole = ended,
                         !.pc = IF ended \/ Len(matches) >= Enough \/ scan.iterations + 1 = MaxIterations
                                THEN "sort" ELSE "scan"]
        BY <1>3 DEF Batch
      <3>2. owed \in SUBSET Hits /\ ended \in BOOLEAN
        BY <2>2 DEF ScanState
      <3> HIDE DEF matches, owed
      <3>3. scan'.matches = matches
        BY <2>2, <3>1 DEF ScanState
      <3>4. PICK pc \in {"scan", "sort"} :
               pc = IF ended \/ Len(matches) >= Enough \/ scan.iterations + 1 = MaxIterations
                    THEN "sort" ELSE "scan"
        OBVIOUS
      <3>5. scan' = [scan EXCEPT !.matches = scan'.matches, !.owed = owed,
                        !.iterations = scan.iterations + 1, !.whole = ended, !.pc = pc]
        BY <3>1, <3>3, <3>4
      <3>6. pc = "scan" => scan.iterations + 1 # MaxIterations
        BY <3>4
      <3>7. record' = record /\ updates' = updates /\ shown' = shown
        BY <1>3 DEF Batch
      <3> QED
        BY <3>2, <3>5, <3>6, <3>7
    <2>5. scan.iterations + 1 \in 0..MaxIterations
      BY <1>0, <2>2 DEF ScanState
    <2>6. PICK ended \in BOOLEAN, owed \in SUBSET Hits, pc \in {"scan", "sort"} :
                /\ scan' = [scan EXCEPT !.matches = scan'.matches, !.owed = owed,
                               !.iterations = scan.iterations + 1, !.whole = ended, !.pc = pc]
                /\ pc = "scan" => scan.iterations + 1 # MaxIterations
      BY <2>4
    <2>7. scan' = [pc |-> pc, owed |-> owed, matches |-> scan'.matches,
                   iterations |-> scan.iterations + 1, whole |-> ended, steady |-> scan.steady]
      BY <2>2, <2>6 DEF ScanState
    <2>8. scan' \in ScanState
      BY <2>2, <2>3, <2>5, <2>7 DEF ScanState
    <2>9. scan'.pc = "scan" => scan'.iterations < MaxIterations
      BY <1>0, <2>2, <2>5, <2>6, <2>7
    <2> QED
      BY <2>4, <2>8, <2>9 DEF AutocompleteTypeOK, ScanState
  <1>4. ASSUME AnswerSearch PROVE AutocompleteTypeOK'
    <2>1. scan # NoScan /\ scan.pc = "sort"
      BY <1>4 DEF AnswerSearch, NoScan
    <2>2. scan \in ScanState
      BY <2>1, ScanTypes
    <2>3. BestOf(scan.matches) \in Seq(Match) /\ Len(BestOf(scan.matches)) <= MaxResults
      BY <2>2, BestList DEF ScanState
    <2>4. /\ shown' = [pc |-> "cached", results |-> BestOf(scan.matches), whole |-> scan.whole,
                       fits |-> [g \in scan.steady |-> record[g]]]
          /\ scan' = NoScan /\ record' = record /\ updates' = updates
      BY <1>4 DEF AnswerSearch
    <2>5. [g \in scan.steady |-> record[g]] \in [scan.steady -> Fits] /\ scan.steady \in SUBSET Hits
      BY <2>2 DEF AutocompleteTypeOK, ScanState
    <2>6. [g \in scan.steady |-> record[g]] \in UNION {[games -> Fits] : games \in SUBSET Hits}
      BY <2>5
    <2>7. /\ shown' \in [pc: {"cached"}, results: Seq(Match), whole: BOOLEAN,
                         fits: UNION {[games -> Fits] : games \in SUBSET Hits}]
          /\ Len(shown'.results) <= MaxResults
      BY <2>2, <2>3, <2>4, <2>6 DEF ScanState
    <2> QED
      BY <2>4, <2>7 DEF AutocompleteTypeOK
  <1>5. ASSUME AnswerExpires PROVE AutocompleteTypeOK'
    BY <1>5 DEF AnswerExpires, AutocompleteTypeOK
  <1>6. CASE UNCHANGED completeVars
    BY <1>6 DEF completeVars, AutocompleteTypeOK
  <1> QED
    BY <1>1, <1>2, <1>3, <1>4, <1>5, <1>6 DEF AutocompleteNext

\* What a scan owes: a game that has fitted in the same way since it began has yet to be
\* returned, or its match is among those found.
ScanSound ==
    scan # NoScan =>
        /\ scan.whole => scan.owed = {}
        /\ \A g \in scan.steady : record[g] # "absent" =>
              \/ g \in scan.owed
              \/ Matches(record[g]) =>
                   [game |-> g, priority |-> Priority[record[g]]] \in ToSet(scan.matches)

CompleteInv == AutocompleteTypeOK /\ ScanSound /\ CompletionIsBest

\* An answer that begins from a sound scan is a ranking.
LEMMA AnswerIsBest ==
  ASSUME AutocompleteTypeOK, ScanSound, AnswerSearch
  PROVE  CompletionIsBest'
  <1>1. scan # NoScan /\ scan \in ScanState
    BY ScanTypes DEF AnswerSearch, NoScan
  <1>2. PICK ms \in Seq(Match) : ms = scan.matches
    BY <1>1 DEF ScanState
  <1>3. PICK r : r = BestOf(ms)
    OBVIOUS
  <1>4. /\ \A i, j \in DOMAIN r : i < j => r[i].game # r[j].game /\ r[i].priority >= r[j].priority
        /\ \A m \in ToSet(ms) : \/ \E i \in DOMAIN r : r[i].game = m.game
                                \/ /\ Len(r) = MaxResults
                                   /\ \A i \in DOMAIN r : r[i].priority >= m.priority
    BY <1>3, BestList
  <1>5. /\ shown'.results = r /\ shown'.whole = scan.whole
        /\ shown'.fits = [g \in scan.steady |-> record[g]]
    BY <1>2, <1>3 DEF AnswerSearch
  <1>6. NoGameTwice'
    BY <1>4, <1>5 DEF NoGameTwice
  <1>7. ASSUME scan.whole, NEW g \in scan.steady, Matches(record[g])
        PROVE  \/ \E i \in DOMAIN r : r[i].game = g
               \/ /\ Len(r) = MaxResults
                  /\ \A i \in DOMAIN r : r[i].priority >= Priority[record[g]]
    <2>1. record[g] # "absent"
      BY <1>7 DEF Matches, Priority
    <2>2. [game |-> g, priority |-> Priority[record[g]]] \in ToSet(ms)
      BY <1>1, <1>2, <1>7, <2>1 DEF ScanSound
    <2> QED
      BY <1>4, <2>2
  <1>8. BestAreShown'
    BY <1>5, <1>7 DEF BestAreShown
  <1> QED
    BY <1>6, <1>8 DEF CompletionIsBest

\* The scan stays sound, whatever is written or expires beside it.
LEMMA CompleteIsPreserved == CompleteInv /\ [AutocompleteNext]_completeVars => CompleteInv'
  <1> SUFFICES ASSUME CompleteInv, [AutocompleteNext]_completeVars PROVE CompleteInv'
    OBVIOUS
  <1>0. AutocompleteTypeOK /\ AutocompleteTypeOK' /\ ScanSound /\ CompletionIsBest
    BY AutocompleteTypesArePreserved DEF CompleteInv
  <1>1. ASSUME NEW h \in Hits, NEW fit \in Fits, RecordChanges(h, fit)
        PROVE  ScanSound' /\ CompletionIsBest'
    <2>1. CompletionIsBest'
      BY <1>0, <1>1 DEF RecordChanges, CompletionIsBest, NoGameTwice, BestAreShown
    <2>2. CASE scan = NoScan
      BY <1>1, <2>1, <2>2 DEF RecordChanges, ScanSound
    <2>3. CASE scan # NoScan
      <3>1. scan \in ScanState
        BY <1>0, <2>3, ScanTypes
      <3>2. /\ scan'.owed = IF fit = "absent" THEN scan.owed \ {h} ELSE scan.owed
            /\ scan'.steady = scan.steady \ {h} /\ scan'.whole = scan.whole
            /\ scan'.matches = scan.matches
            /\ \A g \in Hits \ {h} : record'[g] = record[g]
        BY <1>0, <1>1, <2>3, <3>1 DEF RecordChanges, ScanState, AutocompleteTypeOK
      <3>3. \A g \in scan'.steady : g \in Hits \ {h} /\ g \in scan.steady
        BY <3>1, <3>2 DEF ScanState
      <3>4. scan'.whole => scan'.owed = {}
        BY <1>0, <2>3, <3>2 DEF ScanSound
      <3>5. ASSUME NEW g \in scan'.steady, record'[g] # "absent"
            PROVE  \/ g \in scan'.owed
                   \/ Matches(record'[g]) =>
                        [game |-> g, priority |-> Priority[record'[g]]] \in ToSet(scan'.matches)
        BY <1>0, <2>3, <3>2, <3>3, <3>5 DEF ScanSound
      <3>6. ScanSound'
        BY <3>4, <3>5 DEF ScanSound
      <3> QED
        BY <2>1, <3>6
    <2> QED
      BY <2>2, <2>3
  <1>2. ASSUME BeginSearch PROVE ScanSound' /\ CompletionIsBest'
    <2>1. /\ scan'.owed = {g \in Hits : record[g] # "absent"} /\ scan'.whole = FALSE
          /\ scan'.steady = Hits /\ record' = record /\ shown' = shown
      BY <1>2 DEF BeginSearch
    <2>2. ScanSound'
      BY <2>1 DEF ScanSound
    <2> QED
      BY <1>0, <2>1, <2>2 DEF CompletionIsBest, NoGameTwice, BestAreShown
  <1>3. ASSUME NEW returned \in Returned, Batch(returned) PROVE ScanSound' /\ CompletionIsBest'
    <2>1. scan # NoScan
      BY <1>3 DEF Batch, NoScan
    <2>2. scan \in ScanState
      BY <1>0, <2>1, ScanTypes
    <2>3. /\ ToSet(scan.matches) \subseteq ToSet(scan'.matches)
          /\ \A g \in ToSet(returned) : Matches(record[g]) =>
               [game |-> g, priority |-> Priority[record[g]]] \in ToSet(scan'.matches)
      BY <1>0, <1>3, <2>1, BatchMatches
    <2>4. /\ record' = record /\ shown' = shown
          /\ scan'.owed = scan.owed \ ToSet(returned) /\ scan'.steady = scan.steady
          /\ scan'.whole => scan.owed \ ToSet(returned) = {}
      <3> DEFINE fitting == {g \in ToSet(returned) : Matches(record[g])}
                 found == Kept(returned, fitting)
                 matches == scan.matches \o [i \in DOMAIN found |->
                                [game |-> found[i], priority |-> Priority[record[found[i]]]]]
                 owed == scan.owed \ ToSet(returned)
      <3>1. PICK ended \in IF owed = {} THEN BOOLEAN ELSE {FALSE} :
              scan' = [scan EXCEPT !.matches = matches, !.owed = owed, !.iterations = scan.iterations + 1,
                         !.whole = ended,
                         !.pc = IF ended \/ Len(matches) >= Enough \/ scan.iterations + 1 = MaxIterations
                                THEN "sort" ELSE "scan"]
        BY <1>3 DEF Batch
      <3>2. scan'.owed = owed /\ scan'.steady = scan.steady /\ scan'.whole = ended
        <4> HIDE DEF matches, owed
        <4> QED
          BY <2>2, <3>1 DEF ScanState
      <3> QED
        BY <1>3, <3>2 DEF Batch
    <2>5. ASSUME NEW g \in scan.steady, record[g] # "absent"
          PROVE  \/ g \in scan'.owed
                 \/ Matches(record[g]) =>
                      [game |-> g, priority |-> Priority[record[g]]] \in ToSet(scan'.matches)
      BY <1>0, <2>1, <2>3, <2>4, <2>5 DEF ScanSound
    <2>6. ScanSound'
      BY <2>4, <2>5 DEF ScanSound
    <2> QED
      BY <1>0, <2>4, <2>6 DEF CompletionIsBest, NoGameTwice, BestAreShown
  <1>4. ASSUME AnswerSearch PROVE ScanSound' /\ CompletionIsBest'
    <2>1. ScanSound'
      BY <1>4 DEF AnswerSearch, ScanSound
    <2> QED
      BY <1>0, <1>4, <2>1, AnswerIsBest
  <1>5. ASSUME AnswerExpires PROVE ScanSound' /\ CompletionIsBest'
    BY <1>0, <1>5 DEF AnswerExpires, ScanSound, CompletionIsBest, NoGameTwice, BestAreShown
  <1>6. CASE UNCHANGED completeVars
    BY <1>0, <1>6 DEF completeVars, CompleteInv, ScanSound, CompletionIsBest, NoGameTwice, BestAreShown
  <1> QED
    BY <1>0, <1>1, <1>2, <1>3, <1>4, <1>5, <1>6 DEF AutocompleteNext, CompleteInv

\* It holds at first.
LEMMA CompleteHoldsInitially == AutocompleteInit => CompleteInv
  BY AutocompleteAssumption
     DEF AutocompleteInit, CompleteInv, AutocompleteTypeOK, ScanSound, CompletionIsBest,
         NoGameTwice, BestAreShown

\* For any number of games, matches, iterations and changes of the records: an answer has no
\* game twice, its better matches first, and a scan that was not broken off leaves out a
\* game that matched all the while only when the answer is full of matches as good.
THEOREM AnswersRankMatches == AutocompleteSpec => []CompletionIsBest
  <1>1. CompleteInv => CompletionIsBest
    BY DEF CompleteInv
  <1> QED
    BY <1>1, CompleteHoldsInitially, CompleteIsPreserved, PTL DEF AutocompleteSpec

\* The records, scans and answers of the autocompletion stay well typed.
THEOREM AutocompleteTypes == AutocompleteSpec => []AutocompleteTypeOK
  <1>1. CompleteInv => AutocompleteTypeOK
    BY DEF CompleteInv
  <1> QED
    BY <1>1, CompleteHoldsInitially, CompleteIsPreserved, PTL DEF AutocompleteSpec

-----------------------------------------------------------------------------
(* The four parts together *)

\* A behaviour of the parts together is a behaviour of each of them.
THEOREM UserDataParts ==
  UserDataSpec => AdultSpec /\ ProfileImageSpec /\ RecentSearchesSpec /\ AutocompleteSpec
  <1>1. UserDataInit => AdultInit /\ ProfileImageInit /\ RecentSearchesInit /\ AutocompleteInit
    BY DEF UserDataInit
  <1>2. [UserDataNext]_<<adultVars, imageVars, searchVars, completeVars, part>> =>
           /\ [AdultNext]_adultVars /\ [ProfileImageNext]_imageVars
           /\ [RecentSearchesNext]_searchVars /\ [AutocompleteNext]_completeVars
    BY DEF UserDataNext
  <1> QED
    BY <1>1, <1>2, PTL DEF UserDataSpec, AdultSpec, ProfileImageSpec, RecentSearchesSpec,
                           AutocompleteSpec

\* What a user keeps and what a search shows stay well typed, for any numbers of users,
\* persons, images, keywords and games.
THEOREM UserDataTypes == UserDataSpec => []UserDataTypeOK
  <1>1. AdultTypeOK /\ ProfileImageTypeOK /\ RecentSearchesTypeOK /\ AutocompleteTypeOK
           => UserDataTypeOK
    BY DEF UserDataTypeOK
  <1>2. RecentInv => RecentSearchesTypeOK
    BY DEF RecentInv
  <1>3. RecentSearchesSpec => []RecentSearchesTypeOK
    BY <1>2, RecentHoldsInitially, RecentIsPreserved, PTL DEF RecentSearchesSpec
  <1> QED
    BY <1>1, <1>3, UserDataParts, AdultTypes, ProfileImageTypesAreInvariant, AutocompleteTypes, PTL
=============================================================================
