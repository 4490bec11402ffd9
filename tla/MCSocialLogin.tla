--------------------------- MODULE MCSocialLogin ---------------------------
(***************************************************************************)
(* Instances of SocialLogin and EmailCodes for TLC: the two ways to open   *)
(* an account.                                                             *)
(***************************************************************************)
EXTENDS SocialLogin, EmailCodes, TLC

CONSTANTS u1, u2, e1, e2, e1x, kakao, discord, k1, k2, d1, s1, s2, r1, r2, a1

TwoUsers == {u1, u2}
SomeEmails == {e1, e2, e1x}
\* e1x is e1 with capitals in its domain
DomainInLowerCase == [e \in SomeEmails |-> IF e = e1x THEN e1 ELSE e]
TwoProviders == {kakao, discord}
SomeUids == {k1, k2, d1}
UidProvider == [uid \in SomeUids |-> IF uid = d1 THEN discord ELSE kakao]
\* the owner of k1 may refuse to tell the address
UidEmails == [uid \in SomeUids |-> 
    CASE uid = k1 -> {e1, e2} [] uid = k2 -> {e1} [] uid = d1 -> {e1x}]
TwoStates == {s1, s2}
TwoRequests == {r1, r2}
OneAddress == {a1}

Interchangeable == Permutations(Users) \cup Permutations(States) \cup Permutations(Requests)

-----------------------------------------------------------------------------
\* SocialLogin and EmailCodes share no state, and neither do the codes of the two
\* purposes but for the account a sign-up makes: a run explores one of the three,
\* which reaches every state any of them has in the product.
VARIABLE part

OnlyFor(purpose) == \A c \in Clients : client'[c].pc # "free" => client'[c].key[1] = purpose

\* The stored code is the last one issued, if any: an older one that is typed is as wrong
\* as a code never mailed, which stands for it here
TypedIsLastOrWrong == \A c \in Clients :
    At(c, "free") /\ client'[c].pc = "compare" =>
        client'[c].typed \in {None, issued[client'[c].key]}

\* Bounds: the guesses that one code sees, one more than ParallelGuessesBounded allows (a
\* request that dies before it counts can be repeated for ever), and deaths about a stored
\* code, in behaviours where the requests of its address do not overlap
MaxWrong == (MaxAttempts * (MaxAttempts + 3)) \div 2 + 1
WithinBounds == \A k \in Keys :
    /\ wrong'[k] <= MaxWrong
    /\ cut'[k] = {} \/ k \notin overlapped'

AccountsInit ==
    /\ SocialInit
    /\ EmailCodesInit
    /\ part \in {"social", "signup", "password_reset"}
    /\ part = "social" => \A a \in Addresses : member[a] = "none"

AccountsNext ==
    /\ UNCHANGED part
    /\ \/ part = "social" /\ SocialNext /\ UNCHANGED codeVars
       \/ /\ part # "social" /\ EmailCodesNext /\ UNCHANGED socialVars
          /\ OnlyFor(part) /\ TypedIsLastOrWrong /\ WithinBounds

AccountsSpec == AccountsInit /\ [][AccountsNext]_<<socialVars, codeVars, part>>

\* Every part stays well typed: social logins and e-mail codes.
AccountsTypeOK ==
    /\ SocialTypeOK /\ EmailCodesTypeOK
=============================================================================
