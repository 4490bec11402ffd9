------------------------------ MODULE EmailCodes ------------------------------
(***************************************************************************)
(* The codes mailed for a sign-up or a password reset.  The code, its      *)
(* cooldown and its failure counter are three keys of the cache, each read *)
(* and written by a command of its own: requests for one address           *)
(* interleave between the commands.  A code is the number of its issue;    *)
(* 0 is a typed code that no mail ever held.                               *)
(***************************************************************************)
EXTENDS Naturals, FiniteSets

CONSTANTS
    Addresses, Clients,
    MaxCodes,      \* bound: codes issued per purpose and address
    MaxClock,      \* bound: the clock
    CodeTTL,       \* EMAIL_CODE_TTL_SECONDS
    CooldownTTL,   \* EMAIL_CODE_COOLDOWN_SECONDS
    BlockTTL,      \* EMAIL_CODE_VERIFY_BLOCK_SECONDS
    MaxAttempts    \* EMAIL_CODE_VERIFY_MAX_ATTEMPTS

ASSUME EmailCodesAssumption ==
    /\ IsFiniteSet(Clients)
    /\ MaxCodes \in Nat /\ MaxClock \in Nat /\ MaxAttempts \in Nat \ {0}
    /\ CodeTTL \in Nat \ {0} /\ CooldownTTL \in Nat \ {0} /\ BlockTTL \in Nat
    /\ CodeTTL <= BlockTTL

VARIABLES
    member,      \* table users, by address
    codeEntry,   \* email_code:*
    cooldown,    \* email_code_cooldown:*, the time it expires
    attempts,    \* email_code_attempts:*
    issued,      \* how many codes were issued
    mailed,      \* the code in the last mail, None if the mail server refused it
    client,      \* what each web request is doing
    clock,
    wrong,       \* history: failures counted against the stored code
    spent,       \* history: codes whose sign-up or reset is finished
    overlapped,  \* history: keys with two requests at once
    cut          \* history: where requests about the stored code died

codeVars == <<member, codeEntry, cooldown, attempts, issued, mailed, client, clock,
              wrong, spent, overlapped, cut>>

Keys == {"signup", "password_reset"} \X Addresses
Codes == 1..MaxCodes
None == 0

Entry == [code: Codes \cup {None}, until: Nat]
Counter == [n: 0..MaxAttempts, until: Nat]
NoEntry == [code |-> None, until |-> 0]
NoCounter == [n |-> 0, until |-> 0]

Free == [pc |-> "free"]
Sending == [pc: {"cooldown", "store", "clear", "mail"}, key: Keys,
            seen: {"none", "active", "deactivated", "social"}, code: Codes \cup {None}]
Verifying == [pc: {"compare", "count", "kill", "create", "save", "drop", "uncount"},
              key: Keys, typed: Codes \cup {None}, failed: 0..MaxAttempts]

\* A request that dies before one of these commands leaves the three keys apart
CutPoints == {"clear", "mail", "count", "kill"}

EmailCodesTypeOK ==
    /\ member \in [Addresses -> {"none", "active", "deactivated", "social"}]
    /\ codeEntry \in [Keys -> Entry]
    /\ cooldown \in [Keys -> Nat]
    /\ attempts \in [Keys -> Counter]
    /\ issued \in [Keys -> 0..MaxCodes]
    /\ mailed \in [Keys -> Codes \cup {None}]
    /\ client \in [Clients -> Sending \cup Verifying \cup {Free}]
    /\ clock \in 0..MaxClock
    /\ wrong \in [Keys -> Nat]
    /\ spent \in [Keys -> SUBSET Codes]
    /\ overlapped \subseteq Keys
    /\ cut \in [Keys -> SUBSET CutPoints]

\* An address may already have an account, which may have no password of its own
EmailCodesInit ==
    /\ member \in [Addresses -> {"none", "active", "social"}]
    /\ codeEntry = [k \in Keys |-> NoEntry]
    /\ cooldown = [k \in Keys |-> 0]
    /\ attempts = [k \in Keys |-> NoCounter]
    /\ issued = [k \in Keys |-> 0]
    /\ mailed = [k \in Keys |-> None]
    /\ client = [c \in Clients |-> Free]
    /\ clock = 0
    /\ wrong = [k \in Keys |-> 0]
    /\ spent = [k \in Keys |-> {}]
    /\ overlapped = {}
    /\ cut = [k \in Keys |-> {}]

-----------------------------------------------------------------------------
\* cache.get, of keys that PassTime takes away when they expire
StoredCode(k) == codeEntry[k].code
CoolingDown(k) == cooldown[k] # 0
FailedAttempts(k) == attempts[k].n

Goto(c, rec) == client' = [client EXCEPT ![c] = rec]
End(c) == Goto(c, Free)
At(c, pc) == client[c].pc = pc
OnKey(k) == {c \in Clients : client[c].pc # "free" /\ client[c].key = k}

\* A request takes up a key; the history notes whether another one is at it
TakeUp(c, rec) ==
    /\ At(c, "free")
    /\ Goto(c, rec)
    /\ overlapped' = IF OnKey(rec.key) = {} THEN overlapped
                     ELSE overlapped \cup {rec.key}

DeleteCode(k) == codeEntry' = [codeEntry EXCEPT ![k] = NoEntry]
DeleteCounter(k) == attempts' = [attempts EXCEPT ![k] = NoCounter]

-----------------------------------------------------------------------------
(* send_email_code *)

\* EMAIL_ALREADY_EXISTS and TOO_MANY_REQUESTS end the request with nothing changed
SendLookup(c, k) ==
    /\ k[1] = "signup" => member[k[2]] = "none"
    /\ ~CoolingDown(k)
    /\ TakeUp(c, [pc |-> "cooldown", key |-> k, seen |-> member[k[2]], code |-> None])
    /\ UNCHANGED <<member, codeEntry, cooldown, attempts, issued, mailed, clock,
                   wrong, spent, cut>>

\* an account that cannot reset its password gets the same answer and no code
ShouldIssue(k, seen) == IF k[1] = "signup" THEN seen = "none" ELSE seen = "active"

\* mutated form: the cooldown key is never written
SetCooldownNot(c) ==
    /\ At(c, "cooldown")
    /\ LET rec == client[c] IN
         IF ShouldIssue(rec.key, rec.seen) THEN Goto(c, [rec EXCEPT !.pc = "store"])
                                           ELSE End(c)
    /\ UNCHANGED <<member, codeEntry, cooldown, attempts, issued, mailed, clock,
                   wrong, spent, overlapped, cut>>
SetCooldown(c) ==
    /\ At(c, "cooldown")
    /\ LET rec == client[c] IN
         /\ cooldown' = [cooldown EXCEPT ![rec.key] = clock + CooldownTTL]
         /\ IF ShouldIssue(rec.key, rec.seen) THEN Goto(c, [rec EXCEPT !.pc = "store"])
                                              ELSE End(c)
    /\ UNCHANGED <<member, codeEntry, attempts, issued, mailed, clock, wrong, spent,
                   overlapped, cut>>

\* mutated form: cache.add, which keeps a code that is still alive
StoreIfMissing(c) ==
    /\ At(c, "store")
    /\ LET k == client[c].key  code == issued[k] + 1 IN
         /\ code \in Codes
         /\ issued' = [issued EXCEPT ![k] = code]
         /\ codeEntry' = IF StoredCode(k) # None THEN codeEntry ELSE
                           [codeEntry EXCEPT ![k] = [code |-> code, until |-> clock + CodeTTL]]
         /\ wrong' = [wrong EXCEPT ![k] = 0]
         /\ cut' = [cut EXCEPT ![k] = {}]
         /\ Goto(c, [client[c] EXCEPT !.pc = "clear", !.code = code])
    /\ UNCHANGED <<member, cooldown, attempts, mailed, clock, spent, overlapped>>
StoreCode(c) ==
    /\ At(c, "store")
    /\ LET k == client[c].key  code == issued[k] + 1 IN
         /\ code \in Codes
         /\ issued' = [issued EXCEPT ![k] = code]
         /\ codeEntry' = [codeEntry EXCEPT ![k] = [code |-> code, until |-> clock + CodeTTL]]
         /\ wrong' = [wrong EXCEPT ![k] = 0]
         /\ cut' = [cut EXCEPT ![k] = {}]
         /\ Goto(c, [client[c] EXCEPT !.pc = "clear", !.code = code])
    /\ UNCHANGED <<member, cooldown, attempts, mailed, clock, spent, overlapped>>

ClearAttempts(c) ==
    /\ At(c, "clear")
    /\ DeleteCounter(client[c].key)
    /\ Goto(c, [client[c] EXCEPT !.pc = "mail"])
    /\ UNCHANGED <<member, codeEntry, cooldown, issued, mailed, clock, wrong, spent,
                   overlapped, cut>>

\* send_mail; when it raises, the code and the cooldown stay as they are
SendMail(c) ==
    /\ At(c, "mail")
    /\ \E raises \in BOOLEAN :
         mailed' = [mailed EXCEPT ![client[c].key] = IF raises THEN None ELSE client[c].code]
    /\ End(c)
    /\ UNCHANGED <<member, codeEntry, cooldown, attempts, issued, clock, wrong, spent,
                   overlapped, cut>>

-----------------------------------------------------------------------------
(* reset_user_password *)

Typed(k) == {None} \cup 1..issued[k]

\* too many attempts end the request with nothing changed
\* mutated form: one attempt too many (failed_attempts > EMAIL_CODE_VERIFY_MAX_ATTEMPTS)
ReadAttemptsLate(c, k, typed) ==
    /\ k[1] = "password_reset"
    /\ FailedAttempts(k) <= MaxAttempts
    /\ TakeUp(c, [pc |-> "compare", key |-> k, typed |-> typed,
                 failed |-> FailedAttempts(k)])
    /\ UNCHANGED <<member, codeEntry, cooldown, attempts, issued, mailed, clock,
                   wrong, spent, cut>>
ReadAttempts(c, k, typed) ==
    /\ k[1] = "password_reset"
    /\ FailedAttempts(k) < MaxAttempts
    /\ TakeUp(c, [pc |-> "compare", key |-> k, typed |-> typed,
                 failed |-> FailedAttempts(k)])
    /\ UNCHANGED <<member, codeEntry, cooldown, attempts, issued, mailed, clock,
                   wrong, spent, cut>>

\* A failure with no code stored is counted too.  Of the right code, the account is
\* looked up and the new password is validated before anything is written.
Compare(c) ==
    /\ At(c, "compare")
    /\ LET rec == client[c]
           stored == StoredCode(rec.key)
       IN IF stored # None /\ stored = rec.typed
            THEN /\ \/ member[rec.key[2]] = "active" /\ Goto(c, [rec EXCEPT !.pc = "save"])
                    \/ End(c)
                 /\ UNCHANGED wrong
            ELSE /\ Goto(c, [rec EXCEPT !.pc = "count", !.failed = rec.failed + 1])
                 /\ wrong' = IF stored = None THEN wrong
                             ELSE [wrong EXCEPT ![rec.key] = @ + 1]
    /\ UNCHANGED <<member, codeEntry, cooldown, attempts, issued, mailed, clock,
                   spent, overlapped, cut>>

\* mutated form: the counter lives no longer than the cooldown
CountFailureBriefly(c) ==
    /\ At(c, "count")
    /\ LET rec == client[c] IN
         /\ attempts' = [attempts EXCEPT ![rec.key] =
                           [n |-> rec.failed, until |-> clock + CooldownTTL]]
         /\ IF rec.failed >= MaxAttempts THEN Goto(c, [rec EXCEPT !.pc = "kill"]) ELSE End(c)
    /\ UNCHANGED <<member, codeEntry, cooldown, issued, mailed, clock, wrong, spent,
                   overlapped, cut>>
\* mutated form: the code survives the last failure
CountWithoutKill(c) ==
    /\ At(c, "count")
    /\ LET rec == client[c] IN
         attempts' = [attempts EXCEPT ![rec.key] =
                        [n |-> rec.failed % MaxAttempts, until |-> clock + BlockTTL]]
    /\ End(c)
    /\ UNCHANGED <<member, codeEntry, cooldown, issued, mailed, clock, wrong, spent,
                   overlapped, cut>>
CountFailed(c) ==
    /\ At(c, "count")
    /\ LET rec == client[c] IN
         /\ attempts' = [attempts EXCEPT ![rec.key] =
                           [n |-> rec.failed, until |-> clock + BlockTTL]]
         /\ IF rec.failed >= MaxAttempts THEN Goto(c, [rec EXCEPT !.pc = "kill"]) ELSE End(c)
    /\ UNCHANGED <<member, codeEntry, cooldown, issued, mailed, clock, wrong, spent,
                   overlapped, cut>>

KillCode(c) ==
    /\ At(c, "kill")
    /\ DeleteCode(client[c].key)
    /\ End(c)
    /\ UNCHANGED <<member, cooldown, attempts, issued, mailed, clock, wrong, spent,
                   overlapped, cut>>

\* set_password, save and revoke_all_refresh_tokens (module AuthSession)
SavePassword(c) ==
    /\ At(c, "save")
    /\ Goto(c, [client[c] EXCEPT !.pc = "drop"])
    /\ UNCHANGED <<member, codeEntry, cooldown, attempts, issued, mailed, clock,
                   wrong, spent, overlapped, cut>>

-----------------------------------------------------------------------------
(* signup_user: a wrong code is not counted *)

SignupCheck(c, k, typed) ==
    /\ k[1] = "signup"
    /\ member[k[2]] = "none"
    /\ StoredCode(k) # None /\ StoredCode(k) = typed
    /\ TakeUp(c, [pc |-> "create", key |-> k, typed |-> typed, failed |-> 0])
    /\ UNCHANGED <<member, codeEntry, cooldown, attempts, issued, mailed, clock,
                   wrong, spent, cut>>

\* create_user: the unique address fails the later of two sign-ups
CreateMember(c) ==
    /\ At(c, "create")
    /\ LET a == client[c].key[2] IN
         IF member[a] = "none"
           THEN /\ member' = [member EXCEPT ![a] = "active"]
                /\ Goto(c, [client[c] EXCEPT !.pc = "drop"])
           ELSE End(c) /\ UNCHANGED member
    /\ UNCHANGED <<codeEntry, cooldown, attempts, issued, mailed, clock, wrong, spent,
                   overlapped, cut>>

\* The last two commands of a sign-up and of a reset
\* mutated form: the code is left to expire
DropNothing(c) ==
    /\ At(c, "drop")
    /\ spent' = [spent EXCEPT ![client[c].key] = @ \cup {client[c].typed}]
    /\ Goto(c, [client[c] EXCEPT !.pc = "uncount"])
    /\ UNCHANGED <<member, codeEntry, cooldown, attempts, issued, mailed, clock,
                   wrong, overlapped, cut>>
DropCode(c) ==
    /\ At(c, "drop")
    /\ DeleteCode(client[c].key)
    /\ spent' = [spent EXCEPT ![client[c].key] = @ \cup {client[c].typed}]
    /\ Goto(c, [client[c] EXCEPT !.pc = "uncount"])
    /\ UNCHANGED <<member, cooldown, attempts, issued, mailed, clock, wrong,
                   overlapped, cut>>

DropCounter(c) ==
    /\ At(c, "uncount")
    /\ DeleteCounter(client[c].key)
    /\ End(c)
    /\ UNCHANGED <<member, codeEntry, cooldown, issued, mailed, clock, wrong, spent,
                   overlapped, cut>>

-----------------------------------------------------------------------------
\* The user deletes the account, or an administrator deactivates it (AuthSession)
Deactivate(a) ==
    /\ member[a] = "active"
    /\ member' = [member EXCEPT ![a] = "deactivated"]
    /\ UNCHANGED <<codeEntry, cooldown, attempts, issued, mailed, client, clock,
                   wrong, spent, overlapped, cut>>

\* The clock moves on and the cache forgets the keys that expire
PassTime ==
    /\ clock < MaxClock
    /\ clock' = clock + 1
    /\ codeEntry' = [k \in Keys |-> IF codeEntry[k].until > clock' THEN codeEntry[k] ELSE NoEntry]
    /\ cooldown' = [k \in Keys |-> IF cooldown[k] > clock' THEN cooldown[k] ELSE 0]
    /\ attempts' = [k \in Keys |-> IF attempts[k].until > clock' THEN attempts[k] ELSE NoCounter]
    /\ UNCHANGED <<member, issued, mailed, client, wrong, spent, overlapped, cut>>

\* The process is killed, or the next command of the cache or the database raises: what
\* the request did so far stays
CodeRequestDies(c) ==
    /\ ~At(c, "free")
    /\ cut' = [cut EXCEPT ![client[c].key] = @ \cup ({client[c].pc} \cap CutPoints)]
    /\ End(c)
    /\ UNCHANGED <<member, codeEntry, cooldown, attempts, issued, mailed, clock, wrong,
                   spent, overlapped>>

SendEmailCode(c) ==
    \/ \E k \in Keys : SendLookup(c, k)
    \/ SetCooldown(c) \/ StoreCode(c) \/ ClearAttempts(c) \/ SendMail(c)
ResetPassword(c) ==
    \/ \E k \in Keys : \E typed \in Typed(k) : ReadAttempts(c, k, typed)
    \/ Compare(c) \/ CountFailed(c) \/ KillCode(c) \/ SavePassword(c)
SignupWithCode(c) ==
    \/ \E k \in Keys : \E typed \in Typed(k) : SignupCheck(c, k, typed)
    \/ CreateMember(c)

EmailCodesNext ==
    \/ \E c \in Clients : SendEmailCode(c) \/ ResetPassword(c) \/ SignupWithCode(c)
                            \/ DropCode(c) \/ DropCounter(c) \/ CodeRequestDies(c)
    \/ \E a \in Addresses : Deactivate(a)
    \/ PassTime

EmailCodesSpec == EmailCodesInit /\ [][EmailCodesNext]_codeVars

-----------------------------------------------------------------------------
(* Properties *)

\* A code that has opened an account or changed a password is gone from the cache once
\* the request deleted it, and no later step of another request brings it back.
SpentCodeIsGone == \A k \in Keys : codeEntry[k].code \notin spent[k]

\* As long as requests for an address come one at a time, the failure counter says how
\* often the live code was guessed wrong: it neither expires before the code nor
\* carries failures of an earlier code, and the last failure takes the code away.  A
\* request that dies takes away just one part of it.  Before ClearAttempts, the new code
\* starts with the failures of the one before it; before CountFailed, a guess goes
\* uncounted; before KillCode, the code outlives its last failure and cannot be tried.
SerialCounterIsExact ==
    \A k \in Keys :
        k[1] = "password_reset" /\ k \notin overlapped /\ OnKey(k) = {} /\ StoredCode(k) # None =>
            /\ "count" \notin cut[k] => wrong[k] <= FailedAttempts(k)
            /\ cut[k] \cap {"clear", "count"} = {} => FailedAttempts(k) = wrong[k]
            /\ cut[k] \cap {"clear", "kill"} = {} => FailedAttempts(k) < MaxAttempts

\* Two requests at a time may write the same count back, or an old one: then more
\* guesses than MaxAttempts reach one code, but never more than this, unless a request
\* died between its comparison and the command that counts it or deletes the code.
ParallelGuessesBounded ==
    Cardinality(Clients) <= 2 =>
        \A k \in Keys : cut[k] \cap {"count", "kill"} = {} =>
            wrong[k] <= (MaxAttempts * (MaxAttempts + 3)) \div 2

\* Whatever the interleaving, a client issues at most one code per cooldown: the
\* cooldown is read before it is set, so each client may slip through once.
IssuedPerCooldown ==
    \A k \in Keys : issued[k] <= Cardinality(Clients) * (1 + clock \div CooldownTTL)

\* As long as requests for an address come one at a time, the code the cache compares
\* with is the one of the last mail, unless that mail could not be sent or the request
\* died after it stored the code: no mail before it holds a code that still works, and
\* the code of the last one works until it expires.
LatestMailWorks ==
    \A k \in Keys :
        k \notin overlapped /\ OnKey(k) = {} /\ StoredCode(k) # None
        /\ cut[k] \cap {"clear", "mail"} = {} =>
            mailed[k] \in {None, StoredCode(k)}

\* For an address whose requests do not overlap, the three cache keys belong together:
\* the code is the one mailed and the counter is its own, up to what a dead request left.
SerialCodesWork == SerialCounterIsExact /\ LatestMailWorks

\* For overlapping requests, the two limits (attempts and cooldown) are exceeded by a
\* bounded number of guesses and of mails.
ParallelLimits == ParallelGuessesBounded /\ IssuedPerCooldown
=============================================================================
