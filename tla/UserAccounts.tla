---------------------------- MODULE UserAccounts ----------------------------
(***************************************************************************)
(* Sign-up, credential checks with lockout, verification and reset tokens, *)
(* and the admin operations on an account: UsersService,                   *)
(* VerificationService and AuthService.validateUser over the in-memory     *)
(* repositories of users and tokens.                                       *)
(*                                                                         *)
(* These repositories answer in the turn of the event loop that asks them, *)
(* so an action is what a handler does between two waits for bcrypt or for *)
(* the audit log.  Whatever a handler read before such a wait may be stale *)
(* after it: UsersRepository.findById returns a copy.  Handlers that share *)
(* a turn alternate at every await; forgot-password handlers do, when one  *)
(* reply from Redis lets several of them past the limiter, so the issue of *)
(* a token is two actions.                                                 *)
(*                                                                         *)
(* Verification and reset tokens travel by mail, through MailQueue.        *)
(***************************************************************************)
EXTENDS Integers, Sequences, FiniteSets, Functions

CONSTANTS
    Emails,       \* addresses, up to case
    Passwords,
    Roles,        \* "user", which a new account has, and the others
    Raws,         \* raw verification tokens: random, never generated twice
    Purposes,     \* which kinds of verification token are asked for
    Requests,     \* slots for HTTP requests in flight
    MaxAttempts,  \* MAX_LOGIN_ATTEMPTS
    MaxUsers,     \* bound: accounts that can be made
    MaxWrong,     \* bound: logins with a wrong password
    MaxResends,   \* bound: broken connections that repeat the push of a mail
    NoEmail, NoPassword, NoUser, NoCopy, NoRecord, NoRaw

ASSUME PurposesAssumption == Purposes \subseteq {"email_verify", "password_reset"}
ASSUME RolesAssumption == "user" \in Roles
ASSUME BoundsAssumption ==
    /\ MaxAttempts \in Nat \ {0} /\ MaxUsers \in Nat /\ MaxWrong \in Nat
    /\ MaxResends \in Nat

VARIABLES
    users,      \* the Map of users in insertion order: an id is a position
    tokens,     \* raw token -> its record in the verification Map, or NoRecord
    redis, unanswered, executed, queue,       \* of MailQueue
    working, sending, mailbox, again, resends,
    lapsed,     \* locks 1 .. lapsed have run out
    req,        \* request slot -> the handler that runs in it
    locks,      \* history: locks set so far, in the order of their deadlines
    wrong,      \* history: logins begun with a wrong password
    failures,   \* history: user -> failed comparisons since the last success
    issues,     \* history: the raw tokens stored, in order, with user and purpose,
                \* and how many were there when older ones were deleted for them
    uses        \* history: raw token -> times it was accepted

history == <<locks, wrong, failures, issues, uses>>
mailVars == <<redis, unanswered, executed, queue, working, sending, mailbox,
              again, resends>>
vars == <<users, tokens, lapsed, req, redis, unanswered, executed, queue, working,
          sending, mailbox, again, resends, locks, wrong, failures, issues, uses>>

\* The mail that carries a raw token.
Mail == INSTANCE MailQueue WITH Mails <- Raws, NoMail <- NoRaw

UserIds == 1 .. MaxUsers

User == [email : Emails, password : Passwords, role : Roles, active : BOOLEAN,
         verified : BOOLEAN, attempts : 0 .. MaxWrong, lock : 0 .. MaxWrong]

Record == [user : UserIds, purpose : Purposes, used : BOOLEAN, expired : BOOLEAN]

ASSUME NullsAssumption == NoRecord \notin Record /\ NoRaw \notin Raws

Request == [phase : {"idle", "hash", "compare", "issue", "rehash", "audit"},
            email : Emails \cup {NoEmail},
            password : Passwords \cup {NoPassword},
            user : UserIds \cup {NoUser},
            copy : User \cup {NoCopy},
            purpose : Purposes \cup {"none"},
            since : Nat,  \* tokens stored before this request deleted older ones
            event : {"none", "activated", "deactivated", "role_changed"}]

Idle == [phase |-> "idle", email |-> NoEmail, password |-> NoPassword,
         user |-> NoUser, copy |-> NoCopy, purpose |-> "none", since |-> 0,
         event |-> "none"]

End(r) == req' = [req EXCEPT ![r] = Idle]

\* findByEmail: the first user with the address.
Owner(e, i) ==
    /\ i \in DOMAIN users
    /\ users[i].email = e
    /\ \A j \in 1 .. i - 1 : users[j].email # e

Taken(e) == \E i \in DOMAIN users : users[i].email = e

\* lockedUntil is in the future.
Locked(u) == u.lock > lapsed

-----------------------------------------------------------------------------
(* POST /auth/signup *)

\* An address in use is refused with 409; then the password is hashed.
BeginSignup(r, e, p) ==
    /\ req[r] = Idle
    /\ Len(users) < MaxUsers
    /\ ~Taken(e)
    /\ req' = [req EXCEPT ![r] = [Idle EXCEPT
           !.phase = "hash", !.email = e, !.password = p]]
    /\ UNCHANGED <<users, tokens, mailVars, lapsed, history>>

\* The account is created without a second look at the address.
CreateUser(r) ==
    /\ req[r].phase = "hash"
    /\ Len(users) < MaxUsers
    /\ users' = Append(users,
           [email |-> req[r].email, password |-> req[r].password,
            role |-> "user", active |-> TRUE, verified |-> FALSE,
            attempts |-> 0, lock |-> 0])
    /\ End(r)
    /\ UNCHANGED <<tokens, mailVars, lapsed, history>>

-----------------------------------------------------------------------------
(* POST /auth/login *)

\* A locked account is refused with 423; then the password is compared with the
\* hash in the copy.  Nobody asks whether the account is active.
BeginLogin(r, e, p) ==
    /\ req[r] = Idle
    /\ \E i \in UserIds :
         /\ Owner(e, i)
         /\ ~Locked(users[i])
         /\ IF p = users[i].password
              THEN UNCHANGED wrong
              ELSE wrong < MaxWrong /\ wrong' = wrong + 1
         /\ req' = [req EXCEPT ![r] = [Idle EXCEPT
                !.phase = "compare", !.user = i, !.password = p,
                !.copy = users[i]]]
    /\ UNCHANGED <<users, tokens, mailVars, lapsed, locks,
                   failures, issues, uses>>

\* Mutant: a failure is counted twice.
Failed_Twice(u) ==
    LET n == u.attempts + 2 IN
    [u EXCEPT !.attempts = n,
              !.lock = IF n >= MaxAttempts THEN locks + 1 ELSE @]

\* incrementFailedLoginAttempts on record u.
Failed(u) ==
    LET n == u.attempts + 1 IN
    [u EXCEPT !.attempts = n,
              !.lock = IF n >= MaxAttempts THEN locks + 1 ELSE @]

\* Mutant: it counts from the copy that was read before the comparison.
RejectLogin_StaleCopy(r) ==
    LET i == req[r].user IN
    /\ req[r].phase = "compare" /\ req[r].password # req[r].copy.password
    /\ users' = [users EXCEPT ![i] = Failed(req[r].copy)]
    /\ locks' = IF users'[i].lock > locks THEN locks + 1 ELSE locks
    /\ failures' = [failures EXCEPT ![i] = @ + 1]
    /\ End(r)
    /\ UNCHANGED <<tokens, mailVars, lapsed, wrong, issues,
                   uses>>

\* The account is read again before the failure is counted.
RejectLogin(r) ==
    LET i == req[r].user IN
    /\ req[r].phase = "compare" /\ req[r].password # req[r].copy.password
    /\ users' = [users EXCEPT ![i] = Failed(@)]
    /\ locks' = IF users'[i].lock > locks THEN locks + 1 ELSE locks
    /\ failures' = [failures EXCEPT ![i] = @ + 1]
    /\ End(r)
    /\ UNCHANGED <<tokens, mailVars, lapsed, wrong, issues,
                   uses>>

\* Mutant: a success clears the counter and leaves the lock.
Cleared_KeepsLock(u) == [u EXCEPT !.attempts = 0]

\* resetFailedLoginAttempts on record u.
Cleared(u) == [u EXCEPT !.attempts = 0, !.lock = 0]

\* The session that AuthService.login opens is that of RefreshRotation.
AdmitLogin(r) ==
    LET i == req[r].user IN
    /\ req[r].phase = "compare" /\ req[r].password = req[r].copy.password
    /\ users' = [users EXCEPT ![i] = Cleared(@)]
    /\ failures' = [failures EXCEPT ![i] = 0]
    /\ End(r)
    /\ UNCHANGED <<tokens, mailVars, lapsed, locks, wrong, issues, uses>>

-----------------------------------------------------------------------------
(* Verification tokens. *)

Fresh(t) == \A n \in DOMAIN issues : issues[n].raw # t

\* Mutant: the older tokens of the user stay.
Outdated_None(i, purpose) == {}

\* Mutant: tokens for the other purpose go as well.
Outdated_AnyPurpose(i, purpose) ==
    {t \in Raws : tokens[t] # NoRecord /\ tokens[t].user = i}

\* deleteVerificationTokensForUser
Outdated(i, purpose) ==
    {t \in Raws : tokens[t] # NoRecord
                    /\ tokens[t].user = i /\ tokens[t].purpose = purpose}

\* Two handlers are between deletion and storage at once only where one reply from
\* Redis resumed both in the limiter of forgot-password.
MayIssue(purpose) ==
    \A q \in Requests : req[q].phase = "issue" =>
        redis /\ purpose = "password_reset" /\ req[q].purpose = "password_reset"

\* Bound: a raw token is left for every request that will store one.
RawsLeft ==
    Cardinality({q \in Requests : req[q].phase = "issue"}) + Len(issues)
        < Cardinality(Raws)

\* POST /auth/resend-verification and /auth/forgot-password: the older tokens are
\* deleted ...
BeginIssue(r, e, purpose) ==
    /\ req[r] = Idle
    /\ MayIssue(purpose) /\ RawsLeft
    /\ \E i \in UserIds :
         /\ Owner(e, i)
         /\ purpose = "email_verify" => ~users[i].verified
         /\ tokens' = [t \in Raws |->
                IF t \in Outdated(i, purpose) THEN NoRecord ELSE tokens[t]]
         /\ req' = [req EXCEPT ![r] = [Idle EXCEPT
                !.phase = "issue", !.user = i, !.purpose = purpose,
                !.since = Len(issues)]]
    /\ UNCHANGED <<users, mailVars, lapsed, history>>

\* ... and after an await the new one is stored.  Its mail is enqueued some awaits
\* later; handlers that alternate come there in the order in which they stored.
FinishIssue(r, t) ==
    LET i == req[r].user  purpose == req[r].purpose IN
    /\ req[r].phase = "issue"
    /\ Fresh(t)
    /\ tokens' = [tokens EXCEPT ![t] = [user |-> i, purpose |-> purpose,
                                        used |-> FALSE, expired |-> FALSE]]
    /\ issues' = Append(issues, [raw |-> t, user |-> i, purpose |-> purpose,
                                 after |-> req[r].since])
    /\ Mail!Enqueue(t)
    /\ End(r)
    /\ UNCHANGED <<users, lapsed, locks, wrong, failures, uses>>

\* Mutant: the end of a token is not looked at.
Usable_Forever(t, purpose) ==
    tokens[t] # NoRecord /\ tokens[t].purpose = purpose /\ ~tokens[t].used

\* Mutant: the token is found by its hash alone.
Usable_AnyPurpose(t, purpose) ==
    tokens[t] # NoRecord /\ ~tokens[t].used /\ ~tokens[t].expired

\* verifyToken accepts t for a purpose ...
Usable(t, purpose) ==
    /\ tokens[t] # NoRecord
    /\ tokens[t].purpose = purpose
    /\ ~tokens[t].used /\ ~tokens[t].expired

\* Mutant: the token is not marked.
Consume_NoMark(t) ==
    /\ UNCHANGED tokens
    /\ uses' = [uses EXCEPT ![t] = @ + 1]

\* ... and marks it used in the same turn.
Consume(t) ==
    /\ tokens' = [tokens EXCEPT ![t].used = TRUE]
    /\ uses' = [uses EXCEPT ![t] = @ + 1]

\* POST /auth/verify-email
VerifyEmail(t) ==
    /\ t \in Range(mailbox)
    /\ Usable(t, "email_verify")
    /\ Consume(t)
    /\ users' = [users EXCEPT ![tokens[t].user].verified = TRUE]
    /\ UNCHANGED <<mailVars, lapsed, req, locks, wrong,
                   failures, issues>>

\* POST /auth/reset-password: the token is consumed, the account is read, and
\* the new password hashed.
BeginReset(r, t, p) ==
    /\ req[r] = Idle
    /\ t \in Range(mailbox)
    /\ Usable(t, "password_reset")
    /\ Consume(t)
    /\ LET i == tokens[t].user IN
       req' = [req EXCEPT ![r] = [Idle EXCEPT
           !.phase = "rehash", !.user = i, !.password = p, !.copy = users[i]]]
    /\ UNCHANGED <<users, mailVars, lapsed, locks, wrong,
                   failures, issues>>

\* The whole copy is saved with the new hash; revokeAllSessions does
\* nothing.
FinishReset(r) ==
    /\ req[r].phase = "rehash"
    /\ users' = [users EXCEPT ![req[r].user] =
                    [req[r].copy EXCEPT !.password = req[r].password]]
    /\ End(r)
    /\ UNCHANGED <<tokens, mailVars, lapsed, history>>

-----------------------------------------------------------------------------
(* The admin endpoints. *)

SetActive(r, i, b) ==
    /\ req[r] = Idle /\ i \in DOMAIN users
    /\ users' = [users EXCEPT ![i].active = b]
    /\ req' = [req EXCEPT ![r] = [Idle EXCEPT
           !.phase = "audit", !.user = i,
           !.event = IF b THEN "activated" ELSE "deactivated"]]
    /\ UNCHANGED <<tokens, mailVars, lapsed, history>>

SetRole(r, i, role) ==
    /\ req[r] = Idle /\ i \in DOMAIN users
    /\ users' = [users EXCEPT ![i].role = role]
    /\ req' = [req EXCEPT ![r] = [Idle EXCEPT
           !.phase = "audit", !.user = i, !.event = "role_changed"]]
    /\ UNCHANGED <<tokens, mailVars, lapsed, history>>

\* The event is written, or the insert fails and the request with it; the account
\* stays as it was changed.
AuditAdmin(r) ==
    /\ req[r].phase = "audit"
    /\ End(r)
    /\ UNCHANGED <<users, tokens, mailVars, lapsed, history>>

-----------------------------------------------------------------------------
(* Time. *)

\* Locks last equally long, so they lapse in the order they were set.
LockLapses ==
    /\ lapsed < locks
    /\ lapsed' = lapsed + 1
    /\ UNCHANGED <<users, tokens, mailVars, req, history>>

TokenExpires(t) ==
    /\ tokens[t] # NoRecord /\ ~tokens[t].expired
    /\ tokens' = [tokens EXCEPT ![t].expired = TRUE]
    /\ UNCHANGED <<users, mailVars, lapsed, req, history>>

Init ==
    /\ users = <<>>
    /\ tokens = [t \in Raws |-> NoRecord]
    /\ Mail!MailInit
    /\ lapsed = 0
    /\ req = [r \in Requests |-> Idle]
    /\ locks = 0
    /\ wrong = 0
    /\ failures = [i \in UserIds |-> 0]
    /\ issues = <<>>
    /\ uses = [t \in Raws |-> 0]

Credentials(r) ==
    \/ \E e \in Emails, p \in Passwords :
          BeginSignup(r, e, p) \/ BeginLogin(r, e, p)
    \/ CreateUser(r)
    \/ RejectLogin(r)
    \/ AdmitLogin(r)

Verification(r) ==
    \/ \E e \in Emails, p \in Purposes : BeginIssue(r, e, p)
    \/ \E t \in Raws : FinishIssue(r, t)
    \/ \E t \in Raws, p \in Passwords : BeginReset(r, t, p)
    \/ FinishReset(r)

Admin(r) ==
    \/ \E i \in UserIds, b \in BOOLEAN : SetActive(r, i, b)
    \/ \E i \in UserIds, role \in Roles : SetRole(r, i, role)
    \/ AuditAdmin(r)

Elsewhere ==
    \/ \E t \in Raws : VerifyEmail(t) \/ TokenExpires(t)
    \/ LockLapses
    \/ /\ Mail!MailNext
       /\ UNCHANGED <<users, tokens, lapsed, req, history>>

Next ==
    \/ \E r \in Requests : Credentials(r) \/ Verification(r) \/ Admin(r)
    \/ Elsewhere

Spec == Init /\ [][Next]_vars

-----------------------------------------------------------------------------
(* Properties. *)

\* Every variable has its type.
TypeOK ==
    /\ users \in Seq(User) /\ Len(users) <= MaxUsers
    /\ tokens \in [Raws -> Record \cup {NoRecord}]
    /\ Mail!MailTypeOK
    /\ lapsed \in 0 .. locks /\ locks \in 0 .. MaxWrong /\ wrong \in 0 .. MaxWrong
    /\ req \in [Requests -> Request]
    /\ failures \in [UserIds -> 0 .. MaxWrong]
    /\ issues \in Seq([raw : Raws, user : UserIds, purpose : Purposes, after : Nat])
    /\ uses \in [Raws -> Nat]

\* A password reset of account i was begun.
WasReset(i) ==
    \E n \in DOMAIN issues : /\ issues[n].user = i
                             /\ issues[n].purpose = "password_reset"
                             /\ uses[issues[n].raw] > 0

\* No failed login is lost, however many compare at the same time: until a reset
\* saves an older copy, the counter of an account is the number of failures since
\* the last success, and the threshold sets the lock (users.service
\* incrementFailedLoginAttempts).
FailuresAreCounted ==
    \A i \in DOMAIN users : ~WasReset(i) =>
        /\ users[i].attempts = failures[i]
        /\ failures[i] >= MaxAttempts <=> users[i].lock # 0

\* Counter and lock of an account agree even when a reset saves a stale copy of
\* both.
LockMatchesCounter ==
    \A i \in DOMAIN users :
        users[i].attempts >= MaxAttempts <=> users[i].lock # 0

\* A verification or reset token is accepted at most once.
TokenUsedOnce == \A t \in Raws : uses[t] <= 1

SameOffer(m, n) ==
    issues[m].user = issues[n].user /\ issues[m].purpose = issues[n].purpose

\* After the n-th token was stored, another request for its user and purpose came to
\* the deletion of older ones.
AskedSince(n) ==
    \/ \E m \in DOMAIN issues : SameOffer(m, n) /\ n <= issues[m].after
    \/ \E r \in Requests : /\ req[r].phase = "issue"
                           /\ req[r].user = issues[n].user
                           /\ req[r].purpose = issues[n].purpose
                           /\ n <= req[r].since

\* Asking for another token puts an end to the ones stored before, and nothing that
\* overlaps with the request brings them back (verification.service
\* createVerificationToken).
AskingEndsEarlier ==
    \A n \in DOMAIN issues : AskedSince(n) => ~Usable(issues[n].raw, issues[n].purpose)

\* Only the last token of a user for a purpose is usable: a resend invalidates old
\* tokens, says createVerificationToken.
OnlyLatestIsUsable ==
    \A m, n \in DOMAIN issues :
        m < n /\ SameOffer(m, n) => ~Usable(issues[m].raw, issues[m].purpose)

\* A token works until it is used, expires, or another is asked for, whatever
\* became of the other tokens and of the mails.
TokenWorksUntilReplaced ==
    \A n \in DOMAIN issues :
        \/ AskedSince(n)
        \/ uses[issues[n].raw] > 0
        \/ tokens[issues[n].raw] # NoRecord /\ tokens[issues[n].raw].expired
        \/ Usable(issues[n].raw, issues[n].purpose)

\* What would be accepted, if it reached the service.
Open == {t \in Raws : tokens[t] # NoRecord /\ ~tokens[t].used /\ ~tokens[t].expired}

\* The first k tokens.
Stored(k) == {issues[n].raw : n \in 1 .. k}

\* VerificationContract, in terms of the records and the history.
Promise == INSTANCE VerificationContract WITH
    Accounts <- UserIds,
    Askers <- Requests,
    asking <- {[asker |-> r, user |-> req[r].user, purpose |-> req[r].purpose,
                seen |-> Stored(req[r].since)] :
                   r \in {q \in Requests : req[q].phase = "issue"}},
    open <- {[user |-> issues[n].user, purpose |-> issues[n].purpose,
              raw |-> issues[n].raw, seen |-> Stored(issues[n].after)] :
                 n \in {m \in DOMAIN issues : issues[m].raw \in Open}},
    issued <- Stored(Len(issues)),
    accepted <- uses

\* The service keeps its promise, whatever becomes of the mails, of the requests that
\* ask for tokens at the same time, and of those that use them: a token is open from
\* its storage until it is accepted, once, or ends, or another is asked for.
KeepsPromise == Promise!ContractSpec

\* A verification mail for account i was answered.
MailAnswered(i) ==
    \E n \in DOMAIN issues : /\ issues[n].user = i
                             /\ issues[n].purpose = "email_verify"
                             /\ uses[issues[n].raw] > 0

\* An address counts as verified only after a mail sent to verify that very account
\* was answered: no token for another purpose and no stale copy of an account saved
\* by a reset makes it so.
VerifiedByMail == \A i \in DOMAIN users : users[i].verified => MailAnswered(i)

\* Through Redis mails come in the order in which their tokens were stored, and none
\* twice, but for those whose push was repeated on another connection: the worker,
\* which may lose any of them, never hands over a mail after a later one.
MailsKeepTheirOrder ==
    redis => \A a, b \in DOMAIN Mail!Pipeline : a < b =>
        \/ {Mail!Pipeline[a], Mail!Pipeline[b]} \subseteq again
        \/ \E m, n \in DOMAIN issues : /\ m < n
                                       /\ issues[m].raw = Mail!Pipeline[a]
                                       /\ issues[n].raw = Mail!Pipeline[b]

\* An address belongs to one account (users.service create refuses an address
\* that is in use).
EmailsAreUnique ==
    \A i, j \in DOMAIN users : users[i].email = users[j].email => i = j

\* A deactivated account becomes active only when an admin activates it.
DeactivationSticks ==
    [][\A i \in DOMAIN users : ~users[i].active /\ users'[i].active =>
         \E r \in Requests : req[r].phase = "idle" /\ req'[r].phase = "audit"
                               /\ req'[r].user = i
                               /\ req'[r].event = "activated"]_vars
=============================================================================
