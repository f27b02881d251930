-------------------------- MODULE UserAccountsProofs --------------------------
(***************************************************************************)
(* Lock and counter of an account agree and no failed login is lost: for   *)
(* any number of accounts, tokens, requests and wrong passwords.           *)
(***************************************************************************)
EXTENDS VerificationProofs, FiniteSetTheorems

(* Failed logins. *)

Account == [email : Emails, password : Passwords, role : Roles, active : BOOLEAN,
            verified : BOOLEAN, attempts : Nat, lock : Nat]

\* Requests, with accounts whose counters have no bound.
Slot == [phase : {"idle", "hash", "compare", "issue", "rehash", "audit"},
         email : Emails \cup {NoEmail},
         password : Passwords \cup {NoPassword},
         user : UserIds \cup {NoUser},
         copy : Account \cup {NoCopy},
         purpose : Purposes \cup {"none"},
         since : Nat,
         event : {"none", "activated", "deactivated", "role_changed"}]

\* What a handler remembers is fit for what it does next.
Prepared(s, n) ==
    /\ s.phase \in {"hash"} => s.email \in Emails
    /\ s.phase \in {"hash", "compare", "rehash"} => s.password \in Passwords
    /\ s.phase \in {"compare", "rehash"} => s.user \in 1 .. n /\ s.copy \in Account
    /\ s.phase = "issue" => s.user \in 1 .. n

AccountsTyped ==
    /\ users \in Seq(Account) /\ Len(users) <= MaxUsers
    /\ failures \in [UserIds -> Nat] /\ locks \in Nat
    /\ req \in [Requests -> Slot]
    /\ \A r \in Requests : Prepared(req[r], Len(users))

\* Counter and lock of one account or copy.
Agree(u) == u.attempts >= MaxAttempts <=> u.lock # 0

AllAgree ==
    /\ \A i \in 1 .. Len(users) : Agree(users[i])
    /\ \A r \in Requests : req[r].phase = "rehash" => Agree(req[r].copy)

\* The accounts are a sequence no longer than its bound.
LEMMA UsersAre ==
  ASSUME AccountsTyped
  PROVE  /\ Len(users) \in Nat /\ DOMAIN users = 1 .. Len(users)
         /\ \A i \in 1 .. Len(users) : users[i] \in Account /\ i \in UserIds
<1>1. users \in Seq(Account) /\ Len(users) <= MaxUsers /\ MaxUsers \in Nat
  BY BoundsAssumption DEF AccountsTyped
<1> QED
  BY <1>1 DEF UserIds

\* A request that a handler begins, or ends.
LEMMA SlotsTyped ==
  ASSUME AccountsTyped, NEW r \in Requests, NEW s \in Slot,
         req' = [req EXCEPT ![r] = s],
         NEW n \in Nat, Len(users) <= n, Prepared(s, n)
  PROVE  /\ req' \in [Requests -> Slot] /\ req'[r] = s
         /\ \A q \in Requests \ {r} : req'[q] = req[q]
         /\ \A q \in Requests : Prepared(req'[q], n)
<1>1. req \in [Requests -> Slot] /\ \A q \in Requests : Prepared(req[q], Len(users))
  BY DEF AccountsTyped
<1>2. req' \in [Requests -> Slot] /\ \A q \in Requests : req'[q] = IF q = r THEN s ELSE req[q]
  BY <1>1
<1>3. Len(users) \in Nat
  BY UsersAre
<1> QED
  BY <1>1, <1>2, <1>3 DEF Prepared

\* A free slot is typed and needs no locals.
LEMMA IdleIs == Idle \in Slot /\ \A n : Prepared(Idle, n)
BY DEF Idle, Slot, Prepared

\* An account that is changed in place.
LEMMA UserChanged ==
  ASSUME AccountsTyped, NEW i \in 1 .. Len(users), NEW u \in Account,
         users' = [users EXCEPT ![i] = u]
  PROVE  /\ users' \in Seq(Account) /\ Len(users') = Len(users)
         /\ \A j \in 1 .. Len(users) : users'[j] = IF j = i THEN u ELSE users[j]
<1>1. users \in Seq(Account)
  BY DEF AccountsTyped
<1> QED
  BY <1>1

\* What RejectLogin, AdmitLogin and VerifyEmail make of an account.
LEMMA FailedIs ==
  ASSUME NEW u \in Account, locks \in Nat, Agree(u)
  PROVE  /\ Failed(u) \in Account /\ Agree(Failed(u))
         /\ Failed(u).attempts = u.attempts + 1
<1>1. MaxAttempts \in Nat \ {0}
  BY BoundsAssumption
<1>2. u.attempts \in Nat /\ u.lock \in Nat
  BY DEF Account
<1> DEFINE n == u.attempts + 1
           l == IF n >= MaxAttempts THEN locks + 1 ELSE u.lock
<1>3. Failed(u) = [u EXCEPT !.attempts = n, !.lock = l]
  BY DEF Failed
<1>4. n \in Nat /\ l \in Nat /\ l = IF n >= MaxAttempts THEN locks + 1 ELSE u.lock
  BY <1>1, <1>2
<1>5. n = u.attempts + 1
  OBVIOUS
<1> HIDE DEF n, l
<1>6. Failed(u) \in Account /\ Failed(u).attempts = n /\ Failed(u).lock = l
  BY <1>3, <1>4 DEF Account
<1> QED
  BY <1>1, <1>2, <1>4, <1>5, <1>6 DEF Agree

\* What a reset of the counter leaves of an account.
LEMMA ClearedIs ==
  ASSUME NEW u \in Account
  PROVE  Cleared(u) \in Account /\ Agree(Cleared(u)) /\ Cleared(u).attempts = 0
<1>1. MaxAttempts \in Nat \ {0}
  BY BoundsAssumption
<1>2. Cleared(u) \in Account /\ Cleared(u).attempts = 0 /\ Cleared(u).lock = 0
  BY DEF Cleared, Account
<1> QED
  BY <1>1, <1>2 DEF Agree

LockInv == AccountsTyped /\ AllAgree

\* There are no accounts at the start.
LEMMA LockInit == Init => LockInv
<1> SUFFICES ASSUME Init PROVE LockInv
  OBVIOUS
<1>1. users \in Seq(Account) /\ Len(users) = 0 /\ MaxUsers \in Nat
  BY BoundsAssumption DEF Init
<1>2. req \in [Requests -> Slot] /\ \A r \in Requests : req[r] = Idle
  BY IdleIs DEF Init
<1>3. AccountsTyped
  BY <1>1, <1>2, IdleIs DEF Init, AccountsTyped
<1>4. AllAgree
  BY <1>1, <1>2 DEF AllAgree, Idle
<1> QED
  BY <1>3, <1>4 DEF LockInv

\* A step that begins or ends a handler, and leaves the accounts alone.
LEMMA SlotStep ==
  ASSUME LockInv, NEW r \in Requests, NEW s \in Slot, req' = [req EXCEPT ![r] = s],
         Prepared(s, Len(users)), s.phase = "rehash" => Agree(s.copy),
         UNCHANGED <<users, failures, locks>>
  PROVE  LockInv'
<1>1. AccountsTyped /\ AllAgree /\ Len(users) \in Nat
  BY UsersAre DEF LockInv
<1>2. /\ req' \in [Requests -> Slot] /\ req'[r] = s
      /\ \A q \in Requests \ {r} : req'[q] = req[q]
      /\ \A q \in Requests : Prepared(req'[q], Len(users))
  <2>1. Len(users) <= Len(users)
    BY <1>1
  <2> QED
    BY <1>1, <2>1, SlotsTyped
<1>3. AccountsTyped'
  BY <1>1, <1>2 DEF AccountsTyped
<1>4. AllAgree'
  BY <1>1, <1>2 DEF AllAgree, Agree
<1> QED
  BY <1>3, <1>4 DEF LockInv

\* A step that changes one account, and may end a handler.
LEMMA AccountStep ==
  ASSUME LockInv, NEW i \in 1 .. Len(users), NEW u \in Account, Agree(u),
         users' = [users EXCEPT ![i] = u],
         failures' \in [UserIds -> Nat], locks' \in Nat,
         \/ req' = req
         \/ \E r \in Requests, s \in Slot :
              /\ req' = [req EXCEPT ![r] = s]
              /\ s.phase \in {"idle", "audit"}
  PROVE  LockInv'
<1>1. AccountsTyped /\ AllAgree /\ Len(users) \in Nat
  BY UsersAre DEF LockInv
<1>2. /\ users' \in Seq(Account) /\ Len(users') = Len(users)
      /\ \A j \in 1 .. Len(users) : users'[j] = IF j = i THEN u ELSE users[j]
  BY <1>1, UserChanged
<1>3. \A j \in 1 .. Len(users') : Agree(users'[j])
  BY <1>1, <1>2 DEF AllAgree
<1>4. CASE req' = req
  <2>1. AccountsTyped'
    BY <1>1, <1>2, <1>4 DEF AccountsTyped
  <2>2. AllAgree'
    BY <1>1, <1>2, <1>3, <1>4 DEF AllAgree, Agree
  <2> QED
    BY <2>1, <2>2 DEF LockInv
<1>5. ASSUME NEW r \in Requests, NEW s \in Slot, req' = [req EXCEPT ![r] = s],
             s.phase \in {"idle", "audit"}
      PROVE  LockInv'
  <2>1. Prepared(s, Len(users)) /\ Len(users) <= Len(users)
    BY <1>1, <1>5 DEF Prepared
  <2>2. /\ req' \in [Requests -> Slot] /\ req'[r] = s
        /\ \A q \in Requests \ {r} : req'[q] = req[q]
        /\ \A q \in Requests : Prepared(req'[q], Len(users))
    BY <1>1, <1>5, <2>1, SlotsTyped
  <2>3. AccountsTyped'
    BY <1>1, <1>2, <2>2 DEF AccountsTyped
  <2>4. AllAgree'
    BY <1>1, <1>3, <1>5, <2>2 DEF AllAgree, Agree
  <2> QED
    BY <2>3, <2>4 DEF LockInv
<1> QED
  BY <1>4, <1>5

\* A new account is unlocked and has no failures.
LEMMA CreateUserKeeps ==
  ASSUME LockInv, NEW r \in Requests, CreateUser(r)
  PROVE  LockInv'
<1> DEFINE u == [email |-> req[r].email, password |-> req[r].password,
                 role |-> "user", active |-> TRUE, verified |-> FALSE,
                 attempts |-> 0, lock |-> 0]
           n == Len(users)
<1>1. AccountsTyped /\ AllAgree /\ n \in Nat /\ MaxUsers \in Nat
  BY UsersAre, BoundsAssumption DEF LockInv
<1>2. /\ req[r].phase = "hash" /\ n < MaxUsers
      /\ users' = Append(users, u) /\ req' = [req EXCEPT ![r] = Idle]
      /\ UNCHANGED <<failures, locks>>
  BY DEF CreateUser, End, history
<1>3. u \in Account /\ Agree(u)
  BY <1>1, <1>2, RolesAssumption, BoundsAssumption
     DEF AccountsTyped, Prepared, Account, Agree
<1> HIDE DEF u
<1>4. /\ users' \in Seq(Account) /\ Len(users') = n + 1 /\ users'[n + 1] = u
      /\ \A i \in 1 .. n : users'[i] = users[i]
  BY <1>1, <1>2, <1>3 DEF AccountsTyped
<1>5. /\ req' \in [Requests -> Slot] /\ req'[r] = Idle
      /\ \A q \in Requests \ {r} : req'[q] = req[q]
      /\ \A q \in Requests : Prepared(req'[q], n + 1)
  <2>1. n + 1 \in Nat /\ Len(users) <= n + 1
    BY <1>1
  <2> QED
    BY <1>1, <1>2, <2>1, IdleIs, SlotsTyped
<1>6. AccountsTyped'
  BY <1>1, <1>2, <1>4, <1>5 DEF AccountsTyped
<1>7. AllAgree'
  BY <1>1, <1>3, <1>4, <1>5 DEF AllAgree, Agree, Idle
<1> QED
  BY <1>6, <1>7 DEF LockInv

\* The account of a token exists.
OwnersExist ==
    \A t \in Raws : tokens[t] # NoRecord => tokens[t].user \in 1 .. Len(users)

\* Every step keeps tokens with accounts that exist.
LEMMA OwnersNext ==
  ASSUME TokenInv, AccountsTyped, OwnersExist, [Next]_vars,
         Len(users') \in Nat, Len(users) <= Len(users')
  PROVE  OwnersExist'
<1>1. /\ tokens \in [Raws -> Record \cup {NoRecord}]
      /\ Len(users) \in Nat /\ DOMAIN users = 1 .. Len(users)
  BY UsersAre DEF TokenInv, TokensTyped
<1>2. SUFFICES ASSUME NEW x \in Raws, tokens'[x] # NoRecord
               PROVE  tokens'[x].user \in 1 .. Len(users)
  BY <1>1 DEF OwnersExist
<1>3. CASE UNCHANGED <<tokens, issues, uses>>
  BY <1>2, <1>3 DEF OwnersExist
<1>4. ASSUME NEW t \in Raws, tokens[t] # NoRecord,
             \/ tokens' = [tokens EXCEPT ![t].used = TRUE]
             \/ tokens' = [tokens EXCEPT ![t].expired = TRUE]
      PROVE  tokens'[x].user \in 1 .. Len(users)
  <2>1. tokens[t] \in Record /\ tokens[t].user \in 1 .. Len(users)
    BY <1>1, <1>4 DEF OwnersExist
  <2>2. CASE x # t
    BY <1>1, <1>2, <1>4, <2>2 DEF OwnersExist
  <2>3. CASE x = t
    <3>1. \/ tokens'[x] = [tokens[t] EXCEPT !.used = TRUE]
          \/ tokens'[x] = [tokens[t] EXCEPT !.expired = TRUE]
      BY <1>1, <1>4, <2>3
    <3> QED
      BY <2>1, <3>1 DEF Record
  <2> QED
    BY <2>2, <2>3
<1>5. ASSUME NEW r \in Requests, NEW e \in Emails, NEW p \in Purposes, BeginIssue(r, e, p)
      PROVE  tokens'[x].user \in 1 .. Len(users)
  <2>1. tokens'[x] = tokens[x]
    BY <1>2, <1>5 DEF BeginIssue
  <2> QED
    BY <1>2, <2>1 DEF OwnersExist
<1>6. ASSUME NEW r \in Requests, NEW t \in Raws, FinishIssue(r, t)
      PROVE  tokens'[x].user \in 1 .. Len(users)
  <2> DEFINE new == [user |-> req[r].user, purpose |-> req[r].purpose,
                     used |-> FALSE, expired |-> FALSE]
  <2>1. /\ req[r].phase = "issue" /\ tokens'[t] = new
        /\ \A y \in Raws \ {t} : tokens'[y] = tokens[y]
    BY <1>6, FinishIssueIs DEF Asks
  <2>2. new.user = req[r].user
    OBVIOUS
  <2>3. req[r].user \in 1 .. Len(users)
    BY <2>1 DEF AccountsTyped, Prepared
  <2> HIDE DEF new
  <2> QED
    BY <1>2, <2>1, <2>2, <2>3 DEF OwnersExist
<1>7. AsksTyped
  BY DEF TokenInv
<1> QED
  BY <1>3, <1>4, <1>5, <1>6, <1>7, TokenSteps DEF Usable, Consume, TokenExpires

\* Every step keeps locks and counters in agreement.
LEMMA LockNext ==
  ASSUME LockInv, OwnersExist, TokenInv, [Next]_vars
  PROVE  LockInv' /\ Len(users') \in Nat /\ Len(users) <= Len(users')
<1>1. /\ AccountsTyped /\ AllAgree /\ Len(users) \in Nat /\ DOMAIN users = 1 .. Len(users)
      /\ \A i \in 1 .. Len(users) : users[i] \in Account /\ Agree(users[i])
      /\ req \in [Requests -> Slot] /\ failures \in [UserIds -> Nat] /\ locks \in Nat
      /\ \A i \in 1 .. Len(users) : i \in UserIds
  BY UsersAre DEF LockInv, AccountsTyped, AllAgree
<1>2. ASSUME UNCHANGED <<users, req, failures, locks>>
      PROVE  LockInv'
  BY <1>1, <1>2 DEF LockInv, AccountsTyped, AllAgree, Prepared, Agree
<1>3. ASSUME NEW r \in Requests, NEW e \in Emails, NEW p \in Passwords, BeginSignup(r, e, p)
      PROVE  LockInv'
  <2> DEFINE s == [Idle EXCEPT !.phase = "hash", !.email = e, !.password = p]
  <2>1. /\ s \in Slot /\ s.phase = "hash" /\ s.email = e /\ s.password = p
    BY DEF Idle, Slot
  <2>2. Prepared(s, Len(users))
    BY <2>1 DEF Prepared
  <2>3. req' = [req EXCEPT ![r] = s] /\ UNCHANGED <<users, failures, locks>>
    BY <1>3 DEF BeginSignup, history
  <2> HIDE DEF s
  <2> QED
    BY <2>1, <2>2, <2>3, SlotStep
<1>4. ASSUME NEW r \in Requests, NEW e \in Emails, NEW p \in Passwords, BeginLogin(r, e, p)
      PROVE  LockInv'
  <2>1. PICK i \in UserIds :
          /\ Owner(e, i)
          /\ req' = [req EXCEPT ![r] = [Idle EXCEPT
                 !.phase = "compare", !.user = i, !.password = p, !.copy = users[i]]]
    BY <1>4 DEF BeginLogin
  <2> DEFINE s == [Idle EXCEPT !.phase = "compare", !.user = i, !.password = p,
                               !.copy = users[i]]
  <2>2. i \in 1 .. Len(users) /\ users[i] \in Account
    BY <1>1, <2>1 DEF Owner
  <2>3. /\ s \in Slot /\ s.phase = "compare" /\ s.user = i /\ s.password = p
        /\ s.copy = users[i]
    BY <2>2 DEF Idle, Slot
  <2>4. Prepared(s, Len(users))
    BY <2>2, <2>3 DEF Prepared
  <2>5. req' = [req EXCEPT ![r] = s] /\ UNCHANGED <<users, failures, locks>>
    BY <1>4, <2>1 DEF BeginLogin
  <2> HIDE DEF s
  <2> QED
    BY <2>3, <2>4, <2>5, SlotStep
<1>5. ASSUME NEW r \in Requests, RejectLogin(r)
      PROVE  LockInv' /\ Len(users') = Len(users)
  <2> DEFINE i == req[r].user
             u == Failed(users[i])
  <2>1. i \in 1 .. Len(users) /\ i \in UserIds
    BY <1>1, <1>5 DEF RejectLogin, AccountsTyped, Prepared
  <2>2. u \in Account /\ Agree(u)
    BY <1>1, <2>1, FailedIs
  <2>3. /\ users' = [users EXCEPT ![i] = u] /\ req' = [req EXCEPT ![r] = Idle]
        /\ failures' = [failures EXCEPT ![i] = failures[i] + 1]
        /\ locks' = IF users'[i].lock > locks THEN locks + 1 ELSE locks
    BY <1>5 DEF RejectLogin, End
  <2>4. failures' \in [UserIds -> Nat] /\ locks' \in Nat
    BY <1>1, <2>1, <2>3
  <2>5. Idle \in Slot /\ Idle.phase \in {"idle", "audit"}
    BY IdleIs DEF Idle
  <2> HIDE DEF u, i
  <2> QED
    BY <1>1, <2>1, <2>2, <2>3, <2>4, <2>5, AccountStep, UserChanged
<1>6. ASSUME NEW r \in Requests, AdmitLogin(r)
      PROVE  LockInv' /\ Len(users') = Len(users)
  <2> DEFINE i == req[r].user
             u == Cleared(users[i])
  <2>1. i \in 1 .. Len(users) /\ i \in UserIds
    BY <1>1, <1>6 DEF AdmitLogin, AccountsTyped, Prepared
  <2>2. u \in Account /\ Agree(u)
    BY <1>1, <2>1, ClearedIs
  <2>3. /\ users' = [users EXCEPT ![i] = u] /\ req' = [req EXCEPT ![r] = Idle]
        /\ failures' = [failures EXCEPT ![i] = 0] /\ locks' = locks
    BY <1>6 DEF AdmitLogin, End
  <2>4. failures' \in [UserIds -> Nat] /\ locks' \in Nat
    BY <1>1, <2>1, <2>3
  <2>5. Idle \in Slot /\ Idle.phase \in {"idle", "audit"}
    BY IdleIs DEF Idle
  <2> HIDE DEF u, i
  <2> QED
    BY <1>1, <2>1, <2>2, <2>3, <2>4, <2>5, AccountStep, UserChanged
<1>7. ASSUME NEW r \in Requests, NEW t \in Raws, NEW p \in Passwords, BeginReset(r, t, p)
      PROVE  LockInv'
  <2> DEFINE i == tokens[t].user
             s == [Idle EXCEPT !.phase = "rehash", !.user = i, !.password = p,
                               !.copy = users[i]]
  <2>1. i \in 1 .. Len(users) /\ users[i] \in Account /\ Agree(users[i]) /\ i \in UserIds
    BY <1>1, <1>7 DEF BeginReset, Usable, OwnersExist
  <2>2. /\ s \in Slot /\ s.phase = "rehash" /\ s.user = i /\ s.password = p
        /\ s.copy = users[i]
    BY <2>1 DEF Idle, Slot
  <2>3. Prepared(s, Len(users))
    BY <2>1, <2>2 DEF Prepared
  <2>4. req' = [req EXCEPT ![r] = s] /\ UNCHANGED <<users, failures, locks>>
    BY <1>7 DEF BeginReset
  <2> HIDE DEF s
  <2> QED
    BY <2>1, <2>2, <2>3, <2>4, SlotStep
<1>8. ASSUME NEW r \in Requests, FinishReset(r)
      PROVE  LockInv' /\ Len(users') = Len(users)
  <2> DEFINE i == req[r].user
             u == [req[r].copy EXCEPT !.password = req[r].password]
  <2>1. /\ i \in 1 .. Len(users) /\ req[r].copy \in Account
        /\ req[r].password \in Passwords /\ Agree(req[r].copy)
    BY <1>1, <1>8 DEF FinishReset, AccountsTyped, Prepared, AllAgree
  <2>2. u \in Account /\ Agree(u)
    BY <2>1 DEF Account, Agree
  <2>3. /\ users' = [users EXCEPT ![i] = u] /\ req' = [req EXCEPT ![r] = Idle]
        /\ failures' = failures /\ locks' = locks
    BY <1>8 DEF FinishReset, End, history
  <2>4. failures' \in [UserIds -> Nat] /\ locks' \in Nat
    BY <1>1, <2>3
  <2>5. Idle \in Slot /\ Idle.phase \in {"idle", "audit"}
    BY IdleIs DEF Idle
  <2> HIDE DEF u, i
  <2> QED
    BY <1>1, <2>1, <2>2, <2>3, <2>4, <2>5, AccountStep, UserChanged
<1>9. ASSUME NEW r \in Requests, NEW i \in UserIds, NEW b \in BOOLEAN, SetActive(r, i, b)
      PROVE  LockInv' /\ Len(users') = Len(users)
  <2> DEFINE u == [users[i] EXCEPT !.active = b]
             s == [Idle EXCEPT !.phase = "audit", !.user = i,
                               !.event = IF b THEN "activated" ELSE "deactivated"]
  <2>1. i \in 1 .. Len(users)
    BY <1>1, <1>9 DEF SetActive
  <2>2. u \in Account /\ Agree(u)
    BY <1>1, <2>1 DEF Account, Agree
  <2>3. s \in Slot /\ s.phase \in {"idle", "audit"}
    BY DEF Slot, Idle
  <2>4. /\ users' = [users EXCEPT ![i] = u] /\ req' = [req EXCEPT ![r] = s]
        /\ failures' = failures /\ locks' = locks
    BY <1>9 DEF SetActive, history
  <2> HIDE DEF u, s
  <2> QED
    BY <1>1, <2>1, <2>2, <2>3, <2>4, AccountStep, UserChanged
<1>10. ASSUME NEW r \in Requests, NEW i \in UserIds, NEW role \in Roles, SetRole(r, i, role)
       PROVE  LockInv' /\ Len(users') = Len(users)
  <2> DEFINE u == [users[i] EXCEPT !.role = role]
             s == [Idle EXCEPT !.phase = "audit", !.user = i, !.event = "role_changed"]
  <2>1. i \in 1 .. Len(users)
    BY <1>1, <1>10 DEF SetRole
  <2>2. u \in Account /\ Agree(u)
    BY <1>1, <2>1 DEF Account, Agree
  <2>3. s \in Slot /\ s.phase \in {"idle", "audit"}
    BY DEF Slot, Idle
  <2>4. /\ users' = [users EXCEPT ![i] = u] /\ req' = [req EXCEPT ![r] = s]
        /\ failures' = failures /\ locks' = locks
    BY <1>10 DEF SetRole, history
  <2> HIDE DEF u, s
  <2> QED
    BY <1>1, <2>1, <2>2, <2>3, <2>4, AccountStep, UserChanged
<1>11. ASSUME NEW r \in Requests, AuditAdmin(r)
       PROVE  LockInv'
  <2>1. /\ req' = [req EXCEPT ![r] = Idle] /\ UNCHANGED <<users, failures, locks>>
    BY <1>11 DEF AuditAdmin, End, history
  <2>2. Idle \in Slot /\ Prepared(Idle, Len(users)) /\ Idle.phase # "rehash"
    BY IdleIs DEF Idle
  <2> QED
    BY <2>1, <2>2, SlotStep
<1>12. ASSUME NEW t \in Raws, VerifyEmail(t)
       PROVE  LockInv' /\ Len(users') = Len(users)
  <2> DEFINE i == tokens[t].user
             u == [users[i] EXCEPT !.verified = TRUE]
  <2>1. i \in 1 .. Len(users)
    BY <1>12 DEF VerifyEmail, Usable, OwnersExist
  <2>2. u \in Account /\ Agree(u)
    BY <1>1, <2>1 DEF Account, Agree
  <2>3. /\ users' = [users EXCEPT ![i] = u]
        /\ req' = req /\ failures' = failures /\ locks' = locks
    BY <1>12 DEF VerifyEmail
  <2> HIDE DEF u, i
  <2> QED
    BY <1>1, <2>1, <2>2, <2>3, AccountStep, UserChanged
<1>13. ASSUME NEW r \in Requests, CreateUser(r)
       PROVE  LockInv' /\ Len(users') \in Nat /\ Len(users) <= Len(users')
  <2>1. /\ users \in Seq(Account)
        /\ \E u : users' = Append(users, u)
    BY <1>1, <1>13 DEF CreateUser, AccountsTyped
  <2>2. Len(users') = Len(users) + 1
    BY <2>1
  <2> QED
    BY <1>1, <1>13, <2>2, CreateUserKeeps
<1>14. ASSUME \/ UNCHANGED vars
              \/ LockLapses
              \/ \E t \in Raws : TokenExpires(t)
              \/ UNCHANGED <<users, tokens, lapsed, req, history>>
       PROVE  UNCHANGED <<users, req, failures, locks>>
  BY <1>14 DEF vars, history, LockLapses, TokenExpires
<1>15. CASE UNCHANGED vars \/ Elsewhere
  BY <1>1, <1>2, <1>12, <1>14, <1>15 DEF Elsewhere
<1>16. ASSUME NEW r \in Requests, Credentials(r)
       PROVE  LockInv' /\ Len(users') \in Nat /\ Len(users) <= Len(users')
  <2>1. \/ \E e \in Emails, p \in Passwords : BeginSignup(r, e, p)
        \/ \E e \in Emails, p \in Passwords : BeginLogin(r, e, p)
        \/ CreateUser(r) \/ RejectLogin(r) \/ AdmitLogin(r)
    BY <1>16 DEF Credentials
  <2>2. CASE \E e \in Emails, p \in Passwords : BeginSignup(r, e, p)
    <3>1. users' = users
      BY <2>2 DEF BeginSignup
    <3> QED
      BY <1>1, <1>3, <2>2, <3>1
  <2>3. CASE \E e \in Emails, p \in Passwords : BeginLogin(r, e, p)
    <3>1. users' = users
      BY <2>3 DEF BeginLogin
    <3> QED
      BY <1>1, <1>4, <2>3, <3>1
  <2>4. CASE RejectLogin(r) \/ AdmitLogin(r)
    BY <1>1, <1>5, <1>6, <2>4
  <2> QED
    BY <1>13, <2>1, <2>2, <2>3, <2>4
<1>17. ASSUME NEW r \in Requests, NEW e \in Emails, NEW p \in Purposes, BeginIssue(r, e, p)
       PROVE  LockInv'
  <2>1. PICK i \in UserIds :
          /\ Owner(e, i)
          /\ req' = [req EXCEPT ![r] = [Idle EXCEPT
                 !.phase = "issue", !.user = i, !.purpose = p, !.since = Len(issues)]]
    BY <1>17 DEF BeginIssue
  <2> DEFINE s == [Idle EXCEPT !.phase = "issue", !.user = i, !.purpose = p,
                               !.since = Len(issues)]
  <2>2. i \in 1 .. Len(users) /\ Len(issues) \in Nat
    BY <1>1, <2>1, IssuesAre DEF Owner, TokenInv
  <2>3. s \in Slot /\ s.phase = "issue" /\ s.user = i
    BY <2>2 DEF Idle, Slot
  <2>4. Prepared(s, Len(users))
    BY <2>2, <2>3 DEF Prepared
  <2>5. req' = [req EXCEPT ![r] = s] /\ UNCHANGED <<users, failures, locks>>
    BY <1>17, <2>1 DEF BeginIssue, history
  <2> HIDE DEF s
  <2> QED
    BY <2>3, <2>4, <2>5, SlotStep
<1>18. ASSUME NEW r \in Requests, NEW t \in Raws, FinishIssue(r, t)
       PROVE  LockInv'
  <2>1. /\ req' = [req EXCEPT ![r] = Idle] /\ UNCHANGED <<users, failures, locks>>
    BY <1>18 DEF FinishIssue, End
  <2>2. Idle \in Slot /\ Prepared(Idle, Len(users)) /\ Idle.phase # "rehash"
    BY IdleIs DEF Idle
  <2> QED
    BY <2>1, <2>2, SlotStep
<1>19. ASSUME NEW r \in Requests, Verification(r)
       PROVE  LockInv' /\ Len(users') \in Nat /\ Len(users) <= Len(users')
  <2>1. CASE \E t \in Raws, p \in Passwords : BeginReset(r, t, p)
    <3>1. users' = users
      BY <2>1 DEF BeginReset
    <3> QED
      BY <1>1, <1>7, <2>1, <3>1
  <2>2. CASE FinishReset(r)
    BY <1>1, <1>8, <2>2
  <2>3. CASE \E e \in Emails, p \in Purposes : BeginIssue(r, e, p)
    <3>1. users' = users
      BY <2>3 DEF BeginIssue
    <3> QED
      BY <1>1, <1>17, <2>3, <3>1
  <2>4. CASE \E t \in Raws : FinishIssue(r, t)
    <3>1. users' = users
      BY <2>4 DEF FinishIssue
    <3> QED
      BY <1>1, <1>18, <2>4, <3>1
  <2> QED
    BY <1>19, <2>1, <2>2, <2>3, <2>4 DEF Verification
<1>20. CASE \E r \in Requests : Admin(r)
  BY <1>1, <1>9, <1>10, <1>11, <1>20 DEF Admin, AuditAdmin
<1> QED
  BY <1>15, <1>16, <1>19, <1>20 DEF Next

\* Until a reset the counter of an account is the number of failures; a handler
\* that saves a copy belongs to a reset.
Counted ==
    /\ \A i \in 1 .. Len(users) : ~WasReset(i) => users[i].attempts = failures[i]
    /\ \A i \in UserIds : i > Len(users) => failures[i] = 0
    /\ \A r \in Requests, i \in UserIds :
          req[r].phase = "rehash" /\ req[r].user = i => WasReset(i)

AccountInv == TokenInv /\ LockInv /\ OwnersExist /\ Counted

\* A token that was accepted stays in the log, and stays accepted.
LEMMA UsedRemains ==
  ASSUME TokenInv, [Next]_vars, NEW n \in DOMAIN issues, uses[issues[n].raw] > 0
  PROVE  /\ n \in DOMAIN issues' /\ issues'[n] = issues[n]
         /\ uses'[issues[n].raw] > 0
<1>1. /\ TokensTyped /\ AsksTyped
      /\ Len(issues) \in Nat /\ DOMAIN issues = 1 .. Len(issues)
      /\ issues[n] \in Issue /\ issues[n].raw \in Raws
  BY IssuesAre DEF TokenInv
<1>2. n \in DOMAIN issues' /\ issues'[n] = issues[n]
  <2>1. CASE issues' = issues
    BY <2>1
  <2>2. CASE \E r \in Requests, t \in Raws : FinishIssue(r, t)
    <3>1. PICK r \in Requests, t \in Raws : FinishIssue(r, t)
      BY <2>2
    <3>2. /\ DOMAIN issues' = 1 .. Len(issues) + 1
          /\ \A m \in 1 .. Len(issues) : issues'[m] = issues[m]
      BY <3>1, FinishIssueIs
    <3> QED
      BY <1>1, <3>2
  <2> QED
    BY <1>1, <2>1, <2>2, TokenSteps DEF BeginIssue, TokenExpires, history
<1>3. uses'[issues[n].raw] > 0
  <2>1. CASE uses' = uses
    BY <2>1
  <2>2. CASE \E t \in Raws : uses' = [uses EXCEPT ![t] = @ + 1]
    BY <1>1, <2>2 DEF TokensTyped
  <2> QED
    BY <1>1, <2>1, <2>2, TokenSteps
    DEF BeginIssue, FinishIssue, TokenExpires, Consume, history
<1> QED
  BY <1>2, <1>3

\* What was reset, and what was answered, stays so.
LEMMA ResetsRemain ==
  ASSUME TokenInv, [Next]_vars, NEW i
  PROVE  /\ WasReset(i) => WasReset(i)'
         /\ MailAnswered(i) => MailAnswered(i)'
BY UsedRemains DEF WasReset, MailAnswered

\* A step that leaves the counters of the accounts alone and starts no reset.
LEMMA CountsKept ==
  ASSUME TokenInv, Counted, [Next]_vars, failures' = failures,
         Len(users) \in Nat, Len(users') = Len(users),
         \A i \in 1 .. Len(users) :
             users'[i].attempts = users[i].attempts \/ WasReset(i),
         \A r \in Requests : req'[r].phase = "rehash" =>
             req[r].phase = "rehash" /\ req'[r].user = req[r].user
  PROVE  Counted'
<1>1. \A i : WasReset(i) => WasReset(i)'
  BY ResetsRemain
<1>2. \A i \in 1 .. Len(users') : ~WasReset(i)' => users'[i].attempts = failures'[i]
  BY <1>1 DEF Counted
<1>3. \A r \in Requests, i \in UserIds :
          req'[r].phase = "rehash" /\ req'[r].user = i => WasReset(i)'
  BY <1>1 DEF Counted
<1> QED
  BY <1>2, <1>3 DEF Counted

\* Every step keeps the count of failures.
LEMMA CountNext == AccountInv /\ [Next]_vars => Counted'
<1> SUFFICES ASSUME AccountInv, [Next]_vars PROVE Counted'
  OBVIOUS
<1>1. /\ TokenInv /\ LockInv /\ OwnersExist /\ Counted /\ AccountsTyped
      /\ Len(users) \in Nat /\ DOMAIN users = 1 .. Len(users)
      /\ users \in Seq(Account)
      /\ \A i \in 1 .. Len(users) : users[i] \in Account /\ i \in UserIds
      /\ req \in [Requests -> Slot] /\ failures \in [UserIds -> Nat]
      /\ \A r \in Requests : Prepared(req[r], Len(users))
  BY UsersAre DEF AccountInv, LockInv, AccountsTyped
<1>2. \A i : WasReset(i) => WasReset(i)'
  BY <1>1, ResetsRemain
<1>3. ASSUME NEW r \in Requests, NEW s, req' = [req EXCEPT ![r] = s],
             s.phase # "rehash"
      PROVE  \A q \in Requests : req'[q].phase = "rehash" =>
                 req[q].phase = "rehash" /\ req'[q].user = req[q].user
  BY <1>1, <1>3
<1>4. ASSUME UNCHANGED <<users, failures, req>>
      PROVE  Counted'
  BY <1>1, <1>4, CountsKept
<1>5. ASSUME NEW r \in Requests, NEW s, s.phase # "rehash",
             req' = [req EXCEPT ![r] = s], UNCHANGED <<users, failures>>
      PROVE  Counted'
  <2>1. \A q \in Requests : req'[q].phase = "rehash" =>
            req[q].phase = "rehash" /\ req'[q].user = req[q].user
    BY <1>3, <1>5
  <2> QED
    BY <1>1, <1>5, <2>1, CountsKept
<1>6. ASSUME NEW r \in Requests, NEW e \in Emails, NEW p \in Passwords,
             BeginSignup(r, e, p) \/ BeginLogin(r, e, p)
      PROVE  Counted'
  <2>1. CASE BeginSignup(r, e, p)
    <3> DEFINE x == [Idle EXCEPT !.phase = "hash", !.email = e, !.password = p]
    <3>1. req' = [req EXCEPT ![r] = x] /\ UNCHANGED <<users, failures>>
      BY <2>1 DEF BeginSignup, history
    <3>2. x.phase # "rehash"
      BY DEF Idle
    <3> QED
      BY <1>5, <3>1, <3>2
  <2>2. CASE BeginLogin(r, e, p)
    <3>1. PICK i \in UserIds :
            /\ req' = [req EXCEPT ![r] = [Idle EXCEPT
                   !.phase = "compare", !.user = i, !.password = p, !.copy = users[i]]]
            /\ UNCHANGED <<users, failures>>
      BY <2>2 DEF BeginLogin
    <3> DEFINE x == [Idle EXCEPT !.phase = "compare", !.user = i, !.password = p,
                                 !.copy = users[i]]
    <3>2. x.phase # "rehash"
      BY DEF Idle
    <3> QED
      BY <1>5, <3>1, <3>2
  <2> QED
    BY <1>6, <2>1, <2>2
<1>7. ASSUME NEW r \in Requests, CreateUser(r)
      PROVE  Counted'
  <2> DEFINE u == [email |-> req[r].email, password |-> req[r].password,
                   role |-> "user", active |-> TRUE, verified |-> FALSE,
                   attempts |-> 0, lock |-> 0]
             n == Len(users)
  <2>1. /\ users' = Append(users, u) /\ req' = [req EXCEPT ![r] = Idle]
        /\ failures' = failures /\ n < MaxUsers
    BY <1>7 DEF CreateUser, End, history
  <2>2. u.attempts = 0
    OBVIOUS
  <2> HIDE DEF u
  <2>3. /\ Len(users') = n + 1 /\ users'[n + 1] = u
        /\ \A i \in 1 .. n : users'[i] = users[i]
    BY <1>1, <2>1
  <2>4. failures[n + 1] = 0
    BY <1>1, <2>1, BoundsAssumption DEF Counted, UserIds
  <2>5. \A i \in 1 .. n + 1 : ~WasReset(i)' => users'[i].attempts = failures'[i]
    BY <1>1, <1>2, <2>1, <2>2, <2>3, <2>4 DEF Counted
  <2>6. Idle.phase # "rehash"
    BY DEF Idle
  <2>7. \A q \in Requests, j \in UserIds :
          req'[q].phase = "rehash" /\ req'[q].user = j => WasReset(j)'
    BY <1>1, <1>2, <1>3, <2>1, <2>6 DEF Counted
  <2>8. \A i \in UserIds : i > n + 1 => failures'[i] = 0
    BY <1>1, <2>1 DEF Counted, UserIds
  <2> QED
    BY <2>3, <2>5, <2>7, <2>8 DEF Counted
<1>8. ASSUME NEW r \in Requests, NEW c \in Nat, NEW u \in Account,
             req[r].phase = "compare", u.attempts = c,
             users' = [users EXCEPT ![req[r].user] = u],
             failures' = [failures EXCEPT ![req[r].user] = c],
             req' = [req EXCEPT ![r] = Idle]
      PROVE  Counted'
  <2> DEFINE i == req[r].user
  <2>1. i \in 1 .. Len(users) /\ i \in UserIds
    BY <1>1, <1>8 DEF Prepared
  <2>2. /\ Len(users') = Len(users)
        /\ \A j \in 1 .. Len(users) : users'[j] = IF j = i THEN u ELSE users[j]
    BY <1>1, <1>8, <2>1, UserChanged
  <2>3. \A j \in UserIds : failures'[j] = IF j = i THEN c ELSE failures[j]
    BY <1>1, <1>8
  <2> HIDE DEF i
  <2>4. \A j \in 1 .. Len(users) : ~WasReset(j)' => users'[j].attempts = failures'[j]
    BY <1>1, <1>2, <1>8, <2>2, <2>3 DEF Counted
  <2>5. \A j \in UserIds : j > Len(users) => failures'[j] = 0
    BY <1>1, <2>1, <2>3 DEF Counted, UserIds
  <2>6. \A q \in Requests, j \in UserIds :
          req'[q].phase = "rehash" /\ req'[q].user = j => WasReset(j)'
    BY <1>1, <1>2, <1>3, <1>8 DEF Counted, Idle
  <2> QED
    BY <2>2, <2>4, <2>5, <2>6 DEF Counted
<1>9. ASSUME NEW r \in Requests, RejectLogin(r)
      PROVE  Counted'
  <2> DEFINE i == req[r].user
  <2>1. i \in 1 .. Len(users) /\ i \in UserIds /\ req[r].phase = "compare"
    BY <1>1, <1>9 DEF RejectLogin, Prepared
  <2>2. CASE WasReset(i)
    <3> DEFINE u == Failed(users[i])
    <3>1. /\ users' = [users EXCEPT ![i] = u] /\ req' = [req EXCEPT ![r] = Idle]
          /\ failures' = [failures EXCEPT ![i] = failures[i] + 1]
      BY <1>9 DEF RejectLogin, End
    <3>2. u \in Account
      BY <1>1, <2>1, FailedIs DEF LockInv, AccountsTyped, AllAgree
    <3> HIDE DEF u
    <3>3. /\ Len(users') = Len(users)
          /\ \A j \in 1 .. Len(users) : j # i => users'[j] = users[j]
      BY <1>1, <2>1, <3>1, <3>2, UserChanged
    <3>4. \A j \in UserIds : j # i => failures'[j] = failures[j]
      BY <1>1, <3>1
    <3> HIDE DEF i
    <3>5. \A j \in 1 .. Len(users) : ~WasReset(j)' => users'[j].attempts = failures'[j]
      BY <1>1, <1>2, <2>2, <3>3, <3>4 DEF Counted
    <3>6. \A j \in UserIds : j > Len(users) => failures'[j] = 0
      BY <1>1, <2>1, <3>4 DEF Counted, UserIds
    <3>7. \A q \in Requests, j \in UserIds :
            req'[q].phase = "rehash" /\ req'[q].user = j => WasReset(j)'
      BY <1>1, <1>2, <1>3, <3>1 DEF Counted, Idle
    <3> QED
      BY <3>3, <3>5, <3>6, <3>7 DEF Counted
  <2>3. CASE ~WasReset(i)
    <3>1. users[i].attempts = failures[i]
      BY <1>1, <2>1, <2>3 DEF Counted
    <3>2. Failed(users[i]) \in Account /\ Failed(users[i]).attempts = failures[i] + 1
      BY <1>1, <2>1, <3>1, FailedIs DEF LockInv, AccountsTyped, AllAgree
    <3>3. failures[i] + 1 \in Nat
      BY <1>1, <2>1
    <3> QED
      BY <1>8, <1>9, <2>1, <3>2, <3>3 DEF RejectLogin, End
  <2> QED
    BY <2>2, <2>3
<1>10. ASSUME NEW r \in Requests, AdmitLogin(r)
       PROVE  Counted'
  <2>1. req[r].user \in 1 .. Len(users)
    BY <1>1, <1>10 DEF AdmitLogin, Prepared
  <2>2. /\ Cleared(users[req[r].user]) \in Account
        /\ Cleared(users[req[r].user]).attempts = 0 /\ 0 \in Nat
    BY <1>1, <2>1, ClearedIs
  <2> QED
    BY <1>8, <1>10, <2>2 DEF AdmitLogin, End
<1>11. ASSUME NEW r \in Requests, NEW t \in Raws, NEW p \in Passwords, BeginReset(r, t, p)
       PROVE  Counted'
  <2> DEFINE i == tokens[t].user
             x == [Idle EXCEPT !.phase = "rehash", !.user = i, !.password = p,
                               !.copy = users[i]]
  <2>1. /\ req' = [req EXCEPT ![r] = x] /\ UNCHANGED <<users, failures, issues>>
        /\ Usable(t, "password_reset") /\ uses' = [uses EXCEPT ![t] = uses[t] + 1]
    BY <1>11 DEF BeginReset, Consume
  <2>2. x.user = i
    BY DEF Idle
  <2>3. tokens[t] # NoRecord /\ tokens[t].purpose = "password_reset"
    BY <2>1 DEF Usable
  <2>4. PICK n \in DOMAIN issues : issues[n].raw = t
    BY <1>1, <2>3 DEF TokenInv, NothingElse, Fresh
  <2>5. issues[n].user = i /\ issues[n].purpose = "password_reset"
    BY <1>1, <2>3, <2>4 DEF TokenInv, Ledger
  <2>6. uses'[t] > 0
    BY <1>1, <2>1 DEF TokenInv, TokensTyped
  <2>7. \A j \in UserIds : j = i => WasReset(j)'
    BY <2>1, <2>4, <2>5, <2>6 DEF WasReset
  <2>8. \A q \in Requests : req'[q] = IF q = r THEN x ELSE req[q]
    BY <1>1, <2>1
  <2> HIDE DEF x, i
  <2>9. \A q \in Requests, j \in UserIds :
            req'[q].phase = "rehash" /\ req'[q].user = j => WasReset(j)'
    BY <1>1, <1>2, <2>2, <2>7, <2>8 DEF Counted
  <2>10. \A j \in 1 .. Len(users) : ~WasReset(j)' => users'[j].attempts = failures'[j]
    BY <1>1, <1>2, <2>1 DEF Counted
  <2>11. \A j \in UserIds : j > Len(users') => failures'[j] = 0
    BY <1>1, <2>1 DEF Counted
  <2>12. Len(users') = Len(users)
    BY <2>1
  <2> QED
    BY <2>9, <2>10, <2>11, <2>12 DEF Counted
\* Accounts that are changed in place, and not in their counters.
<1>12. ASSUME NEW i \in 1 .. Len(users), NEW u \in Account,
              users' = [users EXCEPT ![i] = u], failures' = failures,
              u.attempts = users[i].attempts \/ WasReset(i),
              \/ req' = req
              \/ \E r \in Requests, x \in Slot :
                   req' = [req EXCEPT ![r] = x] /\ x.phase # "rehash"
       PROVE  Counted'
  <2>1. /\ Len(users') = Len(users)
        /\ \A j \in 1 .. Len(users) : users'[j] = IF j = i THEN u ELSE users[j]
    BY <1>1, <1>12, UserChanged
  <2>2. \A j \in 1 .. Len(users) :
            users'[j].attempts = users[j].attempts \/ WasReset(j)
    BY <1>12, <2>1
  <2>3. \A q \in Requests : req'[q].phase = "rehash" =>
            req[q].phase = "rehash" /\ req'[q].user = req[q].user
    BY <1>3, <1>12
  <2> QED
    BY <1>1, <1>12, <2>1, <2>2, <2>3, CountsKept
<1>13. Idle \in Slot /\ Idle.phase # "rehash"
  BY IdleIs DEF Idle
<1>14. ASSUME NEW r \in Requests, FinishReset(r)
       PROVE  Counted'
  <2> DEFINE i == req[r].user
             u == [req[r].copy EXCEPT !.password = req[r].password]
  <2>1. /\ i \in 1 .. Len(users) /\ req[r].copy \in Account
        /\ req[r].password \in Passwords /\ req[r].phase = "rehash" /\ i \in UserIds
    BY <1>1, <1>14 DEF FinishReset, Prepared
  <2>2. u \in Account
    BY <2>1 DEF Account
  <2>3. WasReset(i)
    <3> HIDE DEF i
    <3>1. \A j \in UserIds : j = i => WasReset(j)
      BY <1>1, <2>1 DEF Counted, i
    <3> QED
      BY <2>1, <3>1
  <2>4. /\ users' = [users EXCEPT ![i] = u] /\ req' = [req EXCEPT ![r] = Idle]
        /\ failures' = failures
    BY <1>14 DEF FinishReset, End, history
  <2> HIDE DEF u, i
  <2> QED
    BY <1>12, <1>13, <2>1, <2>2, <2>3, <2>4
<1>15. ASSUME NEW r \in Requests, NEW i \in UserIds, NEW b \in BOOLEAN, SetActive(r, i, b)
       PROVE  Counted'
  <2> DEFINE u == [users[i] EXCEPT !.active = b]
             x == [Idle EXCEPT !.phase = "audit", !.user = i,
                               !.event = IF b THEN "activated" ELSE "deactivated"]
  <2>1. i \in 1 .. Len(users)
    BY <1>1, <1>15 DEF SetActive
  <2>2. u \in Account /\ u.attempts = users[i].attempts
    BY <1>1, <2>1 DEF Account
  <2>3. x \in Slot /\ x.phase # "rehash"
    BY DEF Slot, Idle
  <2>4. /\ users' = [users EXCEPT ![i] = u] /\ req' = [req EXCEPT ![r] = x]
        /\ failures' = failures
    BY <1>15 DEF SetActive, history
  <2> HIDE DEF u, x
  <2> QED
    BY <1>12, <2>1, <2>2, <2>3, <2>4
<1>16. ASSUME NEW r \in Requests, NEW i \in UserIds, NEW role \in Roles, SetRole(r, i, role)
       PROVE  Counted'
  <2> DEFINE u == [users[i] EXCEPT !.role = role]
             x == [Idle EXCEPT !.phase = "audit", !.user = i, !.event = "role_changed"]
  <2>1. i \in 1 .. Len(users)
    BY <1>1, <1>16 DEF SetRole
  <2>2. u \in Account /\ u.attempts = users[i].attempts
    BY <1>1, <2>1 DEF Account
  <2>3. x \in Slot /\ x.phase # "rehash"
    BY DEF Slot, Idle
  <2>4. /\ users' = [users EXCEPT ![i] = u] /\ req' = [req EXCEPT ![r] = x]
        /\ failures' = failures
    BY <1>16 DEF SetRole, history
  <2> HIDE DEF u, x
  <2> QED
    BY <1>12, <2>1, <2>2, <2>3, <2>4
<1>17. ASSUME NEW r \in Requests, AuditAdmin(r)
       PROVE  Counted'
  BY <1>5, <1>13, <1>17 DEF AuditAdmin, End, history
<1>18. ASSUME NEW t \in Raws, VerifyEmail(t)
       PROVE  Counted'
  <2> DEFINE i == tokens[t].user
             u == [users[i] EXCEPT !.verified = TRUE]
  <2>1. i \in 1 .. Len(users)
    BY <1>1, <1>18 DEF VerifyEmail, Usable, OwnersExist
  <2>2. u \in Account /\ u.attempts = users[i].attempts
    BY <1>1, <2>1 DEF Account
  <2>3. users' = [users EXCEPT ![i] = u] /\ req' = req /\ failures' = failures
    BY <1>18 DEF VerifyEmail
  <2> HIDE DEF u, i
  <2> QED
    BY <1>12, <2>1, <2>2, <2>3
<1>19. CASE UNCHANGED vars
  BY <1>4, <1>19 DEF vars, history
<1>20. CASE Elsewhere
  <2>1. CASE LockLapses \/ \E t \in Raws : TokenExpires(t)
    BY <1>4, <2>1 DEF LockLapses, TokenExpires, history
  <2>2. CASE UNCHANGED <<users, tokens, lapsed, req, history>>
    BY <1>4, <2>2 DEF history
  <2> QED
    BY <1>18, <1>20, <2>1, <2>2 DEF Elsewhere
<1>21. CASE \E r \in Requests : Credentials(r)
  BY <1>6, <1>7, <1>9, <1>10, <1>21 DEF Credentials
<1>22. CASE \E r \in Requests : Verification(r)
  <2>1. ASSUME NEW r \in Requests, NEW e \in Emails, NEW p \in Purposes, BeginIssue(r, e, p)
        PROVE  Counted'
    <3>1. PICK i \in UserIds :
            /\ req' = [req EXCEPT ![r] = [Idle EXCEPT
                   !.phase = "issue", !.user = i, !.purpose = p, !.since = Len(issues)]]
            /\ UNCHANGED <<users, failures>>
      BY <2>1 DEF BeginIssue, history
    <3> DEFINE x == [Idle EXCEPT !.phase = "issue", !.user = i, !.purpose = p,
                                 !.since = Len(issues)]
    <3>2. x.phase # "rehash"
      BY DEF Idle
    <3> QED
      BY <1>5, <3>1, <3>2
  <2>2. ASSUME NEW r \in Requests, NEW t \in Raws, FinishIssue(r, t)
        PROVE  Counted'
    BY <1>5, <1>13, <2>2 DEF FinishIssue, End
  <2> QED
    BY <1>11, <1>14, <1>22, <2>1, <2>2 DEF Verification
<1>23. CASE \E r \in Requests : Admin(r)
  BY <1>15, <1>16, <1>17, <1>23 DEF Admin
<1> QED
  BY <1>19, <1>20, <1>21, <1>22, <1>23 DEF Next

\* The inductive invariant of the accounts.
THEOREM AccountsInv == Spec => []AccountInv
<1>1. Init => AccountInv
  <2> SUFFICES ASSUME Init PROVE OwnersExist /\ Counted
    BY TokenInit, LockInit DEF AccountInv
  <2>1. Len(users) = 0 /\ \A i \in UserIds : failures[i] = 0
    BY DEF Init
  <2> QED
    BY <2>1 DEF Init, OwnersExist, Counted, Idle
<1>2. AccountInv /\ [Next]_vars => AccountInv'
  <2> SUFFICES ASSUME AccountInv, [Next]_vars PROVE AccountInv'
    OBVIOUS
  <2>1. LockInv' /\ Len(users') \in Nat /\ Len(users) <= Len(users')
    BY LockNext DEF AccountInv
  <2>2. OwnersExist'
    BY <2>1, OwnersNext DEF AccountInv, LockInv
  <2>3. TokenInv' /\ Counted'
    BY TokenNext, CountNext DEF AccountInv
  <2> QED
    BY <2>1, <2>2, <2>3 DEF AccountInv
<1> QED
  BY <1>1, <1>2, PTL DEF Spec

\* Lock and counter of an account agree, whatever stale copy a reset saved.
THEOREM LocksMatch == Spec => []LockMatchesCounter
<1>1. AccountInv => LockMatchesCounter
  BY UsersAre DEF AccountInv, LockInv, AllAgree, Agree, LockMatchesCounter
<1> QED
  BY <1>1, AccountsInv, PTL

\* Until a reset no failed login is lost, and the threshold locks.
THEOREM FailuresCounted == Spec => []FailuresAreCounted
<1>1. AccountInv => FailuresAreCounted
  BY UsersAre DEF AccountInv, LockInv, AllAgree, Agree, Counted, FailuresAreCounted
<1> QED
  BY <1>1, AccountsInv, PTL

-----------------------------------------------------------------------------
(* What a step makes of an account and of a handler. *)

Made(r) == [email |-> req[r].email, password |-> req[r].password,
            role |-> "user", active |-> TRUE, verified |-> FALSE,
            attempts |-> 0, lock |-> 0]

\* Account j stays, is made, is changed in place, or is overwritten with a copy.
Becomes(j) ==
    \/ j <= Len(users) /\ users'[j] = users[j]
    \/ j = Len(users) + 1 /\ \E r \in Requests : CreateUser(r) /\ users'[j] = Made(r)
    \/ j <= Len(users) /\ \E r \in Requests :
         /\ req[r].user = j
         /\ \/ RejectLogin(r) /\ users'[j] = Failed(users[j])
            \/ AdmitLogin(r) /\ users'[j] = Cleared(users[j])
            \/ /\ FinishReset(r)
               /\ users'[j] = [req[r].copy EXCEPT !.password = req[r].password]
    \/ j <= Len(users) /\ \E t \in Raws :
         /\ VerifyEmail(t) /\ tokens[t].user = j
         /\ users'[j] = [users[j] EXCEPT !.verified = TRUE]
    \/ j <= Len(users) /\ \E r \in Requests, b \in BOOLEAN :
         SetActive(r, j, b) /\ users'[j] = [users[j] EXCEPT !.active = b]
    \/ j <= Len(users) /\ \E r \in Requests, role \in Roles :
         SetRole(r, j, role) /\ users'[j] = [users[j] EXCEPT !.role = role]

\* Slot q stays, lets go of what it remembered, or remembers what it just read.
Remembers(q) ==
    \/ req'[q] = req[q]
    \/ req'[q].phase \in {"idle", "audit", "issue"} /\ req'[q].copy = NoCopy
    \/ /\ users' = users
       /\ req'[q].phase = "hash" /\ req'[q].copy = NoCopy /\ ~Taken(req'[q].email)
    \/ /\ users' = users
       /\ req'[q].phase \in {"compare", "rehash"}
       /\ req'[q].user \in 1 .. Len(users) /\ req'[q].copy = users[req'[q].user]

Moves == /\ \A j \in 1 .. Len(users') : Becomes(j)
         /\ \A q \in Requests : Remembers(q)

\* A step that changes account i, and nothing of the others.
LEMMA InPlace ==
  ASSUME AccountsTyped, NEW i \in 1 .. Len(users), NEW u \in Account,
         users' = [users EXCEPT ![i] = u]
  PROVE  /\ Len(users') = Len(users) /\ users'[i] = u
         /\ \A j \in 1 .. Len(users) : j # i => users'[j] = users[j]
BY UserChanged

\* What a handler writes into its slot, and no one else's.
LEMMA InSlot ==
  ASSUME AccountsTyped, NEW r \in Requests, NEW s, req' = [req EXCEPT ![r] = s]
  PROVE  req'[r] = s /\ \A q \in Requests \ {r} : req'[q] = req[q]
BY DEF AccountsTyped

\* Every step treats every account and every slot in one of these ways.
LEMMA AccountMoves ==
  ASSUME AccountInv, [Next]_vars
  PROVE  Moves
<1>1. /\ AccountsTyped /\ OwnersExist
      /\ Len(users) \in Nat /\ DOMAIN users = 1 .. Len(users)
      /\ users \in Seq(Account) /\ req \in [Requests -> Slot]
      /\ \A i \in 1 .. Len(users) : users[i] \in Account /\ i \in UserIds
      /\ \A r \in Requests : Prepared(req[r], Len(users))
      /\ locks \in Nat /\ \A i \in 1 .. Len(users) : Agree(users[i])
  BY UsersAre DEF AccountInv, LockInv, AccountsTyped, AllAgree
<1>2. Idle.phase = "idle" /\ Idle.copy = NoCopy
  BY DEF Idle
<1>3. CASE UNCHANGED <<users, req>>
  BY <1>1, <1>3 DEF Moves, Becomes, Remembers
<1>4. ASSUME NEW r \in Requests, NEW e \in Emails, NEW p \in Passwords, BeginSignup(r, e, p)
      PROVE  Moves
  <2> DEFINE s == [Idle EXCEPT !.phase = "hash", !.email = e, !.password = p]
  <2>1. s.phase = "hash" /\ s.copy = NoCopy /\ s.email = e
    BY DEF Idle
  <2>2. users' = users /\ ~Taken(e) /\ req' = [req EXCEPT ![r] = s]
    BY <1>4 DEF BeginSignup
  <2> HIDE DEF s
  <2>3. req'[r] = s /\ \A q \in Requests \ {r} : req'[q] = req[q]
    BY <1>1, <2>2, InSlot
  <2> QED
    BY <1>1, <2>1, <2>2, <2>3 DEF Moves, Becomes, Remembers
<1>5. ASSUME NEW r \in Requests, NEW s, s.phase = "compare" \/ s.phase = "rehash",
             s.user \in 1 .. Len(users), s.copy = users[s.user],
             users' = users, req' = [req EXCEPT ![r] = s]
      PROVE  Moves
  <2>1. req'[r] = s /\ \A q \in Requests \ {r} : req'[q] = req[q]
    BY <1>1, <1>5, InSlot
  <2> QED
    BY <1>1, <1>5, <2>1 DEF Moves, Becomes, Remembers
<1>6. ASSUME NEW r \in Requests, NEW e \in Emails, NEW p \in Passwords, BeginLogin(r, e, p)
      PROVE  Moves
  <2>1. PICK i \in UserIds :
          /\ Owner(e, i)
          /\ req' = [req EXCEPT ![r] = [Idle EXCEPT
                 !.phase = "compare", !.user = i, !.password = p, !.copy = users[i]]]
    BY <1>6 DEF BeginLogin
  <2> DEFINE s == [Idle EXCEPT !.phase = "compare", !.user = i, !.password = p,
                               !.copy = users[i]]
  <2>2. i \in 1 .. Len(users) /\ users' = users
    BY <1>1, <1>6, <2>1 DEF BeginLogin, Owner
  <2>3. /\ s.phase = "compare" /\ s.user \in 1 .. Len(users)
        /\ s.copy = users[s.user]
    BY <2>2 DEF Idle
  <2>4. req' = [req EXCEPT ![r] = s]
    BY <2>1
  <2> HIDE DEF s
  <2> QED
    BY <1>5, <2>2, <2>3, <2>4
<1>7. ASSUME NEW r \in Requests, NEW t \in Raws, NEW p \in Passwords, BeginReset(r, t, p)
      PROVE  Moves
  <2> DEFINE i == tokens[t].user
             s == [Idle EXCEPT !.phase = "rehash", !.user = i, !.password = p,
                               !.copy = users[i]]
  <2>1. i \in 1 .. Len(users) /\ users' = users
    BY <1>1, <1>7 DEF BeginReset, Usable, OwnersExist
  <2>2. /\ s.phase = "rehash" /\ s.user \in 1 .. Len(users)
        /\ s.copy = users[s.user]
    BY <2>1 DEF Idle
  <2>3. req' = [req EXCEPT ![r] = s]
    BY <1>7 DEF BeginReset
  <2> HIDE DEF s, i
  <2> QED
    BY <1>5, <2>1, <2>2, <2>3
<1>8. ASSUME NEW r \in Requests, CreateUser(r)
      PROVE  Moves
  <2>1. users' = Append(users, Made(r)) /\ req' = [req EXCEPT ![r] = Idle]
    BY <1>8 DEF CreateUser, End, Made
  <2>2. Made(r) \in Account
    BY <1>1, <1>8, RolesAssumption DEF CreateUser, Prepared, Account, Made
  <2>3. /\ Len(users') = Len(users) + 1 /\ users'[Len(users) + 1] = Made(r)
        /\ \A j \in 1 .. Len(users) : users'[j] = users[j]
    BY <1>1, <2>1, <2>2
  <2>4. \A j \in 1 .. Len(users') : j <= Len(users) \/ j = Len(users) + 1
    BY <1>1, <2>3
  <2>5. req'[r] = Idle /\ \A q \in Requests \ {r} : req'[q] = req[q]
    BY <1>1, <2>1, InSlot
  <2> QED
    BY <1>1, <1>2, <1>8, <2>3, <2>4, <2>5 DEF Moves, Becomes, Remembers
<1>9. ASSUME NEW i \in 1 .. Len(users), NEW u \in Account,
             users' = [users EXCEPT ![i] = u], Becomes(i),
             \/ req' = req
             \/ \E r \in Requests, s \in Slot :
                  /\ req' = [req EXCEPT ![r] = s]
                  /\ s.phase = "idle" \/ s.phase = "audit"
                  /\ s.copy = NoCopy
      PROVE  Moves
  <2>1. /\ Len(users') = Len(users) /\ users'[i] = u
        /\ \A j \in 1 .. Len(users) : j # i => users'[j] = users[j]
    BY <1>1, <1>9, InPlace
  <2>2. \A j \in 1 .. Len(users') : j <= Len(users) /\ (j # i => users'[j] = users[j])
    BY <1>1, <2>1
  <2>3. \A j \in 1 .. Len(users') : Becomes(j)
    <3> SUFFICES ASSUME NEW j \in 1 .. Len(users'), j # i PROVE Becomes(j)
      BY <1>9
    <3> QED
      BY <2>2 DEF Becomes
  <2>4. ASSUME NEW q \in Requests PROVE Remembers(q)
    BY <1>1, <1>9, InSlot DEF Remembers
  <2> QED
    BY <2>3, <2>4 DEF Moves
<1>10. Idle \in Slot /\ (Idle.phase = "idle" \/ Idle.phase = "audit") /\ Idle.copy = NoCopy
  BY <1>2, IdleIs
<1>11. ASSUME NEW r \in Requests, RejectLogin(r) \/ AdmitLogin(r)
       PROVE  Moves
  <2> DEFINE i == req[r].user
             u == IF RejectLogin(r) THEN Failed(users[i]) ELSE Cleared(users[i])
  <2>1. i \in 1 .. Len(users)
    BY <1>1, <1>11 DEF RejectLogin, AdmitLogin, Prepared
  <2>2. Failed(users[i]) \in Account /\ Cleared(users[i]) \in Account
    BY <1>1, <2>1, FailedIs, ClearedIs
  <2>3. /\ users' = [users EXCEPT ![i] = u] /\ req' = [req EXCEPT ![r] = Idle]
        /\ (RejectLogin(r) /\ u = Failed(users[i])) \/ (AdmitLogin(r) /\ u = Cleared(users[i]))
    BY <1>11 DEF RejectLogin, AdmitLogin, End
  <2>4. users'[i] = u /\ u \in Account /\ i <= Len(users)
    BY <1>1, <2>1, <2>2, <2>3, InPlace
  <2>5. Becomes(i)
    BY <2>3, <2>4 DEF Becomes
  <2> HIDE DEF u, i
  <2> QED
    BY <1>9, <1>10, <2>1, <2>3, <2>4, <2>5
<1>12. ASSUME NEW r \in Requests, FinishReset(r)
       PROVE  Moves
  <2> DEFINE i == req[r].user
             u == [req[r].copy EXCEPT !.password = req[r].password]
  <2>1. /\ i \in 1 .. Len(users) /\ req[r].copy \in Account
        /\ req[r].password \in Passwords
    BY <1>1, <1>12 DEF FinishReset, Prepared
  <2>2. u \in Account
    BY <2>1 DEF Account
  <2>3. users' = [users EXCEPT ![i] = u] /\ req' = [req EXCEPT ![r] = Idle]
    BY <1>12 DEF FinishReset, End
  <2>4. users'[i] = u /\ i <= Len(users)
    BY <1>1, <2>1, <2>2, <2>3, InPlace
  <2>5. Becomes(i)
    BY <1>12, <2>4 DEF Becomes
  <2> HIDE DEF u, i
  <2> QED
    BY <1>9, <1>10, <2>1, <2>2, <2>3, <2>5
<1>13. ASSUME NEW t \in Raws, VerifyEmail(t)
       PROVE  Moves
  <2> DEFINE i == tokens[t].user
             u == [users[i] EXCEPT !.verified = TRUE]
  <2>1. i \in 1 .. Len(users)
    BY <1>1, <1>13 DEF VerifyEmail, Usable, OwnersExist
  <2>2. u \in Account
    BY <1>1, <2>1 DEF Account
  <2>3. users' = [users EXCEPT ![i] = u] /\ req' = req
    BY <1>13 DEF VerifyEmail
  <2> HIDE DEF u, i
  <2>4. users'[i] = u /\ i <= Len(users)
    BY <1>1, <2>1, <2>2, <2>3, InPlace
  <2>5. Becomes(i)
    BY <1>13, <2>4 DEF Becomes, u, i
  <2> QED
    BY <1>9, <2>1, <2>2, <2>3, <2>5
<1>14. ASSUME NEW r \in Requests, NEW i \in UserIds, NEW b \in BOOLEAN, SetActive(r, i, b)
       PROVE  Moves
  <2> DEFINE u == [users[i] EXCEPT !.active = b]
             s == [Idle EXCEPT !.phase = "audit", !.user = i,
                               !.event = IF b THEN "activated" ELSE "deactivated"]
  <2>1. i \in 1 .. Len(users)
    BY <1>1, <1>14 DEF SetActive
  <2>2. u \in Account
    BY <1>1, <2>1 DEF Account
  <2>3. s \in Slot /\ (s.phase = "idle" \/ s.phase = "audit") /\ s.copy = NoCopy
    BY DEF Slot, Idle
  <2>4. users' = [users EXCEPT ![i] = u] /\ req' = [req EXCEPT ![r] = s]
    BY <1>14 DEF SetActive
  <2>5. users'[i] = u /\ i <= Len(users)
    BY <1>1, <2>1, <2>2, <2>4, InPlace
  <2>6. Becomes(i)
    BY <1>14, <2>5 DEF Becomes
  <2> HIDE DEF u, s
  <2> QED
    BY <1>9, <2>1, <2>2, <2>3, <2>4, <2>6
<1>15. ASSUME NEW r \in Requests, NEW i \in UserIds, NEW role \in Roles, SetRole(r, i, role)
       PROVE  Moves
  <2> DEFINE u == [users[i] EXCEPT !.role = role]
             s == [Idle EXCEPT !.phase = "audit", !.user = i, !.event = "role_changed"]
  <2>1. i \in 1 .. Len(users)
    BY <1>1, <1>15 DEF SetRole
  <2>2. u \in Account
    BY <1>1, <2>1 DEF Account
  <2>3. s \in Slot /\ (s.phase = "idle" \/ s.phase = "audit") /\ s.copy = NoCopy
    BY DEF Slot, Idle
  <2>4. users' = [users EXCEPT ![i] = u] /\ req' = [req EXCEPT ![r] = s]
    BY <1>15 DEF SetRole
  <2>5. users'[i] = u /\ i <= Len(users)
    BY <1>1, <2>1, <2>2, <2>4, InPlace
  <2>6. Becomes(i)
    BY <1>15, <2>5 DEF Becomes
  <2> HIDE DEF u, s
  <2> QED
    BY <1>9, <2>1, <2>2, <2>3, <2>4, <2>6
<1>16. ASSUME NEW r \in Requests, AuditAdmin(r)
       PROVE  Moves
  <2>1. users' = users /\ req' = [req EXCEPT ![r] = Idle]
    BY <1>16 DEF AuditAdmin, End
  <2>2. req'[r] = Idle /\ \A q \in Requests \ {r} : req'[q] = req[q]
    BY <1>1, <2>1, InSlot
  <2> QED
    BY <1>1, <1>2, <2>1, <2>2 DEF Moves, Becomes, Remembers
<1>17. CASE Elsewhere
  <2>1. CASE \E t \in Raws : VerifyEmail(t)
    BY <1>13, <2>1
  <2>2. CASE ~(\E t \in Raws : VerifyEmail(t))
    <3>1. UNCHANGED <<users, req>>
      BY <1>17, <2>2 DEF Elsewhere, TokenExpires, LockLapses
    <3> QED
      BY <1>3, <3>1
  <2> QED
    BY <2>1, <2>2
<1>18. CASE UNCHANGED vars
  BY <1>3, <1>18 DEF vars
<1>19. CASE \E r \in Requests : Credentials(r)
  BY <1>4, <1>6, <1>8, <1>11, <1>19 DEF Credentials
<1>20. CASE \E r \in Requests : Verification(r)
  <2>1. ASSUME NEW r \in Requests, NEW e \in Emails, NEW p \in Purposes, BeginIssue(r, e, p)
        PROVE  Moves
    <3>1. PICK i \in UserIds :
            /\ req' = [req EXCEPT ![r] = [Idle EXCEPT
                   !.phase = "issue", !.user = i, !.purpose = p, !.since = Len(issues)]]
            /\ users' = users
      BY <2>1 DEF BeginIssue
    <3> DEFINE s == [Idle EXCEPT !.phase = "issue", !.user = i, !.purpose = p,
                                 !.since = Len(issues)]
    <3>2. s.phase = "issue" /\ s.copy = NoCopy
      BY DEF Idle
    <3>3. req' = [req EXCEPT ![r] = s] /\ users' = users
      BY <3>1
    <3> HIDE DEF s
    <3>4. req'[r] = s /\ \A q \in Requests \ {r} : req'[q] = req[q]
      BY <1>1, <3>3, InSlot
    <3> QED
      BY <1>1, <3>2, <3>3, <3>4 DEF Moves, Becomes, Remembers
  <2>2. ASSUME NEW r \in Requests, NEW t \in Raws, FinishIssue(r, t)
        PROVE  Moves
    <3>1. users' = users /\ req' = [req EXCEPT ![r] = Idle]
      BY <2>2 DEF FinishIssue, End
    <3>2. req'[r] = Idle /\ \A q \in Requests \ {r} : req'[q] = req[q]
      BY <1>1, <3>1, InSlot
    <3> QED
      BY <1>1, <1>2, <3>1, <3>2 DEF Moves, Becomes, Remembers
  <2> QED
    BY <1>7, <1>12, <1>20, <2>1, <2>2 DEF Verification
<1>21. CASE \E r \in Requests : Admin(r)
  BY <1>14, <1>15, <1>16, <1>21 DEF Admin
<1> QED
  BY <1>17, <1>18, <1>19, <1>20, <1>21 DEF Next

-----------------------------------------------------------------------------
(* Verified addresses. *)

\* An account, and the copy of it that a reset will save.
VerifiedInv ==
    /\ VerifiedByMail
    /\ \A r \in Requests :
          req[r].phase = "rehash" /\ req[r].copy.verified => MailAnswered(req[r].user)

\* Whoever uses a token of his for an address answers the mail that carried it.
LEMMA AnswerIs ==
  ASSUME AccountInv, NEW t \in Raws, VerifyEmail(t), NEW i, i = tokens[t].user
  PROVE  MailAnswered(i)'
<1>1. /\ Usable(t, "email_verify") /\ UNCHANGED issues
      /\ uses' = [uses EXCEPT ![t] = uses[t] + 1] /\ uses \in [Raws -> Nat]
  BY DEF VerifyEmail, Consume, AccountInv, TokenInv, TokensTyped
<1>2. PICK n \in DOMAIN issues : issues[n].raw = t
  BY <1>1 DEF Usable, AccountInv, TokenInv, NothingElse, Fresh
<1>3. issues[n].user = i /\ issues[n].purpose = "email_verify"
  BY <1>1, <1>2 DEF Usable, AccountInv, TokenInv, Ledger
<1>4. uses'[t] > 0
  BY <1>1
<1> QED
  BY <1>1, <1>2, <1>3, <1>4 DEF MailAnswered

\* Neither a handler that saves a copy nor anyone else makes an address verified
\* that was not.
LEMMA VerifiedNext ==
  ASSUME AccountInv, VerifiedInv, [Next]_vars
  PROVE  VerifiedInv'
<1>1. /\ Moves /\ AccountsTyped /\ TokenInv
      /\ Len(users) \in Nat /\ DOMAIN users = 1 .. Len(users)
      /\ \A i \in 1 .. Len(users) : users[i] \in Account
      /\ \A r \in Requests : Prepared(req[r], Len(users))
  BY AccountMoves, UsersAre DEF AccountInv, LockInv, AccountsTyped
<1>2. Len(users') \in Nat /\ DOMAIN users' = 1 .. Len(users')
  BY LockNext DEF AccountInv, LockInv, AccountsTyped
<1>3. \A i : MailAnswered(i) => MailAnswered(i)'
  BY <1>1, ResetsRemain
<1>4. ASSUME NEW j \in 1 .. Len(users'), users'[j].verified
      PROVE  MailAnswered(j)'
  <2>1. Becomes(j) /\ j \in Nat
    BY <1>1, <1>2 DEF Moves
  <2>2. CASE j <= Len(users) /\ users[j].verified
    BY <1>1, <1>2, <1>3, <2>2 DEF VerifiedInv, VerifiedByMail
  <2>3. CASE \E r \in Requests : users'[j] = Made(r)
    BY <1>4, <2>3 DEF Made
  <2>4. CASE \E r \in Requests :
               /\ FinishReset(r) /\ req[r].user = j
               /\ users'[j] = [req[r].copy EXCEPT !.password = req[r].password]
    <3>1. PICK r \in Requests :
            /\ req[r].phase = "rehash" /\ req[r].user = j
            /\ users'[j] = [req[r].copy EXCEPT !.password = req[r].password]
      BY <2>4 DEF FinishReset
    <3>2. req[r].copy \in Account
      BY <1>1, <3>1 DEF Prepared
    <3>3. users'[j].verified = req[r].copy.verified
      BY <3>1, <3>2 DEF Account
    <3> QED
      BY <1>3, <1>4, <3>1, <3>3 DEF VerifiedInv
  <2>5. CASE \E t \in Raws : VerifyEmail(t) /\ tokens[t].user = j
    BY <2>5, AnswerIs
  <2>6. CASE /\ j <= Len(users)
             /\ \/ users'[j] = users[j]
                \/ users'[j] = Failed(users[j])
                \/ users'[j] = Cleared(users[j])
                \/ \E b : users'[j] = [users[j] EXCEPT !.active = b]
                \/ \E x : users'[j] = [users[j] EXCEPT !.role = x]
    <3>1. users[j] \in Account
      BY <1>1, <1>2, <2>6
    <3>2. users'[j].verified = users[j].verified
      BY <2>6, <3>1 DEF Account, Failed, Cleared
    <3> QED
      BY <1>4, <2>2, <2>6, <3>2
  <2> QED
    BY <2>1, <2>3, <2>4, <2>5, <2>6 DEF Becomes
<1>5. ASSUME NEW q \in Requests, req'[q].phase = "rehash", req'[q].copy.verified
      PROVE  \A i : i = req'[q].user => MailAnswered(i)'
  <2>1. Remembers(q)
    BY <1>1 DEF Moves
  <2>2. CASE req'[q] = req[q]
    BY <1>3, <1>5, <2>2 DEF VerifiedInv
  <2>3. CASE req'[q].user \in 1 .. Len(users) /\ req'[q].copy = users[req'[q].user]
    BY <1>1, <1>3, <1>5, <2>3 DEF VerifiedInv, VerifiedByMail
  <2> QED
    BY <1>5, <2>1, <2>2, <2>3 DEF Remembers
<1>6. VerifiedByMail'
  BY <1>2, <1>4 DEF VerifiedByMail
<1> QED
  BY <1>5, <1>6 DEF VerifiedInv

\* An address counts as verified only after the mail for that account was answered.
THEOREM AddressesAreVerified == Spec => []VerifiedByMail
<1>1. Init => VerifiedInv
  BY DEF Init, VerifiedInv, VerifiedByMail, Idle
<1>2. VerifiedInv => VerifiedByMail
  BY DEF VerifiedInv
<1> QED
  BY <1>1, <1>2, VerifiedNext, AccountsInv, PTL DEF Spec

-----------------------------------------------------------------------------
(* What the two races need. *)

\* No two sign-ups for one address hash their passwords at the same time.
SignupsApart ==
    \A q, r \in Requests :
        req[q].phase = "hash" /\ req[r].phase = "hash" /\ req[q].email = req[r].email
            => q = r

\* An address being hashed is free, and a copy has the address of its account.
EmailInv ==
    /\ EmailsAreUnique
    /\ \A r \in Requests : req[r].phase = "hash" => ~Taken(req[r].email)
    /\ \A r \in Requests : req[r].phase = "rehash" =>
          req[r].copy.email = users[req[r].user].email

\* Only CreateUser brings an address that was not there.
LEMMA EmailsStay ==
  ASSUME AccountInv, EmailInv, [Next]_vars
  PROVE  /\ Len(users) \in Nat /\ DOMAIN users = 1 .. Len(users)
         /\ Len(users') \in Nat /\ DOMAIN users' = 1 .. Len(users')
         /\ Len(users) <= Len(users')
         /\ \A j \in 1 .. Len(users') :
              \/ j \in 1 .. Len(users) /\ users'[j].email = users[j].email
              \/ /\ j = Len(users) + 1
                 /\ \E r \in Requests : CreateUser(r) /\ users'[j].email = req[r].email
<1>1. /\ Moves /\ AccountsTyped
      /\ Len(users) \in Nat /\ DOMAIN users = 1 .. Len(users)
      /\ \A i \in 1 .. Len(users) : users[i] \in Account
      /\ \A r \in Requests : Prepared(req[r], Len(users))
  BY AccountMoves, UsersAre DEF AccountInv, LockInv, AccountsTyped
<1>2. /\ Len(users') \in Nat /\ DOMAIN users' = 1 .. Len(users')
      /\ Len(users) <= Len(users')
  BY LockNext DEF AccountInv, LockInv, AccountsTyped
<1>3. ASSUME NEW j \in 1 .. Len(users')
      PROVE  \/ j \in 1 .. Len(users) /\ users'[j].email = users[j].email
             \/ /\ j = Len(users) + 1
                /\ \E r \in Requests : CreateUser(r) /\ users'[j].email = req[r].email
  <2>1. Becomes(j) /\ j \in Nat /\ j >= 1
    BY <1>1, <1>2 DEF Moves
  <2>2. CASE j = Len(users) + 1 /\ \E r \in Requests : CreateUser(r) /\ users'[j] = Made(r)
    BY <2>2 DEF Made
  <2>3. CASE j <= Len(users) /\ \E r \in Requests :
               /\ FinishReset(r) /\ req[r].user = j
               /\ users'[j] = [req[r].copy EXCEPT !.password = req[r].password]
    <3>1. PICK r \in Requests :
            /\ req[r].phase = "rehash" /\ req[r].user = j
            /\ users'[j] = [req[r].copy EXCEPT !.password = req[r].password]
      BY <2>3 DEF FinishReset
    <3>2. req[r].copy \in Account
      BY <1>1, <3>1 DEF Prepared
    <3>3. users'[j].email = req[r].copy.email
      BY <3>1, <3>2 DEF Account
    <3> QED
      BY <1>1, <2>1, <2>3, <3>1, <3>3 DEF EmailInv
  <2>4. CASE /\ j <= Len(users)
             /\ \/ users'[j] = users[j]
                \/ users'[j] = Failed(users[j])
                \/ users'[j] = Cleared(users[j])
                \/ users'[j] = [users[j] EXCEPT !.verified = TRUE]
                \/ \E b : users'[j] = [users[j] EXCEPT !.active = b]
                \/ \E x : users'[j] = [users[j] EXCEPT !.role = x]
    <3>1. users[j] \in Account
      BY <1>1, <2>1, <2>4
    <3>2. users'[j].email = users[j].email
      BY <2>4, <3>1 DEF Account, Failed, Cleared
    <3> QED
      BY <1>1, <2>1, <2>4, <3>2
  <2> QED
    BY <2>1, <2>2, <2>3, <2>4 DEF Becomes
<1> QED
  BY <1>1, <1>2, <1>3

\* A sign-up whose address nobody else is hashing finds it free when it is done.
LEMMA EmailNext ==
  ASSUME AccountInv, EmailInv, SignupsApart, [Next]_vars
  PROVE  EmailInv'
<1> DEFINE n == Len(users)
<1>1. /\ n \in Nat /\ DOMAIN users = 1 .. n
      /\ Len(users') \in Nat /\ DOMAIN users' = 1 .. Len(users')
      /\ Len(users) <= Len(users')
      /\ \A j \in 1 .. Len(users') :
           \/ j \in 1 .. n /\ users'[j].email = users[j].email
           \/ j = n + 1 /\ \E r \in Requests : CreateUser(r) /\ users'[j].email = req[r].email
  BY EmailsStay
<1>2. Moves /\ AccountsTyped /\ \A r \in Requests : Prepared(req[r], n)
  BY AccountMoves DEF AccountInv, LockInv, AccountsTyped
<1>3. \A r \in Requests : CreateUser(r) =>
        /\ req[r].phase = "hash" /\ ~Taken(req[r].email) /\ req'[r] = Idle
  BY <1>2, InSlot DEF CreateUser, End, EmailInv
<1>4. EmailsAreUnique'
  <2> SUFFICES ASSUME NEW i \in 1 .. Len(users'), NEW j \in 1 .. Len(users'),
                      users'[i].email = users'[j].email, i # j
               PROVE  FALSE
    BY <1>1 DEF EmailsAreUnique
  <2>1. CASE i \in 1 .. n /\ j \in 1 .. n
    BY <1>1, <2>1 DEF EmailInv, EmailsAreUnique
  <2>2. CASE i \in 1 .. n /\ j = n + 1
    BY <1>1, <1>3, <2>2 DEF Taken
  <2>3. CASE j \in 1 .. n /\ i = n + 1
    BY <1>1, <1>3, <2>3 DEF Taken
  <2> QED
    BY <1>1, <2>1, <2>2, <2>3
<1>5. ASSUME NEW q \in Requests, req'[q].phase = "hash"
      PROVE  ~Taken(req[q].email)'
  <2> SUFFICES ASSUME NEW j \in 1 .. Len(users'), users'[j].email = req'[q].email
               PROVE  FALSE
    BY <1>1 DEF Taken
  <2>1. Remembers(q)
    BY <1>2 DEF Moves
  <2>2. CASE req'[q] = req[q]
    <3>1. ~Taken(req[q].email)
      BY <1>5, <2>2 DEF EmailInv
    <3>2. CASE j \in 1 .. n /\ users'[j].email = users[j].email
      BY <1>1, <2>2, <3>1, <3>2 DEF Taken
    <3>3. CASE \E r \in Requests : CreateUser(r) /\ users'[j].email = req[r].email
      <4>1. PICK r \in Requests : CreateUser(r) /\ users'[j].email = req[r].email
        BY <3>3
      <4>2. req[r].phase = "hash" /\ req'[r] = Idle /\ Idle.phase # "hash"
        BY <1>3, <4>1 DEF Idle
      <4>3. r # q
        BY <1>5, <4>2
      <4> QED
        BY <1>5, <2>2, <4>1, <4>2, <4>3 DEF SignupsApart
    <3> QED
      BY <1>1, <3>2, <3>3
  <2>3. CASE users' = users /\ ~Taken(req'[q].email)
    BY <1>1, <2>3 DEF Taken
  <2> QED
    BY <1>5, <2>1, <2>2, <2>3 DEF Remembers
<1>6. ASSUME NEW q \in Requests, req'[q].phase = "rehash"
      PROVE  req'[q].copy.email = users'[req'[q].user].email
  <2>1. Remembers(q)
    BY <1>2 DEF Moves
  <2>2. CASE req'[q] = req[q]
    <3>1. req[q].user \in 1 .. n
      BY <1>2, <1>6, <2>2 DEF Prepared
    <3>2. users'[req[q].user].email = users[req[q].user].email
      BY <1>1, <3>1
    <3> QED
      BY <1>6, <2>2, <3>2 DEF EmailInv
  <2>3. CASE users' = users /\ req'[q].copy = users[req'[q].user]
    BY <2>3
  <2> QED
    BY <1>6, <2>1, <2>2, <2>3 DEF Remembers
<1> QED
  BY <1>4, <1>5, <1>6 DEF EmailInv

\* The overlap of two sign-ups is the only way to two accounts with one address.
THEOREM ApartSignupsAreUnique == Spec /\ []SignupsApart => []EmailsAreUnique
<1>1. Init => EmailInv
  BY DEF Init, EmailInv, EmailsAreUnique, Idle
<1>2. EmailInv => EmailsAreUnique
  BY DEF EmailInv
<1> QED
  BY <1>1, <1>2, EmailNext, AccountsInv, PTL DEF Spec

\* No admin changes an account while a password reset of it is under way.
ResetsApart ==
    \A q, r \in Requests :
        req[q].phase = "audit" /\ req[r].phase = "rehash" => req[q].user # req[r].user

\* A copy is as active as its account.
ActiveInv ==
    \A r \in Requests : req[r].phase = "rehash" =>
        req[r].copy.active = users[req[r].user].active

\* Without such an overlap only SetActive moves the flag.
LEMMA ActiveStays ==
  ASSUME AccountInv, ActiveInv, [Next]_vars, NEW j \in 1 .. Len(users)
  PROVE  \/ users'[j].active = users[j].active
         \/ \E r \in Requests, b \in BOOLEAN :
              SetActive(r, j, b) /\ users'[j].active = b
<1>1. /\ Moves /\ AccountsTyped /\ Len(users) \in Nat
      /\ \A i \in 1 .. Len(users) : users[i] \in Account
      /\ \A r \in Requests : Prepared(req[r], Len(users))
  BY AccountMoves, UsersAre DEF AccountInv, LockInv, AccountsTyped
<1>2. Len(users') \in Nat /\ Len(users) <= Len(users')
  BY LockNext DEF AccountInv
<1>3. Becomes(j) /\ users[j] \in Account /\ j # Len(users) + 1
  BY <1>1, <1>2 DEF Moves
<1>4. CASE \E r \in Requests :
             /\ FinishReset(r) /\ req[r].user = j
             /\ users'[j] = [req[r].copy EXCEPT !.password = req[r].password]
  <2>1. PICK r \in Requests :
          /\ req[r].phase = "rehash" /\ req[r].user = j
          /\ users'[j] = [req[r].copy EXCEPT !.password = req[r].password]
    BY <1>4 DEF FinishReset
  <2>2. req[r].copy \in Account
    BY <1>1, <2>1 DEF Prepared
  <2>3. users'[j].active = req[r].copy.active
    BY <2>1, <2>2 DEF Account
  <2> QED
    BY <2>1, <2>3 DEF ActiveInv
<1>5. CASE \E r \in Requests, b \in BOOLEAN :
             SetActive(r, j, b) /\ users'[j] = [users[j] EXCEPT !.active = b]
  <2>1. PICK r \in Requests, b \in BOOLEAN :
          SetActive(r, j, b) /\ users'[j] = [users[j] EXCEPT !.active = b]
    BY <1>5
  <2>2. users'[j].active = b
    BY <1>3, <2>1 DEF Account
  <2> QED
    BY <2>1, <2>2
<1>6. CASE \/ users'[j] = users[j]
           \/ users'[j] = Failed(users[j])
           \/ users'[j] = Cleared(users[j])
           \/ users'[j] = [users[j] EXCEPT !.verified = TRUE]
           \/ \E x : users'[j] = [users[j] EXCEPT !.role = x]
  BY <1>3, <1>6 DEF Account, Failed, Cleared
<1> QED
  BY <1>3, <1>4, <1>5, <1>6 DEF Becomes

\* An activation or deactivation leaves its own slot in the audit.
LEMMA SetActiveIs ==
  ASSUME AccountInv, NEW r \in Requests, NEW j, NEW b \in BOOLEAN, SetActive(r, j, b)
  PROVE  /\ req[r].phase = "idle" /\ req'[r].phase = "audit" /\ req'[r].user = j
         /\ req'[r].event = IF b THEN "activated" ELSE "deactivated"
<1>1. AccountsTyped /\ req[r] = Idle
  BY DEF AccountInv, LockInv, SetActive
<1> DEFINE s == [Idle EXCEPT !.phase = "audit", !.user = j,
                             !.event = IF b THEN "activated" ELSE "deactivated"]
<1>2. /\ s.phase = "audit" /\ s.user = j
      /\ s.event = IF b THEN "activated" ELSE "deactivated"
  BY DEF Idle
<1>3. req' = [req EXCEPT ![r] = s]
  BY DEF SetActive
<1> HIDE DEF s
<1>4. req'[r] = s
  BY <1>1, <1>3, InSlot
<1> QED
  BY <1>1, <1>2, <1>4 DEF Idle

\* A reset that no admin interferes with saves the flag as it is.
LEMMA ActiveNext ==
  ASSUME AccountInv, ActiveInv, [Next]_vars, ResetsApart'
  PROVE  ActiveInv'
<1>1. /\ Moves /\ Len(users) \in Nat
      /\ \A r \in Requests : Prepared(req[r], Len(users))
  BY AccountMoves, UsersAre DEF AccountInv, LockInv, AccountsTyped
<1> SUFFICES ASSUME NEW q \in Requests, req'[q].phase = "rehash"
             PROVE  req'[q].copy.active = users'[req'[q].user].active
  BY DEF ActiveInv
<1>2. Remembers(q)
  BY <1>1 DEF Moves
<1>3. CASE req'[q] = req[q]
  <2>1. req[q].user \in 1 .. Len(users)
    BY <1>1, <1>3 DEF Prepared
  <2>2. PICK j \in 1 .. Len(users) : j = req[q].user
    BY <2>1
  <2>3. ~\E r \in Requests, b \in BOOLEAN : SetActive(r, j, b)
    BY <1>3, <2>2, SetActiveIs DEF ResetsApart
  <2>4. users'[j].active = users[j].active
    BY <2>3, ActiveStays
  <2> QED
    BY <1>3, <2>2, <2>4 DEF ActiveInv
<1>4. CASE users' = users /\ req'[q].copy = users[req'[q].user]
  BY <1>4
<1> QED
  BY <1>2, <1>3, <1>4 DEF Remembers

\* The overlap of a reset with an admin's change is the only way a deactivated
\* account becomes active without an admin.
THEOREM ApartResetsRespectDeactivation == Spec /\ []ResetsApart => DeactivationSticks
<1> DEFINE Sticks ==
      \A i \in DOMAIN users : ~users[i].active /\ users'[i].active =>
         \E r \in Requests : req[r].phase = "idle" /\ req'[r].phase = "audit"
                               /\ req'[r].user = i
                               /\ req'[r].event = "activated"
<1>1. Init => ActiveInv
  BY DEF Init, ActiveInv, Idle
<1>2. AccountInv /\ ActiveInv /\ [Next]_vars => Sticks
  <2> SUFFICES ASSUME AccountInv, ActiveInv, [Next]_vars, NEW i \in DOMAIN users,
                      ~users[i].active, users'[i].active
               PROVE  \E r \in Requests :
                        /\ req[r].phase = "idle" /\ req'[r].phase = "audit"
                        /\ req'[r].user = i /\ req'[r].event = "activated"
    OBVIOUS
  <2>1. i \in 1 .. Len(users)
    BY UsersAre DEF AccountInv, LockInv
  <2>2. PICK r \in Requests, b \in BOOLEAN : SetActive(r, i, b) /\ users'[i].active = b
    BY <2>1, ActiveStays
  <2> QED
    BY <2>2, SetActiveIs
<1> HIDE DEF Sticks
<1>3. Spec /\ []ResetsApart => [][Sticks]_vars
  BY <1>1, <1>2, ActiveNext, AccountsInv, PTL DEF Spec
<1> QED
  BY <1>3 DEF DeactivationSticks, Sticks

-----------------------------------------------------------------------------
(* Types: no counter outgrows the wrong passwords that were sent. *)

\* Comparisons under way that will fail.
Guessing == {r \in Requests : /\ req[r].phase = "compare"
                              /\ req[r].password # req[r].copy.password}

\* Comparisons that have failed: wrong passwords sent but for those under way.
Failures == wrong - Cardinality(Guessing)

\* An account, or a copy of it, that counts no more than has failed.
Within(u) == u.attempts <= Failures /\ u.lock <= locks

BoundsInv ==
    /\ IsFiniteSet(Guessing)
    /\ wrong \in 0 .. MaxWrong /\ lapsed \in 0 .. locks
    /\ locks \in Nat /\ locks <= Failures
    /\ \A i \in UserIds : failures[i] <= Failures
    /\ \A i \in 1 .. Len(users) : Within(users[i])
    /\ \A r \in Requests :
         IF req[r].phase = "compare" \/ req[r].phase = "rehash"
           THEN Within(req[r].copy)
           ELSE req[r].copy = NoCopy

\* Writing a slot adds it to those comparisons or takes it away.
LEMMA GuessingIs ==
  ASSUME AccountsTyped, NEW r \in Requests, NEW s, req' = [req EXCEPT ![r] = s]
  PROVE  /\ s.phase = "compare" /\ s.password # s.copy.password
               => Guessing' = Guessing \cup {r}
         /\ ~(s.phase = "compare" /\ s.password # s.copy.password)
               => Guessing' = Guessing \ {r}
<1>1. req'[r] = s /\ \A q \in Requests \ {r} : req'[q] = req[q]
  BY InSlot
<1> QED
  BY <1>1 DEF Guessing

\* A login with a wrong password is one more under way, and its end one less: what
\* has failed never shrinks, and grows with the failure that RejectLogin records.
LEMMA FailuresGrow ==
  ASSUME AccountInv, IsFiniteSet(Guessing), wrong \in 0 .. MaxWrong, [Next]_vars
  PROVE  /\ IsFiniteSet(Guessing)' /\ (wrong \in 0 .. MaxWrong)'
         /\ Failures \in Int /\ Failures' \in Int /\ Failures <= wrong
         /\ Failures <= Failures'
         /\ \A r \in Requests : RejectLogin(r) => Failures' = Failures + 1
<1> DEFINE k == Cardinality(Guessing)
<1>1. /\ AccountsTyped /\ wrong \in Nat /\ MaxWrong \in Nat /\ k \in Nat
      /\ \A r \in Requests : Prepared(req[r], Len(users))
  BY FS_CardinalityType, BoundsAssumption DEF AccountInv, LockInv, AccountsTyped
<1>2. ASSUME Guessing' = Guessing, wrong' = wrong, \A r \in Requests : ~RejectLogin(r)
      PROVE  /\ IsFiniteSet(Guessing)' /\ (wrong \in 0 .. MaxWrong)'
             /\ Failures \in Int /\ Failures' \in Int /\ Failures <= wrong
             /\ Failures <= Failures'
             /\ \A r \in Requests : RejectLogin(r) => Failures' = Failures + 1
  BY <1>1, <1>2 DEF Failures
<1>3. ASSUME NEW r \in Requests, NEW s, req' = [req EXCEPT ![r] = s], s.phase # "compare",
             r \notin Guessing
      PROVE  Guessing' = Guessing
  <2>1. Guessing' = Guessing \ {r}
    BY <1>1, <1>3, GuessingIs
  <2> QED
    BY <1>3, <2>1
<1>4. ASSUME NEW r \in Requests, RejectLogin(r)
      PROVE  r \in Guessing
  BY <1>4 DEF RejectLogin, Guessing
<1>5. ASSUME req' = req
      PROVE  Guessing' = Guessing
  BY <1>5 DEF Guessing
<1>6. \A r \in Requests : req[r].phase # "compare" => r \notin Guessing
  BY DEF Guessing
<1>7. Idle.phase = "idle"
  BY DEF Idle
<1>8. ASSUME NEW r \in Requests, NEW e \in Emails, NEW p \in Passwords, BeginLogin(r, e, p)
      PROVE  /\ IsFiniteSet(Guessing)' /\ (wrong \in 0 .. MaxWrong)'
             /\ Failures \in Int /\ Failures' \in Int /\ Failures <= wrong
             /\ Failures <= Failures'
             /\ ~\E q \in Requests : RejectLogin(q)
  <2>1. PICK i \in UserIds :
          /\ IF p = users[i].password
               THEN UNCHANGED wrong
               ELSE wrong < MaxWrong /\ wrong' = wrong + 1
          /\ req' = [req EXCEPT ![r] = [Idle EXCEPT
                 !.phase = "compare", !.user = i, !.password = p, !.copy = users[i]]]
    BY <1>8 DEF BeginLogin
  <2> DEFINE s == [Idle EXCEPT !.phase = "compare", !.user = i, !.password = p,
                               !.copy = users[i]]
  <2>2. s.phase = "compare" /\ s.password = p /\ s.copy = users[i]
    BY DEF Idle
  <2>3. req' = [req EXCEPT ![r] = s] /\ r \notin Guessing
    BY <1>6, <1>7, <1>8, <2>1 DEF BeginLogin
  <2> HIDE DEF s
  <2>4. UNCHANGED users /\ UNCHANGED failures /\ UNCHANGED locks
    BY <1>8 DEF BeginLogin
  <2>5. ~\E q \in Requests : RejectLogin(q)
    <3> SUFFICES ASSUME NEW q \in Requests, RejectLogin(q) PROVE FALSE
      OBVIOUS
    <3>1. req[q].user \in UserIds /\ failures \in [UserIds -> Nat]
      BY <1>1, UsersAre DEF RejectLogin, Prepared, AccountsTyped
    <3> QED
      BY <2>4, <3>1 DEF RejectLogin
  <2>6. CASE p = users[i].password
    <3>1. Guessing' = Guessing \ {r} /\ wrong' = wrong
      BY <1>1, <2>1, <2>2, <2>3, <2>6, GuessingIs
    <3>2. Guessing' = Guessing /\ wrong' = wrong
      BY <2>3, <3>1
    <3> QED
      BY <1>1, <2>5, <3>2 DEF Failures
  <2>7. CASE p # users[i].password
    <3>1. Guessing' = Guessing \cup {r} /\ wrong < MaxWrong /\ wrong' = wrong + 1
      BY <1>1, <2>1, <2>2, <2>3, <2>7, GuessingIs
    <3>2. IsFiniteSet(Guessing') /\ Cardinality(Guessing') = k + 1
      BY <2>3, <3>1, FS_AddElement
    <3> QED
      BY <1>1, <2>5, <3>1, <3>2 DEF Failures
  <2> QED
    BY <2>6, <2>7
<1>9. ASSUME NEW r \in Requests, RejectLogin(r)
      PROVE  /\ IsFiniteSet(Guessing)' /\ (wrong \in 0 .. MaxWrong)'
             /\ Failures \in Int /\ Failures' \in Int /\ Failures <= wrong
             /\ Failures' = Failures + 1
  <2>1. req' = [req EXCEPT ![r] = Idle] /\ wrong' = wrong
    BY <1>9 DEF RejectLogin, End
  <2>2. Guessing' = Guessing \ {r} /\ r \in Guessing
    BY <1>1, <1>4, <1>7, <1>9, <2>1, GuessingIs
  <2>3. IsFiniteSet(Guessing') /\ Cardinality(Guessing') = k - 1
    BY <2>2, FS_RemoveElement
  <2> QED
    BY <1>1, <2>1, <2>3 DEF Failures
<1>10. CASE \E r \in Requests : RejectLogin(r)
  BY <1>1, <1>9, <1>10
<1>11. CASE \E r \in Requests, e \in Emails, p \in Passwords : BeginLogin(r, e, p)
  BY <1>8, <1>11
<1>12. ASSUME ~\E r \in Requests : RejectLogin(r),
              ~\E r \in Requests, e \in Emails, p \in Passwords : BeginLogin(r, e, p)
       PROVE  Guessing' = Guessing /\ wrong' = wrong
  <2>1. CASE UNCHANGED <<req, wrong>>
    BY <1>5, <2>1
  <2>2. ASSUME NEW r \in Requests, NEW e \in Emails, NEW p \in Passwords,
               BeginSignup(r, e, p)
        PROVE  Guessing' = Guessing /\ wrong' = wrong
    <3> DEFINE s == [Idle EXCEPT !.phase = "hash", !.email = e, !.password = p]
    <3>1. s.phase # "compare"
      BY DEF Idle
    <3>2. req' = [req EXCEPT ![r] = s] /\ r \notin Guessing /\ wrong' = wrong
      BY <1>6, <1>7, <2>2 DEF BeginSignup, history
    <3> HIDE DEF s
    <3> QED
      BY <1>3, <3>1, <3>2
  <2>4. ASSUME NEW r \in Requests,
               CreateUser(r) \/ AdmitLogin(r) \/ FinishReset(r) \/ AuditAdmin(r)
        PROVE  Guessing' = Guessing /\ wrong' = wrong
    <3>1. req' = [req EXCEPT ![r] = Idle] /\ wrong' = wrong
      BY <2>4 DEF CreateUser, AdmitLogin, FinishReset, AuditAdmin, End, history
    <3>2. r \notin Guessing
      BY <2>4 DEF CreateUser, AdmitLogin, FinishReset, AuditAdmin, Guessing
    <3> QED
      BY <1>3, <1>7, <3>1, <3>2
  <2>5. ASSUME NEW r \in Requests, NEW t \in Raws, NEW p \in Passwords, BeginReset(r, t, p)
        PROVE  Guessing' = Guessing /\ wrong' = wrong
    <3> DEFINE s == [Idle EXCEPT !.phase = "rehash", !.user = tokens[t].user,
                                 !.password = p, !.copy = users[tokens[t].user]]
    <3>1. s.phase # "compare"
      BY DEF Idle
    <3>2. req' = [req EXCEPT ![r] = s] /\ r \notin Guessing /\ wrong' = wrong
      BY <1>6, <1>7, <2>5 DEF BeginReset
    <3> HIDE DEF s
    <3> QED
      BY <1>3, <3>1, <3>2
  <2>6. ASSUME NEW r \in Requests, NEW i \in UserIds,
               \/ \E b \in BOOLEAN : SetActive(r, i, b)
               \/ \E role \in Roles : SetRole(r, i, role)
        PROVE  Guessing' = Guessing /\ wrong' = wrong
    <3>1. PICK v : req' = [req EXCEPT ![r] = [Idle EXCEPT !.phase = "audit", !.user = i,
                                                          !.event = v]]
      BY <2>6 DEF SetActive, SetRole
    <3> DEFINE s == [Idle EXCEPT !.phase = "audit", !.user = i, !.event = v]
    <3>2. s.phase # "compare"
      BY DEF Idle
    <3>3. req' = [req EXCEPT ![r] = s] /\ r \notin Guessing /\ wrong' = wrong
      BY <1>6, <1>7, <2>6, <3>1 DEF SetActive, SetRole, history
    <3> HIDE DEF s
    <3> QED
      BY <1>3, <3>2, <3>3
  <2>3. CASE Elsewhere
    <3>1. UNCHANGED <<req, wrong>>
      BY <2>3 DEF Elsewhere, VerifyEmail, TokenExpires, LockLapses, history
    <3> QED
      BY <2>1, <3>1
  <2>7. ASSUME NEW r \in Requests, NEW e \in Emails, NEW p \in Purposes, BeginIssue(r, e, p)
        PROVE  Guessing' = Guessing /\ wrong' = wrong
    <3>1. PICK i \in UserIds :
            req' = [req EXCEPT ![r] = [Idle EXCEPT
                !.phase = "issue", !.user = i, !.purpose = p, !.since = Len(issues)]]
      BY <2>7 DEF BeginIssue
    <3> DEFINE s == [Idle EXCEPT !.phase = "issue", !.user = i, !.purpose = p,
                                 !.since = Len(issues)]
    <3>2. s.phase # "compare"
      BY DEF Idle
    <3>3. req' = [req EXCEPT ![r] = s] /\ r \notin Guessing /\ wrong' = wrong
      BY <1>6, <1>7, <2>7, <3>1 DEF BeginIssue, history
    <3> HIDE DEF s
    <3> QED
      BY <1>3, <3>2, <3>3
  <2>8. ASSUME NEW r \in Requests, NEW t \in Raws, FinishIssue(r, t)
        PROVE  Guessing' = Guessing /\ wrong' = wrong
    <3>1. /\ req' = [req EXCEPT ![r] = Idle] /\ r \notin Guessing /\ wrong' = wrong
      BY <1>6, <2>8 DEF FinishIssue, End
    <3> QED
      BY <1>3, <1>7, <3>1
  <2> QED
    BY <1>12, <2>1, <2>2, <2>3, <2>4, <2>5, <2>6, <2>7, <2>8
       DEF Next, Credentials, Verification, Admin, vars, history
<1> QED
  BY <1>2, <1>10, <1>11, <1>12

\* What RejectLogin and AdmitLogin do to counter and lock.
LEMMA CountersAre ==
  ASSUME NEW u \in Account, locks \in Nat
  PROVE  /\ Failed(u).attempts = u.attempts + 1
         /\ Failed(u).lock = u.lock \/ Failed(u).lock = locks + 1
         /\ Cleared(u).attempts = 0 /\ Cleared(u).lock = 0
<1> DEFINE n == u.attempts + 1
           l == IF n >= MaxAttempts THEN locks + 1 ELSE u.lock
<1>1. Failed(u) = [u EXCEPT !.attempts = n, !.lock = l]
  BY DEF Failed
<1>2. l = u.lock \/ l = locks + 1
  OBVIOUS
<1>3. n = u.attempts + 1
  OBVIOUS
<1> HIDE DEF n, l
<1>4. Failed(u).attempts = n /\ Failed(u).lock = l
  BY <1>1 DEF Account
<1> QED
  BY <1>2, <1>3, <1>4 DEF Cleared, Account

\* Every step keeps the counters within the failures.
LEMMA BoundsNext ==
  ASSUME AccountInv, BoundsInv, [Next]_vars
  PROVE  BoundsInv'
<1>1. /\ Moves /\ AccountsTyped /\ TokenInv
      /\ Len(users) \in Nat /\ DOMAIN users = 1 .. Len(users)
      /\ \A i \in 1 .. Len(users) : users[i] \in Account /\ i \in UserIds
      /\ \A r \in Requests : Prepared(req[r], Len(users))
      /\ failures \in [UserIds -> Nat] /\ locks \in Nat /\ lapsed \in Nat /\ lapsed <= locks
  BY AccountMoves, UsersAre DEF AccountInv, LockInv, AccountsTyped, BoundsInv
<1>2. /\ Len(users') \in Nat
      /\ \A i \in 1 .. Len(users') : users'[i] \in Account
      /\ locks' \in Nat /\ failures' \in [UserIds -> Nat]
      /\ \A r \in Requests : Prepared(req'[r], Len(users'))
  BY LockNext DEF AccountInv, LockInv, AccountsTyped
<1>3. /\ IsFiniteSet(Guessing)' /\ (wrong \in 0 .. MaxWrong)'
      /\ Failures \in Int /\ Failures' \in Int /\ Failures <= wrong
      /\ Failures <= Failures' /\ 0 <= Failures
      /\ \A r \in Requests : RejectLogin(r) => Failures' = Failures + 1
  BY <1>1, FailuresGrow DEF BoundsInv
<1>4. ASSUME \A r \in Requests : ~RejectLogin(r)
      PROVE  /\ locks' = locks
             /\ lapsed' = lapsed \/ (lapsed < locks /\ lapsed' = lapsed + 1)
             /\ failures' = failures \/ \E i : failures' = [failures EXCEPT ![i] = 0]
  <2>1. CASE UNCHANGED vars
    BY <2>1 DEF vars
  <2>2. CASE \E r \in Requests : Credentials(r)
    BY <1>4, <2>2 DEF Credentials, BeginSignup, BeginLogin, CreateUser, AdmitLogin, history
  <2>3. CASE \E r \in Requests : Verification(r)
    BY <2>3 DEF Verification, BeginIssue, FinishIssue, BeginReset, FinishReset, history
  <2>4. CASE \E r \in Requests : Admin(r)
    BY <2>4 DEF Admin, SetActive, SetRole, AuditAdmin, history
  <2>5. CASE Elsewhere
    BY <2>5 DEF Elsewhere, VerifyEmail, TokenExpires, LockLapses, history
  <2> QED
    BY <2>1, <2>2, <2>3, <2>4, <2>5 DEF Next
<1>5. ASSUME NEW r \in Requests, RejectLogin(r)
      PROVE  /\ req[r].user \in 1 .. Len(users) /\ lapsed' = lapsed
             /\ locks' = IF users'[req[r].user].lock > locks THEN locks + 1 ELSE locks
             /\ failures' = [failures EXCEPT ![req[r].user] = @ + 1]
             /\ Failures' = Failures + 1
  BY <1>1, <1>3, <1>5 DEF RejectLogin, Prepared
<1>6. locks <= locks' /\ locks' <= Failures' /\ (lapsed \in 0 .. locks)'
  <2>1. CASE \E r \in Requests : RejectLogin(r)
    <3>1. lapsed' = lapsed /\ locks' \in {locks, locks + 1} /\ Failures' = Failures + 1
      BY <1>5, <2>1
    <3> QED
      BY <1>1, <1>3, <3>1 DEF BoundsInv
  <2>2. CASE \A r \in Requests : ~RejectLogin(r)
    BY <1>1, <1>3, <1>4, <2>2 DEF BoundsInv
  <2> QED
    BY <2>1, <2>2
<1>7. ASSUME NEW i \in UserIds
      PROVE  failures'[i] <= Failures'
  <2>1. failures[i] \in Nat /\ failures[i] <= Failures
    BY <1>1 DEF BoundsInv
  <2>2. CASE \E r \in Requests : RejectLogin(r)
    <3>1. Failures' = Failures + 1 /\ \E j : failures' = [failures EXCEPT ![j] = @ + 1]
      BY <1>5, <2>2
    <3>2. failures'[i] \in {failures[i], failures[i] + 1}
      BY <1>1, <3>1
    <3> QED
      BY <1>3, <2>1, <3>1, <3>2
  <2>3. CASE \A r \in Requests : ~RejectLogin(r)
    <3>1. failures'[i] \in {failures[i], 0}
      BY <1>1, <1>4, <2>3
    <3> QED
      BY <1>3, <2>1, <3>1
  <2> QED
    BY <2>2, <2>3
<1>n. /\ Failures \in Int /\ Failures' \in Int /\ Failures <= Failures'
      /\ locks \in Nat /\ locks' \in Nat /\ locks <= locks'
  BY <1>1, <1>2, <1>3, <1>6
<1>8. ASSUME NEW j \in 1 .. Len(users')
      PROVE  users'[j].attempts <= Failures' /\ users'[j].lock <= locks'
  <2>1. Becomes(j) /\ j \in Nat /\ j >= 1 /\ 0 <= locks' /\ 0 <= Failures'
    BY <1>1, <1>2, <1>3 DEF Moves
  <2>2. CASE j <= Len(users)
    <3>1. /\ users[j] \in Account /\ users[j].attempts \in Nat /\ users[j].lock \in Nat
          /\ users[j].attempts <= Failures /\ users[j].lock <= locks
          /\ users'[j] \in Account /\ users'[j].attempts \in Nat /\ users'[j].lock \in Nat
      BY <1>1, <1>2, <2>1, <2>2 DEF BoundsInv, Within, Account
    <3>2. CASE /\ users'[j].attempts = users[j].attempts
               /\ users'[j].lock = users[j].lock
      BY <1>n, <3>1, <3>2
    <3>3. CASE \/ users'[j] = users[j]
               \/ users'[j] = [users[j] EXCEPT !.verified = TRUE]
               \/ \E b : users'[j] = [users[j] EXCEPT !.active = b]
               \/ \E x : users'[j] = [users[j] EXCEPT !.role = x]
      <4>1. /\ users'[j].attempts = users[j].attempts
            /\ users'[j].lock = users[j].lock
        BY <3>1, <3>3 DEF Account
      <4> QED
        BY <3>2, <4>1
    <3>4. CASE \E r \in Requests :
                 /\ req[r].user = j /\ RejectLogin(r) /\ users'[j] = Failed(users[j])
      <4>1. /\ locks' = IF users'[j].lock > locks THEN locks + 1 ELSE locks
            /\ Failures' = Failures + 1
        BY <1>5, <3>4
      <4>2. /\ users'[j].attempts = users[j].attempts + 1
            /\ users'[j].lock = users[j].lock \/ users'[j].lock = locks + 1
        BY <1>1, <3>1, <3>4, CountersAre
      <4> QED
        BY <1>n, <3>1, <4>1, <4>2
    <3>5. CASE users'[j] = Cleared(users[j])
      BY <1>1, <2>1, <3>1, <3>5, CountersAre
    <3>6. CASE \E r \in Requests :
                 /\ FinishReset(r)
                 /\ users'[j] = [req[r].copy EXCEPT !.password = req[r].password]
      <4>1. PICK r \in Requests :
              /\ req[r].phase = "rehash"
              /\ users'[j] = [req[r].copy EXCEPT !.password = req[r].password]
        BY <3>6 DEF FinishReset
      <4>2. req[r].copy \in Account /\ Within(req[r].copy)
        BY <1>1, <4>1 DEF Prepared, BoundsInv
      <4>3. /\ users'[j].attempts = req[r].copy.attempts
            /\ users'[j].lock = req[r].copy.lock
        BY <4>1, <4>2 DEF Account
      <4>4. users'[j].attempts <= Failures /\ users'[j].lock <= locks
        BY <4>2, <4>3 DEF Within
      <4>5. users'[j].attempts \in Nat /\ users'[j].lock \in Nat
        BY <3>1
      <4> QED
        BY <1>n, <4>4, <4>5
    <3>7. j # Len(users) + 1
      BY <1>1, <2>1, <2>2
    <3> QED
      BY <2>1, <3>3, <3>4, <3>5, <3>6, <3>7, Zenon DEF Becomes
  <2>3. CASE \E r \in Requests : users'[j] = Made(r)
    BY <2>1, <2>3 DEF Made
  <2> QED
    BY <1>1, <2>1, <2>2, <2>3 DEF Becomes
<1>9. ASSUME NEW q \in Requests
      PROVE  IF req'[q].phase = "compare" \/ req'[q].phase = "rehash"
               THEN req'[q].copy.attempts <= Failures' /\ req'[q].copy.lock <= locks'
               ELSE req'[q].copy = NoCopy
  <2>1. Remembers(q)
    BY <1>1 DEF Moves
  <2>2. CASE req'[q] = req[q]
    <3>1. CASE req[q].phase = "compare" \/ req[q].phase = "rehash"
      <4>1. /\ req[q].copy \in Account /\ Within(req[q].copy)
            /\ req[q].copy.attempts \in Nat /\ req[q].copy.lock \in Nat
        BY <1>1, <3>1 DEF Prepared, BoundsInv, Account
      <4> QED
        BY <1>n, <2>2, <3>1, <4>1 DEF Within
    <3>2. CASE ~(req[q].phase = "compare" \/ req[q].phase = "rehash")
      BY <2>2, <3>2 DEF BoundsInv
    <3> QED
      BY <3>1, <3>2
  <2>3. CASE /\ users' = users /\ req'[q].user \in 1 .. Len(users)
             /\ req'[q].phase = "compare" \/ req'[q].phase = "rehash"
             /\ req'[q].copy = users[req'[q].user]
    BY <1>8, <2>3
  <2>4. CASE /\ req'[q].phase # "compare" /\ req'[q].phase # "rehash"
             /\ req'[q].copy = NoCopy
    BY <2>4
  <2> QED
    BY <2>1, <2>2, <2>3, <2>4 DEF Remembers
<1> QED
  BY <1>2, <1>3, <1>6, <1>7, <1>8, <1>9 DEF BoundsInv, Within

\* Every step keeps the types of the mails.
LEMMA MailTypeNext ==
  ASSUME MailTyped, MailTyped', Mail!MailTypeOK, [Next]_vars
  PROVE  Mail!MailTypeOK'
<1>1. CASE UNCHANGED mailVars
  BY <1>1 DEF mailVars, Mail!MailTypeOK
<1>2. CASE \E r \in Requests, t \in Raws : FinishIssue(r, t)
  <2>1. PICK t \in Raws : Mail!Enqueue(t)
    BY <1>2 DEF FinishIssue
  <2>2. /\ UNCHANGED <<redis, again, resends>>
        /\ sending' = sending \/ sending' = sending \cup {t}
    BY <2>1 DEF Mail!Enqueue, Mail!wire
  <2> QED
    BY <2>2 DEF Mail!MailTypeOK, MailTyped
<1>3. CASE Mail!Resend
  <2>1. /\ again' = again \cup {unanswered[k] : k \in 1 .. executed}
        /\ resends < MaxResends /\ resends' = resends + 1 /\ UNCHANGED <<redis, sending>>
    BY <1>3 DEF Mail!Resend
  <2>2. \A k \in 1 .. executed : unanswered[k] \in Raws
    BY DEF MailTyped
  <2>3. again' \subseteq Raws
    BY <2>1, <2>2 DEF Mail!MailTypeOK
  <2>4. resends' \in 0 .. MaxResends
    BY <2>1, BoundsAssumption DEF Mail!MailTypeOK
  <2> QED
    BY <2>1, <2>3, <2>4 DEF Mail!MailTypeOK, MailTyped
<1>4. CASE Mail!MailNext /\ ~Mail!Resend
  <2>1. UNCHANGED <<redis, again, resends>> /\ sending' \subseteq sending
    BY <1>4 DEF Mail!MailNext, Mail!Push, Mail!Reply, Mail!GiveUp, Mail!Pop, Mail!HandOver,
                Mail!WorkerStops, Mail!Sent, Mail!wire
  <2> QED
    BY <2>1 DEF Mail!MailTypeOK, MailTyped
<1>5. UNCHANGED mailVars \/ Mail!MailNext \/ \E r \in Requests, t \in Raws : FinishIssue(r, t)
  <2>1. CASE UNCHANGED vars
    BY <2>1 DEF vars, mailVars
  <2>2. CASE \E r \in Requests : Credentials(r) \/ Verification(r) \/ Admin(r)
    BY <2>2 DEF Credentials, Verification, Admin, BeginSignup, BeginLogin, CreateUser,
                RejectLogin, AdmitLogin, BeginIssue, BeginReset, FinishReset, SetActive,
                SetRole, AuditAdmin
  <2>3. CASE Elsewhere
    BY <2>3 DEF Elsewhere, VerifyEmail, TokenExpires, LockLapses
  <2> QED
    BY <2>1, <2>2, <2>3 DEF Next
<1> QED
  BY <1>1, <1>2, <1>3, <1>4, <1>5

\* What the invariants say of the types, put together.
LEMMA TypesFollow ==
  ASSUME AccountInv, BoundsInv, Mail!MailTypeOK
  PROVE  TypeOK
<1>1. /\ AccountsTyped /\ TokenInv
      /\ Len(users) \in Nat /\ users \in Seq(Account) /\ Len(users) <= MaxUsers
      /\ \A i \in 1 .. Len(users) : users[i] \in Account
      /\ req \in [Requests -> Slot] /\ failures \in [UserIds -> Nat]
      /\ \A r \in Requests : Prepared(req[r], Len(users))
  BY UsersAre DEF AccountInv, LockInv, AccountsTyped
<1>2. /\ MaxWrong \in Nat /\ locks \in Nat /\ wrong \in 0 .. MaxWrong
      /\ lapsed \in 0 .. locks
      /\ Failures \in Int /\ Failures <= wrong /\ locks <= Failures
  <2>1. Cardinality(Guessing) \in Nat
    BY FS_CardinalityType DEF BoundsInv
  <2> QED
    BY <2>1, BoundsAssumption DEF BoundsInv, Failures
<1>3. ASSUME NEW u \in Account, Within(u)
      PROVE  u \in User
  <2>1. u.attempts \in 0 .. MaxWrong /\ u.lock \in 0 .. MaxWrong
    <3>1. u.attempts \in Nat /\ u.lock \in Nat
      BY <1>3 DEF Account
    <3> QED
      BY <1>2, <1>3, <3>1 DEF Within
  <2> QED
    BY <1>3, <2>1 DEF Account, User
<1>4. users \in Seq(User)
  <2>1. \A i \in 1 .. Len(users) : users[i] \in User
    BY <1>1, <1>3 DEF BoundsInv
  <2> QED
    BY <1>1, <2>1
<1>5. locks \in 0 .. MaxWrong
  BY <1>2
<1>6. failures \in [UserIds -> 0 .. MaxWrong]
  <2>1. \A i \in UserIds : failures[i] \in 0 .. MaxWrong
    BY <1>1, <1>2 DEF BoundsInv
  <2> QED
    BY <1>1, <2>1
<1>7. ASSUME NEW r \in Requests
      PROVE  req[r] \in Request
  <2>1. req[r] \in Slot
    BY <1>1
  <2>2. req[r].copy \in User \cup {NoCopy}
    <3>1. CASE req[r].phase = "compare" \/ req[r].phase = "rehash"
      BY <1>1, <1>3, <3>1 DEF Prepared, BoundsInv
    <3>2. CASE ~(req[r].phase = "compare" \/ req[r].phase = "rehash")
      BY <3>2 DEF BoundsInv
    <3> QED
      BY <3>1, <3>2
  <2> QED
    BY <2>1, <2>2 DEF Slot, Request
<1>8. req \in [Requests -> Request]
  BY <1>1, <1>7
<1>9. /\ tokens \in [Raws -> Record \cup {NoRecord}] /\ uses \in [Raws -> Nat]
      /\ issues \in Seq([raw : Raws, user : UserIds, purpose : Purposes, after : Nat])
  BY <1>1 DEF TokenInv, TokensTyped, Issue
<1> QED
  BY <1>1, <1>2, <1>4, <1>5, <1>6, <1>8, <1>9 DEF TypeOK, BoundsInv

\* Every variable keeps its type: in particular no counter, copied and saved again
\* by however many handlers, outgrows the wrong passwords that were sent.
THEOREM AccountTypes == Spec => []TypeOK
<1>1. Init => BoundsInv
  <2> SUFFICES ASSUME Init PROVE BoundsInv
    OBVIOUS
  <2>1. Guessing = {} /\ Len(users) = 0
    BY DEF Init, Guessing, Idle
  <2>2. IsFiniteSet(Guessing) /\ Cardinality(Guessing) = 0
    BY <2>1, FS_EmptySet
  <2>3. wrong = 0 /\ locks = 0 /\ lapsed = 0 /\ Failures = 0 /\ MaxWrong \in Nat
    BY <2>2, BoundsAssumption DEF Init, Failures
  <2>4. /\ \A i \in UserIds : failures[i] = 0
        /\ \A r \in Requests : req[r].phase = "idle" /\ req[r].copy = NoCopy
    BY DEF Init, Idle
  <2> QED
    BY <2>1, <2>2, <2>3, <2>4 DEF BoundsInv
<1>2. Init => Mail!MailTypeOK
  <2> SUFFICES ASSUME Init PROVE Mail!MailTypeOK
    OBVIOUS
  <2>1. /\ redis \in BOOLEAN /\ queue = <<>> /\ mailbox = <<>> /\ unanswered = <<>>
        /\ executed = 0 /\ working = NoRaw /\ sending = {} /\ again = {} /\ resends = 0
    BY DEF Init, Mail!MailInit
  <2>2. Len(unanswered) = 0 /\ MaxResends \in Nat
    BY <2>1, BoundsAssumption
  <2> QED
    BY <2>1, <2>2 DEF Mail!MailTypeOK
<1>3. MailInv => MailTyped
  BY DEF MailInv
<1> QED
  BY <1>1, <1>2, <1>3, BoundsNext, MailTypeNext, TypesFollow, AccountsInv,
     MailInitial, MailStep, PTL DEF Spec
=============================================================================
