------------------------- MODULE VerificationProofs -------------------------
(***************************************************************************)
(* Verification and reset tokens are used once and superseded by the next, *)
(* and their mails keep their order on the way through Redis: for any      *)
(* number of accounts, tokens and mails.                                   *)
(***************************************************************************)
EXTENDS UserAccounts, TLAPS

(* Tokens. *)

Issue == [raw : Raws, user : UserIds, purpose : Purposes, after : Nat]

\* A request that has deleted the older tokens and stores its own next.
Asks(r) == req[r].phase = "issue"

TokensTyped ==
    /\ tokens \in [Raws -> Record \cup {NoRecord}]
    /\ issues \in Seq(Issue)
    /\ \A n \in DOMAIN issues : issues[n].after < n
    /\ uses \in [Raws -> Nat]

AsksTyped ==
    /\ req = [r \in Requests |-> req[r]]
    /\ \A r \in Requests : Asks(r) => /\ req[r].user \in UserIds
                                      /\ req[r].purpose \in Purposes
                                      /\ req[r].since \in 0 .. Len(issues)

\* No token is issued twice.
IssuedOnce ==
    \A m, n \in DOMAIN issues : issues[m].raw = issues[n].raw => m = n

\* What was never issued has no record, and was never accepted.
NothingElse == \A t \in Raws : Fresh(t) => tokens[t] = NoRecord /\ uses[t] = 0

\* A token has no record once another was asked for; before, it has, and the record
\* says whether it was accepted.
Ledger ==
    \A n \in DOMAIN issues :
        LET x == issues[n] IN
        /\ AskedSince(n) => tokens[x.raw] = NoRecord
        /\ ~AskedSince(n) => /\ tokens[x.raw] \in Record
                             /\ tokens[x.raw].user = x.user
                             /\ tokens[x.raw].purpose = x.purpose
                             /\ tokens[x.raw].used <=> uses[x.raw] > 0

\* The properties of the tokens are not inductive alone: it takes the ledger, which
\* says of every token ever issued what became of its record.
TokenInv ==
    TokensTyped /\ AsksTyped /\ IssuedOnce /\ NothingElse /\ Ledger /\ TokenUsedOnce

\* The log of issues is a sequence of issues.
LEMMA IssuesAre ==
  ASSUME TokensTyped
  PROVE  /\ Len(issues) \in Nat /\ DOMAIN issues = 1 .. Len(issues)
         /\ \A n \in DOMAIN issues : /\ issues[n] \in Issue /\ issues[n].raw \in Raws
                                     /\ issues[n].after \in Nat /\ issues[n].after < n
<1>1. issues \in Seq(Issue)
  BY DEF TokensTyped
<1>2. Len(issues) \in Nat /\ DOMAIN issues = 1 .. Len(issues)
  BY <1>1
<1>3. \A n \in 1 .. Len(issues) : issues[n] \in Issue
  BY <1>1
<1> QED
  BY <1>2, <1>3 DEF Issue, TokensTyped

\* No token is issued at the start.
LEMMA TokenInit == Init => TokenInv
<1> SUFFICES ASSUME Init PROVE TokenInv
  OBVIOUS
<1>1. DOMAIN issues = {} /\ issues \in Seq(Issue)
  BY DEF Init
<1>2. TokensTyped
  BY <1>1 DEF Init, TokensTyped
<1>3. AsksTyped
  BY DEF Init, AsksTyped, Asks, Idle
<1> QED
  BY <1>1, <1>2, <1>3 DEF Init, TokenInv, IssuedOnce, NothingElse, Ledger, TokenUsedOnce

\* No request begins to ask for a token, or ends it.
AsksSame ==
    /\ req' = [r \in Requests |-> req'[r]]
    /\ \A r \in Requests : Asks(r) \/ Asks(r)' => req'[r] = req[r]

\* A handler that does not ask for a token begins or ends.
LEMMA SlotAsksSame ==
  ASSUME AsksTyped, NEW r \in Requests, ~Asks(r), NEW s, s.phase # "issue",
         req' = [req EXCEPT ![r] = s]
  PROVE  AsksSame
<1>1. \A q \in Requests : req'[q] = IF q = r THEN s ELSE req[q]
  BY DEF AsksTyped
<1>2. req' = [q \in Requests |-> req'[q]]
  BY DEF AsksTyped
<1> QED
  BY <1>1, <1>2 DEF AsksSame, Asks

\* Requests that go on as they were ask for what they asked.
LEMMA AsksKept ==
  ASSUME AsksTyped, AsksSame, UNCHANGED issues
  PROVE  AsksTyped' /\ \A n : AskedSince(n)' <=> AskedSince(n)
<1>1. AsksTyped'
  BY DEF AsksTyped, AsksSame, Asks
<1>2. \A n : AskedSince(n)' <=> AskedSince(n)
  BY DEF AskedSince, SameOffer, AsksSame, Asks
<1> QED
  BY <1>1, <1>2

\* The handlers of accounts do not ask for tokens.
LEMMA OthersAskNothing ==
  ASSUME AsksTyped, NEW r \in Requests,
         \/ Credentials(r) \/ Admin(r) \/ FinishReset(r)
         \/ \E t \in Raws, p \in Passwords : BeginReset(r, t, p)
  PROVE  AsksSame /\ UNCHANGED issues
         /\ (UNCHANGED <<tokens, uses>>
               \/ \E t \in Raws : Usable(t, "password_reset") /\ Consume(t))
<1>1. Idle.phase # "issue"
  BY DEF Idle
<1>2. CASE CreateUser(r) \/ RejectLogin(r) \/ AdmitLogin(r) \/ FinishReset(r) \/ AuditAdmin(r)
  <2>1. /\ ~Asks(r) /\ req' = [req EXCEPT ![r] = Idle]
        /\ UNCHANGED <<issues, tokens, uses>>
    BY <1>2 DEF CreateUser, RejectLogin, AdmitLogin, FinishReset, AuditAdmin, End, Asks,
                history
  <2> QED
    BY <1>1, <2>1, SlotAsksSame
<1>3. CASE \/ \E e \in Emails, p \in Passwords : BeginSignup(r, e, p) \/ BeginLogin(r, e, p)
           \/ \E i \in UserIds, b \in BOOLEAN : SetActive(r, i, b)
           \/ \E i \in UserIds, role \in Roles : SetRole(r, i, role)
           \/ \E t \in Raws, p \in Passwords : BeginReset(r, t, p)
  <2>1. /\ ~Asks(r) /\ UNCHANGED issues
        /\ \/ UNCHANGED <<tokens, uses>>
           \/ \E t \in Raws : Usable(t, "password_reset") /\ Consume(t)
    BY <1>1, <1>3 DEF BeginSignup, BeginLogin, SetActive, SetRole, BeginReset, Asks, history
  <2>2. PICK s : s.phase # "issue" /\ req' = [req EXCEPT ![r] = s]
    <3>1. CASE \E e \in Emails, p \in Passwords : BeginSignup(r, e, p)
      <4>1. PICK e \in Emails, p \in Passwords :
              req' = [req EXCEPT ![r] = [Idle EXCEPT
                 !.phase = "hash", !.email = e, !.password = p]]
        BY <3>1 DEF BeginSignup
      <4> QED
        BY <4>1 DEF Idle
    <3>2. CASE \E e \in Emails, p \in Passwords : BeginLogin(r, e, p)
      <4>1. PICK p \in Passwords, i \in UserIds :
              req' = [req EXCEPT ![r] = [Idle EXCEPT
                !.phase = "compare", !.user = i, !.password = p, !.copy = users[i]]]
        BY <3>2 DEF BeginLogin
      <4> QED
        BY <4>1 DEF Idle
    <3>3. CASE \E i \in UserIds, b \in BOOLEAN : SetActive(r, i, b)
      <4>1. PICK i \in UserIds, b \in BOOLEAN :
              req' = [req EXCEPT ![r] = [Idle EXCEPT
                 !.phase = "audit", !.user = i,
                 !.event = IF b THEN "activated" ELSE "deactivated"]]
        BY <3>3 DEF SetActive
      <4> QED
        BY <4>1 DEF Idle
    <3>4. CASE \E i \in UserIds, role \in Roles : SetRole(r, i, role)
      <4>1. PICK i \in UserIds :
              req' = [req EXCEPT ![r] = [Idle EXCEPT
                 !.phase = "audit", !.user = i, !.event = "role_changed"]]
        BY <3>4 DEF SetRole
      <4> QED
        BY <4>1 DEF Idle
    <3>5. CASE \E t \in Raws, p \in Passwords : BeginReset(r, t, p)
      <4>1. PICK t \in Raws, p \in Passwords :
              req' = [req EXCEPT ![r] = [Idle EXCEPT
                 !.phase = "rehash", !.user = tokens[t].user, !.password = p,
                 !.copy = users[tokens[t].user]]]
        BY <3>5 DEF BeginReset
      <4> QED
        BY <4>1 DEF Idle
    <3> QED
      BY <1>3, <3>1, <3>2, <3>3, <3>4, <3>5
  <2> QED
    BY <2>1, <2>2, SlotAsksSame
<1> QED
  BY <1>2, <1>3 DEF Credentials, Admin

\* What a step may do to the tokens and to the requests for them.
LEMMA TokenSteps ==
  ASSUME AsksTyped, [Next]_vars
  PROVE  \/ AsksSame /\ UNCHANGED <<tokens, issues, uses>>
         \/ \E r \in Requests, e \in Emails, p \in Purposes : BeginIssue(r, e, p)
         \/ \E r \in Requests, t \in Raws : FinishIssue(r, t)
         \/ \E t \in Raws, p \in {"email_verify", "password_reset"} :
              Usable(t, p) /\ Consume(t) /\ AsksSame /\ UNCHANGED issues
         \/ \E t \in Raws : TokenExpires(t) /\ AsksSame
<1>1. req' = req => AsksSame
  BY DEF AsksTyped, AsksSame
<1>2. CASE UNCHANGED vars
  BY <1>1, <1>2 DEF vars
<1>3. CASE \E r \in Requests : Credentials(r) \/ Admin(r) \/ FinishReset(r)
                                 \/ \E t \in Raws, p \in Passwords : BeginReset(r, t, p)
  BY <1>3, OthersAskNothing
<1>4. CASE Elsewhere
  <2>1. CASE \E t \in Raws : VerifyEmail(t)
    BY <1>1, <2>1 DEF VerifyEmail
  <2>2. CASE LockLapses
    BY <1>1, <2>2 DEF LockLapses, history
  <2>3. CASE \E t \in Raws : TokenExpires(t)
    BY <1>1, <2>3 DEF TokenExpires
  <2> QED
    BY <1>1, <1>4, <2>1, <2>2, <2>3 DEF Elsewhere, history
<1> QED
  BY <1>2, <1>3, <1>4 DEF Next, Verification

\* Using a token keeps the ledger.
LEMMA ConsumeKeeps ==
  ASSUME TokenInv, NEW t \in Raws, NEW p, Usable(t, p), Consume(t), AsksSame,
         UNCHANGED issues
  PROVE  TokenInv'
<1>1. /\ tokens[t] \in Record /\ tokens[t] # NoRecord /\ ~tokens[t].used
  BY DEF TokenInv, TokensTyped, Usable
<1>2. /\ tokens' = [tokens EXCEPT ![t] = [tokens[t] EXCEPT !.used = TRUE]]
      /\ uses' = [uses EXCEPT ![t] = uses[t] + 1]
  BY DEF Consume
<1>3. [tokens[t] EXCEPT !.used = TRUE] \in Record
  BY <1>1 DEF Record
<1>4. TokensTyped'
  BY <1>2, <1>3 DEF TokenInv, TokensTyped
<1>5. PICK n \in DOMAIN issues : issues[n].raw = t
  BY <1>1 DEF TokenInv, NothingElse, Fresh
<1>6. ~AskedSince(n) /\ ~(uses[t] > 0)
  BY <1>1, <1>5 DEF TokenInv, Ledger
<1>7. uses[t] = 0 /\ uses'[t] = 1 /\ tokens'[t] = [tokens[t] EXCEPT !.used = TRUE]
  BY <1>2, <1>6 DEF TokenInv, TokensTyped
<1>8. TokenUsedOnce'
  BY <1>2, <1>7 DEF TokenInv, TokensTyped, TokenUsedOnce
<1>9. NothingElse'
  BY <1>2, <1>5 DEF TokenInv, TokensTyped, NothingElse, Fresh
<1>10. Ledger'
  <2> SUFFICES ASSUME NEW m \in DOMAIN issues
               PROVE  LET x == issues[m] IN
                      /\ AskedSince(m) => tokens'[x.raw] = NoRecord
                      /\ ~AskedSince(m) => /\ tokens'[x.raw] \in Record
                                           /\ tokens'[x.raw].user = x.user
                                           /\ tokens'[x.raw].purpose = x.purpose
                                           /\ tokens'[x.raw].used <=> uses'[x.raw] > 0
    BY AsksKept DEF Ledger, TokenInv
  <2>1. issues[m].raw \in Raws
    BY IssuesAre DEF TokenInv
  <2>2. CASE m = n
    BY <1>1, <1>3, <1>5, <1>6, <1>7, <2>2 DEF TokenInv, Ledger, Record
  <2>3. CASE m # n
    <3>1. issues[m].raw # t
      BY <1>5, <2>3 DEF TokenInv, IssuedOnce
    <3>2. tokens'[issues[m].raw] = tokens[issues[m].raw]
          /\ uses'[issues[m].raw] = uses[issues[m].raw]
      BY <1>2, <2>1, <3>1 DEF TokenInv, TokensTyped
    <3> QED
      BY <3>2 DEF TokenInv, Ledger
  <2> QED
    BY <2>2, <2>3
<1> QED
  BY <1>4, <1>8, <1>9, <1>10, AsksKept DEF TokenInv, IssuedOnce

\* The end of a token keeps the ledger.
LEMMA ExpiryKeeps ==
  ASSUME TokenInv, NEW t \in Raws, TokenExpires(t), AsksSame
  PROVE  TokenInv'
<1>1. /\ tokens[t] \in Record /\ UNCHANGED <<issues, uses>>
      /\ tokens' = [tokens EXCEPT ![t] = [tokens[t] EXCEPT !.expired = TRUE]]
  BY DEF TokenInv, TokensTyped, TokenExpires, history
<1> DEFINE x == [tokens[t] EXCEPT !.expired = TRUE]
<1>2. /\ x \in Record /\ x.user = tokens[t].user /\ x.purpose = tokens[t].purpose
      /\ x.used = tokens[t].used
  BY <1>1 DEF Record
<1> HIDE DEF x
<1>3. TokensTyped'
  BY <1>1, <1>2 DEF TokenInv, TokensTyped, x
<1>4. \A u \in Raws : \/ tokens'[u] = tokens[u]
                      \/ u = t /\ tokens'[u] = x
  BY <1>1 DEF TokenInv, TokensTyped, x
<1>5. tokens[t] # NoRecord
  BY DEF TokenExpires
<1>6. NothingElse'
  BY <1>1, <1>4, <1>5 DEF TokenInv, NothingElse, Fresh
<1>7. Ledger'
  <2> SUFFICES ASSUME NEW m \in DOMAIN issues
               PROVE  LET y == issues[m] IN
                      /\ AskedSince(m) => tokens'[y.raw] = NoRecord
                      /\ ~AskedSince(m) => /\ tokens'[y.raw] \in Record
                                           /\ tokens'[y.raw].user = y.user
                                           /\ tokens'[y.raw].purpose = y.purpose
                                           /\ tokens'[y.raw].used <=> uses'[y.raw] > 0
    <3>1. \A n : AskedSince(n)' <=> AskedSince(n)
      BY <1>1, AsksKept DEF TokenInv
    <3> QED
      BY <1>1, <3>1 DEF Ledger
  <2>1. issues[m].raw \in Raws
    BY IssuesAre DEF TokenInv
  <2>2. CASE tokens'[issues[m].raw] = tokens[issues[m].raw]
    BY <1>1, <2>2 DEF TokenInv, Ledger
  <2>3. CASE issues[m].raw = t /\ tokens'[t] = x
    BY <1>1, <1>2, <1>5, <2>3 DEF TokenInv, Ledger
  <2> QED
    BY <1>4, <2>1, <2>2, <2>3
<1> QED
  BY <1>1, <1>3, <1>6, <1>7, AsksKept DEF TokenInv, IssuedOnce, TokenUsedOnce

\* The deletion of older tokens takes away every token of that user and purpose.
LEMMA BeginIssueKeeps ==
  ASSUME TokenInv, NEW r \in Requests, NEW e \in Emails, NEW p \in Purposes,
         BeginIssue(r, e, p)
  PROVE  TokenInv'
<1>1. PICK i \in UserIds :
        /\ tokens' = [t \in Raws |->
               IF t \in Outdated(i, p) THEN NoRecord ELSE tokens[t]]
        /\ req' = [req EXCEPT ![r] = [Idle EXCEPT
               !.phase = "issue", !.user = i, !.purpose = p, !.since = Len(issues)]]
        /\ UNCHANGED <<issues, uses>>
  BY DEF BeginIssue, history
<1> DEFINE s == [Idle EXCEPT !.phase = "issue", !.user = i, !.purpose = p,
                             !.since = Len(issues)]
           L == Len(issues)
<1>2. /\ TokensTyped /\ AsksTyped /\ L \in Nat /\ DOMAIN issues = 1 .. L
      /\ \A n \in 1 .. L : issues[n].raw \in Raws
  BY IssuesAre DEF TokenInv
<1>3. /\ s.phase = "issue" /\ s.user = i /\ s.purpose = p /\ s.since = L
      /\ ~Asks(r)
  BY DEF BeginIssue, Idle, Asks
<1>4. /\ req' = [q \in Requests |-> req'[q]] /\ req'[r] = s
      /\ \A q \in Requests \ {r} : req'[q] = req[q]
  <2> HIDE DEF s
  <2>1. req' = [req EXCEPT ![r] = s]
    BY <1>1 DEF s
  <2> QED
    BY <1>2, <2>1 DEF AsksTyped
<1> HIDE DEF s
<1>5. AsksTyped'
  BY <1>1, <1>2, <1>3, <1>4 DEF AsksTyped, Asks
<1>6. \A t \in Raws : tokens'[t] = IF t \in Outdated(i, p) THEN NoRecord ELSE tokens[t]
  BY <1>1
<1>7. TokensTyped'
  <2>1. \A t \in Raws : tokens'[t] \in Record \cup {NoRecord}
    BY <1>2, <1>6 DEF TokensTyped
  <2> QED
    BY <1>1, <1>2, <2>1 DEF TokensTyped
<1>8. NothingElse'
  BY <1>1, <1>6 DEF TokenInv, NothingElse, Fresh
<1>9. \A n \in 1 .. L :
        AskedSince(n)' <=> AskedSince(n) \/ (issues[n].user = i /\ issues[n].purpose = p)
  BY <1>1, <1>2, <1>3, <1>4 DEF AskedSince, SameOffer, Asks
<1>10. Ledger'
  <2> SUFFICES ASSUME NEW n \in 1 .. L
               PROVE  LET x == issues[n] IN
                      /\ AskedSince(n)' => tokens'[x.raw] = NoRecord
                      /\ ~AskedSince(n)' => /\ tokens'[x.raw] \in Record
                                            /\ tokens'[x.raw].user = x.user
                                            /\ tokens'[x.raw].purpose = x.purpose
                                            /\ tokens'[x.raw].used <=> uses'[x.raw] > 0
    BY <1>1, <1>2 DEF Ledger
  <2> DEFINE x == issues[n]
  <2>1. /\ x.raw \in Raws /\ uses' = uses
        /\ tokens'[x.raw] = IF x.raw \in Outdated(i, p) THEN NoRecord ELSE tokens[x.raw]
    BY <1>1, <1>2, <1>6
  <2>2. CASE AskedSince(n)
    <3>1. tokens[x.raw] = NoRecord
      BY <1>2, <2>2 DEF TokenInv, Ledger
    <3> QED
      BY <1>9, <2>1, <2>2, <3>1
  <2>3. CASE ~AskedSince(n)
    <3>1. /\ tokens[x.raw] \in Record
          /\ tokens[x.raw].user = x.user /\ tokens[x.raw].purpose = x.purpose
          /\ tokens[x.raw].used <=> uses[x.raw] > 0
      BY <1>2, <2>3 DEF TokenInv, Ledger
    <3>2. x.raw \in Outdated(i, p) <=> x.user = i /\ x.purpose = p
      BY <2>1, <3>1, NullsAssumption DEF Outdated
    <3> QED
      BY <1>9, <2>1, <2>3, <3>1, <3>2
  <2> QED
    BY <2>2, <2>3
<1> QED
  BY <1>1, <1>5, <1>7, <1>8, <1>10 DEF TokenInv, IssuedOnce, TokenUsedOnce

\* What the storage of a token does to the records, the history and the requests.
LEMMA FinishIssueIs ==
  ASSUME TokenInv, NEW r \in Requests, NEW t \in Raws, FinishIssue(r, t)
  PROVE  LET new == [user |-> req[r].user, purpose |-> req[r].purpose,
                     used |-> FALSE, expired |-> FALSE]
             last == [raw |-> t, user |-> req[r].user, purpose |-> req[r].purpose,
                      after |-> req[r].since]
             L == Len(issues)
         IN /\ Asks(r) /\ new \in Record /\ last \in Issue /\ last.after \in 0 .. L
            /\ L \in Nat /\ DOMAIN issues = 1 .. L
            /\ issues' = Append(issues, last)
            /\ issues' \in Seq(Issue) /\ DOMAIN issues' = 1 .. L + 1 /\ Len(issues') = L + 1
            /\ issues'[L + 1] = last
            /\ \A n \in 1 .. L : issues'[n] = issues[n] /\ issues[n].raw \in Raws \ {t}
            /\ tokens' \in [Raws -> Record \cup {NoRecord}]
            /\ tokens'[t] = new
            /\ \A x \in Raws \ {t} : tokens'[x] = tokens[x]
            /\ tokens[t] = NoRecord /\ uses[t] = 0 /\ uses' = uses
            /\ req' = [q \in Requests |-> req'[q]]
            /\ ~Asks(r)' /\ \A q \in Requests \ {r} : req'[q] = req[q]
<1> DEFINE new == [user |-> req[r].user, purpose |-> req[r].purpose,
                   used |-> FALSE, expired |-> FALSE]
           last == [raw |-> t, user |-> req[r].user, purpose |-> req[r].purpose,
                    after |-> req[r].since]
           L == Len(issues)
<1>1. /\ Fresh(t) /\ Asks(r) /\ uses' = uses
      /\ tokens' = [tokens EXCEPT ![t] = new] /\ issues' = Append(issues, last)
      /\ req' = [req EXCEPT ![r] = Idle]
  BY DEF FinishIssue, End, Asks
<1>2. /\ TokensTyped /\ AsksTyped /\ L \in Nat /\ DOMAIN issues = 1 .. L
      /\ \A n \in 1 .. L : issues[n] \in Issue /\ issues[n].raw \in Raws
  BY IssuesAre DEF TokenInv
<1>3. req[r].user \in UserIds /\ req[r].purpose \in Purposes /\ req[r].since \in 0 .. L
  BY <1>1, <1>2 DEF AsksTyped
<1>4. new \in Record /\ last \in Issue /\ last.raw = t /\ last.after \in 0 .. L
  BY <1>2, <1>3 DEF Record, Issue
<1> HIDE DEF new, last
<1>5. /\ issues' \in Seq(Issue) /\ DOMAIN issues' = 1 .. L + 1 /\ Len(issues') = L + 1
      /\ issues'[L + 1] = last
      /\ \A n \in 1 .. L : issues'[n] = issues[n]
  BY <1>1, <1>2, <1>4 DEF TokensTyped
<1>6. /\ tokens' \in [Raws -> Record \cup {NoRecord}]
      /\ tokens'[t] = new /\ \A x \in Raws \ {t} : tokens'[x] = tokens[x]
  BY <1>1, <1>2, <1>4 DEF TokensTyped
<1>7. \A n \in 1 .. L : issues[n].raw # t
  BY <1>1, <1>2 DEF Fresh
<1>8. tokens[t] = NoRecord /\ uses[t] = 0
  BY <1>1 DEF TokenInv, NothingElse
<1>9. /\ req' = [q \in Requests |-> req'[q]]
      /\ ~Asks(r)' /\ \A q \in Requests \ {r} : req'[q] = req[q]
  <2>1. Idle.phase # "issue"
    BY DEF Idle
  <2> QED
    BY <1>1, <1>2, <2>1 DEF AsksTyped, Asks
<1> QED
  BY <1>1, <1>2, <1>4, <1>5, <1>6, <1>7, <1>8, <1>9 DEF new, last

\* The storage of a token keeps the ledger: another request that began before it does
\* not supersede it, and the one that ends goes on superseding what it deleted.
LEMMA FinishIssueKeeps ==
  ASSUME TokenInv, NEW r \in Requests, NEW t \in Raws, FinishIssue(r, t)
  PROVE  TokenInv'
<1> DEFINE new == [user |-> req[r].user, purpose |-> req[r].purpose,
                   used |-> FALSE, expired |-> FALSE]
           last == [raw |-> t, user |-> req[r].user, purpose |-> req[r].purpose,
                    after |-> req[r].since]
           L == Len(issues)
<1>1. /\ Asks(r) /\ new \in Record /\ last \in Issue /\ last.after \in 0 .. L
      /\ L \in Nat /\ DOMAIN issues = 1 .. L
      /\ issues' \in Seq(Issue) /\ DOMAIN issues' = 1 .. L + 1 /\ Len(issues') = L + 1
      /\ issues'[L + 1] = last
      /\ \A n \in 1 .. L : issues'[n] = issues[n] /\ issues[n].raw \in Raws \ {t}
      /\ tokens' \in [Raws -> Record \cup {NoRecord}]
      /\ tokens'[t] = new /\ \A x \in Raws \ {t} : tokens'[x] = tokens[x]
      /\ tokens[t] = NoRecord /\ uses[t] = 0 /\ uses' = uses
      /\ req' = [q \in Requests |-> req'[q]]
      /\ ~Asks(r)' /\ \A q \in Requests \ {r} : req'[q] = req[q]
  BY FinishIssueIs
<1>2. /\ last.raw = t /\ last.user = req[r].user /\ last.purpose = req[r].purpose
      /\ last.after = req[r].since
      /\ new.user = last.user /\ new.purpose = last.purpose /\ new.used = FALSE
  OBVIOUS
<1> HIDE DEF new, last
<1>3. TokensTyped /\ AsksTyped /\ \A n \in 1 .. L : issues[n].after < n
  BY <1>1, IssuesAre DEF TokenInv
<1>4. TokensTyped'
  <2>1. \A n \in 1 .. L + 1 : issues'[n].after < n
    BY <1>1, <1>3
  <2> QED
    BY <1>1, <1>3, <2>1 DEF TokensTyped
<1>5. AsksTyped'
  <2>1. \A q \in Requests : Asks(q)' => q # r /\ Asks(q) /\ req'[q] = req[q]
    BY <1>1 DEF Asks
  <2> QED
    BY <1>1, <1>3, <2>1 DEF AsksTyped
<1>6. IssuedOnce'
  BY <1>1, <1>2 DEF TokenInv, IssuedOnce
<1>7. NothingElse'
  <2> SUFFICES ASSUME NEW x \in Raws, Fresh(x)'
               PROVE  tokens'[x] = NoRecord /\ uses'[x] = 0
    BY DEF NothingElse
  <2>1. x # t /\ Fresh(x)
    BY <1>1, <1>2 DEF Fresh
  <2> QED
    BY <1>1, <2>1 DEF TokenInv, NothingElse
<1>8. \A n \in 1 .. L : AskedSince(n)' <=> AskedSince(n)
  <2> SUFFICES ASSUME NEW n \in 1 .. L PROVE AskedSince(n)' <=> AskedSince(n)
    OBVIOUS
  <2>1. AskedSince(n)' <=>
          \/ \E m \in 1 .. L + 1 : /\ issues'[m].user = issues[n].user
                                   /\ issues'[m].purpose = issues[n].purpose
                                   /\ n <= issues'[m].after
          \/ \E q \in Requests \ {r} : /\ Asks(q) /\ req[q].user = issues[n].user
                                       /\ req[q].purpose = issues[n].purpose
                                       /\ n <= req[q].since
    BY <1>1 DEF AskedSince, SameOffer, Asks
  <2>2. (\E m \in 1 .. L + 1 : /\ issues'[m].user = issues[n].user
                               /\ issues'[m].purpose = issues[n].purpose
                               /\ n <= issues'[m].after)
        <=> \/ \E m \in 1 .. L : SameOffer(m, n) /\ n <= issues[m].after
            \/ /\ req[r].user = issues[n].user /\ req[r].purpose = issues[n].purpose
               /\ n <= req[r].since
    BY <1>1, <1>2 DEF SameOffer
  <2>3. AskedSince(n) <=>
          \/ \E m \in 1 .. L : SameOffer(m, n) /\ n <= issues[m].after
          \/ \E q \in Requests : /\ Asks(q) /\ req[q].user = issues[n].user
                                 /\ req[q].purpose = issues[n].purpose
                                 /\ n <= req[q].since
    BY <1>1 DEF AskedSince, Asks
  <2> QED
    BY <1>1, <2>1, <2>2, <2>3
<1>9. ASSUME NEW k, k = L + 1
      PROVE  ~AskedSince(k)'
  <2>1. \A m \in 1 .. L + 1 : issues'[m].after \in Nat /\ ~(L + 1 <= issues'[m].after)
    <3>1. \A m \in 1 .. L + 1 : issues'[m] \in Issue /\ issues'[m].after < m
      BY <1>1, <1>4 DEF TokensTyped
    <3> QED
      BY <1>1, <3>1 DEF Issue
  <2>2. \A q \in Requests : Asks(q)' => ~(L + 1 <= req'[q].since)
    <3>1. \A q \in Requests : Asks(q)' => Asks(q) /\ req'[q] = req[q]
      BY <1>1 DEF Asks
    <3> QED
      BY <1>1, <1>3, <3>1 DEF AsksTyped
  <2> QED
    BY <1>1, <1>9, <2>1, <2>2 DEF AskedSince, Asks
<1>10. Ledger'
  <2> SUFFICES ASSUME NEW n \in 1 .. L + 1
               PROVE  LET x == issues'[n] IN
                      /\ AskedSince(n)' => tokens'[x.raw] = NoRecord
                      /\ ~AskedSince(n)' => /\ tokens'[x.raw] \in Record
                                            /\ tokens'[x.raw].user = x.user
                                            /\ tokens'[x.raw].purpose = x.purpose
                                            /\ tokens'[x.raw].used <=> uses'[x.raw] > 0
    BY <1>1 DEF Ledger
  <2>1. CASE n = L + 1
    <3>1. ~AskedSince(n)' /\ issues'[n] = last
      BY <1>1, <1>9, <2>1
    <3>2. tokens'[t] = new /\ uses'[t] = 0
      BY <1>1
    <3> QED
      BY <1>1, <1>2, <3>1, <3>2
  <2>2. CASE n \in 1 .. L
    <3>1. /\ issues'[n] = issues[n] /\ tokens'[issues[n].raw] = tokens[issues[n].raw]
          /\ n \in DOMAIN issues
      BY <1>1, <2>2
    <3> QED
      BY <1>1, <1>8, <2>2, <3>1 DEF TokenInv, Ledger
  <2> QED
    BY <1>1, <2>1, <2>2
<1> QED
  BY <1>1, <1>4, <1>5, <1>6, <1>7, <1>10 DEF TokenInv, TokenUsedOnce

\* Every step keeps the ledger of tokens.
LEMMA TokenNext == TokenInv /\ [Next]_vars => TokenInv'
<1> SUFFICES ASSUME TokenInv, [Next]_vars PROVE TokenInv'
  OBVIOUS
<1>1. CASE AsksSame /\ UNCHANGED <<tokens, issues, uses>>
  <2>1. AsksTyped' /\ \A n : AskedSince(n)' <=> AskedSince(n)
    BY <1>1, AsksKept DEF TokenInv
  <2> QED
    BY <1>1, <2>1 DEF TokenInv, TokensTyped, IssuedOnce, NothingElse, Fresh, Ledger,
                      TokenUsedOnce
<1>2. AsksTyped
  BY DEF TokenInv
<1> QED
  BY <1>1, <1>2, TokenSteps, BeginIssueKeeps, FinishIssueKeeps, ConsumeKeeps, ExpiryKeeps

\* The ledger of tokens: what is usable, what was used and what was deleted.
THEOREM TokenLedger == Spec => []TokenInv
BY TokenInit, TokenNext, PTL DEF Spec

\* No verification or reset token is accepted twice.
THEOREM TokensUsedOnce == Spec => []TokenUsedOnce
<1>1. TokenInv => TokenUsedOnce
  BY DEF TokenInv
<1> QED
  BY <1>1, TokenLedger, PTL

\* A token is not usable once another was asked for after it, whatever requests
\* overlap.
THEOREM AskingEnds == Spec => []AskingEndsEarlier
<1>1. TokenInv => AskingEndsEarlier
  BY DEF TokenInv, Ledger, AskingEndsEarlier, Usable
<1> QED
  BY <1>1, TokenLedger, PTL

\* A token works until it is used, expires, or another is asked for.
THEOREM TokenWorks == Spec => []TokenWorksUntilReplaced
<1>1. TokenInv => TokenWorksUntilReplaced
  <2> SUFFICES ASSUME TokenInv, NEW n \in DOMAIN issues, ~AskedSince(n),
                      ~(uses[issues[n].raw] > 0)
               PROVE  \/ /\ tokens[issues[n].raw] # NoRecord
                         /\ tokens[issues[n].raw].expired
                      \/ Usable(issues[n].raw, issues[n].purpose)
    BY DEF TokenWorksUntilReplaced
  <2> QED
    BY NullsAssumption DEF TokenInv, Ledger, Usable
<1> QED
  BY <1>1, TokenLedger, PTL

\* No two requests ask for tokens of one user and purpose at the same time.
AsksApart ==
    \A q, r \in Requests :
        Asks(q) /\ Asks(r) /\ q # r =>
            req[q].user # req[r].user \/ req[q].purpose # req[r].purpose

\* Every request has deleted all tokens of its user and purpose that were stored
\* before its own.
DeletedAll ==
    /\ \A m, n \in DOMAIN issues : m < n /\ SameOffer(m, n) => m <= issues[n].after
    /\ \A r \in Requests, m \in DOMAIN issues :
          /\ Asks(r) /\ req[r].user = issues[m].user /\ req[r].purpose = issues[m].purpose
          => m <= req[r].since

\* Where requests do not overlap, every request deletes all there is.
LEMMA DeletedAllNext == TokenInv /\ AsksApart /\ DeletedAll /\ [Next]_vars => DeletedAll'
<1> SUFFICES ASSUME TokenInv, AsksApart, DeletedAll, [Next]_vars PROVE DeletedAll'
  OBVIOUS
<1>1. /\ TokensTyped /\ AsksTyped /\ Len(issues) \in Nat
      /\ DOMAIN issues = 1 .. Len(issues)
  BY IssuesAre DEF TokenInv
<1>2. CASE AsksSame /\ UNCHANGED issues
  BY <1>2 DEF DeletedAll, SameOffer, AsksSame, Asks
<1>3. ASSUME NEW r \in Requests, NEW e \in Emails, NEW p \in Purposes, BeginIssue(r, e, p)
      PROVE  DeletedAll'
  <2>1. PICK i \in UserIds :
          /\ req' = [req EXCEPT ![r] = [Idle EXCEPT
                 !.phase = "issue", !.user = i, !.purpose = p, !.since = Len(issues)]]
          /\ UNCHANGED issues
    BY <1>3 DEF BeginIssue, history
  <2>2. /\ req'[r].since = Len(issues) /\ \A q \in Requests \ {r} : req'[q] = req[q]
    BY <1>1, <2>1 DEF AsksTyped, Idle
  <2> QED
    BY <1>1, <2>1, <2>2 DEF DeletedAll, SameOffer, Asks
<1>4. ASSUME NEW r \in Requests, NEW t \in Raws, FinishIssue(r, t)
      PROVE  DeletedAll'
  <2> DEFINE L == Len(issues)
             last == [raw |-> t, user |-> req[r].user, purpose |-> req[r].purpose,
                      after |-> req[r].since]
  <2>1. /\ Asks(r) /\ DOMAIN issues' = 1 .. L + 1 /\ issues'[L + 1] = last
        /\ \A n \in 1 .. L : issues'[n] = issues[n]
        /\ ~Asks(r)' /\ \A q \in Requests \ {r} : req'[q] = req[q]
    BY <1>4, FinishIssueIs
  <2>2. /\ last.user = req[r].user /\ last.purpose = req[r].purpose
        /\ last.after = req[r].since
    OBVIOUS
  <2> HIDE DEF last
  <2>3. ASSUME NEW m \in 1 .. L + 1, NEW n \in 1 .. L + 1, m < n, SameOffer(m, n)'
        PROVE  m <= issues'[n].after
    <3>1. m \in 1 .. L /\ issues'[m] = issues[m]
      BY <1>1, <2>1, <2>3
    <3>2. CASE n = L + 1
      BY <1>1, <2>1, <2>2, <2>3, <3>1, <3>2 DEF DeletedAll, SameOffer
    <3>3. CASE n \in 1 .. L
      BY <1>1, <2>1, <2>3, <3>1, <3>3 DEF DeletedAll, SameOffer
    <3> QED
      BY <1>1, <3>2, <3>3
  <2>4. ASSUME NEW q \in Requests, NEW m \in 1 .. L + 1, Asks(q)',
               req'[q].user = issues'[m].user, req'[q].purpose = issues'[m].purpose
        PROVE  m <= req'[q].since
    <3>1. q # r /\ Asks(q) /\ req'[q] = req[q]
      BY <2>1, <2>4 DEF Asks
    <3>2. m # L + 1
      BY <2>1, <2>2, <2>4, <3>1 DEF AsksApart
    <3> QED
      BY <1>1, <2>1, <2>4, <3>1, <3>2 DEF DeletedAll
  <2> QED
    BY <2>1, <2>3, <2>4 DEF DeletedAll
<1> QED
  BY <1>1, <1>2, <1>3, <1>4, TokenSteps DEF TokenExpires, history

\* Overlapping requests are the only reason why a user may have two usable tokens for
\* a purpose: where none overlap for one user and purpose, only the latest is usable.
THEOREM ApartAsksSupersede == Spec /\ []AsksApart => []OnlyLatestIsUsable
<1>1. Init => DeletedAll
  <2> SUFFICES ASSUME Init PROVE DeletedAll
    OBVIOUS
  <2>1. DOMAIN issues = {}
    BY DEF Init
  <2> QED
    BY <2>1 DEF DeletedAll
<1>2. TokenInv /\ DeletedAll => OnlyLatestIsUsable
  <2> SUFFICES ASSUME TokenInv, DeletedAll, NEW m \in DOMAIN issues, NEW n \in DOMAIN issues,
                      m < n, SameOffer(m, n)
               PROVE  ~Usable(issues[m].raw, issues[m].purpose)
    BY DEF OnlyLatestIsUsable
  <2>1. m <= issues[n].after /\ SameOffer(n, m)
    BY DEF DeletedAll, SameOffer
  <2>2. AskedSince(m)
    BY <2>1 DEF AskedSince
  <2> QED
    BY <2>2 DEF TokenInv, Ledger, Usable
<1> QED
  BY <1>1, <1>2, DeletedAllNext, TokenLedger, PTL DEF Spec

-----------------------------------------------------------------------------
(* Their mails. *)

Issued(s, x) == \E n \in DOMAIN s : s[n].raw = x

Before(s, x, y) == \E m, n \in DOMAIN s : m < n /\ s[m].raw = x /\ s[n].raw = y

\* y may come after x: its token was stored later, or the pushes of both were repeated.
Fine(s, g, x, y) == {x, y} \subseteq g \/ Before(s, x, y)

MailTyped ==
    /\ queue \in Seq(Raws) /\ mailbox \in Seq(Raws) /\ unanswered \in Seq(Raws)
    /\ executed \in 0 .. Len(unanswered)
    /\ working \in Raws \cup {NoRaw}

\* Mails that Redis was given.
Passed(x) ==
    \/ \E a \in DOMAIN mailbox : mailbox[a] = x
    \/ working # NoRaw /\ working = x
    \/ \E b \in DOMAIN queue : queue[b] = x

\* What is handed over, what the worker has, and what waits may come in this order.
PipeInOrder ==
    /\ \A a, b \in DOMAIN mailbox : a < b => Fine(issues, again, mailbox[a], mailbox[b])
    /\ \A a, b \in DOMAIN queue : a < b => Fine(issues, again, queue[a], queue[b])
    /\ \A a \in DOMAIN mailbox, b \in DOMAIN queue :
          Fine(issues, again, mailbox[a], queue[b])
    /\ working # NoRaw =>
         /\ \A a \in DOMAIN mailbox : Fine(issues, again, mailbox[a], working)
         /\ \A b \in DOMAIN queue : Fine(issues, again, working, queue[b])

\* The client sends in the order of the tokens; what Redis was given may come before
\* an unanswered push, unless Redis has executed both on this connection.
WireInOrder ==
    /\ \A j, k \in DOMAIN unanswered :
          j < k => Before(issues, unanswered[j], unanswered[k])
    /\ \A x \in Raws, k \in DOMAIN unanswered :
          Passed(x) => \/ Fine(issues, again, x, unanswered[k])
                       \/ /\ k <= executed
                          /\ \E j \in 1 .. executed : unanswered[j] = x

\* Only mails of issued tokens are sent.
MailsKnown ==
    /\ \A x \in Raws : Passed(x) => Issued(issues, x)
    /\ \A k \in DOMAIN unanswered : Issued(issues, unanswered[k])

InOrder == PipeInOrder /\ WireInOrder /\ MailsKnown

\* Without Redis the provider may deliver in any order.
MailInv ==
    /\ TokenInv
    /\ MailTyped
    /\ redis => sending = {}
    /\ redis => InOrder

\* The queue, the mailbox and the pushes are sequences of tokens.
LEMMA MailSeqs ==
  ASSUME MailTyped
  PROVE  /\ Len(queue) \in Nat /\ DOMAIN queue = 1 .. Len(queue)
         /\ Len(mailbox) \in Nat /\ DOMAIN mailbox = 1 .. Len(mailbox)
         /\ Len(unanswered) \in Nat /\ DOMAIN unanswered = 1 .. Len(unanswered)
         /\ \A b \in 1 .. Len(queue) : queue[b] \in Raws
         /\ \A b \in 1 .. Len(mailbox) : mailbox[b] \in Raws
         /\ \A k \in 1 .. Len(unanswered) : unanswered[k] \in Raws
         /\ \A x : Passed(x) => x \in Raws
BY DEF MailTyped, Passed

\* What appending a token does to each place.
LEMMA AppendIs ==
  ASSUME NEW S, NEW s \in Seq(S), NEW x \in S
  PROVE  /\ Append(s, x) \in Seq(S) /\ DOMAIN Append(s, x) = 1 .. Len(s) + 1
         /\ Len(s) \in Nat /\ DOMAIN s = 1 .. Len(s) /\ Len(Append(s, x)) = Len(s) + 1
         /\ Append(s, x)[Len(s) + 1] = x
         /\ \A n \in 1 .. Len(s) : Append(s, x)[n] = s[n]
OBVIOUS

\* The order of issues only grows, and so do the mails whose push was repeated.
LEMMA OrderGrows ==
  ASSUME TokensTyped, issues' = issues \/ \E x \in Issue : issues' = Append(issues, x),
         again \subseteq again'
  PROVE  /\ \A x : Issued(issues, x) => Issued(issues', x)
         /\ \A x, y : Before(issues, x, y) => Before(issues', x, y)
         /\ \A x, y : Fine(issues, again, x, y) => Fine(issues', again', x, y)
<1>1. /\ issues \in Seq(Issue) /\ DOMAIN issues = 1 .. Len(issues)
  BY IssuesAre DEF TokensTyped
<1>2. ASSUME NEW s, NEW x \in Issue, s = Append(issues, x)
      PROVE  \A n \in DOMAIN issues : n \in DOMAIN s /\ s[n] = issues[n]
  BY <1>1, <1>2, AppendIs
<1>3. \A n \in DOMAIN issues : n \in DOMAIN issues' /\ issues'[n] = issues[n]
  <2>1. CASE issues' = issues
    BY <2>1
  <2>2. CASE \E x \in Issue : issues' = Append(issues, x)
    BY <1>2, <2>2, Zenon
  <2> QED
    BY <2>1, <2>2
<1>4. /\ \A x : Issued(issues, x) => Issued(issues', x)
      /\ \A x, y : Before(issues, x, y) => Before(issues', x, y)
  BY <1>3 DEF Issued, Before
<1> QED
  BY <1>4 DEF Fine

\* A mail that is enqueued comes after all others.
LEMMA EnqueueKeeps ==
  ASSUME MailInv, NEW r \in Requests, NEW t \in Raws, FinishIssue(r, t)
  PROVE  MailTyped' /\ (redis' => InOrder')
<1> DEFINE last == [raw |-> t, user |-> req[r].user, purpose |-> req[r].purpose,
                    after |-> req[r].since]
<1>0. last \in Issue /\ issues' = Append(issues, last)
  BY FinishIssueIs DEF MailInv
<1>1. PICK x \in Issue : x.raw = t /\ issues' = Append(issues, x)
  <2>1. last.raw = t
    OBVIOUS
  <2> HIDE DEF last
  <2> QED
    BY <1>0, <2>1
<1>2. /\ TokensTyped /\ MailTyped /\ issues \in Seq(Issue)
      /\ Len(unanswered) \in Nat /\ DOMAIN unanswered = 1 .. Len(unanswered)
      /\ unanswered \in Seq(Raws) /\ executed \in 0 .. Len(unanswered)
  BY MailSeqs DEF MailInv, TokenInv, TokensTyped, MailTyped
<1>3. /\ Len(issues) \in Nat /\ DOMAIN issues = 1 .. Len(issues)
      /\ DOMAIN issues' = 1 .. Len(issues) + 1
      /\ issues'[Len(issues) + 1] = x
      /\ \A n \in 1 .. Len(issues) : issues'[n] = issues[n]
  BY <1>1, <1>2, AppendIs
<1>4. UNCHANGED <<redis, executed, again, resends, queue, working, mailbox>>
  BY DEF FinishIssue, Mail!Enqueue, Mail!wire
<1>5. /\ \A y : Issued(issues, y) => Issued(issues', y)
      /\ \A y, z : Before(issues, y, z) => Before(issues', y, z)
      /\ \A y, z : Fine(issues, again, y, z) => Fine(issues', again', y, z)
  BY <1>1, <1>2, <1>4, OrderGrows
<1>6. Issued(issues', t)
  BY <1>1, <1>3 DEF Issued
<1>7. \A y : Issued(issues, y) => Before(issues', y, t)
  <2> SUFFICES ASSUME NEW y, NEW m \in DOMAIN issues, issues[m].raw = y
               PROVE  Before(issues', y, t)
    BY DEF Issued
  <2>1. /\ m \in DOMAIN issues' /\ Len(issues) + 1 \in DOMAIN issues'
        /\ m < Len(issues) + 1 /\ issues'[m].raw = y
        /\ issues'[Len(issues) + 1].raw = t
    BY <1>1, <1>3
  <2> QED
    BY <2>1 DEF Before
<1>8. CASE unanswered' = unanswered /\ ~redis
  BY <1>2, <1>4, <1>8 DEF MailTyped
<1>9. CASE redis /\ unanswered' = Append(unanswered, t)
  <2>1. /\ unanswered' \in Seq(Raws) /\ DOMAIN unanswered' = 1 .. Len(unanswered) + 1
        /\ Len(unanswered') = Len(unanswered) + 1
        /\ unanswered'[Len(unanswered) + 1] = t
        /\ \A k \in 1 .. Len(unanswered) : unanswered'[k] = unanswered[k]
    BY <1>2, <1>9, AppendIs
  <2>2. MailTyped'
    BY <1>2, <1>4, <2>1 DEF MailTyped
  <2>3. PipeInOrder /\ WireInOrder /\ MailsKnown
    BY <1>9 DEF MailInv, InOrder
  <2>4. \A y : Passed(y)' <=> Passed(y)
    BY <1>4 DEF Passed
  <2>5. PipeInOrder'
    BY <1>4, <1>5, <2>3 DEF PipeInOrder
  <2>6. MailsKnown'
    BY <1>2, <1>5, <1>6, <2>1, <2>3, <2>4 DEF MailsKnown
  <2>7. ASSUME NEW j \in DOMAIN unanswered', NEW k \in DOMAIN unanswered', j < k
        PROVE  Before(issues', unanswered'[j], unanswered'[k])
    <3>1. j \in DOMAIN unanswered /\ unanswered'[j] = unanswered[j]
      BY <1>2, <2>1, <2>7
    <3>2. CASE k \in DOMAIN unanswered
      BY <1>2, <1>5, <2>1, <2>3, <2>7, <3>1, <3>2 DEF WireInOrder
    <3>3. CASE k = Len(unanswered) + 1
      BY <1>7, <2>1, <2>3, <3>1, <3>3 DEF MailsKnown
    <3> QED
      BY <1>2, <2>1, <3>2, <3>3
  <2>8. ASSUME NEW y \in Raws, NEW k \in DOMAIN unanswered', Passed(y)'
        PROVE  \/ Fine(issues', again', y, unanswered'[k])
               \/ k <= executed' /\ \E j \in 1 .. executed' : unanswered'[j] = y
    <3>1. CASE k \in DOMAIN unanswered
      <4>1. \/ Fine(issues, again, y, unanswered[k])
            \/ k <= executed /\ \E j \in 1 .. executed : unanswered[j] = y
        BY <2>3, <2>4, <2>8, <3>1 DEF WireInOrder
      <4>2. \A j \in 1 .. executed : j \in 1 .. Len(unanswered)
        BY <1>2
      <4> QED
        BY <1>2, <1>4, <1>5, <2>1, <3>1, <4>1, <4>2
    <3>2. CASE k = Len(unanswered) + 1
      BY <1>7, <2>1, <2>3, <2>4, <2>8, <3>2 DEF MailsKnown, Fine
    <3> QED
      BY <1>2, <2>1, <3>1, <3>2
  <2> QED
    BY <2>2, <2>5, <2>6, <2>7, <2>8 DEF InOrder, WireInOrder
<1> QED
  BY <1>2, <1>8, <1>9 DEF FinishIssue, Mail!Enqueue, Mail!wire

\* A push that Redis executes may come after all it was given before.
LEMMA PushKeeps ==
  ASSUME MailTyped, redis => InOrder, Mail!Push, UNCHANGED issues
  PROVE  MailTyped' /\ (redis' => InOrder')
<1> DEFINE e == executed + 1
           m == unanswered[e]
<1>1. /\ executed < Len(unanswered) /\ executed' = e
      /\ queue' = Append(queue, m) \/ queue' = queue
      /\ UNCHANGED <<redis, unanswered, again, working, mailbox>>
  BY DEF Mail!Push
<1>2. /\ DOMAIN unanswered = 1 .. Len(unanswered) /\ Len(unanswered) \in Nat
      /\ queue \in Seq(Raws) /\ Len(queue) \in Nat /\ DOMAIN queue = 1 .. Len(queue)
      /\ \A k \in DOMAIN unanswered : unanswered[k] \in Raws
      /\ executed \in Nat /\ e \in DOMAIN unanswered /\ m \in Raws
      /\ ~(e <= executed) /\ e \in 1 .. e
      /\ \A k \in DOMAIN unanswered : k <= executed => k <= e
      /\ \A k \in DOMAIN unanswered : k <= e \/ e < k
      /\ \A j \in 1 .. executed : j \in 1 .. e
  BY <1>1, MailSeqs DEF MailTyped
<1>3. executed' \in 0 .. Len(unanswered)
  BY <1>1, <1>2
<1> HIDE DEF e, m
<1>4. CASE queue' = queue
  <2>1. MailTyped'
    BY <1>1, <1>3, <1>4 DEF MailTyped
  <2>2. \A x : Passed(x)' <=> Passed(x)
    BY <1>1, <1>4 DEF Passed
  <2>3. ASSUME InOrder
        PROVE  InOrder'
    <3>1. PipeInOrder' /\ MailsKnown'
      BY <1>1, <1>4, <2>2, <2>3 DEF InOrder, PipeInOrder, MailsKnown
    <3>2. WireInOrder'
      BY <1>1, <1>2, <2>2, <2>3 DEF InOrder, WireInOrder
    <3> QED
      BY <3>1, <3>2 DEF InOrder
  <2> QED
    BY <1>1, <2>1, <2>3
<1>5. CASE queue' = Append(queue, m)
  <2>1. /\ queue' \in Seq(Raws) /\ DOMAIN queue' = 1 .. Len(queue) + 1
        /\ queue'[Len(queue) + 1] = m
        /\ \A n \in 1 .. Len(queue) : queue'[n] = queue[n]
    BY <1>2, <1>5, AppendIs
  <2>2. MailTyped'
    BY <1>1, <1>3, <2>1 DEF MailTyped
  <2>3. \A x : Passed(x)' <=> Passed(x) \/ x = m
    BY <1>1, <1>2, <2>1 DEF Passed
  <2>4. ASSUME InOrder
        PROVE  InOrder'
    <3>1. PipeInOrder /\ WireInOrder /\ MailsKnown
      BY <2>4 DEF InOrder
    <3>2. \A x \in Raws : Passed(x) => Fine(issues, again, x, m)
      BY <1>2, <3>1 DEF WireInOrder, m
    <3>3. /\ \A a \in DOMAIN mailbox : Fine(issues, again, mailbox[a], m)
          /\ \A b \in DOMAIN queue : Fine(issues, again, queue[b], m)
          /\ working # NoRaw => Fine(issues, again, working, m)
      <4>1. \A x : Passed(x) => x \in Raws
        BY MailSeqs
      <4> QED
        BY <3>2, <4>1 DEF Passed
    <3>4. \A b \in DOMAIN queue' : \/ b \in DOMAIN queue /\ queue'[b] = queue[b]
                                   \/ b = Len(queue) + 1 /\ queue'[b] = m
      BY <1>2, <2>1
    <3>5. \A a, b \in DOMAIN queue' :
            a < b => Fine(issues, again, queue'[a], queue'[b])
      <4> SUFFICES ASSUME NEW a \in DOMAIN queue', NEW b \in DOMAIN queue', a < b
                   PROVE  Fine(issues, again, queue'[a], queue'[b])
        OBVIOUS
      <4>1. a \in DOMAIN queue /\ queue'[a] = queue[a]
        BY <1>2, <2>1
      <4> QED
        BY <3>1, <3>3, <3>4, <4>1 DEF PipeInOrder
    <3>6. PipeInOrder'
      BY <1>1, <3>1, <3>3, <3>4, <3>5 DEF PipeInOrder
    <3>7. MailsKnown'
      BY <1>1, <1>2, <2>3, <3>1 DEF MailsKnown, m
    <3>8. ASSUME NEW x \in Raws, NEW k \in DOMAIN unanswered, Passed(x)'
          PROVE  \/ Fine(issues, again, x, unanswered[k])
                 \/ k <= e /\ \E j \in 1 .. e : unanswered[j] = x
      <4>1. CASE Passed(x)
        BY <1>2, <3>1, <4>1 DEF WireInOrder
      <4>2. CASE x = m /\ k <= e
        BY <1>2, <4>2 DEF m
      <4>3. CASE x = m /\ e < k
        BY <1>2, <3>1, <4>3 DEF WireInOrder, Fine, m
      <4> QED
        BY <1>2, <2>3, <3>8, <4>1, <4>2, <4>3
    <3>9. WireInOrder'
      BY <1>1, <3>1, <3>8 DEF WireInOrder
    <3> QED
      BY <3>6, <3>7, <3>9 DEF InOrder
  <2> QED
    BY <1>1, <2>2, <2>4
<1> QED
  BY <1>1, <1>4, <1>5

\* What taking the head of a queue leaves.
LEMMA TailIs ==
  ASSUME NEW S, NEW s \in Seq(S), s # <<>>
  PROVE  /\ Tail(s) \in Seq(S) /\ Head(s) = s[1] /\ s[1] \in S /\ 1 \in DOMAIN s
         /\ \A n \in DOMAIN Tail(s) :
              n \in Nat /\ n + 1 \in DOMAIN s /\ n + 1 > 1 /\ Tail(s)[n] = s[n + 1]
<1>1. Len(s) \in Nat \ {0} /\ DOMAIN s = 1 .. Len(s)
  OBVIOUS
<1>2. Tail(s) \in Seq(S) /\ Head(s) = s[1] /\ s[1] \in S
  BY <1>1
<1>3. DOMAIN Tail(s) = 1 .. Len(s) - 1
  BY <1>1
<1>4. \A n \in 1 .. Len(s) - 1 : Tail(s)[n] = s[n + 1]
  BY <1>1
<1> QED
  BY <1>1, <1>2, <1>3, <1>4

\* A push that is answered is not repeated any more.
LEMMA ReplyKeeps ==
  ASSUME MailTyped, redis => InOrder, Mail!Reply, UNCHANGED issues
  PROVE  MailTyped' /\ (redis' => InOrder')
<1>1. /\ executed > 0 /\ unanswered' = Tail(unanswered) /\ executed' = executed - 1
      /\ UNCHANGED <<redis, again, queue, working, mailbox>>
  BY DEF Mail!Reply
<1>2. /\ unanswered \in Seq(Raws) /\ executed \in 0 .. Len(unanswered)
      /\ Len(unanswered) \in Nat /\ DOMAIN unanswered = 1 .. Len(unanswered)
  BY MailSeqs DEF MailTyped
<1>3. unanswered # <<>>
  BY <1>1, <1>2
<1>4. /\ unanswered' \in Seq(Raws) /\ Len(unanswered') = Len(unanswered) - 1
      /\ DOMAIN unanswered' = 1 .. Len(unanswered) - 1
      /\ \A k \in DOMAIN unanswered' : /\ k \in Nat /\ k + 1 \in DOMAIN unanswered
                                       /\ k + 1 > 1
                                       /\ unanswered'[k] = unanswered[k + 1]
  <2>1. ASSUME NEW q, q = Tail(unanswered)
        PROVE  /\ q \in Seq(Raws) /\ Len(q) = Len(unanswered) - 1
               /\ DOMAIN q = 1 .. Len(unanswered) - 1
               /\ \A k \in DOMAIN q : k \in Nat /\ k + 1 \in DOMAIN unanswered
                                        /\ k + 1 > 1 /\ q[k] = unanswered[k + 1]
    <3>1. Len(q) = Len(unanswered) - 1 /\ DOMAIN q = 1 .. Len(unanswered) - 1
      BY <1>2, <1>3, <2>1
    <3> QED
      BY <1>2, <1>3, <2>1, <3>1, TailIs
  <2> QED
    BY <1>1, <2>1, Zenon
<1>5. MailTyped'
  BY <1>1, <1>2, <1>4 DEF MailTyped
<1>6. \A x : Passed(x)' <=> Passed(x)
  BY <1>1 DEF Passed
<1>7. ASSUME InOrder
      PROVE  InOrder'
  <2>1. PipeInOrder /\ WireInOrder /\ MailsKnown
    BY <1>7 DEF InOrder
  <2>2. PipeInOrder' /\ MailsKnown'
    BY <1>1, <1>4, <1>6, <2>1 DEF PipeInOrder, MailsKnown
  <2>3. \A j, k \in DOMAIN unanswered' :
          j < k => Before(issues, unanswered'[j], unanswered'[k])
    <3> SUFFICES ASSUME NEW j \in DOMAIN unanswered', NEW k \in DOMAIN unanswered', j < k
                 PROVE  Before(issues, unanswered'[j], unanswered'[k])
      OBVIOUS
    <3>1. j + 1 < k + 1
      BY <1>4
    <3> QED
      BY <1>4, <2>1, <3>1 DEF WireInOrder
  <2>4. ASSUME NEW x \in Raws, NEW k \in DOMAIN unanswered', Passed(x)
        PROVE  \/ Fine(issues, again, x, unanswered'[k])
               \/ k <= executed' /\ \E j \in 1 .. executed' : unanswered'[j] = x
    <3>1. \/ Fine(issues, again, x, unanswered[k + 1])
          \/ k + 1 <= executed /\ \E j \in 1 .. executed : unanswered[j] = x
      BY <1>4, <2>1, <2>4 DEF WireInOrder
    <3>2. ASSUME NEW j \in 1 .. executed, unanswered[j] = x, k + 1 <= executed
          PROVE  \/ Fine(issues, again, x, unanswered'[k])
                 \/ k <= executed' /\ \E i \in 1 .. executed' : unanswered'[i] = x
      <4>1. CASE j = 1
        BY <1>2, <1>4, <2>1, <3>2, <4>1 DEF WireInOrder, Fine
      <4>2. CASE j # 1
        <5>1. /\ j - 1 \in 1 .. executed' /\ j - 1 \in DOMAIN unanswered'
              /\ k <= executed' /\ (j - 1) + 1 = j
          BY <1>1, <1>2, <1>4, <3>2, <4>2
        <5> QED
          BY <1>4, <3>2, <5>1
      <4> QED
        BY <4>1, <4>2
    <3> QED
      BY <1>4, <3>1, <3>2
  <2>5. WireInOrder'
    BY <1>1, <1>6, <2>3, <2>4 DEF WireInOrder
  <2> QED
    BY <2>2, <2>5 DEF InOrder
<1> QED
  BY <1>1, <1>5, <1>7

\* Of two mails Redis was given on one connection, both pushes are repeated.
LEMMA ResendKeeps ==
  ASSUME MailTyped, TokensTyped, redis => InOrder, Mail!Resend, UNCHANGED issues
  PROVE  MailTyped' /\ (redis' => InOrder')
<1>1. /\ again' = again \cup {unanswered[k] : k \in 1 .. executed} /\ executed' = 0
      /\ UNCHANGED <<redis, unanswered, queue, working, mailbox>>
  BY DEF Mail!Resend
<1>2. MailTyped'
  BY <1>1, MailSeqs DEF MailTyped
<1>3. /\ DOMAIN unanswered = 1 .. Len(unanswered) /\ executed \in 0 .. Len(unanswered)
      /\ Len(unanswered) \in Nat
  BY MailSeqs DEF MailTyped
<1>4. \A x : Passed(x)' <=> Passed(x)
  BY <1>1 DEF Passed
<1>5. \A x, y : Fine(issues, again, x, y) => Fine(issues', again', x, y)
  BY <1>1 DEF Fine
<1>6. ASSUME InOrder
      PROVE  InOrder'
  <2>1. PipeInOrder /\ WireInOrder /\ MailsKnown
    BY <1>6 DEF InOrder
  <2>2. PipeInOrder' /\ MailsKnown'
    BY <1>1, <1>4, <1>5, <2>1 DEF PipeInOrder, MailsKnown
  <2>3. ASSUME NEW x \in Raws, NEW k \in DOMAIN unanswered, Passed(x)
        PROVE  Fine(issues', again', x, unanswered[k])
    <3>1. CASE Fine(issues, again, x, unanswered[k])
      BY <1>5, <3>1
    <3>2. CASE k <= executed /\ \E j \in 1 .. executed : unanswered[j] = x
      BY <1>1, <1>3, <3>2 DEF Fine
    <3> QED
      BY <2>1, <2>3, <3>1, <3>2 DEF WireInOrder
  <2>4. WireInOrder'
    BY <1>1, <1>4, <2>1, <2>3 DEF WireInOrder
  <2> QED
    BY <2>2, <2>4 DEF InOrder
<1> QED
  BY <1>1, <1>2, <1>6

\* Pushes that were failed are not repeated.
LEMMA GiveUpKeeps ==
  ASSUME MailTyped, redis => InOrder, Mail!GiveUp, UNCHANGED issues
  PROVE  MailTyped' /\ (redis' => InOrder')
<1>1. /\ unanswered' = <<>> /\ executed' = 0
      /\ UNCHANGED <<redis, again, queue, working, mailbox>>
  BY DEF Mail!GiveUp
<1>2. DOMAIN unanswered' = {} /\ unanswered' \in Seq(Raws) /\ Len(unanswered') = 0
  BY <1>1
<1>3. MailTyped'
  BY <1>1, <1>2 DEF MailTyped
<1>4. \A x : Passed(x)' <=> Passed(x)
  BY <1>1 DEF Passed
<1>5. InOrder => InOrder'
  BY <1>1, <1>2, <1>4 DEF InOrder, PipeInOrder, WireInOrder, MailsKnown
<1> QED
  BY <1>1, <1>3, <1>5

\* The worker only takes from what Redis was given.
LEMMA WorkerKeepsOrder ==
  ASSUME InOrder, UNCHANGED <<unanswered, executed, again, issues>>,
         \A x : Passed(x)' => Passed(x), PipeInOrder'
  PROVE  InOrder'
<1>1. WireInOrder /\ MailsKnown
  BY DEF InOrder
<1>2. WireInOrder' /\ MailsKnown'
  BY <1>1 DEF WireInOrder, MailsKnown
<1> QED
  BY <1>2 DEF InOrder

\* The worker takes the mail at the head, or loses it.
LEMMA PopKeeps ==
  ASSUME MailTyped, redis => InOrder, Mail!Pop, UNCHANGED issues
  PROVE  MailTyped' /\ (redis' => InOrder')
<1>1. /\ working = NoRaw /\ queue # <<>> /\ working' \in {Head(queue), NoRaw}
      /\ queue' = Tail(queue)
      /\ UNCHANGED <<redis, unanswered, executed, again, sending, mailbox>>
  BY DEF Mail!Pop, Mail!wire
<1>2. queue \in Seq(Raws) /\ mailbox \in Seq(Raws)
  BY DEF MailTyped
<1>3. /\ queue' \in Seq(Raws) /\ Head(queue) = queue[1] /\ queue[1] \in Raws
      /\ 1 \in DOMAIN queue
      /\ \A n \in DOMAIN queue' : n \in Nat /\ n + 1 \in DOMAIN queue /\ n + 1 > 1
                                   /\ queue'[n] = queue[n + 1]
  <2>1. ASSUME NEW q, q = Tail(queue)
        PROVE  /\ q \in Seq(Raws) /\ Head(queue) = queue[1] /\ queue[1] \in Raws
               /\ 1 \in DOMAIN queue
               /\ \A n \in DOMAIN q : n \in Nat /\ n + 1 \in DOMAIN queue /\ n + 1 > 1
                                       /\ q[n] = queue[n + 1]
    BY <1>1, <1>2, <2>1, TailIs
  <2> QED
    BY <1>1, <2>1, Zenon
<1>4. MailTyped'
  BY <1>1, <1>2, <1>3 DEF MailTyped
<1>5. \A x : Passed(x)' => Passed(x)
  BY <1>1, <1>3 DEF Passed
<1>6. ASSUME InOrder
      PROVE  PipeInOrder'
  <2>1. /\ PipeInOrder
        /\ \A a, b \in DOMAIN mailbox : a < b => Fine(issues, again, mailbox[a], mailbox[b])
    BY <1>6 DEF InOrder, PipeInOrder
  <2>2. /\ \A a \in DOMAIN mailbox, b \in DOMAIN queue' :
             Fine(issues, again, mailbox[a], queue'[b])
        /\ \A b \in DOMAIN queue' : Fine(issues, again, queue[1], queue'[b])
    BY <1>3, <2>1 DEF PipeInOrder
  <2>3. ASSUME NEW a \in DOMAIN queue', NEW b \in DOMAIN queue', a < b
        PROVE  Fine(issues, again, queue'[a], queue'[b])
    <3>1. /\ a + 1 \in DOMAIN queue /\ b + 1 \in DOMAIN queue /\ a + 1 < b + 1
          /\ queue'[a] = queue[a + 1] /\ queue'[b] = queue[b + 1]
      BY <1>3, <2>3
    <3> QED
      BY <2>1, <3>1 DEF PipeInOrder
  <2>4. \A a \in DOMAIN mailbox : Fine(issues, again, mailbox[a], queue[1])
    BY <1>3, <2>1 DEF PipeInOrder
  <2> QED
    BY <1>1, <1>3, <2>1, <2>2, <2>3, <2>4 DEF PipeInOrder
<1> QED
  BY <1>1, <1>4, <1>5, <1>6, WorkerKeepsOrder

\* A mail that is handed over was the next.
LEMMA HandOverKeeps ==
  ASSUME MailTyped, redis => InOrder, Mail!HandOver, UNCHANGED issues
  PROVE  MailTyped' /\ (redis' => InOrder')
<1>1. /\ working # NoRaw /\ working \in Raws /\ mailbox' = Append(mailbox, working)
      /\ working' = NoRaw /\ UNCHANGED <<redis, unanswered, executed, again, queue, sending>>
      /\ mailbox \in Seq(Raws) /\ queue \in Seq(Raws)
  BY DEF Mail!HandOver, Mail!wire, MailTyped
<1>2. /\ mailbox' \in Seq(Raws) /\ DOMAIN mailbox' = 1 .. Len(mailbox) + 1
      /\ Len(mailbox) \in Nat /\ DOMAIN mailbox = 1 .. Len(mailbox)
      /\ mailbox'[Len(mailbox) + 1] = working
      /\ \A n \in 1 .. Len(mailbox) : mailbox'[n] = mailbox[n]
  BY <1>1, AppendIs
<1>3. MailTyped'
  BY <1>1, <1>2 DEF MailTyped
<1>4. \A a \in DOMAIN mailbox' :
          \/ a \in DOMAIN mailbox /\ mailbox'[a] = mailbox[a]
          \/ a = Len(mailbox) + 1 /\ mailbox'[a] = working
  BY <1>2
<1>5. \A x : Passed(x)' => Passed(x)
  BY <1>1, <1>4 DEF Passed
<1>6. ASSUME InOrder
      PROVE  PipeInOrder'
  <2>1. PipeInOrder
    BY <1>6 DEF InOrder
  <2>2. \A a \in DOMAIN mailbox', b \in DOMAIN queue :
             Fine(issues, again, mailbox'[a], queue[b])
    BY <1>1, <1>4, <2>1 DEF PipeInOrder
  <2>3. ASSUME NEW a \in DOMAIN mailbox', NEW b \in DOMAIN mailbox', a < b
        PROVE  Fine(issues, again, mailbox'[a], mailbox'[b])
    <3>1. a \in DOMAIN mailbox /\ mailbox'[a] = mailbox[a]
      BY <1>2, <2>3
    <3> QED
      BY <1>1, <1>4, <2>1, <2>3, <3>1 DEF PipeInOrder
  <2> QED
    BY <1>1, <2>1, <2>2, <2>3 DEF PipeInOrder
<1> QED
  BY <1>1, <1>3, <1>5, <1>6, WorkerKeepsOrder

\* A worker that stops takes its mail along.
LEMMA WorkerStopsKeeps ==
  ASSUME MailTyped, redis => InOrder, Mail!WorkerStops, UNCHANGED issues
  PROVE  MailTyped' /\ (redis' => InOrder')
<1>1. /\ working' = NoRaw
      /\ UNCHANGED <<redis, unanswered, executed, again, queue, mailbox>>
  BY DEF Mail!WorkerStops, Mail!wire
<1>2. MailTyped'
  BY <1>1 DEF MailTyped
<1>3. \A x : Passed(x)' => Passed(x)
  BY <1>1 DEF Passed
<1>4. InOrder => PipeInOrder'
  BY <1>1 DEF InOrder, PipeInOrder
<1> QED
  BY <1>1, <1>2, <1>3, <1>4, WorkerKeepsOrder

\* Every step of the mail queue keeps its invariant.
LEMMA MailNextKeeps ==
  ASSUME MailTyped, TokensTyped, redis => sending = {}, redis => InOrder, Mail!MailNext,
         UNCHANGED issues
  PROVE  MailTyped' /\ (redis' => sending' = {}) /\ (redis' => InOrder')
<1>1. CASE Mail!Push \/ Mail!Reply \/ Mail!Resend \/ Mail!GiveUp
  <2>1. UNCHANGED <<redis, sending>>
    BY <1>1 DEF Mail!Push, Mail!Reply, Mail!Resend, Mail!GiveUp
  <2> QED
    BY <1>1, <2>1, PushKeeps, ReplyKeeps, ResendKeeps, GiveUpKeeps
<1>2. CASE Mail!Pop \/ Mail!HandOver \/ Mail!WorkerStops
  <2>1. UNCHANGED <<redis, sending>>
    BY <1>2 DEF Mail!Pop, Mail!HandOver, Mail!WorkerStops
  <2> QED
    BY <1>2, <2>1, PopKeeps, HandOverKeeps, WorkerStopsKeeps
<1>3. CASE \E m \in Raws : Mail!Sent(m)
  <2>1. PICK m \in Raws : Mail!Sent(m)
    BY <1>3
  <2>2. /\ m \in sending /\ UNCHANGED <<redis, unanswered, executed, queue, working>>
        /\ mailbox' = mailbox \/ mailbox' = Append(mailbox, m)
    BY <2>1 DEF Mail!Sent, Mail!wire
  <2>3. mailbox' \in Seq(Raws)
    <3>1. mailbox \in Seq(Raws)
      BY DEF MailTyped
    <3> QED
      BY <2>2, <3>1
  <2>4. MailTyped'
    BY <2>2, <2>3 DEF MailTyped
  <2> QED
    BY <2>2, <2>4
<1> QED
  BY <1>1, <1>2, <1>3 DEF Mail!MailNext

\* Nothing is queued at the start.
LEMMA MailInitial == Init => MailInv
<1> SUFFICES ASSUME Init
             PROVE  MailInv
  OBVIOUS
<1>1. /\ queue = <<>> /\ mailbox = <<>> /\ unanswered = <<>> /\ executed = 0
      /\ working = NoRaw /\ sending = {}
  BY DEF Init, Mail!MailInit
<1>2. /\ DOMAIN queue = {} /\ DOMAIN mailbox = {} /\ DOMAIN unanswered = {}
      /\ Len(unanswered) = 0
  BY <1>1
<1>3. MailTyped
  BY <1>1, <1>2 DEF MailTyped
<1>4. InOrder
  BY <1>1, <1>2 DEF InOrder, PipeInOrder, WireInOrder, MailsKnown, Passed
<1> QED
  BY <1>1, <1>3, <1>4, TokenInit DEF MailInv

\* A step of the accounts is a step of the mail queue or leaves it alone.
LEMMA MailStep ==
  ASSUME MailInv, [Next]_vars
  PROVE  MailInv'
<1>1. TokenInv'
  BY TokenNext DEF MailInv
<1>2. ASSUME UNCHANGED <<mailVars, issues>>
      PROVE  MailInv'
  <2>1. UNCHANGED <<redis, unanswered, executed, queue, working, sending, mailbox, again,
                    issues>>
    BY <1>2 DEF mailVars
  <2>2. MailTyped' /\ \A x : Passed(x)' <=> Passed(x)
    BY <2>1 DEF MailInv, MailTyped, Passed
  <2>3. redis => InOrder'
    BY <2>1, <2>2 DEF MailInv, InOrder, PipeInOrder, WireInOrder, MailsKnown
  <2> QED
    BY <1>1, <2>1, <2>2, <2>3 DEF MailInv
<1>3. ASSUME NEW r \in Requests, NEW t \in Raws, FinishIssue(r, t)
      PROVE  MailInv'
  <2>1. MailTyped' /\ (redis' => InOrder')
    BY <1>3, EnqueueKeeps
  <2>2. redis' => sending' = {}
    BY <1>3 DEF FinishIssue, Mail!Enqueue, MailInv
  <2> QED
    BY <1>1, <2>1, <2>2 DEF MailInv
<1>4. CASE Mail!MailNext /\ UNCHANGED <<users, tokens, lapsed, req, history>>
  <2>1. TokensTyped /\ UNCHANGED issues
    BY <1>4 DEF MailInv, TokenInv, history
  <2> QED
    BY <1>1, <1>4, <2>1, MailNextKeeps DEF MailInv
<1>5. CASE UNCHANGED vars
  BY <1>2, <1>5 DEF vars, mailVars
<1>6. CASE \E r \in Requests : Credentials(r) \/ Admin(r)
  BY <1>2, <1>6
  DEF Credentials, Admin, BeginSignup, CreateUser, BeginLogin, RejectLogin, AdmitLogin,
      SetActive, SetRole, AuditAdmin, history
<1>7. CASE \E r \in Requests : Verification(r)
  BY <1>2, <1>3, <1>7 DEF Verification, BeginIssue, BeginReset, FinishReset, history
<1>8. CASE \/ \E t \in Raws : VerifyEmail(t) \/ TokenExpires(t)
           \/ LockLapses
  BY <1>2, <1>8 DEF VerifyEmail, TokenExpires, LockLapses, history
<1> QED
  BY <1>4, <1>5, <1>6, <1>7, <1>8 DEF Next, Elsewhere

Ordered(s) == \A a, b \in DOMAIN s : a < b => Fine(issues, again, s[a], s[b])

\* Which places of a concatenation come from which part.
LEMMA ConcatIs ==
  ASSUME NEW S, NEW s \in Seq(S), NEW t \in Seq(S)
  PROVE  /\ s \o t \in Seq(S)
         /\ Len(s) \in Nat /\ DOMAIN s = 1 .. Len(s)
         /\ \A n \in DOMAIN (s \o t) : n \in Nat
         /\ \A n \in DOMAIN (s \o t) :
              \/ n \in DOMAIN s /\ (s \o t)[n] = s[n]
              \/ /\ n > Len(s) /\ n - Len(s) \in DOMAIN t
                 /\ (s \o t)[n] = t[n - Len(s)]
OBVIOUS

\* Two ordered parts, the first below the second, concatenate in order.
LEMMA ConcatOrdered ==
  ASSUME NEW S, NEW s \in Seq(S), NEW t \in Seq(S), NEW u, u = s \o t,
         Ordered(s), Ordered(t),
         \A a \in DOMAIN s, b \in DOMAIN t : Fine(issues, again, s[a], t[b])
  PROVE  Ordered(u)
<1> SUFFICES ASSUME NEW a \in DOMAIN u, NEW b \in DOMAIN u, a < b
             PROVE  Fine(issues, again, u[a], u[b])
  BY DEF Ordered
<1>1. /\ Len(s) \in Nat /\ DOMAIN s = 1 .. Len(s) /\ a \in Nat /\ b \in Nat
      /\ \/ a \in DOMAIN s /\ u[a] = s[a]
         \/ a > Len(s) /\ a - Len(s) \in DOMAIN t /\ u[a] = t[a - Len(s)]
      /\ \/ b \in DOMAIN s /\ u[b] = s[b]
         \/ b > Len(s) /\ b - Len(s) \in DOMAIN t /\ u[b] = t[b - Len(s)]
  BY ConcatIs
<1>2. CASE a \in DOMAIN s /\ u[a] = s[a] /\ b \in DOMAIN s /\ u[b] = s[b]
  BY <1>2 DEF Ordered
<1>3. CASE a \in DOMAIN s /\ u[a] = s[a] /\ b - Len(s) \in DOMAIN t /\ u[b] = t[b - Len(s)]
  BY <1>3
<1>4. CASE /\ a - Len(s) \in DOMAIN t /\ u[a] = t[a - Len(s)]
           /\ b - Len(s) \in DOMAIN t /\ u[b] = t[b - Len(s)]
  <2>1. a - Len(s) < b - Len(s)
    BY <1>1
  <2> QED
    BY <1>4, <2>1 DEF Ordered
<1> QED
  BY <1>1, <1>2, <1>3, <1>4

\* The mails on their way, in order.
LEMMA PipelineOrdered ==
  ASSUME MailTyped, PipeInOrder
  PROVE  Ordered(Mail!Pipeline)
<1> DEFINE w == IF working = NoRaw THEN <<>> ELSE <<working>>
<1>1. /\ queue \in Seq(Raws) /\ mailbox \in Seq(Raws)
      /\ Ordered(queue) /\ Ordered(mailbox)
      /\ \A a \in DOMAIN mailbox, b \in DOMAIN queue : Fine(issues, again, mailbox[a], queue[b])
  BY DEF MailTyped, PipeInOrder, Ordered
<1>2. /\ w \in Seq(Raws)
      /\ \A a \in DOMAIN w : a = 1 /\ working # NoRaw /\ w[a] = working
  BY DEF MailTyped
<1>3. /\ Ordered(w)
      /\ \A a \in DOMAIN mailbox, b \in DOMAIN w : Fine(issues, again, mailbox[a], w[b])
      /\ \A a \in DOMAIN w, b \in DOMAIN queue : Fine(issues, again, w[a], queue[b])
  BY <1>2 DEF PipeInOrder, Ordered
<1> HIDE DEF w
<1>4. ASSUME NEW u, u = mailbox \o w
      PROVE  /\ u \in Seq(Raws) /\ Ordered(u)
             /\ \A a \in DOMAIN u, b \in DOMAIN queue : Fine(issues, again, u[a], queue[b])
  <2>1. u \in Seq(Raws) /\ Ordered(u)
    BY <1>1, <1>2, <1>3, <1>4, ConcatIs, ConcatOrdered
  <2>2. \A a \in DOMAIN u : \/ a \in DOMAIN mailbox /\ u[a] = mailbox[a]
                            \/ \E c \in DOMAIN w : u[a] = w[c]
    BY <1>1, <1>2, <1>4, ConcatIs
  <2> QED
    BY <1>1, <1>3, <2>1, <2>2
<1>5. ASSUME NEW v, v = (mailbox \o w) \o queue
      PROVE  Ordered(v)
  BY <1>1, <1>4, <1>5, ConcatOrdered
<1> QED
  BY <1>5 DEF Mail!Pipeline, w

\* The worker hands mails over in the order in which their tokens were stored, but for
\* those whose push was repeated.
THEOREM MailsInOrder == Spec => []MailsKeepTheirOrder
<1>1. MailInv => MailsKeepTheirOrder
  BY PipelineOrdered DEF MailInv, InOrder, MailsKeepTheirOrder, Ordered, Fine, Before
<1> QED
  BY <1>1, MailInitial, MailStep, PTL DEF Spec
-----------------------------------------------------------------------------
(* The contract. *)

\* The raw tokens of the first k issues of s.
Firsts(s, k) == {s[n].raw : n \in 1 .. k}

\* Request r of q asks, in terms of the contract.
AskAs(s, q, r) == [asker |-> r, user |-> q[r].user, purpose |-> q[r].purpose,
                   seen |-> Firsts(s, q[r].since)]

\* The n-th issue of s as an offer.
OfferAs(s, n) == [user |-> s[n].user, purpose |-> s[n].purpose, raw |-> s[n].raw,
                  seen |-> Firsts(s, s[n].after)]

Asking == {AskAs(issues, req, r) : r \in {q \in Requests : Asks(q)}}

OpenIssues == {n \in DOMAIN issues : issues[n].raw \in Open}

Offers == {OfferAs(issues, n) : n \in OpenIssues}

IssuedRaws == Firsts(issues, Len(issues))

\* The contract's variables on the mapped state.
LEMMA PromiseIs ==
  /\ Asking = {[asker |-> r, user |-> req[r].user, purpose |-> req[r].purpose,
                seen |-> Stored(req[r].since)] :
                   r \in {q \in Requests : req[q].phase = "issue"}}
  /\ Offers = {[user |-> issues[n].user, purpose |-> issues[n].purpose,
                raw |-> issues[n].raw, seen |-> Stored(issues[n].after)] :
                   n \in {m \in DOMAIN issues : issues[m].raw \in Open}}
  /\ IssuedRaws = Stored(Len(issues))
BY DEF Asking, AskAs, Asks, Offers, OfferAs, OpenIssues, IssuedRaws, Stored, Firsts

\* The contract's steps on the mapped state.
LEMMA PromiseSteps ==
  /\ UNCHANGED <<Asking, Offers, IssuedRaws, uses>> => UNCHANGED Promise!cvars
  /\ \A r \in Requests, a \in UserIds, p \in Purposes :
       /\ \A k \in Asking : k.asker # r
       /\ Asking' = Asking \cup {[asker |-> r, user |-> a, purpose |-> p,
                                  seen |-> IssuedRaws]}
       /\ Offers' = {o \in Offers : o.user # a \/ o.purpose # p}
       /\ UNCHANGED <<IssuedRaws, uses>>
       => Promise!ContractNext
  /\ \A k \in Asking, t \in Raws :
       /\ t \notin IssuedRaws
       /\ Asking' = Asking \ {k}
       /\ Offers' = Offers \cup {[user |-> k.user, purpose |-> k.purpose,
                                  raw |-> t, seen |-> k.seen]}
       /\ IssuedRaws' = IssuedRaws \cup {t}
       /\ UNCHANGED uses
       => Promise!ContractNext
  /\ \A o \in Offers :
       /\ Offers' = Offers \ {o}
       /\ UNCHANGED <<Asking, IssuedRaws>>
       /\ uses' = uses \/ uses' = [uses EXCEPT ![o.raw] = @ + 1]
       => Promise!ContractNext
<1> DEFINE A == {[asker |-> r, user |-> req[r].user, purpose |-> req[r].purpose,
                  seen |-> Stored(req[r].since)] :
                     r \in {q \in Requests : req[q].phase = "issue"}}
           O == {[user |-> issues[n].user, purpose |-> issues[n].purpose,
                  raw |-> issues[n].raw, seen |-> Stored(issues[n].after)] :
                     n \in {m \in DOMAIN issues : issues[m].raw \in Open}}
           I == Stored(Len(issues))
<1>1. Asking = A /\ Offers = O /\ IssuedRaws = I
  BY PromiseIs
<1>2. Asking' = A' /\ Offers' = O' /\ IssuedRaws' = I'
  BY DEF Asking, AskAs, Asks, Offers, OfferAs, OpenIssues, IssuedRaws, Stored, Firsts
<1>3. Promise!cvars = <<A, O, I, uses>> /\ Promise!cvars' = <<A', O', I', uses'>>
  BY DEF Promise!cvars
<1>4. /\ \A r, a, p : Promise!Withdraw(r, a, p) <=>
           /\ \A k \in A : k.asker # r
           /\ A' = A \cup {[asker |-> r, user |-> a, purpose |-> p, seen |-> I]}
           /\ O' = {o \in O : o.user # a \/ o.purpose # p}
           /\ UNCHANGED <<I, uses>>
      /\ \A k, t : Promise!Grant(k, t) <=>
           /\ t \notin I
           /\ A' = A \ {k}
           /\ O' = O \cup {[user |-> k.user, purpose |-> k.purpose,
                            raw |-> t, seen |-> k.seen]}
           /\ I' = I \cup {t}
           /\ UNCHANGED uses
      /\ \A o : Promise!Accept(o) <=>
           /\ O' = O \ {o}
           /\ uses' = [uses EXCEPT ![o.raw] = @ + 1]
           /\ UNCHANGED <<A, I>>
      /\ \A o : Promise!Lapse(o) <=> O' = O \ {o} /\ UNCHANGED <<A, I, uses>>
  BY DEF Promise!Withdraw, Promise!Grant, Promise!Accept, Promise!Lapse
<1>5. Promise!ContractNext <=>
        \/ \E r \in Requests, a \in UserIds, p \in Purposes : Promise!Withdraw(r, a, p)
        \/ \E k \in A, t \in Raws : Promise!Grant(k, t)
        \/ \E o \in O : Promise!Accept(o) \/ Promise!Lapse(o)
  BY DEF Promise!ContractNext
<1> HIDE DEF A, O, I
<1>6. ASSUME NEW r \in Requests, NEW a \in UserIds, NEW p \in Purposes,
             \A k \in Asking : k.asker # r,
             Asking' = Asking \cup {[asker |-> r, user |-> a, purpose |-> p,
                                     seen |-> IssuedRaws]},
             Offers' = {o \in Offers : o.user # a \/ o.purpose # p},
             UNCHANGED <<IssuedRaws, uses>>
      PROVE  Promise!Withdraw(r, a, p)
  BY <1>1, <1>2, <1>4, <1>6
<1>7. ASSUME NEW k \in Asking, NEW t \in Raws, t \notin IssuedRaws,
             Asking' = Asking \ {k},
             Offers' = Offers \cup {[user |-> k.user, purpose |-> k.purpose,
                                     raw |-> t, seen |-> k.seen]},
             IssuedRaws' = IssuedRaws \cup {t}, UNCHANGED uses
      PROVE  k \in A /\ Promise!Grant(k, t)
  BY <1>1, <1>2, <1>4, <1>7
<1>8. ASSUME NEW o \in Offers, Offers' = Offers \ {o}, UNCHANGED <<Asking, IssuedRaws>>,
             uses' = uses \/ uses' = [uses EXCEPT ![o.raw] = @ + 1]
      PROVE  o \in O /\ (Promise!Accept(o) \/ Promise!Lapse(o))
  BY <1>1, <1>2, <1>4, <1>8
<1>9. UNCHANGED <<Asking, Offers, IssuedRaws, uses>> => UNCHANGED Promise!cvars
  BY <1>1, <1>2, <1>3
<1> QED
  BY <1>5, <1>6, <1>7, <1>8, <1>9

\* What open issues are.
LEMMA OpenIs ==
  ASSUME TokenInv, NEW n \in OpenIssues
  PROVE  /\ n \in 1 .. Len(issues) /\ issues[n].raw \in Open
         /\ tokens[issues[n].raw] \in Record
         /\ tokens[issues[n].raw].user = issues[n].user
         /\ tokens[issues[n].raw].purpose = issues[n].purpose
         /\ \A m \in OpenIssues : m # n => issues[m].raw # issues[n].raw
BY IssuesAre DEF TokenInv, OpenIssues, Open, Ledger, IssuedOnce

\* Requests that ask as they asked do so in terms of the contract.
LEMMA AskingSame ==
  ASSUME AsksSame, UNCHANGED issues
  PROVE  Asking' = Asking /\ IssuedRaws' = IssuedRaws
<1>1. \A q \in Requests : Asks(q)' <=> Asks(q)
  BY DEF AsksSame, Asks
<1>2. \A q \in Requests : Asks(q) => AskAs(issues', req', q) = AskAs(issues, req, q)
  BY DEF AsksSame, AskAs
<1>3. Asking' = {AskAs(issues', req', q) : q \in {x \in Requests : Asks(x)'}}
  BY DEF Asking
<1>4. Asking' = Asking
  BY <1>1, <1>2, <1>3 DEF Asking
<1> QED
  BY <1>4 DEF IssuedRaws

\* A token that is closed takes its offer away, and no other.
LEMMA ClosedIs ==
  ASSUME TokenInv, NEW t \in Open, Open' = Open \ {t}, UNCHANGED issues
  PROVE  \E o \in Offers : o.raw = t /\ Offers' = Offers \ {o}
<1>1. PICK n \in OpenIssues : issues[n].raw = t
  BY DEF TokenInv, NothingElse, Fresh, Open, OpenIssues
<1>2. OpenIssues' = OpenIssues \ {n}
  BY <1>1, OpenIs DEF OpenIssues
<1>3. \A m : OfferAs(issues, m).raw = issues[m].raw
  BY DEF OfferAs
<1>4. \A m \in OpenIssues \ {n} : OfferAs(issues, m) # OfferAs(issues, n)
  BY <1>3, OpenIs
<1>5. Offers' = {OfferAs(issues, m) : m \in OpenIssues'}
  BY DEF Offers
<1>6. Offers' = Offers \ {OfferAs(issues, n)}
  BY <1>2, <1>4, <1>5 DEF Offers
<1>7. OfferAs(issues, n) \in Offers /\ OfferAs(issues, n).raw = t
  BY <1>1, <1>3 DEF Offers
<1> QED
  BY <1>6, <1>7

\* The use of a token is the acceptance of its offer.
LEMMA ConsumeAccepts ==
  ASSUME TokenInv, NEW t \in Raws, NEW p, Usable(t, p), Consume(t), AsksSame,
         UNCHANGED issues
  PROVE  Promise!ContractNext
<1>1. /\ t \in Open /\ tokens[t] \in Record
      /\ tokens \in [Raws -> Record \cup {NoRecord}]
      /\ tokens' = [tokens EXCEPT ![t] = [tokens[t] EXCEPT !.used = TRUE]]
      /\ uses' = [uses EXCEPT ![t] = @ + 1]
  BY DEF TokenInv, TokensTyped, Usable, Open, Consume
<1>2. (\A x \in Raws \ {t} : tokens'[x] = tokens[x]) /\ tokens'[t].used
  BY <1>1 DEF Record
<1>3. Open' = Open \ {t}
  BY <1>1, <1>2 DEF Open
<1>4. PICK o \in Offers : o.raw = t /\ Offers' = Offers \ {o}
  BY <1>1, <1>3, ClosedIs
<1> QED
  BY <1>1, <1>4, AskingSame, PromiseSteps

\* The end of a token is the end of its offer, if there is one.
LEMMA ExpiryLapses ==
  ASSUME TokenInv, NEW t \in Raws, TokenExpires(t), AsksSame
  PROVE  Promise!ContractNext \/ UNCHANGED Promise!cvars
<1>1. /\ tokens[t] \in Record /\ UNCHANGED <<issues, uses>>
      /\ tokens \in [Raws -> Record \cup {NoRecord}]
      /\ tokens' = [tokens EXCEPT ![t] = [tokens[t] EXCEPT !.expired = TRUE]]
  BY DEF TokenInv, TokensTyped, TokenExpires, history
<1>2. (\A x \in Raws \ {t} : tokens'[x] = tokens[x]) /\ tokens'[t].expired
  BY <1>1 DEF Record
<1>3. Open' = Open \ {t}
  BY <1>1, <1>2 DEF Open
<1>4. CASE t \in Open
  <2>1. PICK o \in Offers : o.raw = t /\ Offers' = Offers \ {o}
    BY <1>1, <1>3, <1>4, ClosedIs
  <2> QED
    BY <1>1, <2>1, AskingSame, PromiseSteps
<1>5. CASE t \notin Open
  <2>1. Open' = Open
    BY <1>3, <1>5
  <2>2. Offers' = Offers
    BY <1>1, <2>1 DEF Offers, OpenIssues
  <2> QED
    BY <1>1, <2>2, AskingSame, PromiseSteps
<1> QED
  BY <1>4, <1>5

\* The deletion of older tokens withdraws their offers.
LEMMA BeginWithdraws ==
  ASSUME TokenInv, NEW r \in Requests, NEW e \in Emails, NEW p \in Purposes,
         BeginIssue(r, e, p)
  PROVE  Promise!ContractNext
<1>1. PICK i \in UserIds :
        /\ tokens' = [t \in Raws |->
               IF t \in Outdated(i, p) THEN NoRecord ELSE tokens[t]]
        /\ req' = [req EXCEPT ![r] = [Idle EXCEPT
               !.phase = "issue", !.user = i, !.purpose = p, !.since = Len(issues)]]
        /\ UNCHANGED <<issues, uses>>
  BY DEF BeginIssue, history
<1>2. /\ ~Asks(r) /\ Asks(r)'
      /\ AskAs(issues, req', r) = [asker |-> r, user |-> i, purpose |-> p,
                                   seen |-> IssuedRaws]
      /\ \A q \in Requests \ {r} : req'[q] = req[q]
  <2> DEFINE s == [Idle EXCEPT !.phase = "issue", !.user = i, !.purpose = p,
                               !.since = Len(issues)]
  <2>1. /\ s.phase = "issue" /\ s.user = i /\ s.purpose = p /\ s.since = Len(issues)
        /\ ~Asks(r)
    BY DEF BeginIssue, Idle, Asks
  <2>2. req' = [req EXCEPT ![r] = s] /\ req = [q \in Requests |-> req[q]]
    BY <1>1 DEF TokenInv, AsksTyped
  <2> HIDE DEF s
  <2>3. req'[r] = s /\ \A q \in Requests \ {r} : req'[q] = req[q]
    BY <2>2
  <2> QED
    BY <2>1, <2>3 DEF Asks, AskAs, IssuedRaws
<1>3. /\ \A k \in Asking : k.asker # r
      /\ Asking' = Asking \cup {AskAs(issues, req', r)}
  <2>1. \A q \in Requests : Asks(q) => AskAs(issues, req, q).asker = q /\ q # r
    BY <1>2 DEF AskAs
  <2>2. \A q \in Requests \ {r} : /\ AskAs(issues, req', q) = AskAs(issues, req, q)
                                  /\ Asks(q)' <=> Asks(q)
    BY <1>2 DEF AskAs, Asks
  <2>3. Asking' = {AskAs(issues, req', q) : q \in {x \in Requests : Asks(x)'}}
    BY <1>1 DEF Asking
  <2>4. Asking' \subseteq Asking \cup {AskAs(issues, req', r)}
    BY <2>2, <2>3 DEF Asking
  <2>5. Asking \cup {AskAs(issues, req', r)} \subseteq Asking'
    BY <1>2, <2>2, <2>3 DEF Asking
  <2>6. \A k \in Asking : k.asker # r
    BY <2>1 DEF Asking
  <2> QED
    BY <2>4, <2>5, <2>6
<1>4. Offers' = {o \in Offers : o.user # i \/ o.purpose # p}
  <2>1. \A t \in Raws : tokens'[t] = IF t \in Outdated(i, p) THEN NoRecord ELSE tokens[t]
    BY <1>1
  <2>2. Open' = Open \ Outdated(i, p)
    BY <2>1 DEF Open
  <2>3. \A n \in OpenIssues :
          issues[n].raw \in Outdated(i, p) <=> issues[n].user = i /\ issues[n].purpose = p
    BY OpenIs DEF Open, Outdated
  <2>4. OpenIssues' = {n \in OpenIssues : issues[n].user # i \/ issues[n].purpose # p}
    BY <1>1, <2>2, <2>3 DEF OpenIssues
  <2>5. \A n : OfferAs(issues, n).user = issues[n].user
                 /\ OfferAs(issues, n).purpose = issues[n].purpose
    BY DEF OfferAs
  <2>6. Offers' = {OfferAs(issues, n) : n \in OpenIssues'}
    BY <1>1 DEF Offers
  <2>7. Offers = {OfferAs(issues, n) : n \in OpenIssues}
    BY DEF Offers
  <2>8. \A o \in Offers' : o \in Offers /\ (o.user # i \/ o.purpose # p)
    BY <2>4, <2>5, <2>6, <2>7
  <2>9. \A o \in Offers : o.user # i \/ o.purpose # p => o \in Offers'
    BY <2>4, <2>5, <2>6, <2>7
  <2> QED
    BY <2>8, <2>9
<1>5. UNCHANGED <<IssuedRaws, uses>>
  BY <1>1 DEF IssuedRaws
<1> QED
  BY <1>2, <1>3, <1>4, <1>5, PromiseSteps

\* The storage of a token grants what was asked for.
LEMMA FinishGrants ==
  ASSUME TokenInv, NEW r \in Requests, NEW t \in Raws, FinishIssue(r, t)
  PROVE  Promise!ContractNext
<1> DEFINE new == [user |-> req[r].user, purpose |-> req[r].purpose,
                   used |-> FALSE, expired |-> FALSE]
           last == [raw |-> t, user |-> req[r].user, purpose |-> req[r].purpose,
                    after |-> req[r].since]
           k == AskAs(issues, req, r)
<1>1. /\ Asks(r) /\ new \in Record /\ last.after \in 0 .. Len(issues)
      /\ Len(issues) \in Nat /\ DOMAIN issues = 1 .. Len(issues)
      /\ DOMAIN issues' = 1 .. Len(issues) + 1 /\ Len(issues') = Len(issues) + 1
      /\ issues'[Len(issues) + 1] = last
      /\ \A n \in 1 .. Len(issues) : issues'[n] = issues[n] /\ issues[n].raw \in Raws \ {t}
      /\ tokens'[t] = new /\ \A x \in Raws \ {t} : tokens'[x] = tokens[x]
      /\ tokens[t] = NoRecord /\ uses' = uses
      /\ ~Asks(r)' /\ \A q \in Requests \ {r} : req'[q] = req[q]
  BY FinishIssueIs
<1>2. /\ last.raw = t /\ last.user = req[r].user /\ last.purpose = req[r].purpose
      /\ last.after = req[r].since
      /\ ~new.used /\ ~new.expired /\ new # NoRecord
  BY <1>1, NullsAssumption
<1>3. /\ k.asker = r /\ k.user = last.user /\ k.purpose = last.purpose
      /\ k.seen = Firsts(issues, last.after)
  BY DEF AskAs
<1> HIDE DEF new, last, k
<1>4. /\ TokensTyped /\ AsksTyped /\ \A n \in 1 .. Len(issues) :
                            issues[n].after \in Nat /\ issues[n].after < n
  BY <1>1, IssuesAre DEF TokenInv
<1>5. \A n \in 0 .. Len(issues) : Firsts(issues', n) = Firsts(issues, n)
  BY <1>1 DEF Firsts
<1>6. t \notin IssuedRaws /\ IssuedRaws' = IssuedRaws \cup {t}
  <2>1. IssuedRaws' = Firsts(issues', Len(issues) + 1)
    BY <1>1 DEF IssuedRaws
  <2> QED
    BY <1>1, <1>2, <2>1 DEF IssuedRaws, Firsts
<1>7. k \in Asking /\ Asking' = Asking \ {k}
  <2>1. \A q \in Requests \ {r} :
          /\ Asks(q)' <=> Asks(q)
          /\ Asks(q) => /\ AskAs(issues', req', q) = AskAs(issues, req, q)
                        /\ AskAs(issues, req, q) # k
    <3> SUFFICES ASSUME NEW q \in Requests \ {r}
                 PROVE  /\ Asks(q)' <=> Asks(q)
                        /\ Asks(q) => /\ AskAs(issues', req', q) = AskAs(issues, req, q)
                                      /\ AskAs(issues, req, q) # k
      OBVIOUS
    <3>1. req'[q] = req[q]
      BY <1>1
    <3>2. Asks(q)' <=> Asks(q)
      BY <3>1 DEF Asks
    <3>3. AskAs(issues, req, q).asker = q
      BY DEF AskAs
    <3>4. Asks(q) => Firsts(issues', req[q].since) = Firsts(issues, req[q].since)
      BY <1>4, <1>5 DEF AsksTyped
    <3> QED
      BY <1>3, <3>1, <3>2, <3>3, <3>4 DEF AskAs
  <2>2. Asking' = {AskAs(issues', req', q) : q \in {x \in Requests : Asks(x)'}}
    BY DEF Asking
  <2> QED
    BY <1>1, <2>1, <2>2 DEF Asking, k
<1>8. Offers' = Offers \cup {[user |-> k.user, purpose |-> k.purpose,
                              raw |-> t, seen |-> k.seen]}
  <2>1. Open' = Open \cup {t}
    BY <1>1, <1>2 DEF Open
  <2>2. OpenIssues' = OpenIssues \cup {Len(issues) + 1}
    BY <1>1, <1>2, <2>1 DEF OpenIssues
  <2>3. \A n \in OpenIssues : OfferAs(issues', n) = OfferAs(issues, n)
    <3> SUFFICES ASSUME NEW n \in OpenIssues
                 PROVE  OfferAs(issues', n) = OfferAs(issues, n)
      OBVIOUS
    <3>1. n \in 1 .. Len(issues)
      BY <1>1 DEF OpenIssues
    <3>2. issues'[n] = issues[n] /\ issues[n].after \in 0 .. Len(issues)
      BY <1>1, <1>4, <3>1
    <3> QED
      BY <1>5, <3>2 DEF OfferAs
  <2>4. OfferAs(issues', Len(issues) + 1) = [user |-> k.user, purpose |-> k.purpose,
                                             raw |-> t, seen |-> k.seen]
    BY <1>1, <1>2, <1>3, <1>5 DEF OfferAs
  <2>5. Offers' = {OfferAs(issues', n) : n \in OpenIssues'}
    BY DEF Offers
  <2> QED
    BY <2>2, <2>3, <2>4, <2>5 DEF Offers
<1> QED
  BY <1>1, <1>6, <1>7, <1>8, PromiseSteps

\* Every step on the tokens is a step of the contract, or none.
LEMMA PromiseNext ==
  ASSUME TokenInv, [Next]_vars
  PROVE  Promise!ContractNext \/ UNCHANGED Promise!cvars
<1>1. CASE AsksSame /\ UNCHANGED <<tokens, issues, uses>>
  <2>1. Offers' = Offers
    BY <1>1 DEF Offers, OpenIssues, Open
  <2> QED
    BY <1>1, <2>1, AskingSame, PromiseSteps
<1>2. AsksTyped
  BY DEF TokenInv
<1> QED
  BY <1>1, <1>2, TokenSteps, BeginWithdraws, FinishGrants, ConsumeAccepts, ExpiryLapses

\* Nothing is asked for or issued at the start.
LEMMA PromiseInit == Init => Promise!ContractInit
<1> SUFFICES ASSUME Init PROVE Promise!ContractInit
  OBVIOUS
<1>1. /\ issues = <<>> /\ DOMAIN issues = {} /\ Len(issues) = 0
      /\ \A r \in Requests : req[r].phase # "issue"
      /\ uses = [t \in Raws |-> 0]
  BY DEF Init, Idle
<1>2. Stored(Len(issues)) = {}
  BY <1>1 DEF Stored
<1> QED
  BY <1>1, <1>2 DEF Promise!ContractInit

\* VerificationService keeps the contract, whatever requests overlap.
THEOREM PromiseIsKept == Spec => KeepsPromise
BY PromiseInit, PromiseNext, TokenLedger, PTL
   DEF Spec, KeepsPromise, Promise!ContractSpec
=============================================================================
