--------------------------- MODULE RefreshRotation ---------------------------
(***************************************************************************)
(* Login, refresh-token rotation with reuse detection, logout and the      *)
(* revocation of every session of a user: AuthService and SessionsService  *)
(* over one of the three session repositories, the in-memory refresh-token *)
(* store, and the audit log.                                               *)
(*                                                                         *)
(* A handler runs from one await to the next without interruption, so an   *)
(* action is what happens between two awaits, and handlers interleave at   *)
(* every await.  A call into an in-memory repository takes effect in the   *)
(* block that makes it; a command to Redis or Postgres takes effect on its *)
(* own, as one action per command.                                         *)
(***************************************************************************)

CONSTANTS
    Users,          \* registered users
    Tokens,         \* signed refresh tokens; the jti (a uuid) makes each unique
    SessionIds,     \* uuids given to sessions
    Requests,       \* slots for HTTP requests in flight
    Keys,           \* HMAC keys the key provider may return first
    LogoutReasons,  \* reasons given by force-logout and logout-all
    Backend,        \* which SESSIONS_REPOSITORY the module factory chose
    Faults,         \* kinds of I/O failure that may happen
    NoUser, NoToken, NoSession, NoHash, NoKey, NotRevoked, Absent

ReuseReason == "token_reuse_detected"
Reasons == LogoutReasons \cup {ReuseReason}
External == Backend # "memory"

\* An HMAC identifies the token and the key it was computed with.
Hash == [key : Keys, token : Tokens]
HashOf(k, t) == [key |-> k, token |-> t]

Session == [user : Users,
            hash : Hash,
            prevHash : Hash \cup {NoHash},
            jti : Tokens \cup {NoToken},
            prevJti : Tokens \cup {NoToken},
            revoked : Reasons \cup {NotRevoked}]

Edge == [sid : SessionIds \cup {NoSession}, old : Tokens, new : Tokens]

FaultKinds == {"refused", "reply_lost", "pipeline_error", "audit_refused",
               "restart"}

ASSUME BackendAssumption == Backend \in {"memory", "postgres", "redis"}
ASSUME FaultsAssumption == Faults \subseteq FaultKinds
ASSUME NullsAssumption ==
    /\ NoUser \notin Users
    /\ NoToken \notin Tokens
    /\ NoSession \notin SessionIds
    /\ NoHash \notin Hash
    /\ NotRevoked \notin Reasons
    /\ Absent \notin Session
ASSUME ReasonsAssumption == ReuseReason \notin LogoutReasons

VARIABLES
    sessions,    \* session id -> its record, or Absent
    index,       \* user -> session ids listed for the user
    store,       \* user -> refresh tokens the token store accepts
    audit,       \* users with a token_reuse_detected event
    primary,     \* the key KeyManager returns first
    owner,       \* token -> the userId it was signed for (NoUser: not minted)
    req,         \* request slot -> the handler that runs in it
    tokensOut,   \* tokens returned to clients
    sidsOut,     \* session ids returned to clients
    lineage,     \* history: the exchanges of a token for its successor
    loggedOut    \* history: tokens that were logged out, or lost in a restart

repo == <<sessions, index>>
delivered == <<tokensOut, sidsOut>>
history == <<lineage, loggedOut>>
vars == <<sessions, index, store, audit, primary, owner, req,
          tokensOut, sidsOut, lineage, loggedOut>>

-----------------------------------------------------------------------------
(* A handler: the phase it is in and its local variables. *)

Phases == {"idle",
           "create", "index", "expire",              \* login
           "early", "validate", "mint", "cas",       \* refresh
           "inspect", "retire", "store",
           "revoke", "pipeline", "audit", "respond"} \* revoke all sessions

Request == [phase : Phases,
            user : Users \cup {NoUser},
            tok : Tokens \cup {NoToken},
            sid : SessionIds \cup {NoSession},
            new : Tokens \cup {NoToken},
            key : Keys \cup {NoKey},
            reason : Reasons \cup {NotRevoked},
            targets : SUBSET SessionIds,
            seen : SUBSET SessionIds]

Idle == [phase |-> "idle", user |-> NoUser, tok |-> NoToken, sid |-> NoSession,
         new |-> NoToken, key |-> NoKey, reason |-> NotRevoked,
         targets |-> {}, seen |-> {}]

\* The handler in slot r returns or throws; the slot is free again.
End(r) == req' = [req EXCEPT ![r] = Idle]
Goto(r, phase) == req' = [req EXCEPT ![r] = [@ EXCEPT !.phase = phase]]

Fresh(t) == owner[t] = NoUser
Sign(u, t) == owner' = [owner EXCEPT ![t] = u]

Present(s) == s \in SessionIds /\ sessions[s] # Absent
Live(s) == Present(s) /\ sessions[s].revoked = NotRevoked
CurrentToken(s) == sessions[s].hash.token

\* uuidv4: an id no session has, had, or is being given.
FreshSid(s) ==
    /\ sessions[s] = Absent
    /\ \A u \in Users : s \notin index[u]

\* Sessions of u that a client can name.
OpenSessions(u) == {s \in sidsOut : Present(s) /\ sessions[s].user = u}

(* revokeAllForUser: memory and Postgres skip sessions already revoked;    *)
(* Redis overwrites the reason.  A record that expired in Redis comes back *)
(* as a hash with the two revocation fields only, which rotation and early *)
(* detection treat as a missing record: it stays Absent here.              *)
RevokeIn(S, reason) ==
    sessions' = [s \in SessionIds |->
        IF s \in S /\ Present(s) /\ (Backend = "redis" \/ Live(s))
          THEN [sessions[s] EXCEPT !.revoked = reason]
          ELSE sessions[s]]

-----------------------------------------------------------------------------
(* POST /auth/login, once the credentials are validated. *)

\* The key the token will be hashed under is read before the session is written.
Login(r, u, t) ==
    /\ req[r] = Idle
    /\ Fresh(t)
    /\ Sign(u, t)
    /\ store' = [store EXCEPT ![u] = @ \cup {t}]
    /\ req' = [req EXCEPT ![r] = [Idle EXCEPT
           !.phase = "create", !.user = u, !.new = t, !.key = primary]]
    /\ UNCHANGED <<repo, audit, primary, delivered, history>>

\* The response of a login: with the session id, or without it when
\* createSession threw.
LoginReturns(r, sids) ==
    /\ tokensOut' = tokensOut \cup {req[r].new}
    /\ sidsOut' = sidsOut \cup sids
    /\ End(r)

\* Mutant: the session is written before its token is hashed.
NewSession_NoHash(u, t, k) ==
    [user |-> u, hash |-> NoHash, prevHash |-> NoHash, jti |-> t,
     prevJti |-> NoToken, revoked |-> NotRevoked]

NewSession(u, t, k) ==
    [user |-> u,
     hash |-> HashOf(k, t),
     prevHash |-> NoHash,
     jti |-> IF Backend = "postgres" THEN NoToken ELSE t,
     prevJti |-> NoToken,
     revoked |-> NotRevoked]

\* Memory and Postgres list a session by its user as soon as it exists; Redis
\* needs a second command.
CreateSession(r, s) ==
    LET u == req[r].user IN
    /\ req[r].phase = "create"
    /\ FreshSid(s)
    /\ sessions' = [sessions EXCEPT ![s] = NewSession(u, req[r].new, req[r].key)]
    /\ IF Backend = "redis"
         THEN /\ UNCHANGED index
              /\ \/ /\ req' = [req EXCEPT ![r] =
                           [@ EXCEPT !.phase = "index", !.sid = s]]
                    /\ UNCHANGED delivered
                 \/ /\ "reply_lost" \in Faults
                    /\ LoginReturns(r, {})
         ELSE /\ index' = [index EXCEPT ![u] = @ \cup {s}]
              /\ \/ LoginReturns(r, {s})
                 \/ /\ External /\ "reply_lost" \in Faults
                    /\ LoginReturns(r, {})
    /\ UNCHANGED <<store, audit, primary, owner, history>>

\* Mutant: SADD goes to another key, so the user's set misses the session.
IndexSession_WrongKey(r) ==
    /\ req[r].phase = "index"
    /\ Goto(r, "expire")
    /\ UNCHANGED <<repo, store, audit, primary, owner, delivered, history>>

\* Redis: SADD user_sessions:<user>.
IndexSession(r) ==
    /\ req[r].phase = "index"
    /\ index' = [index EXCEPT ![req[r].user] = @ \cup {req[r].sid}]
    /\ \/ /\ Goto(r, "expire")
          /\ UNCHANGED delivered
       \/ /\ "reply_lost" \in Faults
          /\ LoginReturns(r, {})
    /\ UNCHANGED <<sessions, store, audit, primary, owner, history>>

\* Redis: EXPIRE, after which the client gets the session id.
SetSessionTtl(r) ==
    /\ req[r].phase = "expire"
    /\ \/ LoginReturns(r, {req[r].sid})
       \/ /\ "reply_lost" \in Faults
          /\ LoginReturns(r, {})
    /\ UNCHANGED <<repo, store, audit, primary, owner, history>>

\* A command of createSession is refused: login returns tokens all the same.
CreateSessionFails(r) ==
    /\ External /\ "refused" \in Faults
    /\ req[r].phase \in {"create", "index", "expire"}
    /\ LoginReturns(r, {})
    /\ UNCHANGED <<repo, store, audit, primary, owner, history>>

-----------------------------------------------------------------------------
(* POST /auth/refresh.  Clients hold tokens that were returned to them; any *)
(* other token fails the signature check, or the userId check, at once.     *)

BeginRefresh(r, t, s) ==
    /\ req[r] = Idle
    /\ t \in tokensOut
    /\ s \in sidsOut \cup {NoSession}
    /\ req' = [req EXCEPT ![r] = [Idle EXCEPT
           !.phase = IF s = NoSession THEN "validate" ELSE "early",
           !.user = owner[t], !.tok = t, !.sid = s]]
    /\ UNCHANGED <<repo, store, audit, primary, owner, delivered, history>>

\* Only the in-memory findById returns previousRefreshTokenJti.
EarlyMatch(r) ==
    /\ Backend = "memory"
    /\ Present(req[r].sid)
    /\ sessions[req[r].sid].prevJti = req[r].tok

\* The exception thrown after revokeAll is caught by the enclosing try, and the
\* handler goes on to the token store.
EarlyReuseCheck(r) ==
    /\ req[r].phase = "early"
    /\ IF EarlyMatch(r)
         THEN RevokeIn(index[req[r].user], ReuseReason)
         ELSE UNCHANGED sessions
    /\ Goto(r, "validate")
    /\ UNCHANGED <<index, store, audit, primary, owner, delivered, history>>

ValidateRefreshToken(r) ==
    /\ req[r].phase = "validate"
    /\ IF req[r].tok \in store[req[r].user] THEN Goto(r, "mint") ELSE End(r)
    /\ UNCHANGED <<repo, store, audit, primary, owner, delivered, history>>

Exchange(s, old, new) ==
    lineage' = lineage \cup {[sid |-> s, old |-> old, new |-> new]}

\* Without a session id the token store alone rotates: sign the successor and
\* remove the old token, whether or not it is still there.
RotateInTokenStore(r, n) ==
    LET u == req[r].user IN
    /\ req[r].phase = "mint" /\ req[r].sid = NoSession
    /\ Fresh(n)
    /\ Sign(u, n)
    /\ store' = [store EXCEPT ![u] = @ \ {req[r].tok}]
    /\ Exchange(NoSession, req[r].tok, n)
    /\ req' = [req EXCEPT ![r] = [@ EXCEPT !.phase = "store", !.new = n]]
    /\ UNCHANGED <<repo, audit, primary, delivered, loggedOut>>

\* Mutant: the old token leaves the store before the compare-and-swap.
MintForSession_RetiresFirst(r, n) ==
    /\ req[r].phase = "mint" /\ req[r].sid # NoSession
    /\ Fresh(n)
    /\ Sign(req[r].user, n)
    /\ store' = [store EXCEPT ![req[r].user] = @ \ {req[r].tok}]
    /\ req' = [req EXCEPT ![r] =
                   [@ EXCEPT !.phase = "cas", !.new = n, !.key = primary]]
    /\ UNCHANGED <<repo, audit, primary, delivered, history>>

\* With one, sign the successor and hash both tokens under the primary key.
MintForSession(r, n) ==
    /\ req[r].phase = "mint" /\ req[r].sid # NoSession
    /\ Fresh(n)
    /\ Sign(req[r].user, n)
    /\ req' = [req EXCEPT ![r] =
                   [@ EXCEPT !.phase = "cas", !.new = n, !.key = primary]]
    /\ UNCHANGED <<repo, store, audit, primary, delivered, history>>

\* Mutants: the swap forgets the revocation, or the comparison.
CasMatches_IgnoresRevocation(r) ==
    /\ Present(req[r].sid)
    /\ sessions[req[r].sid].hash = HashOf(req[r].key, req[r].tok)
CasMatches_IgnoresHash(r) == Live(req[r].sid)

CasMatches(r) ==
    /\ Live(req[r].sid)
    /\ sessions[req[r].sid].hash = HashOf(req[r].key, req[r].tok)

\* The service passes no newJti, so a rotated session forgets its jti; Postgres
\* keeps the incoming one as the previous.
RotateSession(r) ==
    LET s == req[r].sid IN
    /\ req[r].phase = "cas"
    /\ CasMatches(r)
    /\ sessions' = [sessions EXCEPT ![s] =
           [@ EXCEPT !.hash = HashOf(req[r].key, req[r].new),
                     !.prevHash = sessions[s].hash,
                     !.jti = NoToken,
                     !.prevJti = IF Backend = "postgres" THEN req[r].tok
                                                         ELSE sessions[s].jti]]
    /\ Exchange(s, req[r].tok, req[r].new)
    /\ \/ Goto(r, "retire")
       \/ External /\ "reply_lost" \in Faults /\ End(r)
    /\ UNCHANGED <<index, store, audit, primary, owner, delivered, loggedOut>>

\* Mutant: any session with a previous hash counts as reused.
JudgeReuse_NoCompare(r) ==
    LET s == req[r].sid IN
    IF Present(s) /\ sessions[s].prevHash # NoHash
      THEN req' = [req EXCEPT ![r] = [@ EXCEPT
                  !.phase = "revoke",
                  !.user = sessions[s].user,
                  !.reason = ReuseReason,
                  !.seen = OpenSessions(sessions[s].user)]]
      ELSE End(r)

\* The compare-and-swap did not apply and the previous hash is known: it is a
\* reuse when the incoming token hashes to it, whatever the session's state.
JudgeReuse(r) ==
    LET s == req[r].sid IN
    IF Present(s) /\ sessions[s].prevHash = HashOf(req[r].key, req[r].tok)
      THEN req' = [req EXCEPT ![r] = [@ EXCEPT
                  !.phase = "revoke",
                  !.user = sessions[s].user,
                  !.reason = ReuseReason,
                  !.seen = OpenSessions(sessions[s].user)]]
      ELSE End(r)

\* Memory and Redis return the previous hash with the failure; Postgres reads
\* it with a second query.
RotateSessionFails(r) ==
    /\ req[r].phase = "cas"
    /\ ~CasMatches(r)
    /\ IF Backend = "postgres" THEN Goto(r, "inspect") ELSE JudgeReuse(r)
    /\ UNCHANGED <<repo, store, audit, primary, owner, delivered, history>>

InspectSession(r) ==
    /\ req[r].phase = "inspect"
    /\ JudgeReuse(r)
    /\ UNCHANGED <<repo, store, audit, primary, owner, delivered, history>>

\* Mutants: the old token stays in the store; the handler never stores the new.
RetireOldToken_Skipped(r) ==
    /\ req[r].phase = "retire"
    /\ Goto(r, "store")
    /\ UNCHANGED <<repo, store, audit, primary, owner, delivered, history>>
RetireOldToken_Last(r) ==
    /\ req[r].phase = "retire"
    /\ store' = [store EXCEPT ![req[r].user] = @ \ {req[r].tok}]
    /\ End(r)
    /\ UNCHANGED <<repo, audit, primary, owner, delivered, history>>

RetireOldToken(r) ==
    /\ req[r].phase = "retire"
    /\ store' = [store EXCEPT ![req[r].user] = @ \ {req[r].tok}]
    /\ Goto(r, "store")
    /\ UNCHANGED <<repo, audit, primary, owner, delivered, history>>

\* Mutant: the arguments are swapped and the old token is stored again.
StoreNewToken_Old(r) ==
    /\ req[r].phase = "store"
    /\ store' = [store EXCEPT ![req[r].user] = @ \cup {req[r].tok}]
    /\ tokensOut' = tokensOut \cup {req[r].new}
    /\ End(r)
    /\ UNCHANGED <<repo, audit, primary, owner, sidsOut, history>>

StoreNewToken(r) ==
    /\ req[r].phase = "store"
    /\ store' = [store EXCEPT ![req[r].user] = @ \cup {req[r].new}]
    /\ tokensOut' = tokensOut \cup {req[r].new}
    /\ End(r)
    /\ UNCHANGED <<repo, audit, primary, owner, sidsOut, history>>

-----------------------------------------------------------------------------
(* Revoking every session of a user: after a reuse, or for                 *)
(* POST /admin/users/:id/force-logout and POST /auth/logout-all.           *)

LogoutAll(r, u, reason) ==
    /\ req[r] = Idle
    /\ req' = [req EXCEPT ![r] = [Idle EXCEPT
           !.phase = "revoke", !.user = u, !.reason = reason,
           !.seen = OpenSessions(u)]]
    /\ UNCHANGED <<repo, store, audit, primary, owner, delivered, history>>

\* Mutant: no audit event is written after a reuse.
AfterRevocation_NoAudit(r) == "respond"

AfterRevocation(r) == IF req[r].reason = ReuseReason THEN "audit" ELSE "respond"

\* Mutant: only the session of the request is revoked.
RevokeAllForUser_One(r) ==
    /\ Backend # "redis"
    /\ req[r].phase = "revoke"
    /\ RevokeIn({req[r].sid}, req[r].reason)
    /\ Goto(r, AfterRevocation(r))
    /\ UNCHANGED <<index, store, audit, primary, owner, delivered, history>>

\* One synchronous loop in memory, one UPDATE in Postgres.
RevokeAllForUser(r) ==
    /\ Backend # "redis"
    /\ req[r].phase = "revoke"
    /\ RevokeIn(index[req[r].user], req[r].reason)
    /\ \/ Goto(r, AfterRevocation(r))
       \/ External /\ "reply_lost" \in Faults /\ End(r)
    /\ UNCHANGED <<index, store, audit, primary, owner, delivered, history>>

\* Redis reads the members first ...
ReadMembers(r) ==
    LET members == index[req[r].user] IN
    /\ Backend = "redis"
    /\ req[r].phase = "revoke"
    /\ IF members = {}
         THEN Goto(r, AfterRevocation(r))
         ELSE req' = [req EXCEPT ![r] =
                          [@ EXCEPT !.phase = "pipeline", !.targets = members]]
    /\ UNCHANGED <<repo, store, audit, primary, owner, delivered, history>>

\* ... and writes to each in one pipeline, whose per-command errors are ignored:
\* the handler goes on, and what failed is no longer among the sessions it has
\* reached.
RevokeMembers(r) ==
    /\ req[r].phase = "pipeline"
    /\ \E failed \in SUBSET req[r].targets :
         /\ failed = {} \/ "pipeline_error" \in Faults
         /\ RevokeIn(req[r].targets \ failed, req[r].reason)
         /\ \/ req' = [req EXCEPT ![r] = [@ EXCEPT
                           !.phase = AfterRevocation(r),
                           !.seen = req[r].seen \ failed]]
            \/ "reply_lost" \in Faults /\ End(r)
    /\ UNCHANGED <<index, store, audit, primary, owner, delivered, history>>

\* The audit log is written last; the refresh is denied either way.
AuditReuse(r) ==
    /\ req[r].phase = "audit"
    /\ \/ audit' = audit \cup {req[r].user}
       \/ "audit_refused" \in Faults /\ UNCHANGED audit
    /\ End(r)
    /\ UNCHANGED <<repo, store, primary, owner, delivered, history>>

RespondLogoutAll(r) ==
    /\ req[r].phase = "respond"
    /\ End(r)
    /\ UNCHANGED <<repo, store, audit, primary, owner, delivered, history>>

\* A command of rotate or revokeAllForUser is refused, and the handler throws.
CommandRefused(r) ==
    /\ External /\ "refused" \in Faults
    /\ req[r].phase \in {"cas", "inspect", "revoke", "pipeline"}
    /\ End(r)
    /\ UNCHANGED <<repo, store, audit, primary, owner, delivered, history>>

-----------------------------------------------------------------------------
(* POST /auth/logout, and what happens around the handlers. *)

Logout(t) ==
    /\ t \in tokensOut
    /\ store' = [store EXCEPT ![owner[t]] = @ \ {t}]
    /\ loggedOut' = loggedOut \cup {t}
    /\ UNCHANGED <<repo, audit, primary, owner, req, delivered, lineage>>

\* Every hash asks a new KeyManager, and that the provider: operators put another
\* key first in Vault, or Vault does not answer and the environment is the
\* fallback, until it answers again.
RotateKey(k) ==
    /\ k # primary
    /\ primary' = k
    /\ UNCHANGED <<repo, store, audit, owner, req, delivered, history>>

\* The TTL set at creation, which no rotation extends, removes the Redis key.  It is
\* the last command of createSession; where that one failed there is no TTL, and the
\* session is let go all the same.
ExpireSession(s) ==
    /\ Backend = "redis"
    /\ Present(s) /\ \E u \in Users : s \in index[u]
    /\ \A r \in Requests : req[r].phase \in {"index", "expire"} => req[r].sid # s
    /\ sessions' = [sessions EXCEPT ![s] = Absent]
    /\ UNCHANGED <<index, store, audit, primary, owner, req, delivered, history>>

\* The process stops and starts again beside a database that keeps the sessions.
\* Its handlers are gone, and so is the token store, which is a Map.
Restart ==
    /\ External /\ "restart" \in Faults
    /\ store' = [u \in Users |-> {}]
    /\ loggedOut' = loggedOut \cup (tokensOut \cap UNION {store[u] : u \in Users})
    /\ req' = [r \in Requests |-> Idle]
    /\ UNCHANGED <<repo, audit, primary, owner, delivered, lineage>>

Init ==
    /\ sessions = [s \in SessionIds |-> Absent]
    /\ index = [u \in Users |-> {}]
    /\ store = [u \in Users |-> {}]
    /\ audit = {}
    /\ primary \in Keys
    /\ owner = [t \in Tokens |-> NoUser]
    /\ req = [r \in Requests |-> Idle]
    /\ tokensOut = {}
    /\ sidsOut = {}
    /\ lineage = {}
    /\ loggedOut = {}

\* A request arrives.
Arrive(r) ==
    \/ \E u \in Users, t \in Tokens : Login(r, u, t)
    \/ \E t \in Tokens, s \in SessionIds \cup {NoSession} : BeginRefresh(r, t, s)
    \/ \E u \in Users, reason \in LogoutReasons : LogoutAll(r, u, reason)

\* The handler in slot r goes on to its next await.
Handle(r) ==
    \/ \E s \in SessionIds : CreateSession(r, s)
    \/ IndexSession(r)
    \/ SetSessionTtl(r)
    \/ CreateSessionFails(r)
    \/ EarlyReuseCheck(r)
    \/ ValidateRefreshToken(r)
    \/ \E n \in Tokens : RotateInTokenStore(r, n)
    \/ \E n \in Tokens : MintForSession(r, n)
    \/ RotateSession(r)
    \/ RotateSessionFails(r)
    \/ InspectSession(r)
    \/ RetireOldToken(r)
    \/ StoreNewToken(r)
    \/ RevokeAllForUser(r)
    \/ ReadMembers(r)
    \/ RevokeMembers(r)
    \/ AuditReuse(r)
    \/ RespondLogoutAll(r)
    \/ CommandRefused(r)

Environment ==
    \/ \E t \in Tokens : Logout(t)
    \/ \E k \in Keys : RotateKey(k)
    \/ \E s \in SessionIds : ExpireSession(s)
    \/ Restart

Next ==
    \/ \E r \in Requests : Arrive(r) \/ Handle(r)
    \/ Environment

Spec == Init /\ [][Next]_vars

\* The event loop resumes a handler whose await has settled, and commands are
\* answered.  Nothing obliges a client, an operator or the clock to act.
FairSpec == Spec /\ \A r \in Requests : WF_vars(Handle(r))

-----------------------------------------------------------------------------
(* Properties. *)

StateTypeOK ==
    /\ sessions \in [SessionIds -> Session \cup {Absent}]
    /\ index \in [Users -> SUBSET SessionIds]
    /\ store \in [Users -> SUBSET Tokens]
    /\ audit \in SUBSET Users
    /\ primary \in Keys
    /\ owner \in [Tokens -> Users \cup {NoUser}]
    /\ tokensOut \in SUBSET Tokens
    /\ sidsOut \in SUBSET SessionIds
    /\ lineage \in SUBSET Edge
    /\ loggedOut \in SUBSET Tokens

\* Every variable has its type.
TypeOK == StateTypeOK /\ req \in [Requests -> Request]

\* Once the client holds the successor of a token, through a session or without
\* one, the token store never accepts the predecessor again (auth.service
\* refresh: revokeRefreshToken before storeRefreshToken).
SuccessorReplacesPredecessor ==
    \A e \in lineage : e.new \in tokensOut =>
        \A u \in Users : e.old \notin store[u]

\* A token that was logged out, or that the token store lost in a restart, is
\* never accepted again, although refreshes of it may be in flight at the time.
LogoutIsFinal ==
    \A t \in loggedOut, u \in Users : t \notin store[u]

\* The two stores agree: the token a client holds for a live session is one the
\* token store accepts, unless the client itself logged it out or refreshed it
\* without the session id, or the process restarted since it was stored.
\* Otherwise the session could never be refreshed.
DeliveredCurrentTokenIsStored ==
    \A s \in SessionIds :
        LET t == CurrentToken(s) IN
        Live(s) /\ t \in tokensOut =>
            \/ t \in store[sessions[s].user]
            \/ t \in loggedOut
            \/ \E e \in lineage : e.sid = NoSession /\ e.old = t

\* When a handler comes back from revokeAllForUser (to write the audit event, or
\* to answer force-logout or logout-all), no session its user could name when
\* the revocation was decided is still live: none at all on Postgres, and on
\* Redis none but those whose command in the pipeline failed.
RevokeAllIsComplete ==
    \A r \in Requests : req[r].phase \in {"audit", "respond"} =>
        \A s \in req[r].seen : ~Live(s)

\* No false accusation: SessionsService revokes for reuse only when the token
\* it was given had really been exchanged in the session it was given.
AccusationIsFounded ==
    \A r \in Requests :
        req[r].phase \in {"revoke", "pipeline", "audit"}
          /\ req[r].reason = ReuseReason =>
            \E e \in lineage : e.sid = req[r].sid /\ e.old = req[r].tok

\* While the client has no way to lose an exchange, the token of an accused
\* handler has a successor that was delivered, or is about to be: a refresh that
\* was never granted is not punished.
OnlyReplacedTokensAreAccused ==
    \A r \in Requests : req[r].phase = "revoke" /\ req[r].reason = ReuseReason =>
        \E e \in lineage :
            /\ e.sid = req[r].sid /\ e.old = req[r].tok
            /\ \/ e.new \in tokensOut
               \/ \E q \in Requests : /\ req[q].phase \in {"retire", "store"}
                                      /\ req[q].new = e.new

\* A session revoked for reuse has its audit event, or the handler that revoked
\* a session of this user is just about to write it.
ReuseIsAudited ==
    \A s \in SessionIds : Present(s) /\ sessions[s].revoked = ReuseReason =>
        \/ sessions[s].user \in audit
        \/ \E r \in Requests : /\ req[r].phase = "audit"
                               /\ req[r].user = sessions[s].user

\* A session is refreshed for its own user alone: rotate compares hashes and no
\* user, so that only the hashes keep a client that names another user's session
\* from putting its token there.
SessionsStayWithTheirUser ==
    \A e \in lineage : Present(e.sid) =>
        /\ owner[e.old] = sessions[e.sid].user
        /\ owner[e.new] = sessions[e.sid].user

\* The session repositories, seen through their records, honour the contract of
\* SessionContract: one current token per session, exchanged by compare-and-swap
\* for a token never used before, and never once the session is revoked.
Contract == INSTANCE SessionContract WITH
    current <- [s \in SessionIds |->
                   IF Present(s) THEN CurrentToken(s) ELSE NoToken],
    closed <- {s \in SessionIds :
                   ~Present(s) /\ \E u \in Users : s \in index[u]},
    revoked <- {s \in SessionIds : Present(s) /\ ~Live(s)},
    lineage <- {e \in lineage : e.sid # NoSession}

ImplementsContract == Contract!ContractSpec

\* A refresh of the token a live session holds is granted at the
\* compare-and-swap.
CurrentTokenIsAccepted ==
    [][\A r \in Requests :
         /\ req[r].phase = "cas"
         /\ Live(req[r].sid)
         /\ CurrentToken(req[r].sid) = req[r].tok
         => req'[r] = req[r] \/ req'[r].phase = "retire"]_vars

\* A refresh that names the session in which its token was exchanged earlier is
\* a replay: when it is denied, the session is revoked.
ReplayRevokesSession ==
    [][\A r \in Requests, s \in SessionIds :
         /\ req[r].sid = s /\ req[r].phase # "idle" /\ req'[r].phase = "idle"
         /\ \E e \in lineage : e.sid = s /\ e.old = req[r].tok
         /\ req[r].new \notin tokensOut'
         => ~Live(s)']_vars

\* Once a session is revoked, the refresh token it held buys no successor.
RevokedSessionBuysNothing ==
    [][\A e \in lineage' \ lineage : \A s \in SessionIds :
         Present(s) /\ ~Live(s) => CurrentToken(s) # e.old]_vars

\* An exchange reaches the client: the handler does not stop between rotating
\* the session, or retiring the old token, and storing the successor.
ExchangeIsDelivered ==
    \A n \in Tokens : (\E e \in lineage : e.new = n) ~> n \in tokensOut

\* A detected reuse ends with the replayed session revoked.
DetectedReuseIsPunished ==
    \A r \in Requests, s \in SessionIds :
        (req[r].phase = "revoke" /\ req[r].reason = ReuseReason
           /\ req[r].sid = s) ~> ~Live(s)
=============================================================================
