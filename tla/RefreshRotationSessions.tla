----------------------- MODULE RefreshRotationSessions -----------------------
(***************************************************************************)
(* How the sessions agree with the tokens, the exchanges and the index of  *)
(* sessions by user: the last layers of the inductive invariant, and the   *)
(* properties that follow from them.                                       *)
(***************************************************************************)
EXTENDS RefreshRotationTokens

\* Handlers that may still put the token they hold into a session.
Placing == SwapPhases \cup {"create"}

\* The locals of handler q that revocation reads.
SameRevocation(q) ==
    /\ req'[q].user = req[q].user /\ req'[q].sid = req[q].sid
    /\ req'[q].tok = req[q].tok /\ req'[q].reason = req[q].reason

\* What one step may do to handler q.
Stays(q) == req'[q] = req[q] \/ req'[q].phase \in {"idle"} \cup (RefreshPhases \ SwapPhases)

Signs(q) ==
    /\ req'[q].phase \in {"create", "cas"}
    /\ req'[q].new \in Tokens /\ owner[req'[q].new] \notin Users

Creates(q) ==
    /\ req[q].phase = "create" /\ req'[q].phase = "index"
    /\ req'[q].user = req[q].user /\ req'[q].sid \in SessionIds
    /\ FreshSid(req'[q].sid)
    /\ sessions' = [sessions EXCEPT ![req'[q].sid] =
                       NewSession(req[q].user, req[q].new, req[q].key)]
    /\ UNCHANGED <<index, sidsOut>>

Lists(q) ==
    /\ req[q].phase = "index" /\ req'[q].phase = "expire"
    /\ req'[q].user = req[q].user /\ req'[q].sid = req[q].sid
    /\ req[q].sid \in index'[req[q].user]
    /\ UNCHANGED <<sessions, sidsOut>>

Inspects(q) ==
    /\ req[q].phase = "cas" /\ req'[q].phase = "inspect"
    /\ req'[q].new = req[q].new

Accuses(q) ==
    /\ req[q].phase \in SwapPhases /\ req'[q].phase = "revoke"
    /\ req'[q].sid = req[q].sid /\ req'[q].tok = req[q].tok
    /\ Present(req[q].sid)
    /\ sessions[req[q].sid].prevHash = HashOf(req[q].key, req[q].tok)
    /\ req'[q].user \in Users
    /\ req'[q].seen = OpenSessions(req'[q].user)
    /\ UNCHANGED <<sessions, index, sidsOut>>

LogsOutAll(q) ==
    /\ req'[q].phase = "revoke" /\ req'[q].reason \in LogoutReasons
    /\ req'[q].user \in Users
    /\ req'[q].seen = OpenSessions(req'[q].user)
    /\ UNCHANGED <<sessions, index, sidsOut>>

Reads(q) ==
    /\ req[q].phase = "revoke" /\ req'[q].phase = "pipeline"
    /\ SameRevocation(q) /\ req'[q].seen = req[q].seen
    /\ req'[q].targets = index[req[q].user]
    /\ UNCHANGED <<sessions, index, sidsOut>>

Revokes(q) ==
    /\ req[q].phase \in {"revoke", "pipeline"}
    /\ req'[q].phase \in {"audit", "respond"}
    /\ SameRevocation(q) /\ req'[q].seen \subseteq req[q].seen
    /\ RevocationReaches => \A s \in req'[q].seen : ~Live(s)'
    /\ UNCHANGED <<index, sidsOut>>

SlotMove(q) ==
    \/ Stays(q) \/ Signs(q) \/ Creates(q) \/ Lists(q) \/ Inspects(q)
    \/ Accuses(q) \/ LogsOutAll(q) \/ Reads(q) \/ Revokes(q)

-----------------------------------------------------------------------------
(* What a step does to a handler. *)

\* What is revoked is not live.
LEMMA RevokedDies ==
  ASSUME StateTypeOK, NEW S, NEW reason \in Reasons, RevokeIn(S, reason)
  PROVE  \A s \in S : ~Live(s)'
<1> SUFFICES ASSUME NEW s \in S, s \in SessionIds
             PROVE  ~(sessions'[s] # Absent /\ sessions'[s].revoked = NotRevoked)
  BY DEF Live, Present
<1>1. sessions[s] \in Session \cup {Absent}
  BY DEF StateTypeOK
<1>2. sessions'[s] = IF Present(s) /\ (Backend = "redis" \/ Live(s))
                       THEN [sessions[s] EXCEPT !.revoked = reason]
                       ELSE sessions[s]
  BY DEF RevokeIn
<1>3. CASE Present(s) /\ (Backend = "redis" \/ Live(s))
  <2>1. sessions'[s].revoked = reason
    BY <1>1, <1>2, <1>3 DEF Present, Session
  <2> QED
    BY <2>1, NullsAssumption
<1>4. CASE ~(Present(s) /\ (Backend = "redis" \/ Live(s)))
  BY <1>2, <1>4 DEF Present, Live
<1> QED
  BY <1>3, <1>4

\* A step of one handler leaves the others alone.
LEMMA OthersStay ==
  ASSUME ReqOK, NEW r \in Requests, Arrive(r) \/ Handle(r)
  PROVE  \A q \in Requests \ {r} : req'[q] = req[q]
<1>1. CASE Arrive(r)
  BY <1>1 DEF Arrive, Login, BeginRefresh, LogoutAll, ReqOK
<1>2. CASE Handle(r)
  BY <1>2
  DEF Handle, CreateSession, IndexSession, SetSessionTtl, CreateSessionFails,
      EarlyReuseCheck, ValidateRefreshToken, RotateInTokenStore, MintForSession,
      RotateSession, RotateSessionFails, InspectSession, JudgeReuse,
      RetireOldToken, StoreNewToken, RevokeAllForUser, ReadMembers,
      RevokeMembers, AuditReuse, RespondLogoutAll, CommandRefused,
      LoginReturns, End, Goto, ReqOK
<1> QED
  BY <1>1, <1>2

\* A denied compare-and-swap accuses, or ends the handler.
LEMMA JudgeReuseMoves ==
  ASSUME Typed, NEW r \in Requests, req[r].phase \in SwapPhases, JudgeReuse(r),
         UNCHANGED <<sessions, index, sidsOut>>
  PROVE  Stays(r) \/ Accuses(r)
<1>1. ReqOK
  BY DEF ReqOK, Typed, TypeOK
<1>2. CASE End(r)
  BY <1>1, <1>2, EndSlot DEF Stays
<1> DEFINE s == req[r].sid
           q == [req[r] EXCEPT !.phase = "revoke", !.user = sessions[s].user,
                               !.reason = ReuseReason,
                               !.seen = OpenSessions(sessions[s].user)]
<1>3. CASE Present(s) /\ sessions[s].prevHash = HashOf(req[r].key, req[r].tok)
                      /\ req' = [req EXCEPT ![r] = q]
  <2>1. /\ q.phase = "revoke" /\ q.sid = req[r].sid /\ q.tok = req[r].tok
        /\ q.user = sessions[s].user /\ q.seen = OpenSessions(q.user)
    BY <1>1 DEF ReqOK, Request
  <2>2. sessions[s].user \in Users
    BY <1>3 DEF Typed, TypeOK, StateTypeOK, Present, Session
  <2> HIDE DEF q
  <2>3. req'[r] = q
    BY <1>1, <1>3 DEF ReqOK
  <2> QED
    BY <1>3, <2>1, <2>2, <2>3 DEF Accuses, OpenSessions, Present
<1> QED
  BY <1>2, <1>3 DEF JudgeReuse


\* What a step of a handler does to it.
LEMMA HandlerMoves ==
  ASSUME Typed, NEW r \in Requests, Arrive(r) \/ Handle(r)
  PROVE  SlotMove(r)
<1> USE DEF SlotMove, delivered, repo
<1>a. /\ ReqOK /\ req[r] \in Request /\ LocalsOK(req[r])
      /\ req \in [Requests -> Request] /\ StateTypeOK
  BY DEF ReqOK, Typed, TypeOK, PhaseOK
<1>1. ASSUME NEW u \in Users, NEW t \in Tokens, Login(r, u, t)
      PROVE  Signs(r)
  BY <1>a, <1>1, NullsAssumption DEF Login, Signs, Fresh, Idle
<1>2. ASSUME NEW t \in Tokens, NEW s \in SessionIds \cup {NoSession},
             BeginRefresh(r, t, s)
      PROVE  Stays(r)
  BY <1>a, <1>2 DEF BeginRefresh, Stays, Idle, RefreshPhases, SwapPhases
<1>3. ASSUME NEW u \in Users, NEW reason \in LogoutReasons, LogoutAll(r, u, reason)
      PROVE  LogsOutAll(r)
  BY <1>a, <1>3 DEF LogoutAll, LogsOutAll, Idle, OpenSessions, Present
<1>4. ASSUME NEW s \in SessionIds, CreateSession(r, s)
      PROVE  Stays(r) \/ Creates(r)
  <2> DEFINE q == [req[r] EXCEPT !.phase = "index", !.sid = s]
  <2>1. CASE LoginReturns(r, {}) \/ LoginReturns(r, {s})
    BY <1>a, <2>1, EndSlot DEF LoginReturns, Stays
  <2>2. CASE req' = [req EXCEPT ![r] = q] /\ UNCHANGED <<index, delivered>>
    <3>1. q.phase = "index" /\ q.user = req[r].user /\ q.sid = s
      BY <1>a DEF Request
    <3> HIDE DEF q
    <3>2. req'[r] = q
      BY <1>a, <2>2
    <3> QED
      BY <1>4, <2>2, <3>1, <3>2 DEF Creates, CreateSession
  <2> QED
    BY <1>4, <2>1, <2>2 DEF CreateSession
<1>5. CASE IndexSession(r)
  <2>1. CASE LoginReturns(r, {})
    BY <1>a, <2>1, EndSlot DEF LoginReturns, Stays
  <2>2. CASE Goto(r, "expire") /\ UNCHANGED delivered
    <3>1. /\ req'[r].phase = "expire" /\ req'[r].user = req[r].user
          /\ req'[r].sid = req[r].sid
      BY <1>a, <2>2, GotoSlot DEF Phases
    <3>2. req[r].user \in Users
      BY <1>5, <1>a DEF IndexSession, LocalsOK, LoginPhases
    <3> QED
      BY <1>5, <1>a, <2>2, <3>1, <3>2 DEF Lists, IndexSession, StateTypeOK
  <2> QED
    BY <1>5, <2>1, <2>2 DEF IndexSession
<1>6. CASE SetSessionTtl(r) \/ CreateSessionFails(r)
  BY <1>a, <1>6, EndSlot DEF SetSessionTtl, CreateSessionFails, LoginReturns, Stays
<1>7. CASE EarlyReuseCheck(r) \/ ValidateRefreshToken(r) \/ RetireOldToken(r)
  BY <1>a, <1>7, EndSlot, GotoSlot
  DEF EarlyReuseCheck, ValidateRefreshToken, RetireOldToken, Stays, Phases,
      RefreshPhases, SwapPhases
<1>8. ASSUME NEW n \in Tokens, RotateInTokenStore(r, n)
      PROVE  Stays(r)
  BY <1>a, <1>8 DEF RotateInTokenStore, Stays, RefreshPhases, SwapPhases, Request
<1>9. ASSUME NEW n \in Tokens, MintForSession(r, n)
      PROVE  Signs(r)
  BY <1>a, <1>9, NullsAssumption DEF MintForSession, Signs, Fresh, Request
<1>10. CASE RotateSession(r)
  BY <1>a, <1>10, EndSlot, GotoSlot
  DEF RotateSession, Stays, Phases, RefreshPhases, SwapPhases
<1>11. CASE RotateSessionFails(r)
  <2>1. CASE Goto(r, "inspect")
    BY <1>a, <1>11, <2>1, GotoSlot DEF RotateSessionFails, Inspects, Phases
  <2>2. CASE JudgeReuse(r)
    BY <1>11, <2>2, JudgeReuseMoves DEF RotateSessionFails, SwapPhases
  <2> QED
    BY <1>11, <2>1, <2>2 DEF RotateSessionFails
<1>12. CASE InspectSession(r)
  BY <1>12, JudgeReuseMoves DEF InspectSession, SwapPhases
<1>13. CASE StoreNewToken(r) \/ AuditReuse(r) \/ RespondLogoutAll(r) \/ CommandRefused(r)
  BY <1>a, <1>13, EndSlot
  DEF StoreNewToken, AuditReuse, RespondLogoutAll, CommandRefused, Stays
<1>14. CASE RevokeAllForUser(r)
  <2>1. CASE End(r)
    BY <1>a, <2>1, EndSlot DEF Stays
  <2>2. CASE Goto(r, AfterRevocation(r))
    <3>1. /\ SameRevocation(r) /\ req'[r].seen = req[r].seen
          /\ req'[r].phase \in {"audit", "respond"}
      BY <1>a, <2>2, GotoSlot DEF AfterRevocation, SameRevocation, Phases
    <3>2. \A s \in index[req[r].user] : ~Live(s)'
      BY <1>14, <1>a, RevokedDies DEF RevokeAllForUser, LocalsOK, RevokePhases
    <3> QED
      BY <1>14, <3>1, <3>2
      DEF Revokes, RevokeAllForUser, RevocationReaches, RevokePhases
  <2> QED
    BY <1>14, <2>1, <2>2 DEF RevokeAllForUser
<1>15. CASE ReadMembers(r)
  <2> DEFINE q == [req[r] EXCEPT !.phase = "pipeline", !.targets = index[req[r].user]]
  <2>1. CASE index[req[r].user] = {} /\ Goto(r, AfterRevocation(r))
    <3>1. /\ SameRevocation(r) /\ req'[r].seen = req[r].seen
          /\ req'[r].phase \in {"audit", "respond"}
      BY <1>a, <2>1, GotoSlot DEF AfterRevocation, SameRevocation, Phases
    <3> QED
      BY <1>15, <2>1, <3>1 DEF Revokes, ReadMembers, RevocationReaches, RevokePhases
  <2>2. CASE req' = [req EXCEPT ![r] = q]
    <3>1. /\ q.phase = "pipeline" /\ q.targets = index[req[r].user]
          /\ q.user = req[r].user /\ q.sid = req[r].sid /\ q.tok = req[r].tok
          /\ q.reason = req[r].reason /\ q.seen = req[r].seen
      BY <1>a DEF Request
    <3> HIDE DEF q
    <3>2. req'[r] = q
      BY <1>a, <2>2
    <3> QED
      BY <1>15, <3>1, <3>2 DEF Reads, SameRevocation, ReadMembers
  <2> QED
    BY <1>15, <2>1, <2>2 DEF ReadMembers
<1>16. CASE RevokeMembers(r)
  <2>1. CASE End(r)
    BY <1>a, <2>1, EndSlot DEF Stays
  <2>2. ASSUME NEW failed \in SUBSET req[r].targets,
               RevokeIn(req[r].targets \ failed, req[r].reason),
               req' = [req EXCEPT ![r] = [@ EXCEPT
                           !.phase = AfterRevocation(r),
                           !.seen = req[r].seen \ failed]]
        PROVE  Revokes(r)
    <3>1. /\ SameRevocation(r) /\ req'[r].seen = req[r].seen \ failed
          /\ req'[r].phase \in {"audit", "respond"}
      BY <1>a, <2>2 DEF AfterRevocation, SameRevocation, Request
    <3>2. \A s \in req[r].targets \ failed : ~Live(s)'
      BY <1>16, <1>a, <2>2, RevokedDies DEF RevokeMembers, LocalsOK, RevokePhases
    <3> QED
      BY <1>16, <3>1, <3>2 DEF Revokes, RevokeMembers, RevocationReaches
  <2> QED
    BY <1>16, <2>1, <2>2 DEF RevokeMembers
<1> QED
  BY <1>1, <1>2, <1>3, <1>4, <1>5, <1>6, <1>7, <1>8, <1>9, <1>10, <1>11, <1>12,
     <1>13, <1>14, <1>15, <1>16
  DEF Arrive, Handle

\* What a step does to any handler.
LEMMA SlotMoves ==
  ASSUME Typed, [Next]_vars
  PROVE  \A q \in Requests : SlotMove(q)
<1> SUFFICES ASSUME NEW q \in Requests
             PROVE  SlotMove(q)
  OBVIOUS
<1>1. CASE UNCHANGED req
  BY <1>1 DEF SlotMove, Stays
<1>2. CASE Restart
  BY <1>2 DEF SlotMove, Stays, Restart, Idle
<1>3. ASSUME NEW r \in Requests, Arrive(r) \/ Handle(r)
      PROVE  SlotMove(q)
  <2>1. ReqOK
    BY DEF ReqOK, Typed, TypeOK
  <2> QED
    BY <1>3, <2>1, HandlerMoves, OthersStay DEF SlotMove, Stays
<1> QED
  BY <1>1, <1>2, <1>3
  DEF Next, Environment, Logout, RotateKey, ExpireSession, vars

-----------------------------------------------------------------------------
(* What a step does to the sessions. *)

\* Sessions keep all but their revocation; the only way one ends is its TTL.
SessionsKept ==
    /\ \A s \in SessionIds : Present(s)' =>
         /\ Present(s)
         /\ sessions'[s].user = sessions[s].user
         /\ sessions'[s].hash = sessions[s].hash
         /\ sessions'[s].prevHash = sessions[s].prevHash
    /\ \A s \in SessionIds : Live(s)' => Live(s)
    /\ \/ \A s \in SessionIds : Present(s) => Present(s)'
       \/ \E s \in SessionIds : ExpireSession(s)
    /\ \A e \in lineage' : InSession(e) => e \in lineage

\* What every step keeps.
OnlyGrows ==
    /\ \A u \in Users : index[u] \subseteq index'[u]
    /\ lineage \subseteq lineage'
    /\ \A t \in Tokens : owner[t] \in Users => owner'[t] = owner[t]

\* A revocation changes nothing of a session but its revocation.
LEMMA RevokeInKeeps ==
  ASSUME StateTypeOK, NEW S, NEW reason \in Reasons, RevokeIn(S, reason),
         UNCHANGED lineage
  PROVE  SessionsKept
<1> SUFFICES ASSUME NEW s \in SessionIds
             PROVE  /\ Present(s)' <=> Present(s)
                    /\ Present(s) =>
                         /\ sessions'[s].user = sessions[s].user
                         /\ sessions'[s].hash = sessions[s].hash
                         /\ sessions'[s].prevHash = sessions[s].prevHash
                    /\ Live(s)' => Live(s)
  BY DEF SessionsKept
<1>1. sessions[s] \in Session \cup {Absent}
  BY DEF StateTypeOK
<1>2. sessions'[s] = IF s \in S /\ Present(s) /\ (Backend = "redis" \/ Live(s))
                       THEN [sessions[s] EXCEPT !.revoked = reason]
                       ELSE sessions[s]
  BY DEF RevokeIn
<1>3. CASE s \in S /\ Present(s) /\ (Backend = "redis" \/ Live(s))
  <2>1. sessions[s] \in Session
    BY <1>1, <1>3 DEF Present
  <2>2. /\ sessions'[s] \in Session
        /\ sessions'[s].user = sessions[s].user
        /\ sessions'[s].hash = sessions[s].hash
        /\ sessions'[s].prevHash = sessions[s].prevHash
        /\ sessions'[s].revoked = reason
    BY <1>2, <1>3, <2>1 DEF Session
  <2> QED
    BY <1>3, <2>2, NullsAssumption DEF Present, Live
<1>4. CASE sessions'[s] = sessions[s]
  BY <1>4 DEF Present, Live
<1> QED
  BY <1>2, <1>3, <1>4

\* Sessions that do not change are kept.
LEMMA UnchangedKept ==
  ASSUME UNCHANGED sessions, \A e \in lineage' : InSession(e) => e \in lineage
  PROVE  SessionsKept
BY DEF SessionsKept, Present, Live

\* Only a login and an exchange write a token into a session.
LEMMA SessionMoves ==
  ASSUME Typed, [Next]_vars
  PROVE  \/ SessionsKept
         \/ \E r \in Requests, s \in SessionIds : CreateSession(r, s)
         \/ \E r \in Requests : RotateSession(r)
<1> USE DEF repo, delivered, history
<1>a. StateTypeOK /\ \A r \in Requests : LocalsOK(req[r])
  BY DEF Typed, TypeOK, PhaseOK
<1>1. CASE UNCHANGED vars
  BY <1>1, UnchangedKept DEF vars
<1>2. ASSUME NEW t \in Tokens, Logout(t)
      PROVE  SessionsKept
  BY <1>2, UnchangedKept DEF Logout
<1>3. ASSUME NEW k \in Keys, RotateKey(k)
      PROVE  SessionsKept
  BY <1>3, UnchangedKept DEF RotateKey
<1>4. ASSUME NEW s \in SessionIds, ExpireSession(s)
      PROVE  SessionsKept
  BY <1>4, <1>a DEF ExpireSession, SessionsKept, Present, Live, StateTypeOK
<1>5. CASE Restart
  BY <1>5, UnchangedKept DEF Restart
<1>6. ASSUME NEW r \in Requests, Arrive(r)
      PROVE  SessionsKept
  BY <1>6, UnchangedKept DEF Arrive, Login, BeginRefresh, LogoutAll
<1>7. ASSUME NEW r \in Requests,
             \/ IndexSession(r) \/ SetSessionTtl(r) \/ CreateSessionFails(r)
             \/ ValidateRefreshToken(r) \/ RotateSessionFails(r)
             \/ InspectSession(r) \/ RetireOldToken(r) \/ StoreNewToken(r)
             \/ ReadMembers(r) \/ AuditReuse(r) \/ RespondLogoutAll(r)
             \/ CommandRefused(r)
      PROVE  SessionsKept
  BY <1>7, UnchangedKept
  DEF IndexSession, SetSessionTtl, CreateSessionFails, ValidateRefreshToken,
      RotateSessionFails, InspectSession, RetireOldToken, StoreNewToken,
      ReadMembers, AuditReuse, RespondLogoutAll, CommandRefused
<1>8. ASSUME NEW r \in Requests, NEW n \in Tokens,
             RotateInTokenStore(r, n) \/ MintForSession(r, n)
      PROVE  SessionsKept
  BY <1>8, UnchangedKept
  DEF RotateInTokenStore, MintForSession, Exchange, InSession
<1>9. ASSUME NEW r \in Requests, EarlyReuseCheck(r)
      PROVE  SessionsKept
  BY <1>9, <1>a, UnchangedKept, RevokeInKeeps DEF EarlyReuseCheck, Reasons
<1>10. ASSUME NEW r \in Requests, RevokeAllForUser(r)
       PROVE  SessionsKept
  BY <1>10, <1>a, RevokeInKeeps DEF RevokeAllForUser, LocalsOK, RevokePhases
<1>11. ASSUME NEW r \in Requests, RevokeMembers(r)
       PROVE  SessionsKept
  BY <1>11, <1>a, RevokeInKeeps DEF RevokeMembers, LocalsOK, RevokePhases
<1> QED
  BY <1>1, <1>2, <1>3, <1>4, <1>5, <1>6, <1>7, <1>8, <1>9, <1>10, <1>11
  DEF Next, Environment, Handle

\* No step takes a session out of the index, forgets an exchange, or signs a token
\* again.
LEMMA GrowsOnly ==
  ASSUME Typed, [Next]_vars
  PROVE  OnlyGrows
<1> USE DEF repo, delivered, history, LoginReturns
<1>a. StateTypeOK
  BY DEF Typed, TypeOK
<1> DEFINE Moves ==
      \/ UNCHANGED <<index, lineage, owner>>
      \/ \E r \in Requests, u \in Users, t \in Tokens : Login(r, u, t)
      \/ \E r \in Requests, s \in SessionIds : CreateSession(r, s)
      \/ \E r \in Requests, n \in Tokens :
            RotateInTokenStore(r, n) \/ MintForSession(r, n)
      \/ \E r \in Requests : IndexSession(r) \/ RotateSession(r)
<1>1. Moves
  <2>1. CASE UNCHANGED vars
    BY <2>1 DEF vars
  <2>2. CASE Environment
    BY <2>2 DEF Environment, Logout, RotateKey, ExpireSession, Restart
  <2>3. ASSUME NEW r \in Requests, Arrive(r)
        PROVE  Moves
    BY <2>3 DEF Arrive, BeginRefresh, LogoutAll
  <2>4. ASSUME NEW r \in Requests, Handle(r)
        PROVE  Moves
    BY <2>4
    DEF Handle, SetSessionTtl, CreateSessionFails, EarlyReuseCheck,
        ValidateRefreshToken, RotateSessionFails, InspectSession, RetireOldToken,
        StoreNewToken, RevokeAllForUser, ReadMembers, RevokeMembers, AuditReuse,
        RespondLogoutAll, CommandRefused
  <2> QED
    BY <2>1, <2>2, <2>3, <2>4 DEF Next
<1>2. \A t \in Tokens : Fresh(t) => owner[t] \notin Users
  BY NullsAssumption DEF Fresh
<1>3. CASE UNCHANGED <<index, lineage, owner>>
  BY <1>3 DEF OnlyGrows
<1>4. ASSUME NEW r \in Requests, NEW u \in Users, NEW t \in Tokens, Login(r, u, t)
      PROVE  OnlyGrows
  BY <1>a, <1>2, <1>4 DEF OnlyGrows, Login, Sign, StateTypeOK
<1>5. ASSUME NEW r \in Requests, NEW s \in SessionIds, CreateSession(r, s)
      PROVE  OnlyGrows
  BY <1>a, <1>5 DEF OnlyGrows, CreateSession, StateTypeOK
<1>6. ASSUME NEW r \in Requests, NEW n \in Tokens,
             RotateInTokenStore(r, n) \/ MintForSession(r, n)
      PROVE  OnlyGrows
  BY <1>a, <1>2, <1>6
  DEF OnlyGrows, RotateInTokenStore, MintForSession, Sign, Exchange, StateTypeOK
<1>7. ASSUME NEW r \in Requests, IndexSession(r) \/ RotateSession(r)
      PROVE  OnlyGrows
  BY <1>a, <1>7 DEF OnlyGrows, IndexSession, RotateSession, Exchange, StateTypeOK
<1> QED
  BY <1>1, <1>3, <1>4, <1>5, <1>6, <1>7

\* How a client gets the name of a session.
LEMMA NamedMoves ==
  ASSUME [Next]_vars
  PROVE  \/ sidsOut' = sidsOut
         \/ \E r \in Requests, s \in SessionIds :
              /\ CreateSession(r, s) /\ sidsOut' = sidsOut \cup {s}
              /\ index' = [index EXCEPT ![req[r].user] = @ \cup {s}]
         \/ \E r \in Requests :
              /\ req[r].phase = "expire" /\ sidsOut' = sidsOut \cup {req[r].sid}
              /\ UNCHANGED <<sessions, index>>
<1> USE DEF repo, delivered, history, LoginReturns
<1>1. CASE UNCHANGED vars
  BY <1>1 DEF vars
<1>2. CASE Environment
  BY <1>2 DEF Environment, Logout, RotateKey, ExpireSession, Restart
<1>3. ASSUME NEW r \in Requests, Arrive(r)
      PROVE  sidsOut' = sidsOut
  BY <1>3 DEF Arrive, Login, BeginRefresh, LogoutAll
<1>4. ASSUME NEW r \in Requests, NEW s \in SessionIds, CreateSession(r, s)
      PROVE  \/ sidsOut' = sidsOut
             \/ /\ sidsOut' = sidsOut \cup {s}
                /\ index' = [index EXCEPT ![req[r].user] = @ \cup {s}]
  BY <1>4 DEF CreateSession
<1>5. ASSUME NEW r \in Requests, SetSessionTtl(r)
      PROVE  \/ sidsOut' = sidsOut
             \/ /\ req[r].phase = "expire" /\ sidsOut' = sidsOut \cup {req[r].sid}
                /\ UNCHANGED <<sessions, index>>
  BY <1>5 DEF SetSessionTtl
<1>6. ASSUME NEW r \in Requests, Handle(r), ~SetSessionTtl(r),
             \A s \in SessionIds : ~CreateSession(r, s)
      PROVE  sidsOut' = sidsOut
  BY <1>6
  DEF Handle, IndexSession, CreateSessionFails, EarlyReuseCheck,
      ValidateRefreshToken, RotateInTokenStore, MintForSession, RotateSession,
      RotateSessionFails, InspectSession, RetireOldToken, StoreNewToken,
      RevokeAllForUser, ReadMembers, RevokeMembers, AuditReuse,
      RespondLogoutAll, CommandRefused
<1> QED
  BY <1>1, <1>2, <1>3, <1>4, <1>5, <1>6 DEF Next

-----------------------------------------------------------------------------
(* Sessions agree with tokens and exchanges. *)

\* Written without the vacuous token of a handler in other phases.
NotPlaced(t) == \A r \in Requests : req[r].phase \in Placing => req[r].new # t

\* A session that exists is a record of its type.
LEMMA CurrentTyped ==
  ASSUME StateTypeOK, NEW s \in SessionIds, Present(s)
  PROVE  /\ sessions[s] \in Session /\ sessions[s].user \in Users
         /\ CurrentToken(s) \in Tokens /\ sessions[s].hash \in Hash
BY DEF StateTypeOK, Present, Session, Hash, CurrentToken

\* A token that no handler was about to place is not about to be placed, unless
\* it was just signed.
LEMMA PlacedBefore ==
  ASSUME Typed, [Next]_vars, NEW t \in Tokens, owner[t] \in Users, NotPlaced(t)
  PROVE  NotPlaced(t)'
<1> SUFFICES ASSUME NEW q \in Requests, req'[q].phase \in Placing, req'[q].new = t
             PROVE  FALSE
  BY DEF NotPlaced
<1>1. SlotMove(q)
  BY SlotMoves
<1>2. CASE Stays(q)
  BY <1>2 DEF Stays, NotPlaced, Placing, SwapPhases, RefreshPhases
<1>3. CASE Signs(q)
  BY <1>3 DEF Signs
<1>4. CASE Inspects(q)
  BY <1>4 DEF Inspects, NotPlaced, Placing, SwapPhases
<1> QED
  BY <1>1, <1>2, <1>3, <1>4
  DEF SlotMove, Creates, Lists, Accuses, LogsOutAll, Reads, Revokes, Placing,
      SwapPhases

\* CurrentIsCurrent for one session, in terms of NotPlaced.
LEMMA CurrentAgain ==
  ASSUME NEW s, CurrentIsCurrent, s \in SessionIds, Present(s)
  PROVE  /\ owner[CurrentToken(s)] = sessions[s].user
         /\ NotPlaced(CurrentToken(s))
         /\ \A q \in SessionIds :
              Present(q) /\ CurrentToken(q) = CurrentToken(s) => q = s
         /\ \A e \in lineage : InSession(e) => e.old # CurrentToken(s)
BY DEF CurrentIsCurrent, NotPlaced, Holds, Placing, SwapPhases, SuccessorPhases,
       LoginPhases

\* A token may be placed by its handler, once.
LEMMA PlacingIsNew ==
  ASSUME Typed, TokensPlaced, CurrentIsCurrent,
         NEW r \in Requests, req[r].phase \in Placing
  PROVE  /\ req[r].new \in Tokens /\ req[r].user \in Users
         /\ owner[req[r].new] = req[r].user
         /\ \A s \in SessionIds : Present(s) => CurrentToken(s) # req[r].new
         /\ \A e \in lineage : e.old # req[r].new
         /\ \A q \in Requests \ {r} : req[q].phase \in Placing => req[q].new # req[r].new
<1>1. /\ req[r].new \in Tokens /\ req[r].user \in Users
      /\ owner[req[r].new] = req[r].user /\ Holds(r, req[r].new)
  BY DEF Typed, PhaseOK, LocalsOK, SignedForUser, Placing, SwapPhases,
         SuccessorPhases, LoginPhases, RefreshPhases, Holds
<1>2. /\ req[r].new \notin tokensOut
      /\ \A q \in Requests : Holds(q, req[r].new) => q = r
  BY <1>1 DEF TokensPlaced, HeldIsPrivate
<1>3. \A s \in SessionIds : Present(s) => CurrentToken(s) # req[r].new
  BY CurrentAgain DEF NotPlaced
<1>4. \A e \in lineage : e.old # req[r].new
  BY <1>2 DEF TokensPlaced, ExchangesDelivered
<1>5. \A q \in Requests \ {r} : req[q].phase \in Placing => req[q].new # req[r].new
  BY <1>2 DEF Holds, Placing, SwapPhases, SuccessorPhases, LoginPhases
<1> QED
  BY <1>1, <1>3, <1>4, <1>5

\* CurrentIsCurrent after a step, with every prime spelled out.
LEMMA CurrentThen ==
  ASSUME \A s \in SessionIds : Present(s)' =>
           /\ owner'[sessions'[s].hash.token] = sessions'[s].user
           /\ \A p \in Requests : req'[p].phase \in Placing =>
                  req'[p].new # sessions'[s].hash.token
           /\ \A p \in SessionIds :
                Present(p)' /\ sessions'[p].hash.token = sessions'[s].hash.token => p = s
           /\ \A e \in lineage' : InSession(e) => e.old # sessions'[s].hash.token
  PROVE  CurrentIsCurrent'
BY DEF CurrentIsCurrent, CurrentToken, Holds, Placing, SwapPhases

\* A session gets a token that its handler stops holding for it.
LEMMA TokenPlaced ==
  ASSUME Typed, Typed', TokensPlaced, CurrentIsCurrent, [Next]_vars,
         NEW r \in Requests, req[r].phase \in Placing, req'[r].phase \notin Placing,
         NEW s \in SessionIds, NEW old \in Tokens \cup {NoToken},
         sessions'[s] # Absent, sessions'[s].user = req[r].user,
         sessions'[s].hash.token = req[r].new,
         \A q \in SessionIds \ {s} : sessions'[q] = sessions[q],
         \A e \in lineage' : e \in lineage \/ e.old = old,
         \A q \in SessionIds \ {s} : Present(q) => CurrentToken(q) # old,
         old # req[r].new
  PROVE  CurrentIsCurrent'
<1> DEFINE n == req[r].new
<1>1. /\ n \in Tokens /\ req[r].user \in Users /\ owner[n] = req[r].user
      /\ \A q \in SessionIds : Present(q) => CurrentToken(q) # n
      /\ \A e \in lineage : e.old # n
      /\ \A q \in Requests \ {r} : req[q].phase \in Placing => req[q].new # n
  BY PlacingIsNew
<1>2. OnlyGrows /\ StateTypeOK
  BY GrowsOnly DEF Typed, TypeOK
<1>3. \A q \in Requests : req'[q].phase \in Placing => req'[q].new # n
  <2> SUFFICES ASSUME NEW q \in Requests, req'[q].phase \in Placing, req'[q].new = n
               PROVE  FALSE
    OBVIOUS
  <2>1. SlotMove(q) /\ q # r
    BY SlotMoves
  <2>2. CASE Stays(q)
    BY <1>1, <2>1, <2>2 DEF Stays, Placing, SwapPhases, RefreshPhases
  <2>3. CASE Signs(q)
    BY <1>1, <2>3 DEF Signs
  <2>4. CASE Inspects(q)
    BY <1>1, <2>1, <2>4 DEF Inspects, Placing, SwapPhases
  <2> QED
    BY <2>1, <2>2, <2>3, <2>4
    DEF SlotMove, Creates, Lists, Accuses, LogsOutAll, Reads, Revokes, Placing,
        SwapPhases
<1>4. /\ owner'[n] = req[r].user
      /\ \A e \in lineage' : InSession(e) => e.old # n
  BY <1>1, <1>2 DEF OnlyGrows
<1>5. ASSUME NEW q \in SessionIds \ {s}, Present(q)'
      PROVE  /\ Present(q) /\ sessions'[q] = sessions[q]
             /\ sessions'[q].hash.token \in Tokens
             /\ sessions'[q].hash.token # n
             /\ owner'[sessions'[q].hash.token] = sessions'[q].user
             /\ \A p \in Requests : req'[p].phase \in Placing =>
                    req'[p].new # sessions'[q].hash.token
             /\ \A p \in SessionIds : Present(p) /\ CurrentToken(p) = CurrentToken(q) => p = q
             /\ \A e \in lineage' : InSession(e) => e.old # sessions'[q].hash.token
  <2> DEFINE t == sessions'[q].hash.token
  <2>1. Present(q) /\ sessions'[q] = sessions[q] /\ t = CurrentToken(q)
    BY <1>5 DEF Present, CurrentToken
  <2>2. t \in Tokens /\ sessions[q].user \in Users
    BY <1>2, <2>1, CurrentTyped
  <2>3. /\ owner[t] = sessions[q].user /\ NotPlaced(t)
        /\ \A p \in SessionIds : Present(p) /\ CurrentToken(p) = t => p = q
        /\ \A e \in lineage : InSession(e) => e.old # t
    BY <2>1, CurrentAgain
  <2> HIDE DEF t
  <2>4. \A p \in Requests : req'[p].phase \in Placing => req'[p].new # t
    BY <2>2, <2>3, PlacedBefore DEF NotPlaced
  <2>5. owner'[t] = sessions[q].user /\ t # n
    BY <1>1, <1>2, <2>1, <2>2, <2>3 DEF OnlyGrows
  <2>6. \A e \in lineage' : InSession(e) => e.old # t
    BY <2>1, <2>3
  <2> QED
    BY <2>1, <2>2, <2>3, <2>4, <2>5, <2>6 DEF t
<1>6. ASSUME NEW q \in SessionIds, Present(q)'
      PROVE  /\ owner'[sessions'[q].hash.token] = sessions'[q].user
             /\ \A p \in Requests : req'[p].phase \in Placing =>
                    req'[p].new # sessions'[q].hash.token
             /\ \A p \in SessionIds :
                  Present(p)' /\ sessions'[p].hash.token = sessions'[q].hash.token => p = q
             /\ \A e \in lineage' : InSession(e) => e.old # sessions'[q].hash.token
  <2>1. CASE q = s
    BY <1>3, <1>4, <1>5, <2>1
  <2>2. CASE q # s
    <3>1. \A p \in SessionIds :
            Present(p)' /\ sessions'[p].hash.token = sessions'[q].hash.token => p = q
      BY <1>5, <1>6, <2>2 DEF CurrentToken
    <3> QED
      BY <1>5, <1>6, <2>2, <3>1
  <2> QED
    BY <2>1, <2>2
<1> HIDE DEF n
<1> QED
  BY <1>6, CurrentThen

\* A login puts a token in its session that nobody else has.
LEMMA CreateAgrees ==
  ASSUME Typed, Typed', TokensPlaced, SessionsAgree, [Next]_vars,
         NEW r \in Requests, NEW s \in SessionIds, CreateSession(r, s)
  PROVE  SessionsAgree'
<1>1. /\ req[r].phase = "create" /\ sessions[s] = Absent
      /\ sessions' = [sessions EXCEPT ![s] =
                         NewSession(req[r].user, req[r].new, req[r].key)]
      /\ UNCHANGED lineage
  BY DEF CreateSession, FreshSid, history
<1>2. StateTypeOK /\ StateTypeOK' /\ req[r].phase \in Placing /\ CurrentIsCurrent
  BY <1>1 DEF Typed, TypeOK, Placing, SessionsAgree
<1>3. /\ sessions'[s].user = req[r].user
      /\ sessions'[s].hash.token = req[r].new
      /\ sessions'[s].prevHash = NoHash
      /\ \A q \in SessionIds \ {s} : sessions'[q] = sessions[q]
  BY <1>1, <1>2 DEF NewSession, HashOf, StateTypeOK
<1>4. req'[r].phase \notin Placing
  <2> DEFINE q == [req[r] EXCEPT !.phase = "index", !.sid = s]
  <2>1. ReqOK /\ req[r] \in Request
    BY DEF ReqOK, Typed, TypeOK
  <2>2. CASE LoginReturns(r, {}) \/ LoginReturns(r, {s})
    BY <2>1, <2>2, EndSlot DEF LoginReturns, Placing, SwapPhases
  <2>3. CASE req' = [req EXCEPT ![r] = q]
    <3>1. q.phase = "index"
      BY <2>1 DEF Request
    <3> HIDE DEF q
    <3>2. req'[r] = q
      BY <2>1, <2>3 DEF ReqOK
    <3> QED
      BY <3>1, <3>2 DEF Placing, SwapPhases
  <2> QED
    BY <2>2, <2>3 DEF CreateSession
<1>5. sessions'[s] # Absent
  <2>1. req[r].user \in Users /\ req[r].new \in Tokens /\ req[r].key \in Keys
    BY <1>1, <1>2, PlacingIsNew DEF Typed, PhaseOK, LocalsOK
  <2>2. NewSession(req[r].user, req[r].new, req[r].key) \in Session
    BY <1>2, <2>1
    DEF NewSession, Session, HashOf, Hash, Reasons, StateTypeOK
  <2> QED
    BY <1>1, <1>2, <2>2, NullsAssumption DEF StateTypeOK
<1>6. CurrentIsCurrent'
  <2>1. /\ \A q \in SessionIds : Present(q) => CurrentToken(q) # NoToken
        /\ req[r].new # NoToken
    BY <1>2, CurrentTyped, PlacingIsNew, NullsAssumption
  <2> QED
    BY <1>1, <1>2, <1>3, <1>4, <1>5, <2>1, TokenPlaced
<1>7. PreviousWasExchanged'
  BY <1>1, <1>3 DEF SessionsAgree, PreviousWasExchanged, Present
<1> QED
  BY <1>6, <1>7 DEF SessionsAgree

\* A compare-and-swap that wins is of a token of the session, for its user.
LEMMA SwapIs ==
  ASSUME Typed, TokensPlaced, CurrentIsCurrent, NEW r \in Requests, RotateSession(r)
  PROVE  LET s == req[r].sid IN
         /\ s \in SessionIds /\ Live(s) /\ CurrentToken(s) = req[r].tok
         /\ sessions[s].user = req[r].user
         /\ req[r].tok \in Tokens /\ req[r].new \in Tokens /\ req[r].key \in Keys
         /\ sessions'[s] # Absent /\ sessions'[s].user = req[r].user
         /\ sessions'[s].hash = HashOf(req[r].key, req[r].new)
         /\ sessions'[s].prevHash = sessions[s].hash
         /\ sessions'[s].revoked = NotRevoked
         /\ \A q \in SessionIds \ {s} : sessions'[q] = sessions[q]
         /\ lineage' = lineage \cup {[sid |-> s, old |-> req[r].tok, new |-> req[r].new]}
<1> DEFINE s == req[r].sid
<1>1. /\ req[r].phase = "cas" /\ Live(s)
      /\ sessions[s].hash = HashOf(req[r].key, req[r].tok)
      /\ lineage' = lineage \cup {[sid |-> s, old |-> req[r].tok, new |-> req[r].new]}
  BY DEF RotateSession, CasMatches, Exchange
<1>2. /\ s \in SessionIds /\ req[r].tok \in Tokens /\ req[r].new \in Tokens
      /\ req[r].key \in Keys /\ req[r].user \in Users
  BY <1>1 DEF Typed, PhaseOK, LocalsOK, SwapPhases, RefreshPhases, SuccessorPhases
<1>3. StateTypeOK /\ Present(s) /\ sessions[s] \in Session
  BY <1>1, <1>2, CurrentTyped DEF Typed, TypeOK, Live
<1>4. CurrentToken(s) = req[r].tok
  BY <1>1 DEF CurrentToken, HashOf
<1>5. sessions[s].user = req[r].user
  BY <1>1, <1>2, <1>3, <1>4, CurrentAgain
  DEF TokensPlaced, RefreshesDelivered, RefreshPhases, SwapPhases
<1>6. sessions' = [sessions EXCEPT ![s] =
          [@ EXCEPT !.hash = HashOf(req[r].key, req[r].new),
                    !.prevHash = sessions[s].hash,
                    !.jti = NoToken,
                    !.prevJti = IF Backend = "postgres" THEN req[r].tok
                                                        ELSE sessions[s].jti]]
  BY DEF RotateSession
<1>7. /\ sessions'[s].user = req[r].user
      /\ sessions'[s].hash = HashOf(req[r].key, req[r].new)
      /\ sessions'[s].prevHash = sessions[s].hash
      /\ sessions'[s].revoked = NotRevoked
      /\ sessions'[s] \in Session
  <2>1. HashOf(req[r].key, req[r].new) \in Hash /\ sessions[s].hash \in Hash
    BY <1>2, <1>3 DEF HashOf, Hash, Session
  <2>2. sessions[s].revoked = NotRevoked
    BY <1>1 DEF Live
  <2> QED
    BY <1>2, <1>3, <1>5, <1>6, <2>1, <2>2 DEF StateTypeOK, Session
<1>8. \A q \in SessionIds \ {s} : sessions'[q] = sessions[q]
  BY <1>3, <1>6 DEF StateTypeOK
<1> QED
  BY <1>1, <1>2, <1>3, <1>4, <1>5, <1>7, <1>8, NullsAssumption

\* An exchange puts the successor in the session and the old hash in its past.
LEMMA RotateAgrees ==
  ASSUME Typed, Typed', TokensPlaced, SessionsAgree, [Next]_vars,
         NEW r \in Requests, RotateSession(r)
  PROVE  SessionsAgree'
<1> DEFINE s == req[r].sid
           edge == [sid |-> s, old |-> req[r].tok, new |-> req[r].new]
<1>1. CurrentIsCurrent /\ PreviousWasExchanged
  BY DEF SessionsAgree
<1>2. /\ s \in SessionIds /\ Live(s) /\ CurrentToken(s) = req[r].tok
      /\ sessions'[s] # Absent /\ sessions'[s].user = req[r].user
      /\ sessions'[s].hash = HashOf(req[r].key, req[r].new)
      /\ sessions'[s].prevHash = sessions[s].hash
      /\ \A q \in SessionIds \ {s} : sessions'[q] = sessions[q]
      /\ lineage' = lineage \cup {edge}
  BY <1>1, SwapIs
<1>3. req[r].phase = "cas" /\ req'[r].phase \notin Placing
  <2>1. ReqOK
    BY DEF ReqOK, Typed, TypeOK
  <2> QED
    BY <2>1, EndSlot, GotoSlot DEF RotateSession, Placing, SwapPhases, Phases
<1>4. sessions'[s].hash.token = req[r].new
  BY <1>2 DEF HashOf
<1>5. edge.sid = s /\ edge.old = req[r].tok
  OBVIOUS
<1> HIDE DEF edge
<1>6. CurrentIsCurrent'
  <2>1. /\ req[r].phase \in Placing /\ Present(s)
        /\ req[r].tok # req[r].new
    BY <1>1, <1>2, <1>3, PlacingIsNew DEF Placing, SwapPhases, Live
  <2>2. \A q \in SessionIds \ {s} : Present(q) => CurrentToken(q) # req[r].tok
    BY <1>1, <1>2, <2>1, CurrentAgain
  <2>3. /\ \A e \in lineage' : e \in lineage \/ e.old = req[r].tok
        /\ req[r].tok \in Tokens \cup {NoToken}
    BY <1>1, <1>2, <1>5, SwapIs
  <2> QED
    BY <1>1, <1>2, <1>3, <1>4, <2>1, <2>2, <2>3, TokenPlaced DEF s
<1>7. PreviousWasExchanged'
  <2> SUFFICES ASSUME NEW q \in SessionIds, Present(q)', sessions'[q].prevHash # NoHash
               PROVE  \E e \in lineage' : e.sid = q /\ e.old = sessions'[q].prevHash.token
    BY DEF PreviousWasExchanged
  <2>1. CASE q = s
    BY <1>2, <1>5, <2>1 DEF CurrentToken
  <2>2. CASE q # s
    BY <1>1, <1>2, <2>2 DEF PreviousWasExchanged, Present
  <2> QED
    BY <2>1, <2>2
<1> QED
  BY <1>6, <1>7 DEF SessionsAgree

\* Every step keeps the sessions in agreement with tokens and exchanges.
LEMMA SessionsAgreeNext ==
  ASSUME Typed, Typed', TokensPlaced, SessionsAgree, [Next]_vars
  PROVE  SessionsAgree'
<1>1. CASE SessionsKept
  <2>1. OnlyGrows /\ StateTypeOK /\ CurrentIsCurrent /\ PreviousWasExchanged
    BY GrowsOnly DEF Typed, TypeOK, SessionsAgree
  <2>2. ASSUME NEW s \in SessionIds, Present(s)'
        PROVE  /\ owner'[sessions'[s].hash.token] = sessions'[s].user
               /\ \A p \in Requests : req'[p].phase \in Placing =>
                      req'[p].new # sessions'[s].hash.token
               /\ \A p \in SessionIds :
                    Present(p)' /\ sessions'[p].hash.token = sessions'[s].hash.token => p = s
               /\ \A e \in lineage' : InSession(e) => e.old # sessions'[s].hash.token
    <3>1. /\ Present(s) /\ sessions'[s].user = sessions[s].user
          /\ sessions'[s].hash.token = CurrentToken(s)
      BY <1>1, <2>2 DEF SessionsKept, CurrentToken
    <3> DEFINE t == sessions'[s].hash.token
    <3>2. t \in Tokens /\ sessions[s].user \in Users /\ t = CurrentToken(s)
      BY <2>1, <3>1, CurrentTyped
    <3> HIDE DEF t
    <3>3. /\ owner[t] = sessions[s].user /\ NotPlaced(t)
          /\ \A p \in SessionIds : Present(p) /\ CurrentToken(p) = t => p = s
          /\ \A e \in lineage : InSession(e) => e.old # t
      BY <2>1, <3>1, <3>2, CurrentAgain
    <3>4. \A p \in Requests : req'[p].phase \in Placing => req'[p].new # t
      BY <3>2, <3>3, PlacedBefore DEF NotPlaced
    <3>5. \A p \in SessionIds : Present(p)' /\ sessions'[p].hash.token = t => p = s
      BY <1>1, <3>3 DEF SessionsKept, CurrentToken
    <3>6. owner'[t] = sessions'[s].user
      BY <2>1, <3>1, <3>2, <3>3 DEF OnlyGrows
    <3>7. \A e \in lineage' : InSession(e) => e.old # t
      BY <1>1, <3>3 DEF SessionsKept
    <3> QED
      BY <3>4, <3>5, <3>6, <3>7 DEF t
  <2>3. CurrentIsCurrent'
    BY <2>2, CurrentThen
  <2>4. PreviousWasExchanged'
    BY <1>1, <2>1 DEF PreviousWasExchanged, SessionsKept, OnlyGrows
  <2> QED
    BY <2>3, <2>4 DEF SessionsAgree
<1> QED
  BY <1>1, SessionMoves, CreateAgrees, RotateAgrees

-----------------------------------------------------------------------------
(* Sessions agree with the index by user. *)

\* One handler moves at a time, except when a restart ends them all.
LEMMA OneMoves ==
  ASSUME Typed, [Next]_vars, NEW p \in Requests, NEW q \in Requests,
         req'[p] # req[p], req'[q] # req[q], req'[p].phase # "idle"
  PROVE  p = q
<1>1. ReqOK
  BY DEF ReqOK, Typed, TypeOK
<1>2. CASE UNCHANGED req
  BY <1>2
<1>3. CASE Restart
  BY <1>3 DEF Restart, Idle
<1>4. ASSUME NEW r \in Requests, Arrive(r) \/ Handle(r)
      PROVE  p = q
  BY <1>1, <1>4, OthersStay
<1> QED
  BY <1>2, <1>3, <1>4
  DEF Next, Environment, Logout, RotateKey, ExpireSession, vars

\* A login writes its session.
LEMMA CreateIs ==
  ASSUME Typed, NEW s \in SessionIds, NEW u \in Users, NEW t \in Tokens,
         NEW k \in Keys, sessions' = [sessions EXCEPT ![s] = NewSession(u, t, k)]
  PROVE  Present(s)' /\ sessions'[s].user = u
<1>1. StateTypeOK
  BY DEF Typed, TypeOK
<1>2. NewSession(u, t, k).user = u /\ NewSession(u, t, k) \in Session
  BY <1>1 DEF NewSession, Session, HashOf, Hash, Reasons, StateTypeOK
<1> QED
  BY <1>1, <1>2, NullsAssumption DEF StateTypeOK, Present

\* A session appears by a login only, and does not end while it is being created.
LEMMA PresenceMoves ==
  ASSUME Typed, TokensPlaced, CurrentIsCurrent, [Next]_vars, NEW s \in SessionIds
  PROVE  /\ Present(s)' => \/ Present(s) /\ sessions'[s].user = sessions[s].user
                           \/ FreshSid(s)
         /\ Present(s) => \/ Present(s)'
                          \/ \A q \in Requests :
                               req[q].phase \in {"index", "expire"} => req[q].sid # s
<1>1. CASE SessionsKept
  BY <1>1 DEF SessionsKept, ExpireSession, Present, Typed, TypeOK, StateTypeOK
<1>2. ASSUME NEW r \in Requests, NEW q \in SessionIds, CreateSession(r, q)
      PROVE  /\ Present(s)' => \/ Present(s) /\ sessions'[s].user = sessions[s].user
                               \/ FreshSid(s)
             /\ Present(s) => Present(s)'
  <2>1. FreshSid(q) /\ ~Present(q)
    BY <1>2 DEF CreateSession, FreshSid, Present
  <2>2. q # s => sessions'[s] = sessions[s]
    BY <1>2 DEF CreateSession, Typed, TypeOK, StateTypeOK
  <2> QED
    BY <2>1, <2>2 DEF Present
<1>3. ASSUME NEW r \in Requests, RotateSession(r)
      PROVE  /\ Present(s)' => Present(s) /\ sessions'[s].user = sessions[s].user
             /\ Present(s) => Present(s)'
  BY <1>3, SwapIs DEF Present, Live
<1> QED
  BY <1>1, <1>2, <1>3, SessionMoves

\* The index already has what a client can name.
LEMMA NamedIsNotFresh ==
  ASSUME NamedIsIndexed
  PROVE  /\ \A s \in sidsOut : ~FreshSid(s)
         /\ \A r \in Requests : req[r].phase \in {"index", "expire"}
              /\ req[r].user \in Users => ~FreshSid(req[r].sid)
BY DEF NamedIsIndexed, FreshSid, Present

\* A handler that lists a session was listing it before, or just created it.
ListedBefore(q) ==
    /\ req[q].phase \in {"index", "expire"}
    /\ req'[q].sid = req[q].sid /\ req'[q].user = req[q].user

\* How a handler comes to be listing a session.
LEMMA ListingMoves ==
  ASSUME Typed, [Next]_vars, NEW q \in Requests,
         req'[q].phase \in {"index", "expire"}
  PROVE  \/ req'[q] = req[q] \/ Lists(q)
         \/ Creates(q) /\ req'[q].phase = "index"
<1>1. SlotMove(q)
  BY SlotMoves
<1>2. CASE Stays(q)
  BY <1>2 DEF Stays, RefreshPhases, SwapPhases
<1>3. CASE Creates(q)
  BY <1>3 DEF Creates
<1>4. ~Signs(q) /\ ~Inspects(q) /\ ~Accuses(q) /\ ~LogsOutAll(q) /\ ~Reads(q) /\ ~Revokes(q)
  BY DEF Signs, Inspects, Accuses, LogsOutAll, Reads, Revokes
<1> QED
  BY <1>1, <1>2, <1>3, <1>4 DEF SlotMove

\* A session that a client can name stays listed for its user.
LEMMA NamedAgrees ==
  ASSUME Typed, Typed', TokensPlaced, CurrentIsCurrent, NamedIsIndexed, [Next]_vars
  PROVE  /\ \A s \in sidsOut' : \E u \in Users : s \in index'[u]
         /\ \A s \in sidsOut' : Present(s)' => s \in index'[sessions'[s].user]
<1>1. OnlyGrows /\ StateTypeOK /\ StateTypeOK'
  BY GrowsOnly DEF Typed, TypeOK
<1>2. ASSUME NEW s \in sidsOut
      PROVE  /\ \E u \in Users : s \in index'[u]
             /\ Present(s)' => s \in index'[sessions'[s].user]
  <2>1. \E u \in Users : s \in index'[u]
    BY <1>1 DEF NamedIsIndexed, OnlyGrows
  <2>2. CASE Present(s)'
    <3>1. s \in SessionIds /\ ~FreshSid(s)
      BY <1>1, NamedIsNotFresh DEF StateTypeOK
    <3>2. Present(s) /\ sessions'[s].user = sessions[s].user
      BY <2>2, <3>1, PresenceMoves
    <3>3. s \in index[sessions[s].user] /\ sessions[s].user \in Users
      BY <1>1, <3>1, <3>2, CurrentTyped DEF NamedIsIndexed
    <3> QED
      BY <1>1, <3>2, <3>3 DEF OnlyGrows
  <2> QED
    BY <2>1, <2>2
<1>3. ASSUME NEW r \in Requests, NEW s \in SessionIds, CreateSession(r, s),
             index' = [index EXCEPT ![req[r].user] = @ \cup {s}]
      PROVE  /\ \E u \in Users : s \in index'[u]
             /\ s \in index'[sessions'[s].user]
  <2>1. /\ req[r].phase = "create" /\ req[r].user \in Users
        /\ req[r].new \in Tokens /\ req[r].key \in Keys
    BY <1>3 DEF CreateSession, Typed, PhaseOK, LocalsOK, LoginPhases
  <2>2. sessions'[s].user = req[r].user
    BY <1>3, <2>1, CreateIs DEF CreateSession
  <2> QED
    BY <1>1, <1>3, <2>1, <2>2 DEF StateTypeOK
<1>4. ASSUME NEW r \in Requests, req[r].phase = "expire", UNCHANGED <<sessions, index>>,
             NEW s \in SessionIds, s = req[r].sid
      PROVE  /\ \E u \in Users : s \in index'[u]
             /\ Present(s)' => s \in index'[sessions'[s].user]
  <2>1. req[r].user \in Users /\ s \in index[req[r].user]
    BY <1>4 DEF Typed, PhaseOK, LocalsOK, LoginPhases, NamedIsIndexed
  <2>2. Present(s) => sessions[s].user = req[r].user
    BY <1>4 DEF NamedIsIndexed
  <2> QED
    BY <1>4, <2>1, <2>2 DEF Present
<1> SUFFICES ASSUME NEW s \in sidsOut'
             PROVE  /\ \E u \in Users : s \in index'[u]
                    /\ Present(s)' => s \in index'[sessions'[s].user]
  OBVIOUS
<1>5. s \in SessionIds
  BY <1>1 DEF StateTypeOK
<1> QED
  BY <1>2, <1>3, <1>4, <1>5, NamedMoves

\* A session being listed stays its handler's own until it is listed.
LEMMA ListingAgrees ==
  ASSUME Typed, Typed', TokensPlaced, CurrentIsCurrent, NamedIsIndexed, [Next]_vars,
         NEW q \in Requests, req'[q].phase \in {"index", "expire"},
         NEW s \in SessionIds, s = req'[q].sid
  PROVE  /\ req'[q].phase = "index" => sessions'[s] # Absent /\ s \notin sidsOut'
         /\ req'[q].phase = "expire" => s \in index'[req'[q].user]
         /\ sessions'[s] # Absent => sessions'[s].user = req'[q].user
<1>1. OnlyGrows /\ StateTypeOK
  BY GrowsOnly DEF Typed, TypeOK
<1>2. CASE req'[q] = req[q]
  <2>1. s \in SessionIds /\ s = req[q].sid /\ req[q].user \in Users
    BY <1>2 DEF Typed, PhaseOK, LocalsOK, LoginPhases
  <2>2. ~FreshSid(s)
    BY <1>2, <2>1, NamedIsNotFresh
  <2>3. sessions'[s] # Absent => sessions'[s].user = req[q].user
    BY <1>2, <2>1, <2>2, PresenceMoves DEF NamedIsIndexed, Present
  <2>4. CASE req[q].phase = "index"
    <3>1. Present(s) /\ s \notin sidsOut
      BY <2>1, <2>4 DEF NamedIsIndexed
    <3>2. sessions'[s] # Absent
      BY <2>1, <2>4, <3>1, PresenceMoves DEF Present
    <3>3. s \notin sidsOut'
      <4>1. \A r \in Requests : req[r].phase = "expire" => req[r].sid # s
        BY <2>1, <2>4 DEF NamedIsIndexed
      <4>2. \A r \in Requests, p \in SessionIds : CreateSession(r, p) => p # s
        BY <3>1 DEF CreateSession, FreshSid, Present
      <4> QED
        BY <3>1, <4>1, <4>2, NamedMoves
    <3> QED
      BY <1>2, <2>3, <2>4, <3>2, <3>3
  <2>5. CASE req[q].phase = "expire"
    BY <1>1, <1>2, <2>1, <2>3, <2>5 DEF NamedIsIndexed, OnlyGrows
  <2> QED
    BY <1>2, <2>4, <2>5
<1>3. CASE Lists(q)
  BY <1>3 DEF Lists, NamedIsIndexed, Present
<1>4. CASE Creates(q) /\ req'[q].phase = "index"
  <2>1. req[q].user \in Users /\ req[q].new \in Tokens /\ req[q].key \in Keys
    BY <1>4 DEF Creates, Typed, PhaseOK, LocalsOK, LoginPhases
  <2>2. sessions'[s] # Absent /\ sessions'[s].user = req[q].user
    BY <1>4, <2>1, CreateIs DEF Creates, Present
  <2>3. s \notin sidsOut
    BY <1>4, NamedIsNotFresh DEF Creates
  <2> QED
    BY <1>4, <2>2, <2>3 DEF Creates
<1> QED
  BY <1>2, <1>3, <1>4, ListingMoves

\* Every step keeps named sessions in the index.
LEMMA NamedIsIndexedNext ==
  ASSUME Typed, Typed', TokensPlaced, CurrentIsCurrent, NamedIsIndexed, [Next]_vars
  PROVE  NamedIsIndexed'
<1>1. ASSUME NEW p \in Requests, NEW q \in Requests,
             req'[p].phase \in {"index", "expire"},
             req'[q].phase \in {"index", "expire"},
             req'[p].sid = req'[q].sid
      PROVE  p = q
  <2>1. ASSUME NEW r \in Requests, req'[r].phase \in {"index", "expire"}
        PROVE  ListedBefore(r) \/ Creates(r)
    BY <2>1, ListingMoves DEF ListedBefore, Lists
  <2>2. ASSUME NEW r \in Requests, ListedBefore(r), req'[r].phase \in {"index", "expire"}
        PROVE  ~FreshSid(req'[r].sid)
    BY <2>2, NamedIsNotFresh
    DEF ListedBefore, Typed, PhaseOK, LocalsOK, LoginPhases
  <2>3. CASE ListedBefore(p) /\ ListedBefore(q)
    BY <1>1, <2>3 DEF ListedBefore, NamedIsIndexed
  <2>4. CASE Creates(p) /\ Creates(q)
    BY <1>1, <2>4, OneMoves DEF Creates
  <2>5. CASE ListedBefore(p) /\ Creates(q)
    BY <1>1, <2>2, <2>5 DEF Creates
  <2>6. CASE Creates(p) /\ ListedBefore(q)
    BY <1>1, <2>2, <2>6 DEF Creates
  <2> QED
    BY <1>1, <2>1, <2>3, <2>4, <2>5, <2>6
<1>2. ASSUME NEW q \in Requests, req'[q].phase \in {"index", "expire"}
      PROVE  /\ req'[q].phase = "index" =>
                  sessions'[req'[q].sid] # Absent /\ req'[q].sid \notin sidsOut'
             /\ req'[q].phase = "expire" => req'[q].sid \in index'[req'[q].user]
             /\ sessions'[req'[q].sid] # Absent =>
                  sessions'[req'[q].sid].user = req'[q].user
             /\ req'[q].sid \in SessionIds
  <2>1. req'[q].sid \in SessionIds
    BY <1>2 DEF Typed, PhaseOK, LocalsOK
  <2> QED
    BY <1>2, <2>1, ListingAgrees
<1> QED
  BY <1>1, <1>2, NamedAgrees DEF NamedIsIndexed, Present

\* Every step keeps what a revocation must reach among what it reads.
LEMMA RevocationReachesNext ==
  ASSUME Typed, Typed', NamedIsIndexed, RevocationReaches, [Next]_vars
  PROVE  RevocationReaches'
<1>1. OnlyGrows /\ StateTypeOK
  BY GrowsOnly DEF Typed, TypeOK
<1>2. ASSUME NEW u \in Users
      PROVE  OpenSessions(u) \subseteq index[u]
  BY DEF OpenSessions, NamedIsIndexed
<1>3. ASSUME NEW q \in Requests
      PROVE  /\ req'[q].phase \in RevokePhases => req'[q].seen \subseteq index'[req'[q].user]
             /\ req'[q].phase = "pipeline" => req'[q].seen \subseteq req'[q].targets
  <2>1. SlotMove(q)
    BY SlotMoves
  <2>2. CASE req'[q] = req[q]
    <3>1. req[q].phase \in RevokePhases => req[q].user \in Users
      BY DEF Typed, PhaseOK, LocalsOK
    <3> QED
      BY <1>1, <2>2, <3>1 DEF OnlyGrows, RevocationReaches
  <2>3. CASE req'[q].phase \notin RevokePhases
    BY <2>3 DEF RevokePhases
  <2>4. CASE Accuses(q) \/ LogsOutAll(q)
    BY <1>2, <2>4 DEF Accuses, LogsOutAll
  <2>5. CASE Reads(q)
    BY <2>5 DEF Reads, SameRevocation, RevocationReaches, RevokePhases
  <2>6. CASE Revokes(q)
    BY <2>6 DEF Revokes, SameRevocation, RevocationReaches, RevokePhases
  <2> QED
    BY <2>1, <2>2, <2>3, <2>4, <2>5, <2>6
    DEF SlotMove, Stays, Signs, Creates, Lists, Inspects, RevokePhases,
        RefreshPhases, SwapPhases
<1> QED
  BY <1>3 DEF RevocationReaches

\* Every step keeps the sessions in agreement with the index.
LEMMA IndexAgreesNext ==
  ASSUME Typed, Typed', TokensPlaced, SessionsAgree, IndexAgrees, [Next]_vars
  PROVE  IndexAgrees'
BY NamedIsIndexedNext, RevocationReachesNext DEF IndexAgrees, SessionsAgree

-----------------------------------------------------------------------------
(* The properties that rest on the agreement. *)

\* An accusation is made of a token that the previous hash of the session names,
\* and nothing on the way to the audit event changes whom it accuses.
LEMMA AccusationNext ==
  ASSUME Typed, PreviousWasExchanged, AccusationIsFounded, [Next]_vars
  PROVE  AccusationIsFounded'
<1>1. lineage \subseteq lineage'
  BY GrowsOnly DEF OnlyGrows
<1>2. SUFFICES ASSUME NEW q \in Requests,
                      req'[q].phase \in {"revoke", "pipeline", "audit"},
                      req'[q].reason = ReuseReason
               PROVE  \E e \in lineage : e.sid = req'[q].sid /\ e.old = req'[q].tok
  BY <1>1 DEF AccusationIsFounded
<1>3. SlotMove(q)
  BY SlotMoves
<1>4. CASE req'[q] = req[q]
  BY <1>2, <1>4 DEF AccusationIsFounded
<1>5. CASE Accuses(q)
  <2>1. req[q].sid \in SessionIds /\ HashOf(req[q].key, req[q].tok) \in Hash
    BY <1>5
    DEF Accuses, Typed, PhaseOK, LocalsOK, HashOf, Hash, RefreshPhases, SwapPhases
  <2>2. PICK e \in lineage : /\ e.sid = req[q].sid
                             /\ e.old = sessions[req[q].sid].prevHash.token
    BY <1>5, <2>1, NullsAssumption DEF Accuses, PreviousWasExchanged
  <2> QED
    BY <1>5, <2>2 DEF Accuses, HashOf
<1>6. ~LogsOutAll(q)
  BY <1>2, ReasonsAssumption DEF LogsOutAll
<1>7. CASE Reads(q)
  BY <1>2, <1>7 DEF Reads, SameRevocation, AccusationIsFounded
<1>8. CASE Revokes(q)
  BY <1>2, <1>8 DEF Revokes, SameRevocation, AccusationIsFounded
<1> QED
  BY <1>2, <1>3, <1>4, <1>5, <1>6, <1>7, <1>8
  DEF SlotMove, Stays, Signs, Creates, Lists, Inspects, RefreshPhases, SwapPhases

\* A session that is listed and not live never comes to life.
LEMMA DeadStaysDead ==
  ASSUME Typed, TokensPlaced, CurrentIsCurrent, [Next]_vars,
         NEW s \in SessionIds, ~FreshSid(s), Live(s)'
  PROVE  Live(s)
<1>1. CASE SessionsKept
  BY <1>1 DEF SessionsKept
<1>2. ASSUME NEW r \in Requests, NEW q \in SessionIds, CreateSession(r, q)
      PROVE  Live(s)
  <2>1. q # s
    BY <1>2 DEF CreateSession
  <2> QED
    BY <1>2, <2>1 DEF CreateSession, Live, Present, Typed, TypeOK, StateTypeOK
<1>3. ASSUME NEW r \in Requests, RotateSession(r)
      PROVE  Live(s)
  BY <1>3, SwapIs DEF Live, Present
<1> QED
  BY <1>1, <1>2, <1>3, SessionMoves

\* A revocation that is complete stays so until its handler answers.
LEMMA RevocationNext ==
  ASSUME Typed, TokensPlaced, CurrentIsCurrent, RevocationReaches,
         RevokeAllIsComplete, [Next]_vars
  PROVE  RevokeAllIsComplete'
<1>1. SUFFICES ASSUME NEW q \in Requests, req'[q].phase \in {"audit", "respond"},
                      NEW s \in req'[q].seen
               PROVE  ~Live(s)'
  BY DEF RevokeAllIsComplete
<1>2. SlotMove(q)
  BY SlotMoves
<1>3. CASE req'[q] = req[q]
  <2>1. req[q].user \in Users /\ s \in index[req[q].user] /\ ~Live(s)
    BY <1>1, <1>3
    DEF Typed, PhaseOK, LocalsOK, RevocationReaches, RevokePhases,
        RevokeAllIsComplete
  <2>2. s \in SessionIds /\ ~FreshSid(s)
    BY <2>1 DEF FreshSid, Typed, TypeOK, StateTypeOK
  <2> QED
    BY <2>1, <2>2, DeadStaysDead
<1>4. CASE Revokes(q)
  BY <1>1, <1>4 DEF Revokes
<1> QED
  BY <1>1, <1>2, <1>3, <1>4
  DEF SlotMove, Stays, Signs, Creates, Lists, Inspects, Accuses, LogsOutAll,
      Reads, RefreshPhases, SwapPhases

\* The token store accepts t for u, or the client knows why it does not.
Accepted(t, u) ==
    \/ t \in store[u]
    \/ t \in loggedOut
    \/ \E e \in lineage : e.sid = NoSession /\ e.old = t

\* A delivered token that no session exchanged leaves the token store only when
\* its client logs it out or refreshes it without its session.
LEMMA AcceptedStays ==
  ASSUME Typed, TokensPlaced, [Next]_vars, NEW u \in Users, NEW t \in tokensOut,
         \A e \in lineage : InSession(e) => e.old # t, Accepted(t, u)
  PROVE  Accepted(t, u)'
<1> USE DEF repo, delivered, history, Accepted
<1>a. store \in [Users -> SUBSET Tokens] /\ lineage \subseteq lineage'
  BY GrowsOnly DEF OnlyGrows, Typed, TypeOK, StateTypeOK
<1>1. CASE UNCHANGED <<store, tokensOut, loggedOut, lineage>>
  BY <1>1
<1>2. ASSUME NEW r \in Requests, NEW v \in Users, NEW n \in Tokens, Login(r, v, n)
      PROVE  Accepted(t, u)'
  BY <1>a, <1>2 DEF Login
<1>3. ASSUME NEW r \in Requests, UNCHANGED <<store, loggedOut, lineage>>
      PROVE  Accepted(t, u)'
  BY <1>3
<1>4. ASSUME NEW r \in Requests, NEW n \in Tokens, RotateInTokenStore(r, n)
      PROVE  Accepted(t, u)'
  <2> DEFINE edge == [sid |-> NoSession, old |-> req[r].tok, new |-> n]
  <2>1. /\ lineage' = lineage \cup {edge} /\ UNCHANGED loggedOut
        /\ store' = [store EXCEPT ![req[r].user] = @ \ {req[r].tok}]
    BY <1>4 DEF RotateInTokenStore, Exchange
  <2>2. edge.sid = NoSession /\ edge.old = req[r].tok
    OBVIOUS
  <2> HIDE DEF edge
  <2> QED
    BY <1>a, <2>1, <2>2
<1>5. ASSUME NEW r \in Requests, RotateSession(r)
      PROVE  Accepted(t, u)'
  BY <1>a, <1>5 DEF RotateSession
<1>6. ASSUME NEW r \in Requests, RetireOldToken(r)
      PROVE  Accepted(t, u)'
  <2> DEFINE edge == [sid |-> req[r].sid, old |-> req[r].tok, new |-> req[r].new]
  <2>1. req[r].sid \in SessionIds /\ edge \in lineage
    BY <1>6
    DEF RetireOldToken, Typed, PhaseOK, LocalsOK, TokensPlaced, HeldInLineage
  <2>2. edge.sid = req[r].sid /\ edge.old = req[r].tok
    OBVIOUS
  <2> HIDE DEF edge
  <2>3. req[r].tok # t
    BY <2>1, <2>2, NullsAssumption DEF InSession
  <2> QED
    BY <1>a, <1>6, <2>3 DEF RetireOldToken
<1>7. ASSUME NEW r \in Requests, StoreNewToken(r)
      PROVE  Accepted(t, u)'
  BY <1>a, <1>7 DEF StoreNewToken
<1>8. ASSUME NEW n \in Tokens, Logout(n)
      PROVE  Accepted(t, u)'
  BY <1>a, <1>8 DEF Logout
<1>9. CASE Restart
  BY <1>a, <1>9 DEF Restart
<1> HIDE DEF Accepted
<1> QED
  BY TokenMoves, <1>1, <1>2, <1>3, <1>4, <1>5, <1>6, <1>7, <1>8, <1>9

\* A token is delivered only when the token store accepts it.
LEMMA DeliveredIsAccepted ==
  ASSUME Typed, TokensPlaced, [Next]_vars, NEW u \in Users, NEW t \in Tokens,
         t \notin tokensOut, t \in tokensOut', owner[t] = u
  PROVE  t \in store'[u]
<1> USE DEF delivered, history
<1>1. ASSUME NEW r \in Requests, req[r].phase \in LoginPhases,
             tokensOut' = tokensOut \cup {req[r].new}, UNCHANGED store
      PROVE  t \in store'[u]
  <2>1. t = req[r].new
    BY <1>1
  <2>2. req[r].user = u
    BY <1>1, <2>1 DEF Typed, SignedForUser
  <2> QED
    BY <1>1, <2>1, <2>2 DEF TokensPlaced, HeldInStore
<1>2. ASSUME NEW r \in Requests, StoreNewToken(r)
      PROVE  t \in store'[u]
  <2>1. t = req[r].new /\ req[r].phase = "store"
    BY <1>2 DEF StoreNewToken
  <2>2. req[r].user = u
    BY <2>1 DEF Typed, SignedForUser, SuccessorPhases
  <2> QED
    BY <1>2, <2>1, <2>2 DEF StoreNewToken, Typed, TypeOK, StateTypeOK
<1> QED
  BY TokenMoves, <1>1, <1>2
  DEF Login, RotateInTokenStore, RotateSession, RetireOldToken, Logout, Restart

\* Every step keeps the two stores in agreement.
LEMMA DeliveredNext ==
  ASSUME Typed, TokensPlaced, CurrentIsCurrent, DeliveredCurrentTokenIsStored,
         [Next]_vars
  PROVE  DeliveredCurrentTokenIsStored'
<1> DEFINE Then(t, u) == \/ t \in store'[u]
                         \/ t \in loggedOut'
                         \/ \E e \in lineage' : e.sid = NoSession /\ e.old = t
<1> SUFFICES ASSUME NEW s \in SessionIds, Live(s)',
                    sessions'[s].hash.token \in tokensOut'
             PROVE  Then(sessions'[s].hash.token, sessions'[s].user)
  BY DEF DeliveredCurrentTokenIsStored, CurrentToken
<1>1. ASSUME NEW t, NEW u,
             t = sessions'[s].hash.token, u = sessions'[s].user,
             Live(s), t = CurrentToken(s), u = sessions[s].user
      PROVE  Then(t, u)
  <2>1. t \in Tokens /\ u \in Users
    BY <1>1, CurrentTyped DEF Live, Typed, TypeOK
  <2>2. owner[t] = u /\ \A e \in lineage : InSession(e) => e.old # t
    BY <1>1, CurrentAgain DEF Live
  <2>3. CASE t \in tokensOut
    <3>1. Accepted(t, u)
      BY <1>1, <2>3 DEF DeliveredCurrentTokenIsStored, Accepted
    <3> QED
      BY <2>1, <2>2, <2>3, <3>1, AcceptedStays DEF Accepted
  <2>4. CASE t \notin tokensOut
    BY <1>1, <2>1, <2>2, <2>4, DeliveredIsAccepted
  <2> QED
    BY <2>3, <2>4
<1>2. ASSUME Live(s), sessions'[s].hash = sessions[s].hash,
             sessions'[s].user = sessions[s].user
      PROVE  Then(sessions'[s].hash.token, sessions'[s].user)
  BY <1>1, <1>2 DEF CurrentToken
<1>3. CASE SessionsKept
  BY <1>2, <1>3 DEF SessionsKept, Live
<1>4. ASSUME NEW r \in Requests, NEW q \in SessionIds, CreateSession(r, q)
      PROVE  Then(sessions'[s].hash.token, sessions'[s].user)
  <2>1. /\ req[r].phase = "create" /\ req[r].user \in Users
        /\ req[r].new \in Tokens /\ store' = store
        /\ sessions' = [sessions EXCEPT ![q] =
                           NewSession(req[r].user, req[r].new, req[r].key)]
    BY <1>4 DEF CreateSession, Typed, PhaseOK, LocalsOK, LoginPhases
  <2>2. /\ sessions'[q].user = req[r].user
        /\ sessions'[q].hash.token = req[r].new
    <3>1. StateTypeOK
      BY DEF Typed, TypeOK
    <3> QED
      BY <2>1, <3>1 DEF NewSession, HashOf, StateTypeOK
  <2>3. CASE s = q
    BY <2>1, <2>2, <2>3
    DEF TokensPlaced, HeldInStore, LoginPhases
  <2>4. CASE s # q
    BY <1>2, <2>1, <2>4 DEF Live, Present, Typed, TypeOK, StateTypeOK
  <2> QED
    BY <2>3, <2>4
<1>5. ASSUME NEW r \in Requests, RotateSession(r)
      PROVE  Then(sessions'[s].hash.token, sessions'[s].user)
  <2>1. /\ sessions'[req[r].sid].hash = HashOf(req[r].key, req[r].new)
        /\ \A p \in SessionIds \ {req[r].sid} : sessions'[p] = sessions[p]
    BY <1>5, SwapIs
  <2>2. CASE s = req[r].sid
    <3>1. req[r].new \in Tokens /\ Holds(r, req[r].new) /\ tokensOut' = tokensOut
      BY <1>5
      DEF RotateSession, Holds, SuccessorPhases, SwapPhases, Typed, PhaseOK,
          LocalsOK, delivered
    <3> QED
      BY <2>1, <2>2, <3>1 DEF TokensPlaced, HeldIsPrivate, HashOf
  <2>3. CASE s # req[r].sid
    BY <1>2, <2>1, <2>3 DEF Live, Present
  <2> QED
    BY <2>2, <2>3
<1> QED
  BY <1>3, <1>4, <1>5, SessionMoves

-----------------------------------------------------------------------------
(* The invariants of the specification. *)

\* The inductive invariant: types and locals, where tokens may be, and how the
\* sessions agree with the exchanges and with the index.
THEOREM RotationInvariant == Spec => []IInv
<1>1. Init => SessionsAgree /\ IndexAgrees
  BY DEF Init, SessionsAgree, CurrentIsCurrent, PreviousWasExchanged, IndexAgrees,
         NamedIsIndexed, RevocationReaches, Present, Idle, RevokePhases
<1>2. /\ Typed /\ TokensPlaced /\ SessionsAgree /\ IndexAgrees
      /\ [Next]_vars /\ (Typed /\ TokensPlaced)'
      => (SessionsAgree /\ IndexAgrees)'
  BY SessionsAgreeNext, IndexAgreesNext
<1>3. Typed /\ TokensPlaced /\ SessionsAgree /\ IndexAgrees => IInv
  BY DEF IInv
<1> QED
  BY <1>1, <1>2, <1>3, TokensInvariant, PTL DEF Spec

\* No false accusation, whatever the clients send: an honest client is never
\* logged out of all its sessions for a token that was not exchanged.
THEOREM AccusationFounded == Spec => []AccusationIsFounded
<1>1. Init => AccusationIsFounded
  BY DEF Init, AccusationIsFounded, Idle
<1>2. IInv /\ AccusationIsFounded /\ [Next]_vars => AccusationIsFounded'
  BY AccusationNext DEF IInv, SessionsAgree
<1> QED
  BY <1>1, <1>2, RotationInvariant, PTL DEF Spec

\* The two stores agree: a session whose token was delivered can be refreshed.
THEOREM DeliveredCurrentStored == Spec => []DeliveredCurrentTokenIsStored
<1>1. Init => DeliveredCurrentTokenIsStored
  BY DEF Init, DeliveredCurrentTokenIsStored, Live, Present
<1>2. IInv /\ DeliveredCurrentTokenIsStored /\ [Next]_vars
      => DeliveredCurrentTokenIsStored'
  BY DeliveredNext DEF IInv, SessionsAgree
<1> QED
  BY <1>1, <1>2, RotationInvariant, PTL DEF Spec

\* A revocation that answers has reached every session the user could name when
\* it was decided, but those whose command in the pipeline failed.
THEOREM RevokeAllComplete == Spec => []RevokeAllIsComplete
<1>1. Init => RevokeAllIsComplete
  BY DEF Init, RevokeAllIsComplete, Idle
<1>2. IInv /\ RevokeAllIsComplete /\ [Next]_vars => RevokeAllIsComplete'
  BY RevocationNext DEF IInv, SessionsAgree, IndexAgrees
<1> QED
  BY <1>1, <1>2, RotationInvariant, PTL DEF Spec

-----------------------------------------------------------------------------
(* What holds where no command is refused, no reply lost and no process      *)
(* restarted between an exchange and its delivery.                           *)

\* The successor of an exchange was delivered, or its handler still holds it.
ExchangeIsHeld ==
    \A e \in lineage :
        \/ e.new \in tokensOut
        \/ \E q \in Requests : /\ req[q].phase \in {"retire", "store"}
                               /\ req[q].new = e.new

\* A request arrives in a free slot.
LEMMA ArrivesInIdle ==
  ASSUME NEW r \in Requests, Arrive(r)
  PROVE  req[r].phase = "idle"
<1>1. req[r] = Idle
  BY DEF Arrive, Login, BeginRefresh, LogoutAll
<1> QED
  BY <1>1 DEF Idle

\* A handler that exchanged a token keeps the successor until it delivers it.
LEMMA ExchangeHeldNext ==
  ASSUME Typed, Faults \cap {"reply_lost", "restart"} = {}, ExchangeIsHeld, [Next]_vars
  PROVE  ExchangeIsHeld'
<1> USE DEF repo, delivered, history
<1>a. ReqOK /\ req \in [Requests -> Request]
  BY DEF ReqOK, Typed, TypeOK
<1>1. tokensOut \subseteq tokensOut'
  BY TokenMoves
  DEF Login, RotateInTokenStore, RotateSession, RetireOldToken, StoreNewToken,
      Logout, Restart
<1>2. ASSUME NEW q \in Requests, req[q].phase \in {"retire", "store"}
      PROVE  \/ req[q].new \in tokensOut'
             \/ req'[q].phase \in {"retire", "store"} /\ req'[q].new = req[q].new
  <2>1. CASE UNCHANGED req
    BY <1>2, <2>1
  <2>2. ~Restart
    BY DEF Restart
  <2>3. ASSUME NEW r \in Requests, Arrive(r)
        PROVE  req'[q] = req[q]
    <3>1. q # r
      BY <1>2, <2>3, ArrivesInIdle
    <3> QED
      BY <1>a, <2>3, <3>1, OthersStay
  <2>4. ASSUME NEW r \in Requests, Handle(r)
        PROVE  \/ req[q].new \in tokensOut'
               \/ req'[q].phase \in {"retire", "store"} /\ req'[q].new = req[q].new
    <3>1. CASE q # r
      BY <1>2, <1>a, <2>4, <3>1, OthersStay
    <3>2. CASE q = r
      <4>1. RetireOldToken(q) \/ StoreNewToken(q)
        BY <1>2, <2>4, <3>2
        DEF Handle, CreateSession, IndexSession, SetSessionTtl,
            CreateSessionFails, EarlyReuseCheck, ValidateRefreshToken,
            RotateInTokenStore, MintForSession, RotateSession,
            RotateSessionFails, InspectSession, RevokeAllForUser, ReadMembers,
            RevokeMembers, AuditReuse, RespondLogoutAll, CommandRefused
      <4> QED
        BY <1>a, <4>1, GotoSlot DEF RetireOldToken, StoreNewToken, Phases
    <3> QED
      BY <3>1, <3>2
  <2> QED
    BY <1>2, <2>1, <2>2, <2>3, <2>4
    DEF Next, Environment, Logout, RotateKey, ExpireSession, vars
<1>3. \/ UNCHANGED lineage
      \/ \E r \in Requests, n \in Tokens : RotateInTokenStore(r, n)
      \/ \E r \in Requests : RotateSession(r)
  BY TokenMoves DEF Login, RetireOldToken, StoreNewToken, Logout, Restart
<1>4. ASSUME NEW r \in Requests, NEW n \in Tokens, RotateInTokenStore(r, n)
      PROVE  /\ req'[r].phase = "store" /\ req'[r].new = n
             /\ \A e \in lineage' : e \in lineage \/ e.new = n
  BY <1>a, <1>4 DEF RotateInTokenStore, Exchange, Request
<1>5. ASSUME NEW r \in Requests, RotateSession(r)
      PROVE  /\ req'[r].phase = "retire" /\ req'[r].new = req[r].new
             /\ \A e \in lineage' : e \in lineage \/ e.new = req[r].new
  <2>1. \A e \in lineage' : e \in lineage \/ e.new = req[r].new
    BY <1>5 DEF RotateSession, Exchange
  <2>2. Goto(r, "retire")
    BY <1>5 DEF RotateSession
  <2> QED
    BY <1>a, <2>1, <2>2, GotoSlot DEF Phases
<1>6. ASSUME NEW e \in lineage
      PROVE  \/ e.new \in tokensOut'
             \/ \E q \in Requests : /\ req'[q].phase \in {"retire", "store"}
                                    /\ req'[q].new = e.new
  BY <1>1, <1>2 DEF ExchangeIsHeld
<1> QED
  BY <1>3, <1>4, <1>5, <1>6 DEF ExchangeIsHeld

\* A refresh that was never granted is not punished: the token of an accused
\* handler has a successor that its client has, or is about to get.
THEOREM ReplacedTokensAccused ==
  ASSUME Faults \cap {"reply_lost", "restart"} = {}
  PROVE  Spec => []OnlyReplacedTokensAreAccused
<1>1. Init => ExchangeIsHeld
  BY DEF Init, ExchangeIsHeld
<1>2. IInv /\ ExchangeIsHeld /\ [Next]_vars => ExchangeIsHeld'
  BY ExchangeHeldNext DEF IInv
<1>3. AccusationIsFounded /\ ExchangeIsHeld => OnlyReplacedTokensAreAccused
  BY DEF AccusationIsFounded, ExchangeIsHeld, OnlyReplacedTokensAreAccused
<1> QED
  BY <1>1, <1>2, <1>3, RotationInvariant, AccusationFounded, PTL DEF Spec
=============================================================================
