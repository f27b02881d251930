------------------------ MODULE RefreshRotationTokens ------------------------
(***************************************************************************)
(* The first two layers of the inductive invariant of RefreshRotation, for *)
(* every set of users, tokens, sessions, requests and keys, every backend  *)
(* and every set of faults: types and the locals of handlers, then where a *)
(* token may be; and the properties of the token store that follow.        *)
(***************************************************************************)
EXTENDS RefreshRotationInv, TLAPS

ReqOK == req \in [Requests -> Request] /\ PhaseOK

\* The free slot is a legal request.
LEMMA IdleOK == Idle \in Request /\ LocalsOK(Idle)
  BY DEF Idle, Request, Phases, LocalsOK, LoginPhases, SwapPhases,
         RefreshPhases, RevokePhases, SuccessorPhases

\* A step writes one slot, with a legal handler.
LEMMA SetRequest ==
  ASSUME ReqOK, NEW r \in Requests, NEW q \in Request, LocalsOK(q),
         req' = [req EXCEPT ![r] = q]
  PROVE  ReqOK'
  BY DEF ReqOK, PhaseOK, LocalsOK

\* Freeing a slot keeps the other handlers legal.
LEMMA EndOK ==
  ASSUME ReqOK, NEW r \in Requests, End(r)
  PROVE  ReqOK'
  BY SetRequest, IdleOK DEF End

\* Moving to another phase keeps the locals.
LEMMA GotoOK ==
  ASSUME ReqOK, NEW r \in Requests, NEW p \in Phases, Goto(r, p),
         LocalsOK([req[r] EXCEPT !.phase = p])
  PROVE  ReqOK'
  <1>1. [req[r] EXCEPT !.phase = p] \in Request
    BY DEF ReqOK, Request
  <1> QED
    BY <1>1, SetRequest DEF Goto

\* What a handler in each phase can rely on.
LEMMA LocalsInPhase ==
  ASSUME ReqOK, NEW r \in Requests
  PROVE  req[r] \in Request /\ LocalsOK(req[r])
  BY DEF ReqOK, PhaseOK

\* Freeing a slot changes no other slot.
LEMMA EndSlot ==
  ASSUME ReqOK, NEW r \in Requests, End(r)
  PROVE  /\ req'[r] = Idle /\ req'[r].phase = "idle"
         /\ \A p \in Requests \ {r} : req'[p] = req[p]
  BY DEF End, ReqOK, Idle

\* Moving on changes the phase of one slot and nothing else.
LEMMA GotoSlot ==
  ASSUME ReqOK, NEW r \in Requests, NEW p \in Phases, Goto(r, p)
  PROVE  /\ req'[r] = [req[r] EXCEPT !.phase = p] /\ req'[r].phase = p
         /\ req'[r].user = req[r].user /\ req'[r].new = req[r].new
         /\ req'[r].tok = req[r].tok /\ req'[r].sid = req[r].sid
         /\ req'[r].reason = req[r].reason /\ req'[r].key = req[r].key
         /\ req'[r].seen = req[r].seen /\ req'[r].targets = req[r].targets
         /\ \A q \in Requests \ {r} : req'[q] = req[q]
  BY DEF Goto, ReqOK, Request

\* The verdict on a failed swap ends the handler or sends it to revoke.
LEMMA JudgeReuseSlot ==
  ASSUME ReqOK, NEW r \in Requests, JudgeReuse(r)
  PROVE  /\ req'[r].phase \in {"idle", "revoke"}
         /\ \A q \in Requests \ {r} : req'[q] = req[q]
  <1>1. CASE End(r)
    BY <1>1, EndSlot
  <1> DEFINE s == req[r].sid
             q == [req[r] EXCEPT !.phase = "revoke",
                                 !.user = sessions[s].user,
                                 !.reason = ReuseReason,
                                 !.seen = OpenSessions(sessions[s].user)]
  <1>2. CASE req' = [req EXCEPT ![r] = q]
    <2>1. q.phase = "revoke"
      BY DEF ReqOK, Request
    <2> HIDE DEF q
    <2> QED
      BY <1>2, <2>1 DEF ReqOK
  <1> QED
    BY <1>1, <1>2 DEF JudgeReuse

\* Revoking touches one field of records.
LEMMA RevokeInTyped ==
  ASSUME StateTypeOK, NEW S, NEW reason \in Reasons, RevokeIn(S, reason)
  PROVE  sessions' \in [SessionIds -> Session \cup {Absent}]
  <1> SUFFICES ASSUME NEW s \in SessionIds, Present(s)
               PROVE  [sessions[s] EXCEPT !.revoked = reason] \in Session
    BY DEF RevokeIn, StateTypeOK
  <1> QED
    BY DEF StateTypeOK, Session, Present

\* The verdict on a failed swap is to end, or to revoke for the session's user.
LEMMA JudgeReuseOK ==
  ASSUME StateTypeOK, ReqOK, NEW r \in Requests, JudgeReuse(r)
  PROVE  ReqOK'
  <1> DEFINE s == req[r].sid
             q == [req[r] EXCEPT !.phase = "revoke",
                                 !.user = sessions[s].user,
                                 !.reason = ReuseReason,
                                 !.seen = OpenSessions(sessions[s].user)]
  <1>1. CASE End(r)
    BY <1>1, EndOK
  <1>2. CASE Present(s) /\ req' = [req EXCEPT ![r] = q]
    <2>1. sessions[s].user \in Users
      BY <1>2, NullsAssumption DEF StateTypeOK, Present, Session
    <2>2. OpenSessions(sessions[s].user) \in SUBSET SessionIds
      BY DEF OpenSessions, Present
    <2>3. q \in Request
      BY <2>1, <2>2, LocalsInPhase DEF Request, Phases, Reasons
    <2>4. LocalsOK(q)
      BY <2>1, <2>3, LocalsInPhase
      DEF LocalsOK, LoginPhases, SwapPhases, RefreshPhases, RevokePhases,
          SuccessorPhases, Request, Reasons
    <2> QED
      BY <1>2, <2>3, <2>4, SetRequest
  <1> QED
    BY <1>1, <1>2 DEF JudgeReuse

\* The service starts well typed, with every slot free.
LEMMA InitTyped == Init => Typed
  <1> SUFFICES ASSUME Init PROVE Typed
    OBVIOUS
  <1>1. StateTypeOK
    BY DEF Init, StateTypeOK
  <1>2. req \in [Requests -> Request] /\ PhaseOK
    BY IdleOK DEF Init, PhaseOK
  <1>3. SignedForUser
    BY DEF Init, SignedForUser, Idle, LoginPhases, SwapPhases, SuccessorPhases
  <1> QED
    BY <1>1, <1>2, <1>3 DEF Typed, TypeOK

\* Every step keeps the types, the locals each phase needs, and that delivered
\* tokens were signed for a user.
LEMMA NextTyped == Typed /\ [Next]_vars => Typed'
  <1> SUFFICES ASSUME Typed, [Next]_vars PROVE Typed'
    OBVIOUS
  <1> USE DEF Typed, repo, delivered, history
  <1>a. ReqOK
    BY DEF ReqOK, TypeOK
  <1>b. ASSUME StateTypeOK', ReqOK', SignedForUser' PROVE Typed'
    BY <1>b DEF ReqOK, TypeOK
  <1>1. ASSUME NEW r \in Requests, NEW u \in Users, NEW t \in Tokens,
               Login(r, u, t)
        PROVE  Typed'
    <2>1. StateTypeOK'
      BY <1>1 DEF TypeOK, StateTypeOK, Login, Sign
    <2> DEFINE q == [Idle EXCEPT !.phase = "create", !.user = u, !.new = t,
                               !.key = primary]
    <2>2. q \in Request /\ LocalsOK(q)
      <3>1. primary \in Keys
        BY DEF TypeOK, StateTypeOK
      <3> QED
        BY <1>a, <3>1
        DEF LocalsOK, SwapPhases, RefreshPhases, RevokePhases, Request, Phases,
            Idle
    <2>3. req' = [req EXCEPT ![r] = q]
      BY <1>1 DEF Login
    <2>4. ReqOK'
      BY <1>a, <2>2, <2>3, SetRequest
    <2>5. SignedForUser'
      BY <1>1, <1>a, LocalsInPhase, NullsAssumption
      DEF LocalsOK, RefreshPhases, Login, Sign, Fresh, SignedForUser, TypeOK,
          StateTypeOK, SuccessorPhases
    <2> QED
      BY <2>1, <2>4, <2>5, <1>b
  <1>2. ASSUME NEW r \in Requests, NEW t \in Tokens,
               NEW s \in SessionIds \cup {NoSession},
               BeginRefresh(r, t, s)
        PROVE  Typed'
    <2>1. StateTypeOK'
      BY <1>2 DEF TypeOK, StateTypeOK, BeginRefresh
    <2> DEFINE q == [Idle EXCEPT
               !.phase = IF s = NoSession THEN "validate" ELSE "early",
               !.user = owner[t], !.tok = t, !.sid = s]
    <2>2. q \in Request /\ LocalsOK(q)
      <3>1. /\ owner[t] \in Users /\ t \in Tokens
            /\ s \in SessionIds \cup {NoSession}
        BY <1>2 DEF BeginRefresh, SignedForUser
      <3>2. q \in Request
        BY <3>1, IdleOK DEF Request, Phases
      <3>3. /\ q.phase = IF s = NoSession THEN "validate" ELSE "early"
            /\ q.user = owner[t] /\ q.tok = t /\ q.sid = s
        BY DEF Idle
      <3> HIDE DEF q
      <3> QED
        BY <3>1, <3>2, <3>3
        DEF LocalsOK, LoginPhases, SwapPhases, RefreshPhases,
           RevokePhases, SuccessorPhases
    <2>3. req' = [req EXCEPT ![r] = q]
      BY <1>2 DEF BeginRefresh
    <2>4. ReqOK'
      BY <1>a, <2>2, <2>3, SetRequest
    <2>5. SignedForUser'
      BY <1>2
      DEF BeginRefresh, SignedForUser, LoginPhases, SwapPhases, SuccessorPhases
    <2> QED
      BY <2>1, <2>4, <2>5, <1>b
  <1>3. ASSUME NEW r \in Requests, NEW u \in Users, NEW reason \in LogoutReasons,
               LogoutAll(r, u, reason)
        PROVE  Typed'
    <2>1. StateTypeOK'
      BY <1>3 DEF TypeOK, StateTypeOK, LogoutAll
    <2> DEFINE q == [Idle EXCEPT !.phase = "revoke", !.user = u,
                             !.reason = reason,
                             !.seen = OpenSessions(u)]
    <2>2. q \in Request /\ LocalsOK(q)
      BY <1>a
      DEF LocalsOK, LoginPhases, SwapPhases, RefreshPhases, SuccessorPhases,
          Request, Phases, TypeOK, StateTypeOK, Idle, OpenSessions, Reasons
    <2>3. req' = [req EXCEPT ![r] = q]
      BY <1>3 DEF LogoutAll
    <2>4. ReqOK'
      BY <1>a, <2>2, <2>3, SetRequest
    <2>5. SignedForUser'
      BY <1>3
      DEF LogoutAll, SignedForUser, LoginPhases, SwapPhases, SuccessorPhases
    <2> QED
      BY <2>1, <2>4, <2>5, <1>b
  <1>4. ASSUME NEW r \in Requests, NEW s \in SessionIds,
               CreateSession(r, s)
        PROVE  Typed'
    <2>1. StateTypeOK'
      BY <1>4, <1>a, LocalsInPhase
      DEF TypeOK, StateTypeOK, CreateSession, LoginReturns, NewSession, HashOf,
          Session, Hash, LocalsOK, LoginPhases
    <2> DEFINE q == [req[r] EXCEPT !.phase = "index", !.sid = s]
    <2>3. ASSUME End(r) PROVE ReqOK'
      BY <2>3, <1>a, EndOK
    <2>4. ASSUME req' = [req EXCEPT ![r] = q] PROVE ReqOK'
      <3>1. q \in Request
        BY <1>a, LocalsInPhase DEF Request, Phases
      <3>2. LocalsOK(q)
        BY <1>4, <1>a, LocalsInPhase
        DEF CreateSession, LocalsOK, LoginPhases, SwapPhases, RefreshPhases,
            RevokePhases, SuccessorPhases, Request
      <3> QED
        BY <1>a, <2>4, <3>1, <3>2, SetRequest
    <2>5. ReqOK'
      BY <1>4, <2>3, <2>4 DEF CreateSession, LoginReturns
    <2>5a. \/ End(r)
          \/ req' = [req EXCEPT ![r] = q]
      BY <1>4 DEF CreateSession, LoginReturns
    <2>6. SignedForUser'
      <3>1. q.phase = "index" /\ q.new = req[r].new /\ q.user = req[r].user
        BY <1>a, LocalsInPhase DEF Request
      <3> HIDE DEF q
      <3>2. \/ req'[r].phase = "idle"
            \/ /\ req'[r].phase = "index" /\ req'[r].new = req[r].new
               /\ req'[r].user = req[r].user
        BY <2>5a, <3>1, <1>a, EndSlot DEF ReqOK
      <3>3. \A p \in Requests \ {r} : req'[p] = req[p]
        BY <2>5a, <1>a, EndSlot DEF ReqOK
      <3>4. tokensOut' \subseteq tokensOut \cup {req[r].new} /\ owner' = owner
        BY <1>4 DEF CreateSession, LoginReturns
      <3>5. owner[req[r].new] = req[r].user /\ req[r].user \in Users
        BY <1>4, <1>a, LocalsInPhase
        DEF CreateSession, SignedForUser, LocalsOK, LoginPhases
      <3> QED
        BY <3>2, <3>3, <3>4, <3>5
        DEF SignedForUser, LoginPhases, SuccessorPhases, SwapPhases
    <2> QED
      BY <2>1, <2>5, <2>6, <1>b
  <1>5. ASSUME NEW r \in Requests,
               IndexSession(r)
        PROVE  Typed'
    <2>1. StateTypeOK'
      BY <1>5, <1>a, LocalsInPhase
      DEF TypeOK, StateTypeOK, IndexSession, LoginReturns, LocalsOK,
          LoginPhases
    <2>4. ReqOK'
      BY <1>a, <1>5, EndOK, GotoOK, LocalsInPhase
      DEF IndexSession, LocalsOK, LoginPhases, SwapPhases, RefreshPhases,
          RevokePhases, Phases, LoginReturns
    <2>5. SignedForUser'
      BY <1>5, <1>a, LocalsInPhase
      DEF LocalsOK, IndexSession, LoginReturns, SignedForUser, TypeOK, End,
          Goto, Idle, LoginPhases, SwapPhases, SuccessorPhases, Request
    <2> QED
      BY <2>1, <2>4, <2>5, <1>b
  <1>6. ASSUME NEW r \in Requests,
               SetSessionTtl(r)
        PROVE  Typed'
    <2>1. StateTypeOK'
      BY <1>6, <1>a, LocalsInPhase
      DEF TypeOK, StateTypeOK, SetSessionTtl, LoginReturns, LocalsOK,
          LoginPhases
    <2>4. ReqOK'
      BY <1>a, <1>6, EndOK DEF SetSessionTtl, LoginReturns
    <2>5. SignedForUser'
      BY <1>6, <1>a, LocalsInPhase
      DEF LocalsOK, RefreshPhases, SetSessionTtl, LoginReturns, SignedForUser,
          TypeOK, End, Idle, LoginPhases, SwapPhases, SuccessorPhases
    <2> QED
      BY <2>1, <2>4, <2>5, <1>b
  <1>7. ASSUME NEW r \in Requests,
               CreateSessionFails(r)
        PROVE  Typed'
    <2>1. StateTypeOK'
      BY <1>7, <1>a, LocalsInPhase
      DEF TypeOK, StateTypeOK, CreateSessionFails, LoginReturns, LocalsOK,
          LoginPhases
    <2>4. ReqOK'
      BY <1>a, <1>7, EndOK DEF CreateSessionFails, LoginReturns
    <2>5. SignedForUser'
      BY <1>7, <1>a, LocalsInPhase
      DEF LocalsOK, CreateSessionFails, LoginReturns, SignedForUser, End, Idle,
          LoginPhases, SwapPhases, SuccessorPhases
    <2> QED
      BY <2>1, <2>4, <2>5, <1>b
  <1>8. ASSUME NEW r \in Requests,
               EarlyReuseCheck(r)
        PROVE  Typed'
    <2>1. StateTypeOK'
      BY <1>8, RevokeInTyped DEF TypeOK, StateTypeOK, EarlyReuseCheck, Reasons
    <2>4. ReqOK'
      BY <1>a, <1>8, GotoOK, LocalsInPhase
      DEF EarlyReuseCheck, LocalsOK, LoginPhases, SwapPhases, RefreshPhases,
          RevokePhases, SuccessorPhases, Phases
    <2>5. SignedForUser'
      BY <1>8
      DEF EarlyReuseCheck, SignedForUser, Goto, LoginPhases, SwapPhases,
          SuccessorPhases
    <2> QED
      BY <2>1, <2>4, <2>5, <1>b
  <1>9. ASSUME NEW r \in Requests,
               ValidateRefreshToken(r)
        PROVE  Typed'
    <2>1. StateTypeOK'
      BY <1>9 DEF TypeOK, StateTypeOK, ValidateRefreshToken
    <2>4. ReqOK'
      BY <1>a, <1>9, EndOK, GotoOK, LocalsInPhase
      DEF ValidateRefreshToken, LocalsOK, LoginPhases, SwapPhases,
          RefreshPhases, RevokePhases, SuccessorPhases, Phases
    <2>5. SignedForUser'
      BY <1>9
      DEF ValidateRefreshToken, SignedForUser, TypeOK, End, Goto, Idle,
          LoginPhases, SwapPhases, SuccessorPhases, Request
    <2> QED
      BY <2>1, <2>4, <2>5, <1>b
  <1>10. ASSUME NEW r \in Requests, NEW n \in Tokens,
               RotateInTokenStore(r, n)
        PROVE  Typed'
    <2>1. StateTypeOK'
      BY <1>10, <1>a, LocalsInPhase
      DEF TypeOK, StateTypeOK, RotateInTokenStore, Sign, Exchange, Edge,
          LocalsOK, RefreshPhases
    <2> DEFINE q == [req[r] EXCEPT !.phase = "store", !.new = n]
    <2>2. q \in Request /\ LocalsOK(q)
      <3>1. /\ req[r].user \in Users /\ req[r].tok \in Tokens
            /\ req[r] \in Request
        BY <1>10, <1>a, LocalsInPhase
        DEF RotateInTokenStore, LocalsOK, RefreshPhases
      <3>2. q \in Request
        BY <3>1 DEF Request, Phases
      <3>3. /\ q.phase = "store" /\ q.new = n
            /\ q.user = req[r].user /\ q.tok = req[r].tok
        BY <3>1 DEF Request
      <3> HIDE DEF q
      <3> QED
        BY <3>1, <3>2, <3>3
        DEF LocalsOK, LoginPhases, SwapPhases, RefreshPhases, RevokePhases,
            SuccessorPhases
    <2>3. req' = [req EXCEPT ![r] = q]
      BY <1>10 DEF RotateInTokenStore
    <2>4. ReqOK'
      BY <1>a, <2>2, <2>3, SetRequest
    <2>5. SignedForUser'
      BY <1>10, <1>a, LocalsInPhase, NullsAssumption
      DEF LocalsOK, RefreshPhases, RotateInTokenStore, Sign, Fresh,
          SignedForUser, TypeOK, StateTypeOK, SuccessorPhases
    <2> QED
      BY <2>1, <2>4, <2>5, <1>b
  <1>11. ASSUME NEW r \in Requests, NEW n \in Tokens,
               MintForSession(r, n)
        PROVE  Typed'
    <2>1. StateTypeOK'
      BY <1>11 DEF TypeOK, StateTypeOK, MintForSession, Sign, Request
    <2> DEFINE q == [req[r] EXCEPT !.phase = "cas", !.new = n, !.key = primary]
    <2>2. q \in Request /\ LocalsOK(q)
      BY <1>11, <1>a, LocalsInPhase, IdleOK
      DEF MintForSession, LocalsOK, RefreshPhases, RevokePhases, Request,
          Phases, TypeOK, StateTypeOK
    <2>3. req' = [req EXCEPT ![r] = q]
      BY <1>11 DEF MintForSession
    <2>4. ReqOK'
      BY <1>a, <2>2, <2>3, SetRequest
    <2>5. SignedForUser'
      BY <1>11, <1>a, LocalsInPhase, NullsAssumption
      DEF LocalsOK, RefreshPhases, MintForSession, Sign, Fresh, SignedForUser,
          TypeOK, StateTypeOK, SuccessorPhases
    <2> QED
      BY <2>1, <2>4, <2>5, <1>b
  <1>12. ASSUME NEW r \in Requests,
               RotateSession(r)
        PROVE  Typed'
    <2>1. StateTypeOK'
      <3>1. sessions[req[r].sid] \in Session /\ req[r].sid \in SessionIds
        BY <1>12, NullsAssumption
        DEF RotateSession, CasMatches, Live, Present, TypeOK, StateTypeOK
      <3>2. req[r].key \in Keys /\ req[r].new \in Tokens /\ req[r].tok \in Tokens
        BY <1>12, <1>a, LocalsInPhase
        DEF RotateSession, LocalsOK, SuccessorPhases, SwapPhases, RefreshPhases
      <3>3. sessions' \in [SessionIds -> Session \cup {Absent}]
        BY <1>12, <3>1, <3>2
        DEF RotateSession, TypeOK, StateTypeOK, Session, Hash, HashOf
      <3>4. lineage' \in SUBSET Edge
        BY <1>12, <3>1, <3>2
        DEF RotateSession, Exchange, TypeOK, StateTypeOK, Edge
      <3> QED
        BY <1>12, <3>3, <3>4 DEF RotateSession, TypeOK, StateTypeOK
    <2>4. ReqOK'
      BY <1>a, <1>12, EndOK, GotoOK, LocalsInPhase
      DEF RotateSession, LocalsOK, SwapPhases, RefreshPhases, RevokePhases,
          SuccessorPhases, Phases
    <2>5. SignedForUser'
      BY <1>12
      DEF RotateSession, SignedForUser, TypeOK, End, Goto, Idle, LoginPhases,
          SwapPhases, SuccessorPhases, Request
    <2> QED
      BY <2>1, <2>4, <2>5, <1>b
  <1>13. ASSUME NEW r \in Requests,
               RotateSessionFails(r)
        PROVE  Typed'
    <2>1. StateTypeOK'
      BY <1>13 DEF TypeOK, StateTypeOK, RotateSessionFails
    <2>4. ReqOK'
      BY <1>a, <1>13, GotoOK, LocalsInPhase, JudgeReuseOK
      DEF RotateSessionFails, LocalsOK, SwapPhases, RefreshPhases,
          RevokePhases, SuccessorPhases, Phases, TypeOK
    <2>5. SignedForUser'
      <3>1. CASE Backend = "postgres"
        <4>1. "inspect" \in Phases /\ Goto(r, "inspect")
          BY <3>1, <1>13 DEF RotateSessionFails, Phases
        <4>2. /\ req'[r].new = req[r].new /\ req'[r].user = req[r].user
              /\ \A q \in Requests \ {r} : req'[q] = req[q]
          BY <4>1, <1>a, GotoSlot
        <4>3. /\ req[r].phase = "cas"
              /\ UNCHANGED <<owner, tokensOut>>
          BY <1>13 DEF RotateSessionFails
        <4> QED
          BY <4>2, <4>3 DEF SignedForUser, SwapPhases, SuccessorPhases
      <3>2. CASE Backend # "postgres"
        BY <3>2, <1>13, <1>a, JudgeReuseSlot
        DEF RotateSessionFails, SignedForUser, LoginPhases, SwapPhases,
            SuccessorPhases
      <3> QED
        BY <3>1, <3>2
    <2> QED
      BY <2>1, <2>4, <2>5, <1>b
  <1>14. ASSUME NEW r \in Requests,
               InspectSession(r)
        PROVE  Typed'
    <2>1. StateTypeOK'
      BY <1>14 DEF TypeOK, StateTypeOK, InspectSession
    <2>4. ReqOK'
      BY <1>a, <1>14, JudgeReuseOK DEF InspectSession, TypeOK
    <2>5. SignedForUser'
      BY <1>14, <1>a, JudgeReuseSlot, GotoSlot
      DEF InspectSession, SignedForUser, Phases, LoginPhases, SwapPhases,
          SuccessorPhases
    <2> QED
      BY <2>1, <2>4, <2>5, <1>b
  <1>15. ASSUME NEW r \in Requests,
               RetireOldToken(r)
        PROVE  Typed'
    <2>1. StateTypeOK'
      BY <1>15 DEF TypeOK, StateTypeOK, RetireOldToken
    <2>4. ReqOK'
      BY <1>a, <1>15, GotoOK, LocalsInPhase
      DEF RetireOldToken, LocalsOK, SwapPhases, RefreshPhases, RevokePhases,
          SuccessorPhases, Phases
    <2>5. SignedForUser'
      BY <1>15 DEF RetireOldToken, SignedForUser, Goto, SuccessorPhases
    <2> QED
      BY <2>1, <2>4, <2>5, <1>b
  <1>16. ASSUME NEW r \in Requests,
               StoreNewToken(r)
        PROVE  Typed'
    <2>1. StateTypeOK'
      BY <1>16, <1>a, LocalsInPhase
      DEF TypeOK, StateTypeOK, StoreNewToken, LocalsOK, SuccessorPhases
    <2>4. ReqOK'
      BY <1>a, <1>16, EndOK DEF StoreNewToken
    <2>5. SignedForUser'
      BY <1>16, <1>a, LocalsInPhase
      DEF LocalsOK, RefreshPhases, StoreNewToken, SignedForUser, End, Idle,
          LoginPhases, SwapPhases, SuccessorPhases
    <2> QED
      BY <2>1, <2>4, <2>5, <1>b
  <1>17. ASSUME NEW r \in Requests,
               RevokeAllForUser(r)
        PROVE  Typed'
    <2>1. StateTypeOK'
      BY <1>17, <1>a, LocalsInPhase, RevokeInTyped
      DEF TypeOK, StateTypeOK, RevokeAllForUser, LocalsOK, RevokePhases
    <2>4. ReqOK'
      BY <1>a, <1>17, EndOK, GotoOK, LocalsInPhase
      DEF RevokeAllForUser, LocalsOK, LoginPhases, SwapPhases, RefreshPhases,
          RevokePhases, SuccessorPhases, Phases, AfterRevocation
    <2>5. SignedForUser'
      <3>1. AfterRevocation(r) \in {"audit", "respond"}
        BY DEF AfterRevocation
      <3>2. /\ req'[r].phase \in {"audit", "respond", "idle"}
            /\ \A p \in Requests \ {r} : req'[p] = req[p]
        BY <3>1, <1>17, <1>a, EndSlot, GotoSlot DEF RevokeAllForUser, Phases
      <3> QED
        BY <3>2, <1>17
        DEF RevokeAllForUser, SignedForUser, LoginPhases, SwapPhases,
            SuccessorPhases
    <2> QED
      BY <2>1, <2>4, <2>5, <1>b
  <1>18. ASSUME NEW r \in Requests,
               ReadMembers(r)
        PROVE  Typed'
    <2>1. StateTypeOK'
      BY <1>18 DEF TypeOK, StateTypeOK, ReadMembers
    <2> DEFINE q == [req[r] EXCEPT !.phase = "pipeline",
                                   !.targets = index[req[r].user]]
    <2>2. ASSUME Goto(r, AfterRevocation(r)) PROVE ReqOK'
      BY <1>18, <2>2, <1>a, GotoOK, LocalsInPhase
      DEF ReadMembers, AfterRevocation, Phases, Request, LocalsOK, LoginPhases,
          SwapPhases, RefreshPhases, RevokePhases, SuccessorPhases
    <2>3. ASSUME req' = [req EXCEPT ![r] = q] PROVE ReqOK'
      <3>1. req[r].user \in Users
        BY <1>18, <1>a, LocalsInPhase DEF ReadMembers, LocalsOK, RevokePhases
      <3>2. q \in Request
        <4>1. req[r] \in Request /\ index[req[r].user] \in SUBSET SessionIds
          BY <3>1, <1>a, LocalsInPhase DEF TypeOK, StateTypeOK
        <4>2. "pipeline" \in Phases
          BY DEF Phases
        <4> QED
          BY <4>1, <4>2 DEF Request
      <3>3. /\ q.phase = "pipeline" /\ q.user = req[r].user
            /\ q.reason = req[r].reason
        BY <1>a, LocalsInPhase DEF Request
      <3>4. req[r].reason \in Reasons
        BY <1>18, <1>a, LocalsInPhase DEF ReadMembers, LocalsOK, RevokePhases
      <3> HIDE DEF q
      <3>5. LocalsOK(q)
        BY <3>1, <3>3, <3>4
        DEF LocalsOK, LoginPhases, SwapPhases, RefreshPhases, RevokePhases,
            SuccessorPhases
      <3> QED
        BY <2>3, <3>2, <3>5, <1>a, SetRequest
    <2>4. ReqOK'
      BY <1>18, <2>2, <2>3 DEF ReadMembers
    <2>5. SignedForUser'
      <3>1. q.phase = "pipeline"
        BY <1>a, LocalsInPhase DEF Request
      <3>2. ASSUME Goto(r, AfterRevocation(r))
            PROVE  /\ req'[r].phase \in {"pipeline", "audit", "respond"}
                   /\ \A p \in Requests \ {r} : req'[p] = req[p]
        BY <3>2, <1>a, GotoSlot DEF AfterRevocation, Phases
      <3> HIDE DEF q
      <3>3. ASSUME req' = [req EXCEPT ![r] = q]
            PROVE  /\ req'[r].phase \in {"pipeline", "audit", "respond"}
                   /\ \A p \in Requests \ {r} : req'[p] = req[p]
        BY <3>1, <3>3, <1>a DEF ReqOK
      <3>4. Goto(r, AfterRevocation(r)) \/ req' = [req EXCEPT ![r] = q]
        BY <1>18 DEF ReadMembers, q
      <3> QED
        BY <3>2, <3>3, <3>4, <1>18
        DEF ReadMembers, SignedForUser, LoginPhases, SwapPhases, SuccessorPhases
    <2> QED
      BY <2>1, <2>4, <2>5, <1>b
  <1>19. ASSUME NEW r \in Requests,
               RevokeMembers(r)
        PROVE  Typed'
    <2>1. StateTypeOK'
      BY <1>19, <1>a, LocalsInPhase, RevokeInTyped
      DEF TypeOK, StateTypeOK, RevokeMembers, LocalsOK, RevokePhases
    <2>2. ASSUME NEW failed \in SUBSET req[r].targets,
                 req' = [req EXCEPT ![r] = [@ EXCEPT
                           !.phase = AfterRevocation(r),
                           !.seen = req[r].seen \ failed]]
          PROVE  ReqOK'
      <3> DEFINE q == [req[r] EXCEPT !.phase = AfterRevocation(r),
                                     !.seen = req[r].seen \ failed]
      <3>4. AfterRevocation(r) \in Phases
        BY DEF AfterRevocation, Phases
      <3>5. req[r] \in Request /\ req[r].seen \ failed \in SUBSET SessionIds
        BY <1>a, LocalsInPhase DEF Request
      <3> HIDE DEF AfterRevocation, Phases
      <3>1. q \in Request
        BY <3>4, <3>5 DEF Request
      <3>2. LocalsOK(q)
        BY <1>a, <1>19, <3>1, LocalsInPhase
        DEF RevokeMembers, LocalsOK, LoginPhases, SwapPhases, RefreshPhases,
            RevokePhases, SuccessorPhases, Request, AfterRevocation
      <3>3. req' = [req EXCEPT ![r] = q]
        BY <2>2
      <3> HIDE DEF q
      <3> QED
        BY <1>a, <3>1, <3>2, <3>3, SetRequest
    <2>4. ReqOK'
      BY <1>a, <1>19, <2>2, EndOK DEF RevokeMembers
    <2>3. ASSUME NEW failed \in SUBSET req[r].targets,
                 req' = [req EXCEPT ![r] = [@ EXCEPT
                            !.phase = AfterRevocation(r),
                            !.seen = req[r].seen \ failed]]
          PROVE  /\ req'[r].phase \in {"idle", "audit", "respond"}
                 /\ \A q \in Requests \ {r} : req'[q] = req[q]
      BY <2>3, <1>a DEF ReqOK, Request, AfterRevocation
    <2>6. /\ req'[r].phase \in {"idle", "audit", "respond"}
          /\ \A q \in Requests \ {r} : req'[q] = req[q]
          /\ UNCHANGED <<tokensOut, owner>>
      BY <1>19, <1>a, <2>3, EndSlot DEF RevokeMembers
    <2>5. SignedForUser'
      BY <2>6 DEF SignedForUser, LoginPhases, SwapPhases, SuccessorPhases
    <2> QED
      BY <2>1, <2>4, <2>5, <1>b
  <1>20. ASSUME NEW r \in Requests,
               AuditReuse(r)
        PROVE  Typed'
    <2>1. StateTypeOK'
      BY <1>20, <1>a, LocalsInPhase
      DEF TypeOK, StateTypeOK, AuditReuse, LocalsOK, RevokePhases
    <2>4. ReqOK'
      BY <1>a, <1>20, EndOK DEF AuditReuse
    <2>5. SignedForUser'
      BY <1>20
      DEF AuditReuse, SignedForUser, End, Idle, LoginPhases, SwapPhases,
          SuccessorPhases
    <2> QED
      BY <2>1, <2>4, <2>5, <1>b
  <1>21. ASSUME NEW r \in Requests,
               RespondLogoutAll(r)
        PROVE  Typed'
    <2>1. StateTypeOK'
      BY <1>21 DEF TypeOK, StateTypeOK, RespondLogoutAll
    <2>4. ReqOK'
      BY <1>a, <1>21, EndOK DEF RespondLogoutAll
    <2>5. SignedForUser'
      BY <1>21
      DEF RespondLogoutAll, SignedForUser, End, Idle, LoginPhases, SwapPhases,
          SuccessorPhases
    <2> QED
      BY <2>1, <2>4, <2>5, <1>b
  <1>22. ASSUME NEW r \in Requests,
               CommandRefused(r)
        PROVE  Typed'
    <2>1. StateTypeOK'
      BY <1>22 DEF TypeOK, StateTypeOK, CommandRefused
    <2>4. ReqOK'
      BY <1>a, <1>22, EndOK DEF CommandRefused
    <2>5. SignedForUser'
      BY <1>22
      DEF CommandRefused, SignedForUser, End, Idle, LoginPhases, SwapPhases,
          SuccessorPhases
    <2> QED
      BY <2>1, <2>4, <2>5, <1>b
  <1>23. ASSUME NEW t \in Tokens,
               Logout(t)
        PROVE  Typed'
    <2>1. StateTypeOK'
      BY <1>23 DEF TypeOK, StateTypeOK, Logout
    <2>4. ReqOK'
      BY <1>a, <1>23 DEF Logout, ReqOK, PhaseOK, LocalsOK
    <2>5. SignedForUser'
      BY <1>23 DEF Logout, SignedForUser
    <2> QED
      BY <2>1, <2>4, <2>5, <1>b
  <1>24. ASSUME NEW k \in Keys,
               RotateKey(k)
        PROVE  Typed'
    <2>1. StateTypeOK'
      BY <1>24 DEF TypeOK, StateTypeOK, RotateKey
    <2>4. ReqOK'
      BY <1>a, <1>24 DEF RotateKey, ReqOK, PhaseOK, LocalsOK
    <2>5. SignedForUser'
      BY <1>24 DEF RotateKey, SignedForUser
    <2> QED
      BY <2>1, <2>4, <2>5, <1>b
  <1>25. ASSUME NEW s \in SessionIds,
               ExpireSession(s)
        PROVE  Typed'
    <2>1. StateTypeOK'
      BY <1>25 DEF TypeOK, StateTypeOK, ExpireSession
    <2>4. ReqOK'
      BY <1>a, <1>25 DEF ExpireSession, ReqOK, PhaseOK, LocalsOK
    <2>5. SignedForUser'
      BY <1>25 DEF ExpireSession, SignedForUser
    <2> QED
      BY <2>1, <2>4, <2>5, <1>b
  <1>27. CASE Restart
    <2>1. StateTypeOK'
      BY <1>27 DEF TypeOK, StateTypeOK, Restart
    <2>4. ReqOK'
      BY <1>27, IdleOK DEF Restart, ReqOK, PhaseOK
    <2>5. SignedForUser'
      BY <1>27
      DEF Restart, SignedForUser, Idle, LoginPhases, SwapPhases, SuccessorPhases
    <2> QED
      BY <2>1, <2>4, <2>5, <1>b
  <1>26. CASE UNCHANGED vars
    BY <1>26 DEF vars, TypeOK, StateTypeOK, PhaseOK, LocalsOK, SignedForUser
  <1> QED
    BY <1>1, <1>2, <1>3, <1>4, <1>5, <1>6, <1>7, <1>8, <1>9, <1>10, <1>11,
       <1>12, <1>13, <1>14, <1>15, <1>16, <1>17, <1>18, <1>19, <1>20, <1>21,
       <1>22, <1>23, <1>24, <1>25, <1>26, <1>27
    DEF Next, Arrive, Handle, Environment

-----------------------------------------------------------------------------
(* Where a token may be. *)

Unsigned == {"early", "validate", "mint"}

\* A slot that a step leaves in the same stage of the same handler, or ends, or
\* sends to revoke sessions.
SlotKept(r) ==
    \/ req'[r].phase \in {"idle"} \cup RevokePhases
    \/ /\ req'[r].user = req[r].user /\ req'[r].new = req[r].new
       /\ req'[r].tok = req[r].tok
       /\ req'[r].sid = req[r].sid \/ req[r].phase \in LoginPhases
       /\ \/ req'[r].phase = req[r].phase
          \/ req[r].phase \in LoginPhases /\ req'[r].phase \in LoginPhases
          \/ req[r].phase \in Unsigned /\ req'[r].phase \in Unsigned
          \/ req[r].phase \in SwapPhases /\ req'[r].phase \in SwapPhases

\* A step that only moves handlers within their stages places no token.
LEMMA NeutralStep ==
  ASSUME TokensPlaced, UNCHANGED <<owner, store, tokensOut, loggedOut, lineage>>,
         \A r \in Requests : SlotKept(r)
  PROVE  TokensPlaced'
  <1> USE DEF TokensPlaced, SlotKept, LoginPhases, SwapPhases, SuccessorPhases,
              RefreshPhases, RevokePhases, Unsigned
  <1>1. StoredForOwner'
    BY DEF StoredForOwner
  <1>2. \A r \in Requests, t \in Tokens : Holds(r, t)' => Holds(r, t)
    BY DEF Holds
  <1>3. HeldIsPrivate'
    BY <1>2 DEF HeldIsPrivate
  <1>4. HeldInStore'
    BY DEF HeldInStore
  <1>5. RefreshesDelivered'
    BY DEF RefreshesDelivered
  <1>6. ExchangesDelivered'
    BY DEF ExchangesDelivered
  <1>7. HeldInLineage'
    <2>1. ASSUME NEW r \in Requests, req'[r].phase = "retire"
          PROVE  /\ req[r].phase = "retire" /\ req'[r].sid = req[r].sid
                 /\ req'[r].tok = req[r].tok /\ req'[r].new = req[r].new
      BY <2>1
    <2>2. ASSUME NEW r \in Requests, req'[r].phase = "store"
          PROVE  /\ req[r].phase = "store"
                 /\ req'[r].tok = req[r].tok /\ req'[r].new = req[r].new
      BY <2>2
    <2>3. ASSUME NEW r \in Requests, req'[r].phase \in LoginPhases \cup SwapPhases
          PROVE  /\ req[r].phase \in LoginPhases \cup SwapPhases
                 /\ req'[r].new = req[r].new
      BY <2>3
    <2> HIDE DEF SlotKept, LoginPhases, SwapPhases
    <2>4. lineage' = lineage /\ store' = store /\ HeldInLineage
      OBVIOUS
    <2> SUFFICES ASSUME NEW r \in Requests
                 PROVE  /\ req'[r].phase = "retire" =>
                             [sid |-> req'[r].sid, old |-> req'[r].tok,
                              new |-> req'[r].new] \in lineage'
                        /\ req'[r].phase = "store" =>
                             /\ \E e \in lineage' : /\ e.old = req'[r].tok
                                                   /\ e.new = req'[r].new
                             /\ \A u \in Users : req'[r].tok \notin store'[u]
                        /\ req'[r].phase \in LoginPhases \cup SwapPhases =>
                             \A e \in lineage' : e.new # req'[r].new
      BY DEF HeldInLineage
    <2>5. CASE req'[r].phase = "retire"
      BY <2>1, <2>4, <2>5 DEF HeldInLineage, LoginPhases, SwapPhases
    <2>6. CASE req'[r].phase = "store"
      BY <2>2, <2>4, <2>6 DEF HeldInLineage, LoginPhases, SwapPhases
    <2>7. CASE req'[r].phase \in LoginPhases \cup SwapPhases
      BY <2>3, <2>4, <2>7 DEF HeldInLineage, LoginPhases, SwapPhases
    <2> QED
      BY <2>5, <2>6, <2>7
  <1> QED
    BY <1>1, <1>3, <1>4, <1>5, <1>6, <1>7

\* A token that was never signed is nowhere.
LEMMA FreshIsNowhere ==
  ASSUME Typed, TokensPlaced, NEW t \in Tokens, Fresh(t)
  PROVE  /\ t \notin tokensOut
         /\ \A u \in Users : t \notin store[u]
         /\ \A e \in lineage : e.old # t /\ e.new # t
         /\ \A r \in Requests : ~Holds(r, t)
  <1>1. owner[t] \notin Users
    BY NullsAssumption DEF Fresh
  <1>2. \A r \in Requests : ~Holds(r, t)
    BY <1>1
    DEF Typed, PhaseOK, LocalsOK, SignedForUser, Holds, SuccessorPhases,
        RefreshPhases
  <1> QED
    BY <1>1, <1>2
    DEF Typed, SignedForUser, TokensPlaced, StoredForOwner, ExchangesDelivered

-----------------------------------------------------------------------------
(* The steps that move tokens, one lemma each. *)

\* Init places no token.
LEMMA InitTokensPlaced == Init => TokensPlaced
  BY DEF Init, TokensPlaced, StoredForOwner, HeldIsPrivate, HeldInStore,
         RefreshesDelivered, ExchangesDelivered, HeldInLineage, Holds, Idle,
         LoginPhases, SwapPhases, SuccessorPhases, RefreshPhases

\* A login signs a token nobody has, and the store accepts it at once.
LEMMA LoginPlaces ==
  ASSUME Typed, TokensPlaced, NEW r \in Requests, NEW u \in Users,
         NEW t \in Tokens,
               Login(r, u, t)
  PROVE  TokensPlaced'
  <1> USE DEF TokensPlaced
  <1>1. /\ req'[r].phase = "create" /\ req'[r].user = u /\ req'[r].new = t
        /\ \A q \in Requests \ {r} : req'[q] = req[q]
    BY DEF Login, Typed, TypeOK, Idle
  <1>2. /\ owner' = [owner EXCEPT ![t] = u]
        /\ owner \in [Tokens -> Users \cup {NoUser}]
        /\ store' = [store EXCEPT ![u] = @ \cup {t}]
        /\ store \in [Users -> SUBSET Tokens]
        /\ UNCHANGED <<tokensOut, loggedOut, lineage>>
        /\ lineage \subseteq Edge /\ tokensOut \subseteq Tokens
    BY DEF Login, Sign, delivered, history, Typed, TypeOK, StateTypeOK
  <1>3. /\ t \notin tokensOut
        /\ \A v \in Users : t \notin store[v]
        /\ \A e \in lineage : e.old # t /\ e.new # t
        /\ \A q \in Requests : ~Holds(q, t)
    BY FreshIsNowhere DEF Login
  <1>4. StoredForOwner'
    BY <1>2, <1>3 DEF StoredForOwner
  <1>5. HeldIsPrivate'
    BY <1>1, <1>2, <1>3 DEF HeldIsPrivate, Holds
  <1>6. HeldInStore'
    <2>1. \A q \in Requests \ {r} :
              req[q].phase \in LoginPhases => req[q].user \in Users
      BY DEF Typed, PhaseOK, LocalsOK
    <2>2. \A q \in Requests \ {r} :
              req[q].phase \in SuccessorPhases => req[q].new # t
      BY <1>3 DEF Holds
    <2> QED
      BY <1>1, <1>2, <2>1, <2>2
      DEF HeldInStore, LoginPhases, SuccessorPhases, SwapPhases
  <1>7. RefreshesDelivered'
    BY <1>1, <1>2, <1>3 DEF RefreshesDelivered, RefreshPhases, SwapPhases
  <1>8. ExchangesDelivered'
    BY <1>2, <1>3 DEF ExchangesDelivered, Edge
  <1>9. HeldInLineage'
    <2>1. \A q \in Requests \ {r} : req[q].phase = "store" => req[q].tok # t
      BY <1>3 DEF RefreshesDelivered, RefreshPhases
    <2> QED
      BY <1>1, <1>2, <1>3, <2>1
      DEF HeldInLineage, LoginPhases, SwapPhases
  <1> QED
    BY <1>4, <1>5, <1>6, <1>7, <1>8, <1>9

\* The handler of a login returns: its token, stored since the start, is
\* delivered.
LEMMA LoginReturnPlaces ==
  ASSUME Typed, TokensPlaced, NEW r \in Requests, NEW sids,
         req[r].phase \in LoginPhases, LoginReturns(r, sids),
         UNCHANGED <<owner, store, loggedOut, lineage>>
  PROVE  TokensPlaced'
  <1> USE DEF TokensPlaced
  <1>1. /\ req'[r].phase = "idle" /\ \A q \in Requests \ {r} : req'[q] = req[q]
        /\ tokensOut' = tokensOut \cup {req[r].new}
    BY EndSlot DEF LoginReturns, Typed, TypeOK, ReqOK
  <1>2. Holds(r, req[r].new) /\ req[r].new \in Tokens
    BY DEF Holds, Typed, PhaseOK, LocalsOK
  <1>4. StoredForOwner'
    BY DEF StoredForOwner
  <1>5. HeldIsPrivate'
    <2>1. \A q \in Requests, t \in Tokens : Holds(q, t)' => q # r /\ Holds(q, t)
      BY <1>1 DEF Holds, LoginPhases, SuccessorPhases, SwapPhases
    <2> QED
      BY <1>1, <1>2, <2>1 DEF HeldIsPrivate
  <1>6. HeldInStore'
    BY <1>1 DEF HeldInStore, LoginPhases, SuccessorPhases, SwapPhases
  <1>7. RefreshesDelivered'
    BY <1>1 DEF RefreshesDelivered, RefreshPhases, SwapPhases
  <1>8. ExchangesDelivered'
    BY <1>1 DEF ExchangesDelivered
  <1>9. HeldInLineage'
    BY <1>1 DEF HeldInLineage, LoginPhases, SwapPhases
  <1> QED
    BY <1>4, <1>5, <1>6, <1>7, <1>8, <1>9

\* A refresh begins on a token its client holds.
LEMMA BeginRefreshPlaces ==
  ASSUME Typed, TokensPlaced, NEW r \in Requests, NEW t \in Tokens,
         NEW s \in SessionIds \cup {NoSession}, BeginRefresh(r, t, s)
  PROVE  TokensPlaced'
  <1> USE DEF TokensPlaced
  <1>1. /\ req'[r].phase \in Unsigned /\ req'[r].tok = t
        /\ req'[r].user = owner[t] /\ t \in tokensOut
        /\ \A q \in Requests \ {r} : req'[q] = req[q]
        /\ UNCHANGED <<owner, store, tokensOut, loggedOut, lineage>>
    BY DEF BeginRefresh, Typed, TypeOK, Idle, Unsigned, delivered, history
  <1>2. \A q \in Requests, v \in Tokens : Holds(q, v)' => Holds(q, v)
    BY <1>1 DEF Holds, LoginPhases, SuccessorPhases, SwapPhases, Unsigned
  <1>3. HeldIsPrivate'
    BY <1>1, <1>2 DEF HeldIsPrivate
  <1> QED
    BY <1>1, <1>3
    DEF StoredForOwner, HeldInStore, RefreshesDelivered, ExchangesDelivered,
        HeldInLineage, LoginPhases, SuccessorPhases, SwapPhases, Unsigned

\* Without a session: sign the successor, retire the old token, make the edge.
LEMMA RotateInTokenStorePlaces ==
  ASSUME Typed, TokensPlaced, NEW r \in Requests, NEW n \in Tokens,
         RotateInTokenStore(r, n)
  PROVE  TokensPlaced'
  <1> USE DEF TokensPlaced
  <1> DEFINE edge == [sid |-> NoSession, old |-> req[r].tok, new |-> n]
  <1>1. /\ req'[r].phase = "store" /\ req'[r].user = req[r].user
        /\ req'[r].new = n /\ req'[r].tok = req[r].tok
        /\ req[r].phase = "mint"
        /\ \A q \in Requests \ {r} : req'[q] = req[q]
    BY DEF RotateInTokenStore, Typed, TypeOK, Request
  <1>2. req[r].user \in Users /\ req[r].tok \in Tokens
    BY <1>1 DEF Typed, PhaseOK, LocalsOK, RefreshPhases
  <1>3. /\ owner' = [owner EXCEPT ![n] = req[r].user]
        /\ owner \in [Tokens -> Users \cup {NoUser}]
        /\ store' = [store EXCEPT ![req[r].user] = @ \ {req[r].tok}]
        /\ store \in [Users -> SUBSET Tokens]
        /\ lineage' = lineage \cup {edge}
        /\ UNCHANGED <<tokensOut, loggedOut>>
        /\ lineage \subseteq Edge /\ tokensOut \subseteq Tokens
    BY DEF RotateInTokenStore, Sign, Exchange, delivered, Typed, TypeOK,
       StateTypeOK
  <1>4. /\ n \notin tokensOut
        /\ \A v \in Users : n \notin store[v]
        /\ \A e \in lineage : e.old # n /\ e.new # n
        /\ \A q \in Requests : ~Holds(q, n)
    BY FreshIsNowhere DEF RotateInTokenStore
  <1>5. req[r].tok \in tokensOut /\ owner[req[r].tok] = req[r].user
    BY <1>1 DEF RefreshesDelivered, RefreshPhases
  <1>6. \A u \in Users : req[r].tok \notin store'[u]
    BY <1>2, <1>3, <1>5 DEF StoredForOwner
  <1>7. edge.old = req[r].tok /\ edge.new = n
    OBVIOUS
  <1> HIDE DEF edge
  <1>8. StoredForOwner'
    BY <1>2, <1>3, <1>4 DEF StoredForOwner
  <1>9. HeldIsPrivate'
    BY <1>1, <1>3, <1>4 DEF HeldIsPrivate, Holds
  <1>10. HeldInStore'
    <2>1. \A q \in Requests \ {r} : req[q].phase \in LoginPhases =>
             /\ req[q].user \in Users /\ req[q].new \notin tokensOut
             /\ req[q].new \in Tokens
      BY DEF Typed, PhaseOK, LocalsOK, HeldIsPrivate, Holds
    <2> QED
      BY <1>1, <1>2, <1>3, <1>4, <1>5, <2>1
      DEF HeldInStore, LoginPhases, SuccessorPhases, SwapPhases
  <1>11. RefreshesDelivered'
    BY <1>1, <1>3, <1>4, <1>5 DEF RefreshesDelivered, RefreshPhases, SwapPhases
  <1>12. ExchangesDelivered'
    BY <1>2, <1>3, <1>4, <1>5, <1>7 DEF ExchangesDelivered, Edge
  <1>13. HeldInLineage'
    <2>1. \A q \in Requests \ {r} : req[q].phase \in LoginPhases \cup SwapPhases
                                      => req[q].new # n
      BY <1>4 DEF Holds, SuccessorPhases
    <2> QED
      BY <1>1, <1>2, <1>3, <1>6, <1>7, <2>1
      DEF HeldInLineage, LoginPhases, SwapPhases
  <1> QED
    BY <1>8, <1>9, <1>10, <1>11, <1>12, <1>13

\* With a session: the successor is signed, and held by its handler alone.
LEMMA MintForSessionPlaces ==
  ASSUME Typed, TokensPlaced, NEW r \in Requests, NEW n \in Tokens,
         MintForSession(r, n)
  PROVE  TokensPlaced'
  <1> USE DEF TokensPlaced
  <1>1. /\ req'[r].phase = "cas" /\ req'[r].user = req[r].user
        /\ req'[r].new = n /\ req'[r].tok = req[r].tok
        /\ req[r].phase = "mint"
        /\ \A q \in Requests \ {r} : req'[q] = req[q]
    BY DEF MintForSession, Typed, TypeOK, Request
  <1>2. /\ owner' = [owner EXCEPT ![n] = req[r].user]
        /\ owner \in [Tokens -> Users \cup {NoUser}]
        /\ UNCHANGED <<store, tokensOut, loggedOut, lineage>>
        /\ store \in [Users -> SUBSET Tokens]
        /\ lineage \subseteq Edge /\ tokensOut \subseteq Tokens
    BY DEF MintForSession, Sign, delivered, history, Typed, TypeOK, StateTypeOK
  <1>3. /\ n \notin tokensOut
        /\ \A v \in Users : n \notin store[v]
        /\ \A e \in lineage : e.old # n /\ e.new # n
        /\ \A q \in Requests : ~Holds(q, n)
    BY FreshIsNowhere DEF MintForSession
  <1>4. StoredForOwner'
    BY <1>2, <1>3 DEF StoredForOwner
  <1>5. HeldIsPrivate'
    BY <1>1, <1>2, <1>3 DEF HeldIsPrivate, Holds
  <1>6. HeldInStore'
    BY <1>1, <1>2, <1>3
    DEF HeldInStore, LoginPhases, SuccessorPhases, SwapPhases
  <1>7. RefreshesDelivered'
    BY <1>1, <1>2, <1>3 DEF RefreshesDelivered, RefreshPhases, SwapPhases
  <1>8. ExchangesDelivered'
    BY <1>2, <1>3, NullsAssumption DEF ExchangesDelivered, Edge
  <1>9. HeldInLineage'
    BY <1>1, <1>2, <1>3 DEF HeldInLineage, LoginPhases, SwapPhases
  <1> QED
    BY <1>4, <1>5, <1>6, <1>7, <1>8, <1>9

\* With a session: the compare-and-swap makes the edge, then the handler goes on
\* or, when the reply is lost, throws.
LEMMA RotateSessionPlaces ==
  ASSUME Typed, TokensPlaced, NEW r \in Requests, RotateSession(r)
  PROVE  TokensPlaced'
  <1> USE DEF TokensPlaced
  <1> DEFINE edge == [sid |-> req[r].sid, old |-> req[r].tok, new |-> req[r].new]
  <1>1. /\ req[r].phase = "cas"
        /\ lineage' = lineage \cup {edge}
        /\ UNCHANGED <<owner, store, tokensOut, loggedOut>>
    BY DEF RotateSession, Exchange, delivered
  <1>2. /\ \/ req'[r].phase = "idle"
           \/ /\ req'[r].phase = "retire" /\ req'[r].user = req[r].user
              /\ req'[r].new = req[r].new /\ req'[r].tok = req[r].tok
              /\ req'[r].sid = req[r].sid
        /\ \A q \in Requests \ {r} : req'[q] = req[q]
    BY EndSlot, GotoSlot DEF RotateSession, Typed, TypeOK, ReqOK, Phases
  <1>3. Holds(r, req[r].new) /\ req[r].new \in Tokens /\ req[r].user \in Users
    BY <1>1
    DEF Holds, Typed, PhaseOK, LocalsOK, SuccessorPhases, SwapPhases,
        RefreshPhases
  <1>4. req[r].tok \in tokensOut
    BY <1>1 DEF RefreshesDelivered, RefreshPhases, SwapPhases
  <1>5. edge.sid = req[r].sid /\ edge.old = req[r].tok /\ edge.new = req[r].new
    OBVIOUS
  <1>a. edge = [sid |-> req[r].sid, old |-> req[r].tok, new |-> req[r].new]
    OBVIOUS
  <1> HIDE DEF edge
  <1>6. StoredForOwner'
    BY <1>1 DEF StoredForOwner
  <1>7. HeldIsPrivate'
    <2>1. \A q \in Requests, t \in Tokens : Holds(q, t)' => Holds(q, t)
      BY <1>1, <1>2 DEF Holds, LoginPhases, SuccessorPhases, SwapPhases
    <2> QED
      BY <1>1, <2>1 DEF HeldIsPrivate
  <1>8. HeldInStore'
    BY <1>1, <1>2 DEF HeldInStore, LoginPhases, SuccessorPhases, SwapPhases
  <1>9. RefreshesDelivered'
    BY <1>1, <1>2 DEF RefreshesDelivered, RefreshPhases, SwapPhases
  <1>10. ExchangesDelivered'
    <2>1. \A e \in lineage : e.new # req[r].new
      BY <1>1 DEF HeldInLineage, SwapPhases
    <2>2. owner[req[r].new] \in Users
      BY <1>1, <1>3 DEF Typed, SignedForUser, SuccessorPhases, SwapPhases
    <2> QED
      BY <1>1, <1>4, <1>5, <2>1, <2>2 DEF ExchangesDelivered
  <1>11. HeldInLineage'
    <2>1. \A q \in Requests \ {r} : req[q].phase \in LoginPhases \cup SwapPhases
                                      => req[q].new # req[r].new
      BY <1>3 DEF HeldIsPrivate, Holds, SuccessorPhases
    <2> QED
      BY <1>1, <1>2, <1>5, <1>a, <2>1 DEF HeldInLineage, LoginPhases, SwapPhases
  <1> QED
    BY <1>6, <1>7, <1>8, <1>9, <1>10, <1>11

\* The exchanged token leaves the store of its only user.
LEMMA RetireOldTokenPlaces ==
  ASSUME Typed, TokensPlaced, NEW r \in Requests, RetireOldToken(r)
  PROVE  TokensPlaced'
  <1> USE DEF TokensPlaced
  <1>1. /\ req[r].phase = "retire" /\ req'[r].phase = "store"
        /\ req'[r].user = req[r].user /\ req'[r].new = req[r].new
        /\ req'[r].tok = req[r].tok
        /\ \A q \in Requests \ {r} : req'[q] = req[q]
    BY GotoSlot DEF RetireOldToken, Typed, TypeOK, ReqOK, Phases
  <1>2. req[r].user \in Users /\ req[r].tok \in Tokens
    BY <1>1 DEF Typed, PhaseOK, LocalsOK, RefreshPhases
  <1>3. /\ store' = [store EXCEPT ![req[r].user] = @ \ {req[r].tok}]
        /\ store \in [Users -> SUBSET Tokens]
        /\ UNCHANGED <<owner, tokensOut, loggedOut, lineage>>
    BY DEF RetireOldToken, delivered, history, Typed, TypeOK, StateTypeOK
  <1>4. req[r].tok \in tokensOut /\ owner[req[r].tok] = req[r].user
    BY <1>1 DEF RefreshesDelivered, RefreshPhases
  <1>5. StoredForOwner'
    BY <1>2, <1>3 DEF StoredForOwner
  <1>6. HeldIsPrivate'
    <2>1. \A q \in Requests, t \in Tokens : Holds(q, t)' => Holds(q, t)
      BY <1>1 DEF Holds, LoginPhases, SuccessorPhases, SwapPhases
    <2> QED
      BY <1>3, <2>1 DEF HeldIsPrivate
  <1>7. HeldInStore'
    <2>1. \A q \in Requests \ {r} : req[q].phase \in LoginPhases =>
             /\ req[q].user \in Users /\ req[q].new \notin tokensOut
             /\ req[q].new \in Tokens
      BY DEF Typed, PhaseOK, LocalsOK, HeldIsPrivate, Holds
    <2> QED
      BY <1>1, <1>2, <1>3, <1>4, <2>1
      DEF HeldInStore, LoginPhases, SuccessorPhases, SwapPhases
  <1>8. RefreshesDelivered'
    BY <1>1, <1>3 DEF RefreshesDelivered, RefreshPhases, SwapPhases
  <1>9. ExchangesDelivered'
    BY <1>3 DEF ExchangesDelivered
  <1>10. HeldInLineage'
    <2>1. \A u \in Users : req[r].tok \notin store'[u]
      BY <1>2, <1>3, <1>4 DEF StoredForOwner
    <2>2. \E e \in lineage : e.old = req[r].tok /\ e.new = req[r].new
      BY <1>1 DEF HeldInLineage
    <2> QED
      BY <1>1, <1>2, <1>3, <2>1, <2>2 DEF HeldInLineage, LoginPhases, SwapPhases
  <1> QED
    BY <1>5, <1>6, <1>7, <1>8, <1>9, <1>10

\* The successor enters the store when it is delivered; its predecessor is gone.
LEMMA StoreNewTokenPlaces ==
  ASSUME Typed, TokensPlaced, NEW r \in Requests, StoreNewToken(r)
  PROVE  TokensPlaced'
  <1> USE DEF TokensPlaced
  <1>1. /\ req[r].phase = "store" /\ req'[r].phase = "idle"
        /\ \A q \in Requests \ {r} : req'[q] = req[q]
    BY EndSlot DEF StoreNewToken, Typed, TypeOK, ReqOK
  <1>2. req[r].user \in Users /\ req[r].new \in Tokens /\ Holds(r, req[r].new)
    BY <1>1
    DEF Typed, PhaseOK, LocalsOK, RefreshPhases, SuccessorPhases, Holds
  <1>3. /\ store' = [store EXCEPT ![req[r].user] = @ \cup {req[r].new}]
        /\ store \in [Users -> SUBSET Tokens]
        /\ tokensOut' = tokensOut \cup {req[r].new}
        /\ UNCHANGED <<owner, loggedOut, lineage>>
    BY DEF StoreNewToken, history, Typed, TypeOK, StateTypeOK
  <1>4. /\ owner[req[r].new] = req[r].user
        /\ req[r].new \notin tokensOut
    BY <1>1, <1>2 DEF Typed, SignedForUser, SuccessorPhases, HeldIsPrivate
  <1>5. \A q \in Requests \ {r} :
           req[q].phase \in LoginPhases \cup SuccessorPhases =>
               req[q].new # req[r].new
    BY <1>2 DEF HeldIsPrivate, Holds
  <1>6. StoredForOwner'
    BY <1>2, <1>3, <1>4 DEF StoredForOwner
  <1>7. HeldIsPrivate'
    <2>1. \A q \in Requests, t \in Tokens : Holds(q, t)' =>
             Holds(q, t) /\ t # req[r].new
      BY <1>1, <1>5 DEF Holds, LoginPhases, SuccessorPhases, SwapPhases
    <2> QED
      BY <1>3, <2>1 DEF HeldIsPrivate
  <1>8. HeldInStore'
    <2>1. \A q \in Requests \ {r} :
              req[q].phase \in LoginPhases => req[q].user \in Users
      BY DEF Typed, PhaseOK, LocalsOK
    <2> QED
      BY <1>1, <1>2, <1>3, <1>5, <2>1
      DEF HeldInStore, LoginPhases, SuccessorPhases, SwapPhases
  <1>9. RefreshesDelivered'
    BY <1>1, <1>3 DEF RefreshesDelivered, RefreshPhases, SwapPhases
  <1>10. ExchangesDelivered'
    BY <1>3 DEF ExchangesDelivered
  <1>11. HeldInLineage'
    <2>1. \A q \in Requests \ {r} :
              req[q].phase = "store" => req[q].tok # req[r].new
      BY <1>4 DEF RefreshesDelivered, RefreshPhases
    <2> QED
      BY <1>1, <1>2, <1>3, <2>1 DEF HeldInLineage, LoginPhases, SwapPhases
  <1> QED
    BY <1>6, <1>7, <1>8, <1>9, <1>10, <1>11

\* A logout takes a delivered token out of the store.
LEMMA LogoutPlaces ==
  ASSUME Typed, TokensPlaced, NEW t \in Tokens, Logout(t)
  PROVE  TokensPlaced'
  <1> USE DEF TokensPlaced
  <1>1. /\ t \in tokensOut
        /\ store' = [store EXCEPT ![owner[t]] = @ \ {t}]
        /\ store \in [Users -> SUBSET Tokens]
        /\ loggedOut' = loggedOut \cup {t}
        /\ UNCHANGED <<owner, req, tokensOut, lineage>>
    BY DEF Logout, delivered, Typed, TypeOK, StateTypeOK
  <1>2. owner[t] \in Users
    BY <1>1 DEF Typed, SignedForUser
  <1>3. \A q \in Requests : req[q].phase \in LoginPhases =>
           /\ req[q].user \in Users /\ req[q].new \notin tokensOut
           /\ req[q].new \in Tokens
    BY DEF Typed, PhaseOK, LocalsOK, HeldIsPrivate, Holds
  <1> QED
    BY <1>1, <1>2, <1>3
    DEF StoredForOwner, HeldIsPrivate, Holds, HeldInStore, RefreshesDelivered,
        ExchangesDelivered, HeldInLineage

\* A restart leaves no handler that holds a token, and an empty store.
LEMMA RestartPlaces ==
  ASSUME Typed, TokensPlaced, Restart
  PROVE  TokensPlaced'
  <1> USE DEF TokensPlaced, Idle, LoginPhases, SwapPhases, SuccessorPhases,
              RefreshPhases
  <1>1. /\ \A r \in Requests : req'[r] = Idle
        /\ \A u \in Users : store'[u] = {}
        /\ loggedOut' \subseteq loggedOut \cup tokensOut
        /\ UNCHANGED <<owner, tokensOut, lineage>>
    BY DEF Restart, delivered
  <1>2. StoredForOwner'
    BY <1>1 DEF StoredForOwner
  <1>3. HeldIsPrivate'
    BY <1>1 DEF HeldIsPrivate, Holds
  <1>4. HeldInStore' /\ RefreshesDelivered' /\ HeldInLineage'
    BY <1>1 DEF HeldInStore, RefreshesDelivered, HeldInLineage
  <1>5. ExchangesDelivered'
    BY <1>1 DEF ExchangesDelivered
  <1> QED
    BY <1>2, <1>3, <1>4, <1>5

-----------------------------------------------------------------------------
(* Putting the steps together. *)

\* Ending a handler keeps every slot.
LEMMA EndKeeps ==
  ASSUME ReqOK, NEW r \in Requests, End(r)
  PROVE  \A q \in Requests : SlotKept(q)
  BY EndSlot DEF SlotKept

\* The verdict on a failed swap ends the handler or sends it to revoke.
LEMMA JudgeReuseKeeps ==
  ASSUME ReqOK, NEW r \in Requests, JudgeReuse(r)
  PROVE  \A q \in Requests : SlotKept(q)
  BY JudgeReuseSlot DEF SlotKept, RevokePhases

\* Moving to a phase of the same stage, or to revocation, keeps every slot.
LEMMA GotoKeeps ==
  ASSUME ReqOK, NEW r \in Requests, NEW p \in Phases, Goto(r, p),
         \/ p \in RevokePhases
         \/ req[r].phase \in LoginPhases /\ p \in LoginPhases
         \/ req[r].phase \in Unsigned /\ p \in Unsigned
         \/ req[r].phase \in SwapPhases /\ p \in SwapPhases
  PROVE  \A q \in Requests : SlotKept(q)
  <1>1. SlotKept(r)
    BY GotoSlot DEF SlotKept
  <1>2. \A q \in Requests \ {r} : SlotKept(q)
    BY GotoSlot DEF SlotKept
  <1> QED
    BY <1>1, <1>2

\* Every step keeps tokens where they may be.
LEMMA NextTokensPlaced == Typed /\ TokensPlaced /\ [Next]_vars => TokensPlaced'
  <1> SUFFICES ASSUME Typed, TokensPlaced, [Next]_vars PROVE TokensPlaced'
    OBVIOUS
  <1> USE DEF repo, delivered, history
  <1>a. ReqOK
    BY DEF Typed, TypeOK, ReqOK
  <1> DEFINE Still == UNCHANGED <<owner, store, tokensOut, loggedOut, lineage>>
             Kept == \A q \in Requests : SlotKept(q)
  <1>b. ASSUME Still, Kept PROVE TokensPlaced'
    BY <1>b, NeutralStep
  <1> HIDE DEF Still, Kept
  <1>1. ASSUME NEW r \in Requests, NEW u \in Users, NEW t \in Tokens,
               Login(r, u, t)
        PROVE  TokensPlaced'
    BY <1>1, LoginPlaces
  <1>2. ASSUME NEW r \in Requests, NEW t \in Tokens,
               NEW s \in SessionIds \cup {NoSession},
               BeginRefresh(r, t, s)
        PROVE  TokensPlaced'
    BY <1>2, BeginRefreshPlaces
  <1>3. ASSUME NEW r \in Requests, NEW u \in Users, NEW reason \in LogoutReasons,
               LogoutAll(r, u, reason)
        PROVE  TokensPlaced'
    <2>1. Still
      BY <1>3 DEF LogoutAll, Still
    <2>2. Kept
      BY <1>3, <1>a DEF LogoutAll, Kept, SlotKept, RevokePhases, Idle, ReqOK
    <2> QED
      BY <2>1, <2>2, <1>b
  <1>4. ASSUME NEW r \in Requests, NEW s \in SessionIds,
               CreateSession(r, s)
        PROVE  TokensPlaced'
    <2> DEFINE q == [req[r] EXCEPT !.phase = "index", !.sid = s]
    <2>1. /\ req[r].phase = "create"
          /\ UNCHANGED <<owner, store, loggedOut, lineage>>
      BY <1>4 DEF CreateSession
    <2>2. CASE LoginReturns(r, {}) \/ LoginReturns(r, {s})
      BY <2>1, <2>2, LoginReturnPlaces DEF LoginPhases
    <2>3. CASE req' = [req EXCEPT ![r] = q] /\ UNCHANGED delivered
      <3>1. Still
        BY <2>1, <2>3 DEF Still
      <3>2. /\ q.phase = "index" /\ q.user = req[r].user
            /\ q.new = req[r].new /\ q.tok = req[r].tok
        BY <1>a, LocalsInPhase DEF Request
      <3> HIDE DEF q
      <3>3. Kept
        BY <2>1, <2>3, <3>2, <1>a DEF Kept, SlotKept, ReqOK, LoginPhases
      <3> QED
        BY <3>1, <3>3, <1>b
    <2> QED
      BY <1>4, <2>2, <2>3 DEF CreateSession
  <1>5. ASSUME NEW r \in Requests,
               IndexSession(r)
        PROVE  TokensPlaced'
    <2>1. CASE LoginReturns(r, {})
      BY <1>5, <2>1, LoginReturnPlaces DEF IndexSession, LoginPhases
    <2>2. CASE Goto(r, "expire") /\ UNCHANGED delivered
      <3>1. Still
        BY <1>5, <2>2 DEF IndexSession, Still
      <3>2. Kept
        BY <1>5, <2>2, <1>a, GotoKeeps
        DEF IndexSession, Kept, Phases, LoginPhases
      <3> QED
        BY <3>1, <3>2, <1>b
    <2> QED
      BY <1>5, <2>1, <2>2 DEF IndexSession
  <1>6. ASSUME NEW r \in Requests,
               SetSessionTtl(r)
        PROVE  TokensPlaced'
    BY <1>6, LoginReturnPlaces DEF SetSessionTtl, LoginPhases
  <1>7. ASSUME NEW r \in Requests,
               CreateSessionFails(r)
        PROVE  TokensPlaced'
    BY <1>7, LoginReturnPlaces DEF CreateSessionFails, LoginPhases
  <1>8. ASSUME NEW r \in Requests,
               EarlyReuseCheck(r)
        PROVE  TokensPlaced'
    <2>1. Still
      BY <1>8 DEF EarlyReuseCheck, Still
    <2>2. Kept
      BY <1>8, <1>a, GotoKeeps
      DEF EarlyReuseCheck, Kept, Phases, LoginPhases, SwapPhases, RevokePhases,
          Unsigned
    <2> QED
      BY <2>1, <2>2, <1>b
  <1>9. ASSUME NEW r \in Requests,
               ValidateRefreshToken(r)
        PROVE  TokensPlaced'
    <2>1. Still
      BY <1>9 DEF ValidateRefreshToken, Still
    <2>2. Kept
      BY <1>9, <1>a, GotoKeeps, EndKeeps
      DEF ValidateRefreshToken, Kept, Phases, LoginPhases, SwapPhases,
          RevokePhases, Unsigned
    <2> QED
      BY <2>1, <2>2, <1>b
  <1>10. ASSUME NEW r \in Requests, NEW n \in Tokens,
               RotateInTokenStore(r, n)
        PROVE  TokensPlaced'
    BY <1>10, RotateInTokenStorePlaces
  <1>11. ASSUME NEW r \in Requests, NEW n \in Tokens,
               MintForSession(r, n)
        PROVE  TokensPlaced'
    BY <1>11, MintForSessionPlaces
  <1>12. ASSUME NEW r \in Requests,
               RotateSession(r)
        PROVE  TokensPlaced'
    BY <1>12, RotateSessionPlaces
  <1>13. ASSUME NEW r \in Requests,
               RotateSessionFails(r)
        PROVE  TokensPlaced'
    <2>1. Still
      BY <1>13 DEF RotateSessionFails, Still
    <2>2. Kept
      BY <1>13, <1>a, GotoKeeps, JudgeReuseKeeps
      DEF RotateSessionFails, Kept, Phases, LoginPhases, SwapPhases,
          RevokePhases, Unsigned
    <2> QED
      BY <2>1, <2>2, <1>b
  <1>14. ASSUME NEW r \in Requests,
               InspectSession(r)
        PROVE  TokensPlaced'
    <2>1. Still
      BY <1>14 DEF InspectSession, Still
    <2>2. Kept
      BY <1>14, <1>a, JudgeReuseKeeps
      DEF InspectSession, Kept, Phases, LoginPhases, SwapPhases, RevokePhases,
          Unsigned
    <2> QED
      BY <2>1, <2>2, <1>b
  <1>15. ASSUME NEW r \in Requests,
               RetireOldToken(r)
        PROVE  TokensPlaced'
    BY <1>15, RetireOldTokenPlaces
  <1>16. ASSUME NEW r \in Requests,
               StoreNewToken(r)
        PROVE  TokensPlaced'
    BY <1>16, StoreNewTokenPlaces
  <1>17. ASSUME NEW r \in Requests,
               RevokeAllForUser(r)
        PROVE  TokensPlaced'
    <2>1. Still
      BY <1>17 DEF RevokeAllForUser, Still
    <2>2. Kept
      BY <1>17, <1>a, GotoKeeps, EndKeeps
      DEF RevokeAllForUser, AfterRevocation, Kept, Phases, LoginPhases,
          SwapPhases, RevokePhases, Unsigned
    <2> QED
      BY <2>1, <2>2, <1>b
  <1>18. ASSUME NEW r \in Requests,
               ReadMembers(r)
        PROVE  TokensPlaced'
    <2> DEFINE q == [req[r] EXCEPT !.phase = "pipeline",
                                   !.targets = index[req[r].user]]
    <2>1. Still
      BY <1>18 DEF ReadMembers, Still
    <2>2. CASE Goto(r, AfterRevocation(r))
      <3>1. Kept
        BY <2>2, <1>a, GotoKeeps DEF AfterRevocation, Kept, Phases, RevokePhases
      <3> QED
        BY <2>1, <3>1, <1>b
    <2>3. CASE req' = [req EXCEPT ![r] = q]
      <3>1. q.phase \in RevokePhases
        BY <1>a, LocalsInPhase DEF Request, RevokePhases
      <3> HIDE DEF q
      <3>2. Kept
        BY <2>3, <3>1, <1>a DEF Kept, SlotKept, ReqOK
      <3> QED
        BY <2>1, <3>2, <1>b
    <2> QED
      BY <1>18, <2>2, <2>3 DEF ReadMembers
  <1>19. ASSUME NEW r \in Requests,
               RevokeMembers(r)
        PROVE  TokensPlaced'
    <2>1. Still
      BY <1>19 DEF RevokeMembers, Still
    <2>2. ASSUME NEW failed \in SUBSET req[r].targets,
                 req' = [req EXCEPT ![r] = [@ EXCEPT
                           !.phase = AfterRevocation(r),
                           !.seen = req[r].seen \ failed]]
          PROVE  Kept
      <3>1. req'[r].phase \in RevokePhases
        BY <2>2, <1>a, LocalsInPhase
        DEF ReqOK, Request, AfterRevocation, RevokePhases
      <3> QED
        BY <2>2, <3>1, <1>a DEF Kept, SlotKept, ReqOK
    <2>3. Kept
      BY <1>19, <1>a, <2>2, EndKeeps DEF RevokeMembers, Kept
    <2> QED
      BY <2>1, <2>3, <1>b
  <1>20. ASSUME NEW r \in Requests,
               AuditReuse(r)
        PROVE  TokensPlaced'
    <2>1. Still
      BY <1>20 DEF AuditReuse, Still
    <2>2. Kept
      BY <1>20, <1>a, EndKeeps
      DEF AuditReuse, Kept, Phases, LoginPhases, SwapPhases, RevokePhases,
          Unsigned
    <2> QED
      BY <2>1, <2>2, <1>b
  <1>21. ASSUME NEW r \in Requests,
               RespondLogoutAll(r)
        PROVE  TokensPlaced'
    <2>1. Still
      BY <1>21 DEF RespondLogoutAll, Still
    <2>2. Kept
      BY <1>21, <1>a, EndKeeps
      DEF RespondLogoutAll, Kept, Phases, LoginPhases, SwapPhases,
          RevokePhases, Unsigned
    <2> QED
      BY <2>1, <2>2, <1>b
  <1>22. ASSUME NEW r \in Requests,
               CommandRefused(r)
        PROVE  TokensPlaced'
    <2>1. Still
      BY <1>22 DEF CommandRefused, Still
    <2>2. Kept
      BY <1>22, <1>a, EndKeeps
      DEF CommandRefused, Kept, Phases, LoginPhases, SwapPhases, RevokePhases,
          Unsigned
    <2> QED
      BY <2>1, <2>2, <1>b
  <1>23. ASSUME NEW t \in Tokens,
               Logout(t)
        PROVE  TokensPlaced'
    BY <1>23, LogoutPlaces
  <1>24. ASSUME NEW k \in Keys,
               RotateKey(k)
        PROVE  TokensPlaced'
    <2>1. Still /\ Kept
      BY <1>24 DEF RotateKey, Still, Kept, SlotKept
    <2> QED
      BY <2>1, <1>b
  <1>25. ASSUME NEW s \in SessionIds,
               ExpireSession(s)
        PROVE  TokensPlaced'
    <2>1. Still /\ Kept
      BY <1>25 DEF ExpireSession, Still, Kept, SlotKept
    <2> QED
      BY <2>1, <1>b
  <1>27. CASE Restart
    BY <1>27, RestartPlaces
  <1>26. CASE UNCHANGED vars
    <2>1. Still /\ Kept
      BY <1>26 DEF vars, Still, Kept, SlotKept
    <2> QED
      BY <2>1, <1>b
  <1> QED
    BY <1>1, <1>2, <1>3, <1>4, <1>5, <1>6, <1>7, <1>8, <1>9, <1>10, <1>11,
       <1>12, <1>13, <1>14, <1>15, <1>16, <1>17, <1>18, <1>19, <1>20, <1>21,
       <1>22, <1>23, <1>24, <1>25, <1>26, <1>27
    DEF Next, Arrive, Handle, Environment

-----------------------------------------------------------------------------
(* The token store. *)

\* The steps that change what is stored, delivered, exchanged or logged out.
LEMMA TokenMoves ==
  ASSUME [Next]_vars
  PROVE  \/ UNCHANGED <<store, tokensOut, loggedOut, lineage>>
         \/ \E r \in Requests, u \in Users, t \in Tokens : Login(r, u, t)
         \/ \E r \in Requests :
               /\ req[r].phase \in LoginPhases
               /\ tokensOut' = tokensOut \cup {req[r].new}
               /\ UNCHANGED <<store, loggedOut, lineage>>
         \/ \E r \in Requests, n \in Tokens : RotateInTokenStore(r, n)
         \/ \E r \in Requests :
               RotateSession(r) \/ RetireOldToken(r) \/ StoreNewToken(r)
         \/ \E t \in Tokens : Logout(t)
         \/ Restart
  <1> USE DEF repo, delivered, history, LoginPhases, LoginReturns
  <1>1. CASE UNCHANGED vars
    BY <1>1 DEF vars
  <1>2. CASE Environment
    BY <1>2 DEF Environment, RotateKey, ExpireSession
  <1>3. ASSUME NEW r \in Requests, Arrive(r) PROVE TokenMoves!2
    BY <1>3 DEF Arrive, BeginRefresh, LogoutAll
  <1>4. ASSUME NEW r \in Requests, Handle(r) PROVE TokenMoves!2
    BY <1>4
    DEF Handle, CreateSession, IndexSession, SetSessionTtl, CreateSessionFails,
        EarlyReuseCheck, ValidateRefreshToken, MintForSession,
        RotateSessionFails, InspectSession, RevokeAllForUser, ReadMembers,
        RevokeMembers, AuditReuse, RespondLogoutAll, CommandRefused
  <1> QED
    BY <1>1, <1>2, <1>3, <1>4 DEF Next

\* A step that stores only tokens no client has, delivers only tokens that
\* replace nothing, and logs out only tokens that left the store, keeps both
\* properties of the store.
LEMMA StoreStays ==
  ASSUME Typed, TokensPlaced, SuccessorReplacesPredecessor, LogoutIsFinal,
         \A u \in Users : \A t \in store'[u] : t \in store[u] \/ t \notin tokensOut,
         lineage' = lineage, tokensOut' = tokensOut, loggedOut' = loggedOut
  PROVE  SuccessorReplacesPredecessor' /\ LogoutIsFinal'
  BY DEF TokensPlaced, ExchangesDelivered, SuccessorReplacesPredecessor,
         LogoutIsFinal

\* Every step keeps a replaced token, and a logged-out one, out of the store.
LEMMA NextStore ==
  ASSUME Typed, TokensPlaced, SuccessorReplacesPredecessor, LogoutIsFinal,
         [Next]_vars
  PROVE  SuccessorReplacesPredecessor' /\ LogoutIsFinal'
  <1> USE DEF repo, delivered, history
  <1> DEFINE Safe == SuccessorReplacesPredecessor' /\ LogoutIsFinal'
  <1>a. /\ store \in [Users -> SUBSET Tokens]
        /\ loggedOut \subseteq tokensOut
        /\ \A e \in lineage : e.old \in tokensOut
        /\ \A t \in tokensOut : owner[t] \in Users
    BY DEF Typed, TypeOK, StateTypeOK, TokensPlaced, ExchangesDelivered,
           SignedForUser
  <1>1. CASE UNCHANGED <<store, tokensOut, loggedOut, lineage>>
    BY <1>1 DEF SuccessorReplacesPredecessor, LogoutIsFinal
  <1>2. ASSUME NEW r \in Requests, NEW u \in Users, NEW t \in Tokens,
               Login(r, u, t)
        PROVE  Safe
    <2>1. t \notin tokensOut
      BY <1>2, <1>a, NullsAssumption DEF Login, Fresh
    <2>2. \A v \in Users : \A x \in store'[v] : x \in store[v] \/ x = t
      BY <1>2, <1>a DEF Login
    <2> QED
      BY <1>2, <2>1, <2>2, StoreStays DEF Login
  <1>3. ASSUME NEW r \in Requests, req[r].phase \in LoginPhases,
               tokensOut' = tokensOut \cup {req[r].new},
               UNCHANGED <<store, loggedOut, lineage>>
        PROVE  Safe
    BY <1>3
    DEF TokensPlaced, HeldInLineage, SuccessorReplacesPredecessor, LogoutIsFinal
  <1>4. ASSUME NEW r \in Requests, NEW n \in Tokens, RotateInTokenStore(r, n)
        PROVE  Safe
    <2>1. n \notin tokensOut
      BY <1>4, <1>a, NullsAssumption DEF RotateInTokenStore, Fresh
    <2>2. /\ \A v \in Users : store'[v] \subseteq store[v]
          /\ \A e \in lineage' : e \in lineage \/ e.new = n
          /\ UNCHANGED <<tokensOut, loggedOut>>
      BY <1>4, <1>a DEF RotateInTokenStore, Exchange
    <2> QED
      BY <2>1, <2>2 DEF SuccessorReplacesPredecessor, LogoutIsFinal
  <1>5. ASSUME NEW r \in Requests, RotateSession(r) PROVE Safe
    <2>1. req[r].new \in Tokens /\ Holds(r, req[r].new)
      BY <1>5 DEF RotateSession, Holds, SuccessorPhases, SwapPhases, Typed,
                  PhaseOK, LocalsOK
    <2>2. req[r].new \notin tokensOut
      BY <2>1 DEF TokensPlaced, HeldIsPrivate
    <2>3. /\ \A e \in lineage' : e \in lineage \/ e.new = req[r].new
          /\ UNCHANGED <<store, tokensOut, loggedOut>>
      BY <1>5 DEF RotateSession, Exchange
    <2> QED
      BY <2>2, <2>3 DEF SuccessorReplacesPredecessor, LogoutIsFinal
  <1>6. ASSUME NEW r \in Requests, RetireOldToken(r) PROVE Safe
    <2>1. /\ \A v \in Users : store'[v] \subseteq store[v]
          /\ UNCHANGED <<tokensOut, loggedOut, lineage>>
      BY <1>6, <1>a DEF RetireOldToken
    <2> QED
      BY <2>1 DEF SuccessorReplacesPredecessor, LogoutIsFinal
  <1>7. ASSUME NEW r \in Requests, StoreNewToken(r) PROVE Safe
    <2>1. /\ req[r].phase = "store" /\ req[r].new \in Tokens
          /\ Holds(r, req[r].new) /\ req[r].phase \in RefreshPhases
      BY <1>7 DEF StoreNewToken, Holds, SuccessorPhases, RefreshPhases, Typed,
                  PhaseOK, LocalsOK
    <2>2. req[r].new \notin tokensOut
      BY <2>1 DEF TokensPlaced, HeldIsPrivate
    <2>3. /\ \A v \in Users : \A x \in store'[v] : x \in store[v] \/ x = req[r].new
          /\ tokensOut' = tokensOut \cup {req[r].new}
          /\ UNCHANGED <<loggedOut, lineage>>
      BY <1>7, <1>a DEF StoreNewToken
    <2>4. \A e \in lineage : e.new = req[r].new =>
             \A v \in Users : e.old \notin store[v]
      <3>1. /\ \E e \in lineage : e.old = req[r].tok /\ e.new = req[r].new
            /\ \A v \in Users : req[r].tok \notin store[v]
        BY <2>1 DEF TokensPlaced, HeldInLineage
      <3>2. \A e, f \in lineage : e.new = f.new => e = f
        BY DEF TokensPlaced, ExchangesDelivered
      <3> QED
        BY <3>1, <3>2
    <2> QED
      BY <1>a, <2>2, <2>3, <2>4 DEF SuccessorReplacesPredecessor, LogoutIsFinal
  <1>8. ASSUME NEW t \in Tokens, Logout(t) PROVE Safe
    <2>1. /\ \A v \in Users : store'[v] \subseteq store[v]
          /\ t \notin store'[owner[t]]
          /\ loggedOut' = loggedOut \cup {t}
          /\ UNCHANGED <<tokensOut, lineage>>
      BY <1>8, <1>a DEF Logout
    <2>2. \A v \in Users : t \notin store'[v]
      BY <2>1 DEF TokensPlaced, StoredForOwner
    <2> QED
      BY <2>1, <2>2 DEF SuccessorReplacesPredecessor, LogoutIsFinal
  <1>9. CASE Restart
    <2>1. \A v \in Users : store'[v] = {}
      BY <1>9 DEF Restart
    <2> QED
      BY <2>1 DEF SuccessorReplacesPredecessor, LogoutIsFinal
  <1> HIDE DEF Safe
  <1> QED
    BY TokenMoves, <1>1, <1>2, <1>3, <1>4, <1>5, <1>6, <1>7, <1>8, <1>9 DEF Safe

-----------------------------------------------------------------------------
(* The invariants of the specification. *)

\* Handlers have the locals their phase needs, and tokens are where they may be.
LEMMA TokensInvariant == Spec => [](Typed /\ TokensPlaced)
  <1>1. Init => Typed /\ TokensPlaced
    BY InitTyped, InitTokensPlaced
  <1>2. Typed /\ TokensPlaced /\ [Next]_vars => (Typed /\ TokensPlaced)'
    BY NextTyped, NextTokensPlaced
  <1> QED
    BY <1>1, <1>2, PTL DEF Spec

\* Every variable keeps its type, handlers' locals included.
THEOREM TypeCorrect == Spec => []TypeOK
  <1>1. Typed => TypeOK
    BY DEF Typed
  <1> QED
    BY <1>1, TokensInvariant, PTL

\* A client that holds the successor of a token can never use the token in the
\* token store again, whatever refreshes, logouts and faults interleave.
THEOREM SuccessorReplaces == Spec => []SuccessorReplacesPredecessor
  <1> DEFINE Safe == SuccessorReplacesPredecessor /\ LogoutIsFinal
  <1>1. Init => Safe
    BY DEF Init, SuccessorReplacesPredecessor, LogoutIsFinal
  <1>2. Typed /\ TokensPlaced /\ Safe /\ [Next]_vars => Safe'
    BY NextStore
  <1>3. Safe => SuccessorReplacesPredecessor
    OBVIOUS
  <1> HIDE DEF Safe
  <1> QED
    BY <1>1, <1>2, <1>3, TokensInvariant, PTL DEF Spec

\* A logout is final: no refresh that was in flight when it arrived puts the
\* token back.
THEOREM LogoutIsFinalAlways == Spec => []LogoutIsFinal
  <1> DEFINE Safe == SuccessorReplacesPredecessor /\ LogoutIsFinal
  <1>1. Init => Safe
    BY DEF Init, SuccessorReplacesPredecessor, LogoutIsFinal
  <1>2. Typed /\ TokensPlaced /\ Safe /\ [Next]_vars => Safe'
    BY NextStore
  <1>3. Safe => LogoutIsFinal
    OBVIOUS
  <1> HIDE DEF Safe
  <1> QED
    BY <1>1, <1>2, <1>3, TokensInvariant, PTL DEF Spec
=============================================================================
