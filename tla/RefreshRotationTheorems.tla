----------------------- MODULE RefreshRotationTheorems -----------------------
(***************************************************************************)
(* What the inductive invariant of RefreshRotation gives: the session      *)
(* repositories implement the contract of SessionContract, sessions stay   *)
(* with their users, a punished reuse is audited, and a revoked session    *)
(* buys nothing where refreshes name their session.                        *)
(***************************************************************************)
EXTENDS RefreshRotationSessions

-----------------------------------------------------------------------------
(* The repositories implement their contract: the initial state maps to an   *)
(* initial state of it, and every step to one of its steps.                  *)

\* What the contract sees of the repositories, as in Contract.
AbsCurrent == [s \in SessionIds |->
                  IF Present(s) THEN CurrentToken(s) ELSE NoToken]
AbsClosed == {s \in SessionIds : ~Present(s) /\ \E u \in Users : s \in index[u]}
AbsRevoked == {s \in SessionIds : Present(s) /\ ~Live(s)}
AbsLineage == {e \in lineage : e.sid # NoSession}

\* How a session comes to be listed for its user.
LEMMA IndexMoves ==
  ASSUME [Next]_vars
  PROVE  \/ UNCHANGED index
         \/ \E r \in Requests, s \in SessionIds :
              /\ CreateSession(r, s)
              /\ index' = [index EXCEPT ![req[r].user] = @ \cup {s}]
         \/ \E r \in Requests :
              /\ req[r].phase = "index" /\ UNCHANGED sessions
              /\ index' = [index EXCEPT ![req[r].user] = @ \cup {req[r].sid}]
<1> USE DEF repo, delivered, history
<1>1. CASE UNCHANGED vars
  BY <1>1 DEF vars
<1>2. CASE Environment
  BY <1>2 DEF Environment, Logout, RotateKey, ExpireSession, Restart
<1>3. ASSUME NEW r \in Requests, Arrive(r)
      PROVE  UNCHANGED index
  BY <1>3 DEF Arrive, Login, BeginRefresh, LogoutAll
<1>4. ASSUME NEW r \in Requests, NEW q \in SessionIds, CreateSession(r, q)
      PROVE  \/ UNCHANGED index
             \/ index' = [index EXCEPT ![req[r].user] = @ \cup {q}]
  BY <1>4 DEF CreateSession
<1>5. ASSUME NEW r \in Requests, IndexSession(r)
      PROVE  /\ req[r].phase = "index" /\ UNCHANGED sessions
             /\ index' = [index EXCEPT ![req[r].user] = @ \cup {req[r].sid}]
  BY <1>5 DEF IndexSession
<1>6. ASSUME NEW r \in Requests, Handle(r), ~IndexSession(r),
             \A q \in SessionIds : ~CreateSession(r, q)
      PROVE  UNCHANGED index
  BY <1>6
  DEF Handle, SetSessionTtl, CreateSessionFails, EarlyReuseCheck,
      ValidateRefreshToken, RotateInTokenStore, MintForSession, RotateSession,
      RotateSessionFails, InspectSession, RetireOldToken, StoreNewToken,
      RevokeAllForUser, ReadMembers, RevokeMembers, AuditReuse,
      RespondLogoutAll, CommandRefused
<1> QED
  BY <1>1, <1>2, <1>3, <1>4, <1>5, <1>6 DEF Next

\* A session id that becomes listed is that of a session.
LEMMA ListedIsPresent ==
  ASSUME Typed, NamedIsIndexed, [Next]_vars, NEW u \in Users, NEW s \in index'[u]
  PROVE  s \in index[u] \/ Present(s) \/ \E r \in Requests : CreateSession(r, s)
<1>a. index \in [Users -> SUBSET SessionIds]
  BY DEF Typed, TypeOK, StateTypeOK
<1>1. ASSUME NEW r \in Requests, NEW q \in SessionIds,
             index' = [index EXCEPT ![req[r].user] = @ \cup {q}]
      PROVE  s \in index[u] \/ s = q
  BY <1>1, <1>a
<1>2. ASSUME NEW r \in Requests, req[r].phase = "index",
             index' = [index EXCEPT ![req[r].user] = @ \cup {req[r].sid}]
      PROVE  s \in index[u] \/ Present(s)
  BY <1>2, <1>a DEF NamedIsIndexed
<1> QED
  BY <1>1, <1>2, IndexMoves

\* A token about to be placed is used nowhere in the repositories.
LEMMA PlacedIsUnused ==
  ASSUME Typed, TokensPlaced, CurrentIsCurrent,
         NEW r \in Requests, req[r].phase \in {"create", "cas"}
  PROVE  Contract!Unused(req[r].new)
<1>1. /\ req[r].new \in Tokens
      /\ \A s \in SessionIds : Present(s) => CurrentToken(s) # req[r].new
      /\ \A e \in lineage : e.old # req[r].new
  BY PlacingIsNew DEF Placing, SwapPhases
<1>2. \A e \in lineage : e.new # req[r].new
  BY DEF TokensPlaced, HeldInLineage, LoginPhases, SwapPhases
<1> QED
  BY <1>1, <1>2, NullsAssumption DEF Contract!Unused

\* A login that writes its session opens it.
LEMMA CreateOpens ==
  ASSUME Typed, TokensPlaced, SessionsAgree, IndexAgrees, [Next]_vars,
         NEW r \in Requests, NEW s \in SessionIds, CreateSession(r, s)
  PROVE  Contract!Open(s, req[r].new) /\ req[r].new \in Tokens
<1>1. /\ req[r].phase = "create" /\ FreshSid(s) /\ ~Present(s)
      /\ sessions' = [sessions EXCEPT ![s] =
                         NewSession(req[r].user, req[r].new, req[r].key)]
      /\ UNCHANGED lineage
  BY DEF CreateSession, FreshSid, Present, history
<1>2. /\ StateTypeOK /\ CurrentIsCurrent /\ NamedIsIndexed
      /\ req[r].user \in Users /\ req[r].new \in Tokens /\ req[r].key \in Keys
  BY <1>1 DEF Typed, TypeOK, PhaseOK, LocalsOK, LoginPhases, SessionsAgree, IndexAgrees
<1>3. Present(s)'
  BY <1>1, <1>2, CreateIs
<1>4. /\ sessions'[s].hash.token = req[r].new /\ sessions'[s].revoked = NotRevoked
      /\ \A q \in SessionIds \ {s} : sessions'[q] = sessions[q]
  BY <1>1, <1>2 DEF NewSession, HashOf, StateTypeOK
<1>5. \A q \in SessionIds \ {s} :
        \A u \in Users : q \in index'[u] <=> q \in index[u]
  BY <1>2 DEF CreateSession, StateTypeOK
<1>6. AbsCurrent[s] = NoToken /\ s \notin AbsClosed /\ s \notin AbsRevoked
  BY <1>1 DEF AbsCurrent, AbsClosed, AbsRevoked, FreshSid
<1>7. AbsCurrent' = [AbsCurrent EXCEPT ![s] = req[r].new]
  BY <1>3, <1>4 DEF AbsCurrent, Present, CurrentToken
<1>8. AbsClosed' = AbsClosed
  BY <1>1, <1>3, <1>4, <1>5 DEF AbsClosed, Present, FreshSid
<1>9. AbsRevoked' = AbsRevoked
  BY <1>1, <1>3, <1>4 DEF AbsRevoked, Present, Live
<1>10. Contract!Unused(req[r].new) /\ AbsLineage' = AbsLineage
  BY <1>1, <1>2, PlacedIsUnused DEF AbsLineage
<1> QED
  BY <1>2, <1>6, <1>7, <1>8, <1>9, <1>10
  DEF Contract!Open, AbsCurrent, AbsClosed, AbsRevoked, AbsLineage

\* A compare-and-swap that wins exchanges the current token of its session.
LEMMA SwapRotates ==
  ASSUME Typed, TokensPlaced, SessionsAgree, [Next]_vars,
         NEW r \in Requests, RotateSession(r),
         NEW s \in SessionIds, NEW old \in Tokens, NEW new \in Tokens,
         s = req[r].sid, old = req[r].tok, new = req[r].new
  PROVE  Contract!Rotate(s, old, new)
<1> DEFINE edge == [sid |-> s, old |-> old, new |-> new]
<1>1. CurrentIsCurrent /\ req[r].phase = "cas" /\ UNCHANGED index
  BY DEF SessionsAgree, RotateSession
<1>2. /\ Live(s) /\ CurrentToken(s) = old
      /\ sessions'[s] # Absent /\ sessions'[s].revoked = NotRevoked
      /\ sessions'[s].hash = HashOf(req[r].key, new)
      /\ \A q \in SessionIds \ {s} : sessions'[q] = sessions[q]
      /\ lineage' = lineage \cup {edge}
  BY <1>1, SwapIs
<1>3. edge.sid = s
  OBVIOUS
<1>4. AbsCurrent[s] = old /\ s \notin AbsRevoked
  BY <1>2 DEF AbsCurrent, AbsRevoked, Live
<1>5. sessions'[s].hash.token = new
  BY <1>2 DEF HashOf
<1>6. AbsCurrent' = [AbsCurrent EXCEPT ![s] = new]
  BY <1>2, <1>5 DEF AbsCurrent, Present, CurrentToken
<1>7. AbsClosed' = AbsClosed
  BY <1>1, <1>2 DEF AbsClosed, Present, Live
<1>8. AbsRevoked' = AbsRevoked
  BY <1>2 DEF AbsRevoked, Present, Live
<1>9. AbsLineage' = AbsLineage \cup {edge}
  <2> HIDE DEF edge
  <2> QED
    BY <1>2, <1>3, NullsAssumption DEF AbsLineage
<1>10. Contract!Unused(new)
  BY <1>1, PlacedIsUnused
<1> QED
  BY <1>4, <1>6, <1>7, <1>8, <1>9, <1>10
  DEF Contract!Rotate, AbsCurrent, AbsClosed, AbsRevoked, AbsLineage

\* The end of a session's time to live closes it.
LEMMA TtlExpires ==
  ASSUME Typed, NEW s \in SessionIds, ExpireSession(s)
  PROVE  Contract!Expire(s)
<1>1. /\ Present(s) /\ (\E u \in Users : s \in index[u]) /\ StateTypeOK
      /\ sessions' = [sessions EXCEPT ![s] = Absent]
      /\ UNCHANGED <<index, lineage>>
  BY DEF ExpireSession, Typed, TypeOK, history
<1>2. /\ sessions'[s] = Absent
      /\ \A q \in SessionIds \ {s} : sessions'[q] = sessions[q]
  BY <1>1 DEF StateTypeOK
<1>3. CurrentToken(s) # NoToken
  BY <1>1, CurrentTyped, NullsAssumption
<1>4. AbsCurrent[s] # NoToken
  BY <1>1, <1>3 DEF AbsCurrent
<1>5. AbsCurrent' = [AbsCurrent EXCEPT ![s] = NoToken]
  BY <1>2 DEF AbsCurrent, Present, CurrentToken
<1>6. AbsClosed' = AbsClosed \cup {s}
  BY <1>1, <1>2, <1>3 DEF AbsClosed, Present
<1>7. AbsRevoked' = AbsRevoked \ {s} /\ AbsLineage' = AbsLineage
  BY <1>1, <1>2 DEF AbsRevoked, AbsLineage, Present, Live
<1> QED
  BY <1>4, <1>5, <1>6, <1>7
  DEF Contract!Expire, AbsCurrent, AbsClosed, AbsRevoked, AbsLineage

\* A step that keeps every session revokes those it ends, if any.
LEMMA KeptRevokes ==
  ASSUME Typed, Typed', IndexAgrees, [Next]_vars, SessionsKept,
         \A r \in Requests, s \in SessionIds : ~CreateSession(r, s),
         \A s \in SessionIds : Present(s) => Present(s)'
  PROVE  \E S \in SUBSET SessionIds : Contract!Revoke(S)
<1> DEFINE S == {s \in SessionIds : Live(s) /\ ~Live(s)'}
<1>1. /\ OnlyGrows /\ StateTypeOK /\ NamedIsIndexed
      /\ index' \in [Users -> SUBSET SessionIds]
  BY GrowsOnly DEF Typed, TypeOK, StateTypeOK, IndexAgrees
<1>2. \A s \in SessionIds : Present(s)' <=> Present(s)
  BY DEF SessionsKept
<1>3. \A s \in S : AbsCurrent[s] # NoToken
  BY <1>1, CurrentTyped, NullsAssumption DEF AbsCurrent, Live
<1>4. AbsCurrent' = AbsCurrent
  BY <1>2 DEF AbsCurrent, SessionsKept, CurrentToken
<1>5. AbsClosed' = AbsClosed
  <2>1. ASSUME NEW s \in SessionIds, ~Present(s)
        PROVE  (\E u \in Users : s \in index'[u]) <=> (\E u \in Users : s \in index[u])
    BY <1>1, <2>1, ListedIsPresent DEF OnlyGrows
  <2> QED
    BY <1>2, <2>1 DEF AbsClosed
<1>6. AbsRevoked' = AbsRevoked \cup S
  BY <1>2 DEF AbsRevoked, SessionsKept, Live
<1>7. AbsLineage' = AbsLineage
  BY <1>1 DEF AbsLineage, SessionsKept, InSession, OnlyGrows
<1> HIDE DEF S
<1>8. Contract!Revoke(S)
  BY <1>3, <1>4, <1>5, <1>6, <1>7
  DEF Contract!Revoke, AbsCurrent, AbsClosed, AbsRevoked, AbsLineage
<1> QED
  BY <1>8 DEF S

\* Every step of the repositories is one of the contract.
LEMMA StepsAreOfContract ==
  ASSUME IInv, IInv', [Next]_vars
  PROVE  Contract!ContractNext
<1>1. /\ Typed /\ Typed' /\ TokensPlaced /\ SessionsAgree /\ IndexAgrees
  BY DEF IInv
<1>2. ASSUME NEW r \in Requests, NEW s \in SessionIds, CreateSession(r, s)
      PROVE  Contract!ContractNext
  BY <1>1, <1>2, CreateOpens DEF Contract!ContractNext
<1>3. ASSUME NEW r \in Requests, RotateSession(r)
      PROVE  Contract!ContractNext
  <2>1. PICK s \in SessionIds, old \in Tokens, new \in Tokens :
           s = req[r].sid /\ old = req[r].tok /\ new = req[r].new
    BY <1>1, <1>3, SwapIs DEF SessionsAgree
  <2>2. Contract!Rotate(s, old, new)
    BY <1>1, <1>3, <2>1, SwapRotates
  <2> QED
    BY <2>2 DEF Contract!ContractNext
<1>4. ASSUME NEW s \in SessionIds, ExpireSession(s)
      PROVE  Contract!ContractNext
  BY <1>1, <1>4, TtlExpires DEF Contract!ContractNext
<1>5. ASSUME SessionsKept, \A r \in Requests, s \in SessionIds : ~CreateSession(r, s),
             \A s \in SessionIds : ~ExpireSession(s)
      PROVE  Contract!ContractNext
  BY <1>1, <1>5, KeptRevokes DEF Contract!ContractNext, SessionsKept
<1> QED
  BY <1>1, <1>2, <1>3, <1>4, <1>5, SessionMoves

\* The repositories implement the contract, whichever backend is configured and
\* whatever faults it is exposed to.
THEOREM RepositoriesImplementContract == Spec => ImplementsContract
<1>1. Init => Contract!ContractInit
  BY DEF Init, Contract!ContractInit, Present
<1>2. IInv /\ IInv' /\ [Next]_vars => [Contract!ContractNext]_Contract!cvars
  BY StepsAreOfContract
<1> QED
  BY <1>1, <1>2, RotationInvariant, PTL
  DEF Spec, ImplementsContract, Contract!ContractSpec

\* No login forks: the session repositories exchange a refresh token once, in
\* one session, so of two refreshes with one token at most one is granted there.
THEOREM LoginsNeverFork == Spec => []Contract!NoFork
<1>1. Init => Contract!NoFork
  BY DEF Init, Contract!NoFork
<1>2. IInv /\ IInv' /\ Contract!NoFork /\ [Next]_vars => (Contract!NoFork)'
  <2> SUFFICES ASSUME IInv, IInv', Contract!NoFork, [Next]_vars
               PROVE  (Contract!NoFork)'
    OBVIOUS
  <2>1. \A e, f \in AbsLineage : e.old = f.old => e = f
    BY DEF Contract!NoFork, AbsLineage
  <2>2. ASSUME AbsLineage' = AbsLineage
        PROVE  (Contract!NoFork)'
    BY <2>2 DEF Contract!NoFork, AbsLineage
  <2>3. ASSUME NEW s \in SessionIds, NEW old \in Tokens, NEW new \in Tokens,
               Contract!Rotate(s, old, new)
        PROVE  (Contract!NoFork)'
    <3> DEFINE edge == [sid |-> s, old |-> old, new |-> new]
    <3>1. AbsCurrent[s] = old /\ AbsLineage' = AbsLineage \cup {edge}
      BY <2>3 DEF Contract!Rotate, AbsCurrent, AbsLineage
    <3>2. Present(s) /\ CurrentToken(s) = old
      BY <3>1, NullsAssumption DEF AbsCurrent
    <3>3. \A e \in AbsLineage : e.old # old
      BY <3>2, CurrentAgain DEF IInv, SessionsAgree, AbsLineage, InSession
    <3>4. edge.old = old
      OBVIOUS
    <3> HIDE DEF edge
    <3>5. \A e, f \in AbsLineage' : e.old = f.old => e = f
      BY <2>1, <3>1, <3>3, <3>4
    <3> QED
      BY <3>5 DEF Contract!NoFork, AbsLineage
  <2> QED
    BY <2>2, <2>3, StepsAreOfContract
    DEF Contract!ContractNext, Contract!Open, Contract!Revoke, Contract!Expire,
        AbsLineage
<1> QED
  BY <1>1, <1>2, RotationInvariant, PTL DEF Spec

-----------------------------------------------------------------------------
(* Sessions stay with their users. *)

\* A refresh names a session that some client was given.
RefreshesNamed ==
    \A r \in Requests : req[r].phase \in RefreshPhases =>
        req[r].sid \in sidsOut \cup {NoSession}

\* Exchanges are of sessions that some client was given, so that no later session
\* takes over their ids.
EdgesNamed == \A e \in lineage : InSession(e) => e.sid \in sidsOut

\* A refresh keeps the session id it came with.
LEMMA RefreshKeepsSid ==
  ASSUME Typed, NEW r \in Requests, Handle(r), req'[r].phase \in RefreshPhases
  PROVE  req[r].phase \in RefreshPhases /\ req'[r].sid = req[r].sid
<1>a. ReqOK /\ req[r] \in Request /\ req \in [Requests -> Request]
  BY DEF ReqOK, Typed, TypeOK
<1>1. ~End(r)
  BY <1>a, EndSlot DEF RefreshPhases, SwapPhases
<1>b. req'[r].phase \notin {"index", "pipeline", "audit", "respond", "revoke"}
  BY DEF RefreshPhases, SwapPhases
<1>2. ASSUME NEW s \in SessionIds, CreateSession(r, s)
      PROVE  FALSE
  <2>1. req' = [req EXCEPT ![r] = [req[r] EXCEPT !.phase = "index", !.sid = s]]
    BY <1>1, <1>2 DEF CreateSession, LoginReturns
  <2>2. req'[r].phase = "index"
    BY <1>a, <2>1 DEF Request
  <2> QED
    BY <1>b, <2>2
<1>3. /\ ~IndexSession(r) /\ ~SetSessionTtl(r) /\ ~CreateSessionFails(r)
      /\ ~AuditReuse(r) /\ ~RespondLogoutAll(r) /\ ~CommandRefused(r)
      /\ ~StoreNewToken(r)
  BY <1>1, <1>a, GotoSlot
  DEF IndexSession, SetSessionTtl, CreateSessionFails, AuditReuse,
      RespondLogoutAll, CommandRefused, StoreNewToken, LoginReturns,
      RefreshPhases, SwapPhases, Phases
<1>4. ~RevokeAllForUser(r) /\ ~ReadMembers(r) /\ ~RevokeMembers(r)
  <2>1. AfterRevocation(r) \in {"audit", "respond"}
    BY DEF AfterRevocation
  <2>2. ~Goto(r, AfterRevocation(r))
    BY <1>a, <1>b, <2>1, GotoSlot DEF Phases
  <2>3. ASSUME ReadMembers(r)
        PROVE  FALSE
    <3>1. req' = [req EXCEPT ![r] =
              [req[r] EXCEPT !.phase = "pipeline", !.targets = index[req[r].user]]]
      BY <2>2, <2>3 DEF ReadMembers
    <3>2. req'[r].phase = "pipeline"
      BY <1>a, <3>1 DEF Request
    <3> QED
      BY <1>b, <3>2
  <2>4. ASSUME RevokeMembers(r)
        PROVE  FALSE
    <3>1. PICK failed : req' = [req EXCEPT ![r] =
              [req[r] EXCEPT !.phase = AfterRevocation(r), !.seen = req[r].seen \ failed]]
      BY <1>1, <2>4 DEF RevokeMembers
    <3>2. req'[r].phase = AfterRevocation(r)
      BY <1>a, <3>1 DEF Request
    <3> QED
      BY <1>b, <2>1, <3>2
  <2> QED
    BY <1>1, <2>2, <2>3, <2>4 DEF RevokeAllForUser
<1>5. ~JudgeReuse(r)
  <2> SUFFICES ASSUME JudgeReuse(r) PROVE FALSE
    OBVIOUS
  <2> DEFINE u == sessions[req[r].sid].user
  <2>1. req' = [req EXCEPT ![r] = [req[r] EXCEPT
                    !.phase = "revoke", !.user = u, !.reason = ReuseReason,
                    !.seen = OpenSessions(u)]]
    BY <1>1 DEF JudgeReuse
  <2> HIDE DEF u
  <2>2. req'[r].phase = "revoke"
    BY <1>a, <2>1 DEF Request
  <2> QED
    BY <1>b, <2>2
<1>6. ASSUME NEW n \in Tokens, RotateInTokenStore(r, n) \/ MintForSession(r, n)
      PROVE  req[r].phase = "mint" /\ req'[r].sid = req[r].sid
  <2>1. CASE RotateInTokenStore(r, n)
    <3>1. req' = [req EXCEPT ![r] = [req[r] EXCEPT !.phase = "store", !.new = n]]
      BY <2>1 DEF RotateInTokenStore
    <3> QED
      BY <1>a, <2>1, <3>1 DEF RotateInTokenStore, Request
  <2>2. CASE MintForSession(r, n)
    <3>1. req' = [req EXCEPT ![r] =
              [req[r] EXCEPT !.phase = "cas", !.new = n, !.key = primary]]
      BY <2>2 DEF MintForSession
    <3> QED
      BY <1>a, <2>2, <3>1 DEF MintForSession, Request
  <2> QED
    BY <1>6, <2>1, <2>2
<1>7. CASE EarlyReuseCheck(r) \/ ValidateRefreshToken(r) \/ RetireOldToken(r)
  BY <1>1, <1>7, <1>a, GotoSlot
  DEF EarlyReuseCheck, ValidateRefreshToken, RetireOldToken, Phases, RefreshPhases
<1>8. CASE RotateSession(r) \/ RotateSessionFails(r) \/ InspectSession(r)
  BY <1>1, <1>5, <1>8, <1>a, GotoSlot
  DEF RotateSession, RotateSessionFails, InspectSession, Phases, RefreshPhases,
      SwapPhases
<1> QED
  BY <1>2, <1>3, <1>4, <1>6, <1>7, <1>8 DEF Handle, RefreshPhases

\* Ids that clients were given are not forgotten.
LEMMA SidsGrow ==
  ASSUME [Next]_vars
  PROVE  sidsOut \subseteq sidsOut'
BY NamedMoves

\* Every step keeps refreshes and exchanges to ids that clients were given.
LEMMA NamesNext ==
  ASSUME Typed, TokensPlaced, CurrentIsCurrent, RefreshesNamed, EdgesNamed, [Next]_vars
  PROVE  RefreshesNamed' /\ EdgesNamed'
<1>a. ReqOK
  BY DEF ReqOK, Typed, TypeOK
<1>1. RefreshesNamed'
  <2> SUFFICES ASSUME NEW q \in Requests, req'[q].phase \in RefreshPhases
               PROVE  req'[q].sid \in sidsOut \cup {NoSession}
    BY SidsGrow DEF RefreshesNamed
  <2>1. CASE req'[q] = req[q]
    BY <2>1 DEF RefreshesNamed
  <2>2. CASE Restart
    BY <2>2 DEF Restart, Idle, RefreshPhases, SwapPhases
  <2>3. CASE Handle(q)
    BY <2>3, RefreshKeepsSid DEF RefreshesNamed
  <2>4. CASE Arrive(q)
    <3>1. req \in [Requests -> Request]
      BY <1>a DEF ReqOK
    <3>2. ASSUME NEW u \in Users, NEW t \in Tokens, Login(q, u, t)
          PROVE  FALSE
      <4>1. req'[q].phase = "create"
        BY <3>1, <3>2 DEF Login, Idle
      <4> QED
        BY <4>1 DEF RefreshPhases, SwapPhases
    <3>3. \A u \in Users, reason \in LogoutReasons : ~LogoutAll(q, u, reason)
      BY <3>1 DEF LogoutAll, Idle, RefreshPhases, SwapPhases
    <3>4. PICK t \in Tokens, s \in SessionIds \cup {NoSession} : BeginRefresh(q, t, s)
      BY <2>4, <3>2, <3>3 DEF Arrive
    <3>5. req'[q].sid = s
      BY <3>1, <3>4 DEF BeginRefresh, Idle
    <3> QED
      BY <3>4, <3>5 DEF BeginRefresh
  <2>5. ASSUME NEW r \in Requests, Arrive(r) \/ Handle(r), q # r
        PROVE  req'[q] = req[q]
    BY <1>a, <2>5, OthersStay
  <2> QED
    BY <2>1, <2>2, <2>3, <2>4, <2>5
    DEF Next, Environment, Logout, RotateKey, ExpireSession, vars
<1>2. EdgesNamed'
  <2> SUFFICES ASSUME NEW e \in lineage', e \notin lineage, InSession(e)
               PROVE  e.sid \in sidsOut
    BY SidsGrow DEF EdgesNamed, InSession
  <2>1. ~UNCHANGED lineage
    OBVIOUS
  <2>2. ASSUME NEW r \in Requests, NEW n \in Tokens, RotateInTokenStore(r, n)
        PROVE  FALSE
    BY <2>2 DEF RotateInTokenStore, Exchange, InSession
  <2>3. PICK r \in Requests : RotateSession(r)
    BY <2>1, <2>2, TokenMoves
    DEF Login, RetireOldToken, StoreNewToken, Logout, Restart, history
  <2>4. e.sid = req[r].sid
    BY <2>3, SwapIs
  <2>5. req[r].phase \in RefreshPhases
    BY <2>3 DEF RotateSession, RefreshPhases, SwapPhases
  <2> QED
    BY <2>4, <2>5 DEF RefreshesNamed, InSession
<1> QED
  BY <1>1, <1>2

\* The exchanges of a session stay between tokens of its user.
LEMMA UserKeepsSession ==
  ASSUME Typed, TokensPlaced, CurrentIsCurrent, NamedIsIndexed, EdgesNamed,
         SessionsStayWithTheirUser, [Next]_vars
  PROVE  SessionsStayWithTheirUser'
<1>a. OnlyGrows /\ StateTypeOK
  BY GrowsOnly DEF Typed, TypeOK
<1> SUFFICES ASSUME NEW e \in lineage', Present(e.sid)'
             PROVE  /\ owner'[e.old] = sessions'[e.sid].user
                    /\ owner'[e.new] = sessions'[e.sid].user
  BY DEF SessionsStayWithTheirUser
<1>1. e.sid \in SessionIds /\ InSession(e)
  BY NullsAssumption DEF Present, InSession
<1>2. CASE e \in lineage
  <2>1. ~FreshSid(e.sid)
    BY <1>1, <1>2, NamedIsNotFresh DEF EdgesNamed
  <2>2. Present(e.sid) /\ sessions'[e.sid].user = sessions[e.sid].user
    BY <1>1, <2>1, PresenceMoves
  <2>3. /\ owner[e.old] = sessions[e.sid].user /\ owner[e.new] = sessions[e.sid].user
        /\ sessions[e.sid].user \in Users /\ e.old \in Tokens /\ e.new \in Tokens
    BY <1>a, <1>1, <1>2, <2>2, CurrentTyped
    DEF SessionsStayWithTheirUser, StateTypeOK, Edge
  <2> QED
    BY <1>a, <2>2, <2>3 DEF OnlyGrows
<1>3. CASE e \notin lineage
  <2>1. ASSUME NEW r \in Requests, NEW n \in Tokens, RotateInTokenStore(r, n)
        PROVE  FALSE
    BY <1>1, <1>3, <2>1 DEF RotateInTokenStore, Exchange, InSession
  <2>2. PICK r \in Requests : RotateSession(r)
    BY <1>3, <2>1, TokenMoves
    DEF Login, RetireOldToken, StoreNewToken, Logout, Restart, history
  <2>3. /\ e.sid = req[r].sid /\ e.old = req[r].tok /\ e.new = req[r].new
        /\ req[r].tok \in Tokens /\ req[r].new \in Tokens
        /\ sessions'[e.sid].user = req[r].user
    BY <1>3, <2>2, SwapIs
  <2>4. req[r].phase = "cas" /\ req[r].user \in Users
    BY <2>2 DEF RotateSession, Typed, PhaseOK, LocalsOK, RefreshPhases, SwapPhases
  <2>5. owner[req[r].tok] = req[r].user /\ owner[req[r].new] = req[r].user
    BY <2>4
    DEF TokensPlaced, RefreshesDelivered, Typed, SignedForUser, RefreshPhases,
        SuccessorPhases, SwapPhases
  <2> QED
    BY <1>a, <2>3, <2>4, <2>5 DEF OnlyGrows
<1> QED
  BY <1>2, <1>3

\* No client puts its token into a session of another user, although rotate is told
\* no user: only the token whose hash the session holds is exchanged there, and that
\* was signed for the user of the session.
THEOREM SessionsStay == Spec => []SessionsStayWithTheirUser
<1>1. Init => RefreshesNamed /\ EdgesNamed /\ SessionsStayWithTheirUser
  BY DEF Init, RefreshesNamed, EdgesNamed, SessionsStayWithTheirUser, Idle,
         RefreshPhases, SwapPhases
<1>2. IInv /\ RefreshesNamed /\ EdgesNamed /\ [Next]_vars
      => (RefreshesNamed /\ EdgesNamed)'
  BY NamesNext DEF IInv, SessionsAgree
<1>3. IInv /\ EdgesNamed /\ SessionsStayWithTheirUser /\ [Next]_vars
      => SessionsStayWithTheirUser'
  BY UserKeepsSession DEF IInv, SessionsAgree, IndexAgrees
<1> QED
  BY <1>1, <1>2, <1>3, RotationInvariant, PTL DEF Spec

-----------------------------------------------------------------------------
(* A punished reuse is audited, where a handler is not cut short between the *)
(* revocation and the audit event.                                           *)

\* A session is listed for its own user.
IndexIsOwn ==
    \A u \in Users : \A s \in index[u] : Present(s) => sessions[s].user = u

\* The members that a revocation in Redis has read are still listed.
TargetsListed ==
    \A r \in Requests : req[r].phase = "pipeline" =>
        req[r].targets \subseteq index[req[r].user]

\* Someone will write the audit event of user u, or has.
AuditOf(u) ==
    \/ u \in audit
    \/ \E r \in Requests : req[r].phase = "audit" /\ req[r].user = u

\* Sessions are listed by the handlers that made them, and never twice.
LEMMA IndexOwnNext ==
  ASSUME Typed, TokensPlaced, CurrentIsCurrent, NamedIsIndexed, IndexIsOwn, [Next]_vars
  PROVE  IndexIsOwn'
<1>a. StateTypeOK
  BY DEF Typed, TypeOK
<1> SUFFICES ASSUME NEW u \in Users, NEW s \in index'[u], Present(s)'
             PROVE  sessions'[s].user = u
  BY DEF IndexIsOwn
<1>1. s \in SessionIds
  BY DEF Present
<1>2. CASE s \in index[u]
  <2>1. ~FreshSid(s)
    BY <1>2 DEF FreshSid
  <2>2. Present(s) /\ sessions'[s].user = sessions[s].user
    BY <1>1, <2>1, PresenceMoves
  <2> QED
    BY <1>2, <2>2 DEF IndexIsOwn
<1>3. CASE s \notin index[u]
  <2>1. ASSUME NEW r \in Requests, NEW q \in SessionIds, CreateSession(r, q),
               index' = [index EXCEPT ![req[r].user] = @ \cup {q}]
        PROVE  sessions'[s].user = u
    <3>1. s = q /\ u = req[r].user
      BY <1>3, <1>a, <2>1 DEF StateTypeOK
    <3>2. req[r].new \in Tokens /\ req[r].key \in Keys
      BY <2>1 DEF CreateSession, Typed, PhaseOK, LocalsOK, LoginPhases
    <3> QED
      BY <2>1, <3>1, <3>2, CreateIs DEF CreateSession
  <2>2. ASSUME NEW r \in Requests, req[r].phase = "index", UNCHANGED sessions,
               index' = [index EXCEPT ![req[r].user] = @ \cup {req[r].sid}]
        PROVE  sessions'[s].user = u
    <3>1. s = req[r].sid /\ u = req[r].user
      BY <1>3, <1>a, <2>2 DEF StateTypeOK
    <3> QED
      BY <2>2, <3>1 DEF NamedIsIndexed
  <2>3. index' # index
    BY <1>3
  <2> QED
    BY <2>1, <2>2, <2>3, IndexMoves
<1> QED
  BY <1>2, <1>3

\* What was read from the index is still in it when it is written to.
LEMMA TargetsNext ==
  ASSUME Typed, TargetsListed, [Next]_vars
  PROVE  TargetsListed'
<1> SUFFICES ASSUME NEW q \in Requests, req'[q].phase = "pipeline"
             PROVE  req'[q].targets \subseteq index'[req'[q].user]
  BY DEF TargetsListed
<1>1. SlotMove(q) /\ OnlyGrows
  BY SlotMoves, GrowsOnly
<1>2. CASE Stays(q)
  <2>1. req'[q] = req[q]
    BY <1>2 DEF Stays, RefreshPhases, SwapPhases
  <2>2. req[q].user \in Users
    BY <2>1 DEF Typed, PhaseOK, LocalsOK, RevokePhases
  <2> QED
    BY <1>1, <2>1, <2>2 DEF OnlyGrows, TargetsListed
<1>3. CASE Reads(q)
  BY <1>3 DEF Reads, SameRevocation
<1> QED
  BY <1>1, <1>2, <1>3
  DEF SlotMove, Signs, Creates, Lists, Inspects, Accuses, LogsOutAll, Revokes

\* What a revocation leaves of a session's revocation.
LEMMA RevokeInMarks ==
  ASSUME StateTypeOK, NEW S, NEW reason \in Reasons, RevokeIn(S, reason),
         NEW s \in SessionIds, Present(s)'
  PROVE  /\ Present(s) /\ sessions'[s].user = sessions[s].user
         /\ \/ sessions'[s].revoked = sessions[s].revoked
            \/ s \in S /\ sessions'[s].revoked = reason
<1>1. sessions[s] \in Session \cup {Absent}
  BY DEF StateTypeOK
<1>2. sessions'[s] = IF s \in S /\ Present(s) /\ (Backend = "redis" \/ Live(s))
                       THEN [sessions[s] EXCEPT !.revoked = reason]
                       ELSE sessions[s]
  BY DEF RevokeIn
<1>3. CASE s \in S /\ Present(s) /\ (Backend = "redis" \/ Live(s))
  BY <1>1, <1>2, <1>3 DEF Present, Session
<1>4. CASE sessions'[s] = sessions[s]
  BY <1>4 DEF Present
<1> QED
  BY <1>2, <1>3, <1>4

\* Handler r revokes for reuse, session s among others, and goes on to the audit.
Punishes(r, s) ==
    /\ req'[r].phase = "audit" /\ req'[r].user = req[r].user
    /\ req[r].user \in Users
    /\ \/ req[r].phase = "revoke" /\ s \in index[req[r].user]
       \/ req[r].phase = "pipeline" /\ s \in req[r].targets

\* A session is marked for reuse only by a handler that goes on to the audit.
LEMMA ReuseMarks ==
  ASSUME Typed, TokensPlaced, CurrentIsCurrent, Backend # "memory",
         "reply_lost" \notin Faults, [Next]_vars,
         NEW s \in SessionIds, Present(s)', sessions'[s].revoked = ReuseReason
  PROVE  \/ /\ Present(s) /\ sessions[s].revoked = ReuseReason
            /\ sessions'[s].user = sessions[s].user
         \/ /\ Present(s) /\ sessions'[s].user = sessions[s].user
            /\ \E r \in Requests : Punishes(r, s)
<1> USE DEF repo, delivered, history
<1> DEFINE Marked ==
      /\ Present(s) /\ sessions'[s].user = sessions[s].user
      /\ sessions[s].revoked = ReuseReason \/ \E r \in Requests : Punishes(r, s)
<1>a. /\ StateTypeOK /\ ReqOK /\ req \in [Requests -> Request]
      /\ \A r \in Requests : LocalsOK(req[r])
  BY DEF Typed, TypeOK, PhaseOK, ReqOK
<1>b. ReuseReason # NotRevoked
  BY NullsAssumption DEF Reasons
<1>2. CASE sessions'[s] = sessions[s]
  BY <1>2 DEF Present
<1>3. ASSUME NEW q \in SessionIds, ExpireSession(q)
      PROVE  sessions'[s] = sessions[s]
  BY <1>3, <1>a DEF ExpireSession, StateTypeOK, Present
<1>4. ASSUME Environment
      PROVE  sessions'[s] = sessions[s]
  BY <1>3, <1>4 DEF Environment, Logout, RotateKey, Restart
<1>5. ASSUME NEW r \in Requests, Arrive(r)
      PROVE  UNCHANGED sessions
  BY <1>5 DEF Arrive, Login, BeginRefresh, LogoutAll
<1>6. ASSUME NEW r \in Requests, NEW q \in SessionIds, CreateSession(r, q)
      PROVE  sessions'[s] = sessions[s]
  <2> DEFINE n == NewSession(req[r].user, req[r].new, req[r].key)
  <2>1. sessions' = [sessions EXCEPT ![q] = n]
    BY <1>6 DEF CreateSession
  <2>2. n.revoked = NotRevoked
    BY DEF NewSession
  <2> HIDE DEF n
  <2> QED
    BY <1>a, <1>b, <2>1, <2>2 DEF StateTypeOK
<1>7. ASSUME NEW r \in Requests, RotateSession(r)
      PROVE  sessions'[s] = sessions[s]
  BY <1>7, <1>b, SwapIs
<1>8. ASSUME NEW r \in Requests, EarlyReuseCheck(r)
      PROVE  UNCHANGED sessions
  BY <1>8 DEF EarlyReuseCheck, EarlyMatch
<1>9. ASSUME NEW r \in Requests, RevokeAllForUser(r)
      PROVE  Marked
  <2>1. /\ req[r].phase = "revoke" /\ RevokeIn(index[req[r].user], req[r].reason)
        /\ req[r].user \in Users /\ req[r].reason \in Reasons
        /\ Goto(r, AfterRevocation(r))
    BY <1>9, <1>a DEF RevokeAllForUser, LocalsOK, RevokePhases
  <2>2. CASE sessions'[s].revoked = sessions[s].revoked
    BY <1>a, <2>1, <2>2, RevokeInMarks
  <2>3. CASE s \in index[req[r].user] /\ sessions'[s].revoked = req[r].reason
    <3>1. AfterRevocation(r) = "audit"
      BY <2>3 DEF AfterRevocation
    <3>2. req'[r].phase = "audit" /\ req'[r].user = req[r].user
      BY <1>a, <2>1, <3>1, GotoSlot DEF Phases
    <3> QED
      BY <1>a, <2>1, <2>3, <3>2, RevokeInMarks DEF Punishes
  <2> QED
    BY <1>a, <2>1, <2>2, <2>3, RevokeInMarks
<1>10. ASSUME NEW r \in Requests, RevokeMembers(r)
       PROVE  Marked
  <2>1. PICK failed \in SUBSET req[r].targets :
               /\ RevokeIn(req[r].targets \ failed, req[r].reason)
               /\ req' = [req EXCEPT ![r] = [req[r] EXCEPT
                             !.phase = AfterRevocation(r),
                             !.seen = req[r].seen \ failed]]
    BY <1>10 DEF RevokeMembers
  <2>2. /\ req[r].phase = "pipeline" /\ req[r].user \in Users
        /\ req[r].reason \in Reasons
    BY <1>10, <1>a DEF RevokeMembers, LocalsOK, RevokePhases
  <2>3. CASE sessions'[s].revoked = sessions[s].revoked
    BY <1>a, <2>1, <2>2, <2>3, RevokeInMarks
  <2>4. CASE s \in req[r].targets \ failed /\ sessions'[s].revoked = req[r].reason
    <3>1. AfterRevocation(r) = "audit"
      BY <2>4 DEF AfterRevocation
    <3>2. req'[r].phase = "audit" /\ req'[r].user = req[r].user
      BY <1>a, <2>1, <3>1 DEF Request
    <3> QED
      BY <1>a, <2>1, <2>2, <2>4, <3>2, RevokeInMarks DEF Punishes
  <2> QED
    BY <1>a, <2>1, <2>2, <2>3, <2>4, RevokeInMarks
<1>11. ASSUME NEW r \in Requests, Handle(r), ~RevokeAllForUser(r), ~RevokeMembers(r)
       PROVE  sessions'[s] = sessions[s]
  BY <1>6, <1>7, <1>8, <1>11
  DEF Handle, IndexSession, SetSessionTtl, CreateSessionFails,
      ValidateRefreshToken, RotateInTokenStore, MintForSession,
      RotateSessionFails, InspectSession, RetireOldToken, StoreNewToken,
      ReadMembers, AuditReuse, RespondLogoutAll, CommandRefused
<1>12. \/ sessions'[s] = sessions[s]
       \/ \E r \in Requests : RevokeAllForUser(r) \/ RevokeMembers(r)
  <2>1. CASE UNCHANGED vars
    BY <2>1 DEF vars
  <2>2. CASE Next
    BY <1>4, <1>5, <1>11, <2>2 DEF Next
  <2> QED
    BY <2>1, <2>2
<1> QED
  BY <1>2, <1>9, <1>10, <1>12

\* Nothing takes back an audit event, and a handler that is about to write one does.
LEMMA AuditStays ==
  ASSUME Typed, Faults \cap {"audit_refused", "restart"} = {}, [Next]_vars,
         NEW u \in Users, AuditOf(u)
  PROVE  AuditOf(u)'
<1> USE DEF repo, delivered, history, AuditOf
<1>a. ReqOK
  BY DEF ReqOK, Typed, TypeOK
<1>1. audit \subseteq audit'
  <2>1. CASE UNCHANGED vars
    BY <2>1 DEF vars
  <2>2. CASE Environment
    BY <2>2 DEF Environment, Logout, RotateKey, ExpireSession, Restart
  <2>3. ASSUME NEW r \in Requests, Arrive(r)
        PROVE  audit \subseteq audit'
    BY <2>3 DEF Arrive, Login, BeginRefresh, LogoutAll
  <2>4. ASSUME NEW r \in Requests, Handle(r)
        PROVE  audit \subseteq audit'
    BY <2>4
    DEF Handle, CreateSession, IndexSession, SetSessionTtl, CreateSessionFails,
        EarlyReuseCheck, ValidateRefreshToken, RotateInTokenStore,
        MintForSession, RotateSession, RotateSessionFails, InspectSession,
        RetireOldToken, StoreNewToken, RevokeAllForUser, ReadMembers,
        RevokeMembers, AuditReuse, RespondLogoutAll, CommandRefused
  <2> QED
    BY <2>1, <2>2, <2>3, <2>4 DEF Next
<1>2. ASSUME NEW q \in Requests, req[q].phase = "audit", req[q].user = u
      PROVE  u \in audit' \/ req'[q] = req[q]
  <2>1. CASE UNCHANGED req
    BY <2>1
  <2>2. ~Restart
    BY DEF Restart
  <2>3. ASSUME NEW r \in Requests, Arrive(r) \/ Handle(r), q # r
        PROVE  req'[q] = req[q]
    BY <1>a, <2>3, OthersStay
  <2>4. ~Arrive(q)
    BY <1>2, ArrivesInIdle
  <2>5. ASSUME Handle(q)
        PROVE  u \in audit'
    <3>1. AuditReuse(q)
      BY <1>2, <2>5
      DEF Handle, CreateSession, IndexSession, SetSessionTtl,
          CreateSessionFails, EarlyReuseCheck, ValidateRefreshToken,
          RotateInTokenStore, MintForSession, RotateSession,
          RotateSessionFails, InspectSession, RetireOldToken, StoreNewToken,
          RevokeAllForUser, ReadMembers, RevokeMembers, RespondLogoutAll,
          CommandRefused
    <3> QED
      BY <1>2, <3>1 DEF AuditReuse
  <2> QED
    BY <2>1, <2>2, <2>3, <2>4, <2>5
    DEF Next, Environment, Logout, RotateKey, ExpireSession, vars
<1> QED
  BY <1>1, <1>2

\* A session that is punished is of the user whose event is written.
LEMMA AuditedNext ==
  ASSUME Typed, TokensPlaced, CurrentIsCurrent, IndexIsOwn, TargetsListed,
         Backend # "memory",
         Faults \cap {"reply_lost", "audit_refused", "restart"} = {},
         ReuseIsAudited, [Next]_vars
  PROVE  ReuseIsAudited'
<1> SUFFICES ASSUME NEW s \in SessionIds, Present(s)', sessions'[s].revoked = ReuseReason
             PROVE  \/ sessions'[s].user \in audit'
                    \/ \E r \in Requests : /\ req'[r].phase = "audit"
                                           /\ req'[r].user = sessions'[s].user
  BY DEF ReuseIsAudited
<1>1. ASSUME Present(s), sessions[s].revoked = ReuseReason,
             sessions'[s].user = sessions[s].user
      PROVE  \/ sessions'[s].user \in audit'
             \/ \E r \in Requests : /\ req'[r].phase = "audit"
                                    /\ req'[r].user = sessions'[s].user
  <2>1. PICK u \in Users : u = sessions[s].user
    BY <1>1, CurrentTyped DEF Typed, TypeOK
  <2>2. AuditOf(u)
    BY <1>1, <2>1 DEF ReuseIsAudited, AuditOf
  <2>3. AuditOf(u)'
    BY <2>2, AuditStays
  <2> QED
    BY <1>1, <2>1, <2>3 DEF AuditOf
<1>2. ASSUME Present(s), sessions'[s].user = sessions[s].user,
             NEW r \in Requests, Punishes(r, s)
      PROVE  req'[r].phase = "audit" /\ req'[r].user = sessions'[s].user
  <2>1. s \in index[req[r].user] /\ req[r].user \in Users
    BY <1>2 DEF Punishes, TargetsListed
  <2>2. sessions[s].user = req[r].user
    BY <1>2, <2>1 DEF IndexIsOwn
  <2> QED
    BY <1>2, <2>2 DEF Punishes
<1> QED
  BY <1>1, <1>2, ReuseMarks

\* A session is never revoked for reuse without a trace of why: beside a database,
\* where no reply is lost, no audit insert fails and the process does not stop in
\* between, its user has the event, or the handler is about to write it.
THEOREM ReuseAudited ==
  ASSUME Backend # "memory",
         Faults \cap {"reply_lost", "audit_refused", "restart"} = {}
  PROVE  Spec => []ReuseIsAudited
<1>1. Init => IndexIsOwn /\ TargetsListed /\ ReuseIsAudited
  BY DEF Init, IndexIsOwn, TargetsListed, ReuseIsAudited, Present, Idle
<1>2. IInv /\ IndexIsOwn /\ TargetsListed /\ [Next]_vars => (IndexIsOwn /\ TargetsListed)'
  BY IndexOwnNext, TargetsNext DEF IInv, SessionsAgree, IndexAgrees
<1>3. IInv /\ IndexIsOwn /\ TargetsListed /\ ReuseIsAudited /\ [Next]_vars
      => ReuseIsAudited'
  BY AuditedNext DEF IInv, SessionsAgree
<1> QED
  BY <1>1, <1>2, <1>3, RotationInvariant, PTL DEF Spec

-----------------------------------------------------------------------------
(* What a revoked session is still good for. *)

\* Every refresh comes with the session id that its client was given.
RefreshesNameTheirSession ==
    \A r \in Requests : req[r].phase = "mint" => req[r].sid # NoSession

\* RevokedSessionBuysNothing fails, and this is the one reason: the token of a
\* revoked session stays in the token store, which exchanges it for a client that
\* leaves out the session id. Where none does, revocation ends the login.
THEOREM NamedRefreshesRespectRevocation ==
  Spec /\ []RefreshesNameTheirSession => RevokedSessionBuysNothing
<1>1. ASSUME IInv, RefreshesNameTheirSession, [Next]_vars,
             NEW e \in lineage' \ lineage, NEW s \in SessionIds, Present(s), ~Live(s)
      PROVE  CurrentToken(s) # e.old
  <2>1. Typed /\ TokensPlaced /\ CurrentIsCurrent
    BY <1>1 DEF IInv, SessionsAgree
  <2>2. \A r \in Requests, n \in Tokens : ~RotateInTokenStore(r, n)
    BY <1>1 DEF RotateInTokenStore, RefreshesNameTheirSession
  <2>3. PICK r \in Requests : RotateSession(r)
    BY <1>1, <2>2, TokenMoves
    DEF Login, RetireOldToken, StoreNewToken, Logout, Restart, history
  <2>4. PICK q \in SessionIds : Live(q) /\ CurrentToken(q) = req[r].tok /\ e.old = req[r].tok
    BY <1>1, <2>1, <2>3, SwapIs
  <2>5. CASE CurrentToken(s) = e.old
    <3>1. q = s
      BY <1>1, <2>1, <2>4, <2>5 DEF CurrentIsCurrent, Live
    <3> QED
      BY <1>1, <2>4, <3>1
  <2> QED
    BY <2>5
<1>2. IInv /\ RefreshesNameTheirSession /\ [Next]_vars =>
        [\A e \in lineage' \ lineage : \A s \in SessionIds :
           Present(s) /\ ~Live(s) => CurrentToken(s) # e.old]_vars
  BY <1>1
<1> QED
  BY <1>2, RotationInvariant, PTL DEF Spec, RevokedSessionBuysNothing
=============================================================================
