-------------------------- MODULE RefreshRotationInv --------------------------
(***************************************************************************)
(* The inductive invariant of RefreshRotation, in three layers: the locals *)
(* of a handler in each phase; where a token may be; and how the sessions  *)
(* agree with the history of exchanges.                                    *)
(***************************************************************************)
EXTENDS RefreshRotation

LoginPhases == {"create", "index", "expire"}
SwapPhases == {"cas", "inspect"}
RefreshPhases == {"early", "validate", "mint", "retire", "store"} \cup SwapPhases
RevokePhases == {"revoke", "pipeline", "audit", "respond"}

\* Phases of a refresh in which its successor token is signed but not delivered.
SuccessorPhases == SwapPhases \cup {"retire", "store"}

\* The token a handler has signed and not yet delivered.
Holds(r, t) ==
    req[r].new = t /\ req[r].phase \in LoginPhases \cup SuccessorPhases

\* Edges made by the session repository, and those of the token store alone.
InSession(e) == e.sid # NoSession

-----------------------------------------------------------------------------
\* The locals a handler q has set by each phase.
LocalsOK(q) ==
    /\ q.phase \in LoginPhases \cup RefreshPhases \cup RevokePhases
         => q.user \in Users
    /\ q.phase \in LoginPhases \cup SuccessorPhases => q.new \in Tokens
    /\ q.phase \in {"index", "expire", "early", "retire"} \cup SwapPhases
         => q.sid \in SessionIds
    /\ q.phase \in RefreshPhases => q.tok \in Tokens
    /\ q.phase \in SwapPhases \cup {"create"} => q.key \in Keys
    /\ q.phase \in RevokePhases => q.reason \in Reasons

PhaseOK == \A r \in Requests : LocalsOK(req[r])

\* Tokens that clients have, and tokens handlers are about to give them, were
\* signed for a user.
SignedForUser ==
    /\ \A t \in tokensOut : owner[t] \in Users
    /\ \A r \in Requests : req[r].phase \in LoginPhases \cup SuccessorPhases =>
           owner[req[r].new] = req[r].user

Typed == TypeOK /\ PhaseOK /\ SignedForUser

-----------------------------------------------------------------------------
\* A token is accepted only for the user it was signed for.
StoredForOwner == \A u \in Users : \A t \in store[u] : owner[t] = u

\* What a handler signed is its own: nobody else holds it, no client has it.
HeldIsPrivate ==
    \A r \in Requests, t \in Tokens : Holds(r, t) =>
        /\ t \notin tokensOut
        /\ \A q \in Requests : Holds(q, t) => q = r

\* A login token is accepted from the start, a successor only once delivered.
HeldInStore ==
    \A r \in Requests :
        /\ req[r].phase \in LoginPhases => req[r].new \in store[req[r].user]
        /\ req[r].phase \in SuccessorPhases =>
               \A u \in Users : req[r].new \notin store[u]

\* A refresh works on a delivered token of its user.
RefreshesDelivered ==
    \A r \in Requests : req[r].phase \in RefreshPhases =>
        req[r].tok \in tokensOut /\ owner[req[r].tok] = req[r].user

\* Only delivered tokens are logged out or exchanged, and an exchange gives a
\* signed token nobody else got.
ExchangesDelivered ==
    /\ loggedOut \subseteq tokensOut
    /\ \A e \in lineage : e.old \in tokensOut /\ owner[e.new] \in Users
    /\ \A e, f \in lineage : e.new = f.new => e = f

\* A handler past its exchange has an edge for it; before it, or in a login,
\* its new token is the successor of nothing.
HeldInLineage ==
    \A r \in Requests :
        /\ req[r].phase = "retire" =>
               [sid |-> req[r].sid, old |-> req[r].tok, new |-> req[r].new]
                   \in lineage
        /\ req[r].phase = "store" =>
               /\ \E e \in lineage : e.old = req[r].tok /\ e.new = req[r].new
               /\ \A u \in Users : req[r].tok \notin store[u]
        /\ req[r].phase \in LoginPhases \cup SwapPhases =>
               \A e \in lineage : e.new # req[r].new

TokensPlaced ==
    /\ StoredForOwner
    /\ HeldIsPrivate
    /\ HeldInStore
    /\ RefreshesDelivered
    /\ ExchangesDelivered
    /\ HeldInLineage

-----------------------------------------------------------------------------
\* A session's current token was signed for its user, is held by no handler that
\* may still put it in a session, is no other session's, and was not exchanged
\* in a session.
CurrentIsCurrent ==
    \A s \in SessionIds : Present(s) =>
        /\ owner[CurrentToken(s)] = sessions[s].user
        /\ \A r \in Requests : Holds(r, CurrentToken(s)) =>
               req[r].phase \notin SwapPhases \cup {"create"}
        /\ \A q \in SessionIds :
               Present(q) /\ CurrentToken(q) = CurrentToken(s) => q = s
        /\ \A e \in lineage : InSession(e) => e.old # CurrentToken(s)

\* The previous hash of a session is that of a token exchanged in it.
PreviousWasExchanged ==
    \A s \in SessionIds : Present(s) /\ sessions[s].prevHash # NoHash =>
        \E e \in lineage :
            e.sid = s /\ e.old = sessions[s].prevHash.token

\* A session a client can name is listed for its user; a session that is being
\* created in Redis belongs to one handler until it is listed.
NamedIsIndexed ==
    /\ \A s \in sidsOut : \E u \in Users : s \in index[u]
    /\ \A s \in sidsOut : Present(s) => s \in index[sessions[s].user]
    /\ \A r \in Requests : req[r].phase = "index" =>
           Present(req[r].sid) /\ req[r].sid \notin sidsOut
    /\ \A r \in Requests : req[r].phase = "expire" =>
           req[r].sid \in index[req[r].user]
    /\ \A r \in Requests : req[r].phase \in {"index", "expire"} =>
           /\ Present(req[r].sid) => sessions[req[r].sid].user = req[r].user
           /\ \A q \in Requests : req[q].phase \in {"index", "expire"}
                                    /\ req[q].sid = req[r].sid => q = r

\* What a revocation must reach is among what it will read, then has read.
RevocationReaches ==
    \A r \in Requests :
        /\ req[r].phase \in RevokePhases => req[r].seen \subseteq index[req[r].user]
        /\ req[r].phase = "pipeline" => req[r].seen \subseteq req[r].targets

SessionsAgree == CurrentIsCurrent /\ PreviousWasExchanged

IndexAgrees == NamedIsIndexed /\ RevocationReaches

IInv == Typed /\ TokensPlaced /\ SessionsAgree /\ IndexAgrees
=============================================================================
