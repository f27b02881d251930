--------------------------- MODULE SessionContract ---------------------------
(***************************************************************************)
(* What the session repositories promise to the services above them        *)
(* (sessions.repository.ts), whichever backend is configured: a session    *)
(* holds one current refresh token, exchanges it by compare-and-swap for a *)
(* token that was never used before, and never exchanges one again once it *)
(* is revoked.                                                             *)
(***************************************************************************)

CONSTANTS
    SessionIds,   \* uuids of sessions
    Tokens,       \* refresh tokens; the jti makes each of them unique
    NoToken       \* what a session that was never opened, or expired, holds

VARIABLES
    current,      \* session -> its current refresh token
    closed,       \* sessions whose id was used and whose record is gone
    revoked,      \* sessions that were revoked
    lineage       \* exchanges made: [sid, old, new]

cvars == <<current, closed, revoked, lineage>>

Edge == [sid : SessionIds, old : Tokens, new : Tokens]

ContractTypeOK ==
    /\ current \in [SessionIds -> Tokens \cup {NoToken}]
    /\ closed \in SUBSET SessionIds
    /\ revoked \in SUBSET SessionIds
    /\ lineage \in SUBSET Edge

\* A token no session holds and no exchange mentions.
Unused(t) ==
    /\ \A s \in SessionIds : current[s] # t
    /\ \A e \in lineage : e.old # t /\ e.new # t

ContractInit ==
    /\ current = [s \in SessionIds |-> NoToken]
    /\ closed = {}
    /\ revoked = {}
    /\ lineage = {}

Open(s, t) ==
    /\ current[s] = NoToken
    /\ s \notin closed \cup revoked
    /\ Unused(t)
    /\ current' = [current EXCEPT ![s] = t]
    /\ UNCHANGED <<closed, revoked, lineage>>

Rotate(s, old, new) ==
    /\ current[s] = old
    /\ s \notin revoked
    /\ Unused(new)
    /\ current' = [current EXCEPT ![s] = new]
    /\ lineage' = lineage \cup {[sid |-> s, old |-> old, new |-> new]}
    /\ UNCHANGED <<closed, revoked>>

Revoke(S) ==
    /\ \A s \in S : current[s] # NoToken
    /\ revoked' = revoked \cup S
    /\ UNCHANGED <<current, closed, lineage>>

Expire(s) ==
    /\ current[s] # NoToken
    /\ current' = [current EXCEPT ![s] = NoToken]
    /\ closed' = closed \cup {s}
    /\ revoked' = revoked \ {s}
    /\ UNCHANGED lineage

ContractNext ==
    \/ \E s \in SessionIds, t \in Tokens : Open(s, t)
    \/ \E s \in SessionIds, old, new \in Tokens : Rotate(s, old, new)
    \/ \E S \in SUBSET SessionIds : Revoke(S)
    \/ \E s \in SessionIds : Expire(s)

ContractSpec == ContractInit /\ [][ContractNext]_cvars

-----------------------------------------------------------------------------
\* No fork: a refresh token is exchanged at most once, in one session, so a
\* login never grows two live descendants through the session repository.
NoFork ==
    \A e, f \in lineage : e.old = f.old => e = f

\* A session that holds a token and is revoked keeps that token: what was
\* revoked is never exchanged, and never comes back to life.
RevokedIsFrozen ==
    [][\A s \in revoked : \/ s \in revoked' /\ current'[s] = current[s]
                          \/ current'[s] = NoToken /\ s \in closed']_cvars
=============================================================================
