------------------------ MODULE SessionContractProofs ------------------------
(***************************************************************************)
(* What the session repositories' contract gives, for every set of         *)
(* sessions and tokens.                                                    *)
(***************************************************************************)
EXTENDS SessionContract, TLAPS

\* A token a session holds is held by no other one and was never exchanged.
HeldOnce ==
    \A s \in SessionIds : current[s] # NoToken =>
        /\ \A q \in SessionIds : current[q] = current[s] => q = s
        /\ \A e \in lineage : e.old # current[s]

ContractInv == ContractTypeOK /\ HeldOnce /\ NoFork

\* Opening a session on an unused token keeps the invariant.
LEMMA OpenKeeps ==
  ASSUME NoToken \notin Tokens, ContractInv,
         NEW s \in SessionIds, NEW t \in Tokens, Open(s, t)
  PROVE  ContractInv'
  <1> USE DEF ContractInv
  <1>1. ContractTypeOK'
    BY DEF ContractTypeOK, Open
  <1>2. HeldOnce'
    BY DEF HeldOnce, Open, Unused, ContractTypeOK
  <1>3. NoFork'
    BY DEF NoFork, Open
  <1> QED
    BY <1>1, <1>2, <1>3

\* An exchange consumes a token no earlier exchange consumed.
LEMMA RotateKeeps ==
  ASSUME NoToken \notin Tokens, ContractInv,
         NEW s \in SessionIds, NEW old \in Tokens,
         NEW new \in Tokens, Rotate(s, old, new)
  PROVE  ContractInv'
  <1> USE DEF ContractInv
  <1>1. ContractTypeOK'
    BY DEF ContractTypeOK, Rotate, Edge
  <1>2. /\ current[s] = old /\ old # NoToken /\ old # new
        /\ \A e \in lineage : e.old # old
        /\ \A q \in SessionIds : current[q] = old => q = s
    BY DEF Rotate, Unused, HeldOnce
  <1>3. /\ current' = [current EXCEPT ![s] = new]
        /\ \A e \in lineage' : e \in lineage \/ e.old = old
        /\ \A e \in lineage : e.old # new
        /\ \A q \in SessionIds : current[q] # new
    BY DEF Rotate, Unused
  <1>4. HeldOnce'
    <2> SUFFICES ASSUME NEW q \in SessionIds, current'[q] # NoToken
                 PROVE  /\ \A p \in SessionIds : current'[p] = current'[q] => p = q
                        /\ \A e \in lineage' : e.old # current'[q]
      BY DEF HeldOnce
    <2>1. CASE q = s
      BY <1>2, <1>3, <2>1 DEF ContractTypeOK
    <2>2. CASE q # s
      <3>1. current'[q] = current[q]
        BY <1>3, <2>2 DEF ContractTypeOK
      <3> QED
        BY <1>2, <1>3, <2>2, <3>1 DEF HeldOnce, ContractTypeOK
    <2> QED
      BY <2>1, <2>2
  <1>5. NoFork'
    <2>1. lineage' = lineage \cup {[sid |-> s, old |-> old, new |-> new]}
      BY DEF Rotate
    <2> QED
      BY <1>2, <2>1 DEF NoFork
  <1> QED
    BY <1>1, <1>4, <1>5

\* A record that goes away frees nothing that was exchanged.
LEMMA ExpireKeeps ==
  ASSUME NoToken \notin Tokens, ContractInv,
         NEW s \in SessionIds, Expire(s)
  PROVE  ContractInv'
  BY DEF ContractInv, ContractTypeOK, HeldOnce, NoFork, Expire

\* A refresh token is exchanged at most once: a login never forks.
THEOREM ContractForbidsForks ==
  ASSUME NoToken \notin Tokens
  PROVE  ContractSpec => []NoFork
  <1>1. ContractInit => ContractInv
    BY DEF ContractInit, ContractInv, ContractTypeOK, HeldOnce, NoFork
  <1>2. ContractInv /\ [ContractNext]_cvars => ContractInv'
    <2> SUFFICES ASSUME ContractInv, [ContractNext]_cvars PROVE ContractInv'
      OBVIOUS
    <2>1. ASSUME NEW S \in SUBSET SessionIds, Revoke(S) PROVE ContractInv'
      BY <2>1 DEF ContractInv, ContractTypeOK, HeldOnce, NoFork, Revoke
    <2>2. CASE UNCHANGED cvars
      BY <2>2 DEF cvars, ContractInv, ContractTypeOK, HeldOnce, NoFork
    <2> QED
      BY OpenKeeps, RotateKeeps, ExpireKeeps, <2>1, <2>2 DEF ContractNext
  <1>3. ContractInv => NoFork
    BY DEF ContractInv
  <1> QED
    BY <1>1, <1>2, <1>3, PTL DEF ContractSpec

\* What was revoked is never exchanged, and stays revoked while it exists.
THEOREM ContractFreezesRevoked == ContractSpec => RevokedIsFrozen
  <1>1. ContractInit => ContractTypeOK
    BY DEF ContractInit, ContractTypeOK
  <1>2. ContractTypeOK /\ [ContractNext]_cvars => ContractTypeOK'
    BY DEF ContractTypeOK, ContractNext, cvars, Open, Rotate, Revoke, Expire, Edge
  <1> DEFINE Frozen == \A s \in revoked :
                         \/ s \in revoked' /\ current'[s] = current[s]
                         \/ current'[s] = NoToken /\ s \in closed'
  <1>3. ContractTypeOK /\ [ContractNext]_cvars => [Frozen]_cvars
    <2> SUFFICES ASSUME ContractTypeOK, ContractNext PROVE Frozen
      OBVIOUS
    <2>1. ASSUME NEW s \in SessionIds, NEW t \in Tokens, Open(s, t) PROVE Frozen
      BY <2>1 DEF Open, ContractTypeOK
    <2>2. ASSUME NEW s \in SessionIds, NEW old \in Tokens, NEW new \in Tokens,
                 Rotate(s, old, new)
          PROVE  Frozen
      BY <2>2 DEF Rotate, ContractTypeOK
    <2>3. ASSUME NEW S \in SUBSET SessionIds, Revoke(S) PROVE Frozen
      BY <2>3 DEF Revoke
    <2>4. ASSUME NEW s \in SessionIds, Expire(s) PROVE Frozen
      BY <2>4 DEF Expire, ContractTypeOK
    <2> QED
      BY <2>1, <2>2, <2>3, <2>4 DEF ContractNext
  <1> QED
    BY <1>1, <1>2, <1>3, PTL DEF ContractSpec, RevokedIsFrozen
=============================================================================
