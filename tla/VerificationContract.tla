------------------------ MODULE VerificationContract ------------------------
(***************************************************************************)
(* What VerificationService promises the endpoints above it: asking for a  *)
(* token withdraws what the user had for the purpose, and what is granted  *)
(* is accepted at most once, not after its end, and not after another was  *)
(* asked for.                                                              *)
(*                                                                         *)
(* Between the two steps of an ask another may take both of its own: then  *)
(* the user has two offers, neither of which was there for the other ask.  *)
(***************************************************************************)
EXTENDS Naturals

CONSTANTS
    Askers,     \* requests that ask for tokens
    Accounts,
    Purposes,
    Raws        \* raw tokens: 48 random bytes, never generated twice

VARIABLES
    asking,     \* asks that have withdrawn older offers: [asker, user, purpose, seen]
    open,       \* offers that would be accepted: [user, purpose, raw, seen]
    issued,     \* raw tokens granted so far
    accepted    \* raw token -> times it was accepted

cvars == <<asking, open, issued, accepted>>

\* What an ask has seen are the raw tokens granted when it withdrew the older ones.
Ask == [asker : Askers, user : Accounts, purpose : Purposes, seen : SUBSET Raws]

Offer == [user : Accounts, purpose : Purposes, raw : Raws, seen : SUBSET Raws]

ContractTypeOK ==
    /\ asking \in SUBSET Ask
    /\ open \in SUBSET Offer
    /\ issued \in SUBSET Raws
    /\ accepted \in [Raws -> Nat]

ContractInit ==
    /\ asking = {}
    /\ open = {}
    /\ issued = {}
    /\ accepted = [t \in Raws |-> 0]

\* createVerificationToken withdraws the older offers ...
Withdraw(x, a, p) ==
    /\ \A k \in asking : k.asker # x
    /\ asking' = asking \cup {[asker |-> x, user |-> a, purpose |-> p, seen |-> issued]}
    /\ open' = {o \in open : o.user # a \/ o.purpose # p}
    /\ UNCHANGED <<issued, accepted>>

\* ... and grants a new one.
Grant(k, t) ==
    /\ t \notin issued
    /\ asking' = asking \ {k}
    /\ open' = open \cup {[user |-> k.user, purpose |-> k.purpose,
                           raw |-> t, seen |-> k.seen]}
    /\ issued' = issued \cup {t}
    /\ UNCHANGED accepted

\* verifyToken
Accept(o) ==
    /\ open' = open \ {o}
    /\ accepted' = [accepted EXCEPT ![o.raw] = @ + 1]
    /\ UNCHANGED <<asking, issued>>

\* expiresAt passes.
Lapse(o) ==
    /\ open' = open \ {o}
    /\ UNCHANGED <<asking, issued, accepted>>

ContractNext ==
    \/ \E x \in Askers, a \in Accounts, p \in Purposes : Withdraw(x, a, p)
    \/ \E k \in asking, t \in Raws : Grant(k, t)
    \/ \E o \in open : Accept(o) \/ Lapse(o)

ContractSpec == ContractInit /\ [][ContractNext]_cvars

-----------------------------------------------------------------------------
\* Of two open offers of a user for one purpose neither was there when the other was
\* asked for.
WithdrawnStaysOut ==
    \A o, q \in open :
        o # q /\ o.user = q.user /\ o.purpose = q.purpose => o.raw \notin q.seen

\* A token is accepted at most once, and what was accepted is not open again.
AcceptedOnce ==
    /\ \A t \in Raws : accepted[t] <= 1
    /\ \A o \in open : accepted[o.raw] = 0
=============================================================================
