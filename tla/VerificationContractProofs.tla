--------------------- MODULE VerificationContractProofs ---------------------
(***************************************************************************)
(* What the contract of VerificationService gives, for every set of users, *)
(* purposes and tokens.                                                    *)
(***************************************************************************)
EXTENDS VerificationContract, TLAPS

\* Open offers were issued, each its own token, and were not accepted yet; what an ask
\* or the ask of an offer has seen was issued.
OffersAreNew ==
    /\ \A o \in open : o.raw \in issued /\ o.seen \subseteq issued
    /\ \A o, q \in open : o.raw = q.raw => o = q
    /\ \A t \in Raws : t \notin issued => accepted[t] = 0
    /\ \A k \in asking : k.seen \subseteq issued

\* What an ask has seen is not open for its user and purpose.
AsksHaveWithdrawn ==
    \A k \in asking, o \in open :
        o.user = k.user /\ o.purpose = k.purpose => o.raw \notin k.seen

PromiseInv ==
    /\ ContractTypeOK /\ OffersAreNew /\ AsksHaveWithdrawn
    /\ WithdrawnStaysOut /\ AcceptedOnce

\* An ask takes away what was there for its user and purpose.
LEMMA WithdrawKeeps ==
  ASSUME PromiseInv, NEW x \in Askers, NEW a \in Accounts, NEW p \in Purposes,
         Withdraw(x, a, p)
  PROVE  PromiseInv'
<1> DEFINE new == [asker |-> x, user |-> a, purpose |-> p, seen |-> issued]
<1>1. issued \in SUBSET Raws
  BY DEF PromiseInv, ContractTypeOK
<1>2. new \in Ask /\ new.user = a /\ new.purpose = p /\ new.seen = issued
  BY <1>1 DEF Ask
<1>3. /\ asking' = asking \cup {new} /\ UNCHANGED <<issued, accepted>>
      /\ open' = {o \in open : o.user # a \/ o.purpose # p}
  BY DEF Withdraw
<1> HIDE DEF new
<1>4. ContractTypeOK'
  BY <1>2, <1>3 DEF PromiseInv, ContractTypeOK
<1>5. OffersAreNew' /\ AsksHaveWithdrawn'
  BY <1>2, <1>3 DEF PromiseInv, OffersAreNew, AsksHaveWithdrawn
<1>6. WithdrawnStaysOut' /\ AcceptedOnce'
  BY <1>3 DEF PromiseInv, WithdrawnStaysOut, AcceptedOnce
<1> QED
  BY <1>4, <1>5, <1>6 DEF PromiseInv

\* A new token was not there for any other ask.
LEMMA GrantKeeps ==
  ASSUME PromiseInv, NEW k \in asking, NEW t \in Raws, Grant(k, t)
  PROVE  PromiseInv'
<1> DEFINE new == [user |-> k.user, purpose |-> k.purpose, raw |-> t, seen |-> k.seen]
<1>1. k \in Ask
  BY DEF PromiseInv, ContractTypeOK
<1>2. /\ new \in Offer /\ new.raw = t
      /\ new.user = k.user /\ new.purpose = k.purpose /\ new.seen = k.seen
  BY <1>1 DEF Ask, Offer
<1>3. /\ t \notin issued /\ issued' = issued \cup {t} /\ accepted' = accepted
      /\ asking' = asking \ {k} /\ open' = open \cup {new}
  BY DEF Grant
<1> HIDE DEF new
<1>4. ContractTypeOK'
  BY <1>2, <1>3 DEF PromiseInv, ContractTypeOK
<1>5. \A o \in open : o.raw # t /\ t \notin o.seen
  BY <1>3 DEF PromiseInv, OffersAreNew
<1>6. OffersAreNew'
  BY <1>2, <1>3, <1>5 DEF PromiseInv, OffersAreNew
<1>7. AsksHaveWithdrawn'
  BY <1>2, <1>3 DEF PromiseInv, OffersAreNew, AsksHaveWithdrawn
<1>8. WithdrawnStaysOut'
  BY <1>2, <1>3, <1>5 DEF PromiseInv, WithdrawnStaysOut, AsksHaveWithdrawn
<1>9. AcceptedOnce'
  BY <1>2, <1>3 DEF PromiseInv, AcceptedOnce, OffersAreNew
<1> QED
  BY <1>4, <1>6, <1>7, <1>8, <1>9 DEF PromiseInv

\* Acceptance closes the offer and counts once; the end of an offer only closes it.
LEMMA CloseKeeps ==
  ASSUME PromiseInv, NEW o \in open, Accept(o) \/ Lapse(o)
  PROVE  PromiseInv'
<1>1. /\ o \in Offer /\ o.raw \in Raws /\ accepted[o.raw] = 0
  BY DEF PromiseInv, ContractTypeOK, AcceptedOnce, Offer
<1>2. /\ open' = open \ {o} /\ issued' = issued /\ asking' = asking
      /\ \/ accepted' = accepted
         \/ accepted' = [accepted EXCEPT ![o.raw] = 1]
  BY <1>1 DEF Accept, Lapse
<1>3. /\ accepted' \in [Raws -> Nat]
      /\ \A t \in Raws : t # o.raw => accepted'[t] = accepted[t]
      /\ accepted'[o.raw] \in {accepted[o.raw], 1}
  BY <1>1, <1>2 DEF PromiseInv, ContractTypeOK
<1>4. ContractTypeOK' /\ WithdrawnStaysOut' /\ AsksHaveWithdrawn'
  BY <1>2, <1>3 DEF PromiseInv, ContractTypeOK, WithdrawnStaysOut, AsksHaveWithdrawn
<1>5. OffersAreNew'
  BY <1>2, <1>3 DEF PromiseInv, OffersAreNew
<1>6. \A q \in open' : q.raw \in Raws /\ q.raw # o.raw
  BY <1>2 DEF PromiseInv, ContractTypeOK, Offer, OffersAreNew
<1>7. AcceptedOnce'
  BY <1>2, <1>3, <1>6 DEF PromiseInv, AcceptedOnce
<1> QED
  BY <1>4, <1>5, <1>7 DEF PromiseInv

\* The contract alone gives: two offers of a user for a purpose are open together only
\* where neither was there when the other was asked for, and each is accepted at most
\* once.
THEOREM PromiseIsSound == ContractSpec => [](WithdrawnStaysOut /\ AcceptedOnce)
<1>1. ContractInit => PromiseInv
  BY DEF ContractInit, PromiseInv, ContractTypeOK, OffersAreNew, AsksHaveWithdrawn,
         WithdrawnStaysOut, AcceptedOnce
<1>2. PromiseInv /\ [ContractNext]_cvars => PromiseInv'
  <2> SUFFICES ASSUME PromiseInv, [ContractNext]_cvars PROVE PromiseInv'
    OBVIOUS
  <2>1. CASE UNCHANGED cvars
    BY <2>1 DEF cvars, PromiseInv, ContractTypeOK, OffersAreNew, AsksHaveWithdrawn,
                WithdrawnStaysOut, AcceptedOnce
  <2> QED
    BY <2>1, WithdrawKeeps, GrantKeeps, CloseKeeps DEF ContractNext
<1>3. PromiseInv => WithdrawnStaysOut /\ AcceptedOnce
  BY DEF PromiseInv
<1> QED
  BY <1>1, <1>2, <1>3, PTL DEF ContractSpec
=============================================================================
