-------------------------- MODULE RateLimiterProofs --------------------------
(***************************************************************************)
(* What a limiter lets through is bounded, and its refusals are founded,   *)
(* for any number of addresses, accounts and overlapping requests, any     *)
(* limits, windows and delays, and whatever Redis fails; and what it takes *)
(* for whole windows to be within the limit.                               *)
(***************************************************************************)
EXTENDS RateLimiter, FiniteSetTheorems, TLAPS

\* A key outlives the window of what is recorded under it.
LEMMA TtlCovers ==
  ASSUME NEW k \in Keys
  PROVE  Ttl(k) \in Nat /\ Window(k) \in Nat \ {0} /\ Ttl(k) >= Window(k)
<1>1. ASSUME NEW w \in Nat, NEW s \in Nat \ {0}
      PROVE  /\ ((w + s - 1) \div s) * s \in Nat
             /\ ((w + s - 1) \div s) * s >= w
  <2> DEFINE q == (w + s - 1) \div s
             m == (w + s - 1) % s
  <2>1. q \in Nat /\ m \in 0 .. s - 1 /\ w + s - 1 = q * s + m
    BY Z3
  <2>2. q * s \in Nat
    BY <2>1, Z3
  <2> QED
    BY <2>1, <2>2, Z3
<1> QED
  BY <1>1, NumbersAssumption DEF Ttl, Window

\* All under a key was asked for, and there is an end to it.
Known ==
    \A k \in Keys : /\ IsFiniteSet(log[k]) /\ IsFiniteSet(asked[k])
                    /\ log[k] \subseteq asked[k]

\* Nothing under a key is of the future, and a key outlives the window of all that
\* is under it.
Dated ==
    \A k \in Keys : \A x \in log[k] : x.at <= clock /\ x.at + Ttl(k) <= deadline[k]

\* A transaction on its way to Redis is not late.
Timely ==
    \A r \in Requests : Redis /\ req[r].phase = "count" =>
        req[r].now <= clock /\ clock <= req[r].now + MaxDelay

\* A request found within the limit is under its key until its window is over.
Remembered ==
    \A k \in Keys : \A g \in granted[k] :
        MarkOf(g.at, g.n) \in log[k] \/ g.at + Window(k) <= clock

\* SpanIsBounded is not inductive: what a window holds must also still be under
\* the key when the next request is counted.
IInv == TypeOK /\ Known /\ Dated /\ Timely /\ Remembered /\ SpanIsBounded

\* The limiter starts in its invariant.
LEMMA InitInv == Init => IInv
<1> SUFFICES ASSUME Init PROVE IInv
  OBVIOUS
<1>1. TypeOK
  BY DEF Init, TypeOK, Idle, Request
<1>2. Known
  BY FS_EmptySet DEF Init, Known
<1>3. Dated /\ Timely /\ Remembered /\ SpanIsBounded
  BY DEF Init, Dated, Timely, Remembered, SpanIsBounded, Idle
<1> QED
  BY <1>1, <1>2, <1>3 DEF IInv

\* The time a request is recorded under is at most MaxDelay ago.
LEMMA NowIsRecent ==
  ASSUME IInv, NEW r \in Requests, req[r].phase = "count"
  PROVE  /\ req[r].key \in Keys /\ req[r].n \in Nat
         /\ clock \in Nat /\ Now(r) \in Nat
         /\ Now(r) <= clock
         /\ Late \in Nat /\ clock <= Now(r) + Late
  BY NumbersAssumption DEF IInv, TypeOK, Request, Timely, Now, Late

\* What is under the key of a request once it is recorded.
LEMMA CountedIs ==
  ASSUME IInv, NEW r \in Requests, req[r].phase = "count",
         NEW k, k = req[r].key
  PROVE  /\ Counted(r) \subseteq log[k] \cup {MarkOf(Now(r), req[r].n)}
         /\ Counted(r) \subseteq Mark
         /\ MarkOf(Now(r), req[r].n) \in Counted(r)
         /\ IsFiniteSet(Counted(r))
         /\ \A x \in Counted(r) : x.at > Now(r) - Window(k)
         /\ \A x \in log[k] :
              x.at > Now(r) - Window(k) /\ x.at + Window(k) > clock => x \in Counted(r)
<1> DEFINE e == MarkOf(Now(r), req[r].n)
<1>1. /\ k \in Keys /\ Now(r) \in Nat /\ clock \in Nat
      /\ e \in Mark /\ e.at = Now(r)
  BY NowIsRecent DEF MarkOf, Mark
<1>2. Ttl(k) \in Nat /\ Window(k) \in Nat \ {0} /\ Ttl(k) >= Window(k)
  BY <1>1, TtlCovers
<1>3. /\ log[k] \subseteq Mark /\ deadline[k] \in Nat
      /\ IsFiniteSet(log[k])
      /\ \A x \in log[k] : x.at + Ttl(k) <= deadline[k]
  BY <1>1 DEF IInv, TypeOK, Known, Dated
<1>4. Stored(k) \subseteq log[k]
  BY DEF Stored
<1>5. Counted(r) = {m \in Stored(k) \cup {e} : m.at > Now(r) - Window(k)}
  BY DEF Counted, Recent
<1>6. Counted(r) \subseteq log[k] \cup {e}
  BY <1>4, <1>5
<1>7. IsFiniteSet(log[k] \cup {e})
  BY <1>3, FS_AddElement
<1>8. IsFiniteSet(Counted(r))
  BY <1>6, <1>7, FS_Subset
<1>9. e \in Counted(r)
  BY <1>1, <1>2, <1>5
<1>10. ASSUME NEW x \in log[k],
              x.at > Now(r) - Window(k), x.at + Window(k) > clock
       PROVE  x \in Counted(r)
  <2>1. x.at \in Nat
    BY <1>3 DEF Mark
  <2>2. ~(clock >= deadline[k])
    BY <1>1, <1>2, <1>3, <1>10, <2>1
  <2> QED
    BY <1>5, <1>10, <2>2 DEF Stored
<1>11. Counted(r) \subseteq Mark
  BY <1>1, <1>3, <1>6
<1> QED
  BY <1>5, <1>6, <1>8, <1>9, <1>10, <1>11

\* Recording a request keeps what is known of the keys.
LEMMA RecordKeeps ==
  ASSUME IInv, NEW r \in Requests, req[r].phase = "count",
         Record(r), UNCHANGED <<backend, clock>>
  PROVE  /\ log' \in [Keys -> SUBSET Mark]
         /\ deadline' \in [Keys -> Nat]
         /\ asked' \in [Keys -> SUBSET Mark]
         /\ Known' /\ Dated'
         /\ \A k \in Keys : \A x \in log[k] :
              x \in log'[k] \/ x.at + Window(k) <= clock
<1> DEFINE k == req[r].key
           e == MarkOf(Now(r), req[r].n)
<1>1. /\ k \in Keys /\ Now(r) \in Nat /\ clock \in Nat /\ Now(r) <= clock
      /\ e \in Mark /\ e.at = Now(r)
  BY NowIsRecent DEF MarkOf, Mark
<1>2. Ttl(k) \in Nat /\ Window(k) \in Nat \ {0}
  BY <1>1, TtlCovers
<1>3. /\ log' = [log EXCEPT ![k] = Counted(r)]
      /\ deadline' = [deadline EXCEPT ![k] = clock + Ttl(k)]
      /\ asked' = [asked EXCEPT ![k] = asked[k] \cup {e}]
  BY DEF Record
<1>4. /\ Counted(r) \subseteq log[k] \cup {e} /\ Counted(r) \subseteq Mark
      /\ IsFiniteSet(Counted(r))
      /\ \A x \in log[k] :
           x.at > Now(r) - Window(k) /\ x.at + Window(k) > clock => x \in Counted(r)
  BY CountedIs
<1>5. /\ log \in [Keys -> SUBSET Mark] /\ deadline \in [Keys -> Nat]
      /\ asked \in [Keys -> SUBSET Mark]
  BY DEF IInv, TypeOK
<1>6. /\ log' \in [Keys -> SUBSET Mark] /\ deadline' \in [Keys -> Nat]
      /\ asked' \in [Keys -> SUBSET Mark]
  BY <1>1, <1>2, <1>3, <1>4, <1>5
<1> HIDE DEF k, e
<1>7. Known'
  <2> SUFFICES ASSUME NEW j \in Keys
               PROVE  /\ IsFiniteSet(log'[j]) /\ IsFiniteSet(asked'[j])
                      /\ log'[j] \subseteq asked'[j]
    BY DEF Known
  <2>1. IsFiniteSet(log[j]) /\ IsFiniteSet(asked[j]) /\ log[j] \subseteq asked[j]
    BY DEF IInv, Known
  <2>2. CASE j = k
    <3>1. log'[j] = Counted(r) /\ asked'[j] = asked[j] \cup {e}
      BY <1>3, <1>5, <2>2
    <3>2. IsFiniteSet(asked[j] \cup {e})
      BY <2>1, FS_AddElement
    <3> QED
      BY <1>4, <2>1, <2>2, <3>1, <3>2
  <2>3. CASE j # k
    BY <1>3, <1>5, <2>1, <2>3
  <2> QED
    BY <2>2, <2>3
<1>8. Dated'
  <2> SUFFICES ASSUME NEW j \in Keys, NEW x \in log'[j]
               PROVE  x.at <= clock /\ x.at + Ttl(j) <= deadline'[j]
    BY DEF Dated, Ttl, Window
  <2>1. \A y \in log[j] : /\ y.at \in Nat /\ y.at <= clock
                          /\ y.at + Ttl(j) <= deadline[j]
    BY <1>5 DEF IInv, Dated, Mark
  <2>2. CASE j = k
    <3>1. x \in log[j] \cup {e} /\ deadline'[j] = clock + Ttl(j)
      BY <1>3, <1>4, <1>5, <2>2
    <3> QED
      BY <1>1, <1>2, <2>1, <2>2, <3>1
  <2>3. CASE j # k
    BY <1>3, <1>5, <2>1, <2>3
  <2> QED
    BY <2>2, <2>3
<1>9. ASSUME NEW j \in Keys, NEW x \in log[j]
      PROVE  x \in log'[j] \/ x.at + Window(j) <= clock
  <2>1. CASE j = k
    <3>1. x.at \in Nat
      BY <1>5 DEF Mark
    <3>2. log'[j] = Counted(r)
      BY <1>3, <1>5, <2>1
    <3> QED
      BY <1>1, <1>2, <1>4, <2>1, <3>1, <3>2
  <2>2. CASE j # k
    BY <1>3, <1>5, <2>2
  <2> QED
    BY <2>1, <2>2
<1> QED
  BY <1>6, <1>7, <1>8, <1>9

\* While nothing is granted, what was granted stays within its windows.
LEMMA GrantedKept ==
  ASSUME IInv, UNCHANGED <<backend, granted>>, clock' \in Nat, clock <= clock',
         \A k \in Keys : \A x \in log[k] :
             x \in log'[k] \/ x.at + Window(k) <= clock'
  PROVE  Remembered' /\ SpanIsBounded'
<1>1. \A at, n : MarkOf(at, n)' = MarkOf(at, n)
  BY DEF MarkOf, Redis
<1>2. SpanIsBounded'
  BY DEF IInv, SpanIsBounded, MarksWith, GrantedWith, Late, Window, Limit, MarkOf, Redis
<1>3. Remembered'
  <2> SUFFICES ASSUME NEW k \in Keys, NEW g \in granted[k]
               PROVE  MarkOf(g.at, g.n) \in log'[k] \/ g.at + Window(k) <= clock'
    BY <1>1 DEF Remembered, MarkOf, Redis, Window
  <2>1. g.at \in Nat /\ clock \in Nat /\ Window(k) \in Nat
    BY TtlCovers DEF IInv, TypeOK, Mark
  <2>2. MarkOf(g.at, g.n).at = g.at
    BY DEF MarkOf
  <2>3. MarkOf(g.at, g.n) \in log[k] \/ g.at + Window(k) <= clock
    BY DEF IInv, Remembered
  <2> QED
    BY <2>1, <2>2, <2>3
<1> QED
  BY <1>2, <1>3

\* The heart of the matter: what a window holds of requests that were granted is
\* still under the key when the last of them is counted.
LEMMA AdmitKeepsWindows ==
  ASSUME IInv, NEW r \in Requests, Admit(r)
  PROVE  Remembered' /\ SpanIsBounded'
<1> DEFINE k == req[r].key
           e == MarkOf(Now(r), req[r].n)
           new == [at |-> Now(r), n |-> req[r].n]
<1>1. /\ req[r].phase = "count" /\ Record(r) /\ UNCHANGED <<backend, clock>>
      /\ Cardinality(Counted(r)) <= Limit(k)
      /\ granted' = [granted EXCEPT ![k] = granted[k] \cup {new}]
  BY DEF Admit, WithinLimit
<1>2. /\ k \in Keys /\ req[r].n \in Nat /\ clock \in Nat /\ Now(r) \in Nat
      /\ Now(r) <= clock /\ clock <= Now(r) + Late
  BY <1>1, NowIsRecent
<1>3. Late \in Nat /\ Window(k) \in Nat \ {0}
  BY <1>1, <1>2, NowIsRecent, TtlCovers
<1>4. /\ e \in Counted(r) /\ Counted(r) \subseteq Mark /\ IsFiniteSet(Counted(r))
      /\ \A x \in log[k] :
           x.at > Now(r) - Window(k) /\ x.at + Window(k) > clock => x \in Counted(r)
  BY <1>1, CountedIs
<1>5. /\ log \in [Keys -> SUBSET Mark] /\ granted \in [Keys -> SUBSET Mark]
      /\ new \in Mark
  BY <1>2 DEF IInv, TypeOK, Mark
<1>6. log'[k] = Counted(r)
  BY <1>1, <1>2, <1>5 DEF Record
<1>7. granted'[k] = granted[k] \cup {new} /\ \A j \in Keys \ {k} : granted'[j] = granted[j]
  BY <1>1, <1>2, <1>5
<1>8. \A at, n : MarkOf(at, n)' = MarkOf(at, n)
  BY <1>1 DEF MarkOf, Redis
<1>9. Remembered'
  <2> SUFFICES ASSUME NEW j \in Keys, NEW g \in granted'[j]
               PROVE  MarkOf(g.at, g.n) \in log'[j] \/ g.at + Window(j) <= clock
    BY <1>1, <1>8 DEF Remembered, MarkOf, Redis, Window
  <2>1. CASE g \in granted[j]
    <3>1. MarkOf(g.at, g.n) \in log[j] \/ g.at + Window(j) <= clock
      BY <2>1 DEF IInv, Remembered
    <3>2. MarkOf(g.at, g.n).at = g.at
      BY DEF MarkOf
    <3> QED
      BY <1>1, <3>1, <3>2, RecordKeeps
  <2>2. CASE g \notin granted[j]
    <3>1. j = k /\ g = new
      BY <1>7, <2>2
    <3> QED
      BY <1>4, <1>6, <3>1
  <2> QED
    BY <2>1, <2>2
<1>10. SpanIsBounded'
  <2> DEFINE With(j, g) ==
               {x \in granted'[j] : g.at - (Window(j) - Late) < x.at /\ x.at <= g.at}
             Marks(S) == {MarkOf(x.at, x.n) : x \in S}
  <2>1. SUFFICES ASSUME NEW j \in Keys, NEW g \in granted'[j]
                 PROVE  Cardinality(Marks(With(j, g))) <= Limit(j)
    BY <1>1, <1>8
       DEF SpanIsBounded, MarksWith, GrantedWith, Late, Window, Limit, Redis, MarkOf
  <2>2. CASE j = k /\ new \in With(j, g)
    \* The window has changed.
    <3>1. /\ g \in Mark /\ g.at - (Window(k) - Late) < Now(r) /\ Now(r) <= g.at
      BY <1>5, <1>7, <2>2
    <3>2. ASSUME NEW x \in With(j, g)
          PROVE  MarkOf(x.at, x.n) \in Counted(r)
      <4>1. CASE x = new
        BY <1>4, <4>1
      <4>2. CASE x # new
        <5>1. x \in granted[k] /\ x.at \in Nat /\ g.at - (Window(k) - Late) < x.at
          BY <1>5, <1>7, <2>2, <3>2, <4>2 DEF Mark
        <5>2. x.at + Window(k) > clock /\ x.at > Now(r) - Window(k)
          BY <1>2, <1>3, <3>1, <5>1 DEF Mark
        <5>3. MarkOf(x.at, x.n) \in log[k]
          BY <1>2, <1>3, <5>1, <5>2 DEF IInv, Remembered
        <5>4. MarkOf(x.at, x.n).at = x.at
          BY DEF MarkOf
        <5> QED
          BY <1>4, <5>2, <5>3, <5>4
      <4> QED
        BY <4>1, <4>2
    <3>3. Marks(With(j, g)) \subseteq Counted(r)
      BY <3>2
    <3>4. /\ Cardinality(Marks(With(j, g))) <= Cardinality(Counted(r))
          /\ Cardinality(Marks(With(j, g))) \in Nat /\ Cardinality(Counted(r)) \in Nat
      BY <1>4, <3>3, FS_Subset, FS_CardinalityType
    <3>5. Limit(k) \in Nat
      BY NumbersAssumption DEF Limit
    <3> QED
      BY <1>1, <2>2, <3>4, <3>5
  <2>3. CASE ~(j = k /\ new \in With(j, g))
    <3>1. With(j, g) = GrantedWith(j, g, Window(j) - Late)
      BY <1>7, <2>3 DEF GrantedWith
    <3>2. CASE g \in granted[j]
      BY <3>1, <3>2 DEF IInv, SpanIsBounded, MarksWith
    <3>3. CASE g \notin granted[j]
      \* A window of no length.
      <4>1. j = k /\ g = new
        BY <1>7, <3>3
      <4>2. Window(k) - Late <= 0
        BY <1>2, <1>3, <1>7, <2>3, <4>1
      <4>3. With(j, g) = {}
        BY <1>2, <1>3, <1>5, <1>7, <4>1, <4>2 DEF Mark
      <4>4. Marks(With(j, g)) = {}
        BY <4>3
      <4>5. Cardinality(Marks(With(j, g))) = 0
        BY <4>4, FS_EmptySet
      <4> QED
        BY <4>5, NumbersAssumption DEF Limit
    <3> QED
      BY <3>2, <3>3
  <2> QED
    BY <2>1, <2>2, <2>3
<1> QED
  BY <1>9, <1>10

\* A step that moves handlers alone, or time.
LEMMA NothingRecorded ==
  ASSUME IInv, UNCHANGED <<backend, log, deadline, asked, granted>>,
         clock' \in Nat, clock <= clock'
  PROVE  Known' /\ Dated' /\ Remembered' /\ SpanIsBounded'
<1>1. Known'
  BY DEF IInv, Known
<1>2. Dated'
  <2> SUFFICES ASSUME NEW k \in Keys, NEW x \in log[k]
               PROVE  x.at <= clock' /\ x.at + Ttl(k) <= deadline[k]
    BY DEF Dated, Ttl, Window
  <2> QED
    BY DEF IInv, TypeOK, Dated, Mark
<1>3. Remembered' /\ SpanIsBounded'
  BY GrantedKept
<1> QED
  BY <1>1, <1>2, <1>3

\* Every step of the limiter keeps its invariant.
LEMMA NextInv == IInv /\ [Next]_vars => IInv'
<1> SUFFICES ASSUME IInv, [Next]_vars PROVE IInv'
  OBVIOUS
<1>1. TypeOK /\ Timely
  BY DEF IInv
<1>2. CASE UNCHANGED vars
  <2>1. TypeOK' /\ Timely'
    BY <1>1, <1>2 DEF TypeOK, Timely, Redis, vars, history
  <2>2. Known' /\ Dated' /\ Remembered' /\ SpanIsBounded'
    BY <1>1, <1>2, NothingRecorded DEF TypeOK, vars, history
  <2> QED
    BY <2>1, <2>2 DEF IInv
<1>3. CASE \E r \in Requests : \E ip \in Ips, account \in Accounts \cup {NoKey} :
             Arrive(r, ip, account)
  <2>1. PICK r \in Requests, ip \in Ips, account \in Accounts \cup {NoKey} :
               Arrive(r, ip, account)
    BY <1>3
  <2>2. TypeOK' /\ Timely'
    BY <1>1, <2>1, NumbersAssumption
       DEF Arrive, Read, TypeOK, Timely, Request, Keys, Redis, history, Mark
  <2>3. Known' /\ Dated' /\ Remembered' /\ SpanIsBounded'
    BY <1>1, <2>1, NothingRecorded DEF Arrive, TypeOK, history
  <2> QED
    BY <2>2, <2>3 DEF IInv
<1>4. CASE \E r \in Requests : Admit(r)
  <2>1. PICK r \in Requests : Admit(r)
    BY <1>4
  <2>2. /\ req[r].phase = "count" /\ Record(r) /\ UNCHANGED <<backend, clock, arrivals>>
        /\ granted' = [granted EXCEPT ![req[r].key] =
                          @ \cup {[at |-> Now(r), n |-> req[r].n]}]
        /\ Proceed(r)
    BY <2>1 DEF Admit
  <2>3. /\ log' \in [Keys -> SUBSET Mark] /\ deadline' \in [Keys -> Nat]
        /\ asked' \in [Keys -> SUBSET Mark] /\ Known' /\ Dated'
    BY <2>2, RecordKeeps
  <2>4. /\ req[r].key \in Keys /\ req[r].n \in Nat /\ clock \in Nat /\ Now(r) \in Nat
    BY <2>2, NowIsRecent
  <2>5. granted' \in [Keys -> SUBSET Mark]
    BY <1>1, <2>2, <2>4 DEF TypeOK, Mark
  <2>6. /\ req' \in [Requests -> Request]
        /\ \A q \in Requests : req'[q].phase # "idle" => req'[q].key \in Keys
        /\ Timely'
    <3> DEFINE on == IF req[r].next = NoKey THEN Idle
                     ELSE [req[r] EXCEPT !.key = req[r].next, !.next = NoKey,
                                         !.now = Read]
    <3>1. req \in [Requests -> Request] /\ req[r] \in Request
      BY <1>1 DEF TypeOK
    <3>2. req' = [req EXCEPT ![r] = on]
      BY <2>2 DEF Proceed
    <3>3. Read \in Nat /\ (Redis => Read = clock)
      BY <2>4 DEF Read
    <3>4. Idle \in Request
      BY DEF Idle, Request
    <3>5. CASE req[r].next = NoKey
      <4>1. on = Idle
        BY <3>5
      <4> HIDE DEF on
      <4> QED
        BY <1>1, <2>2, <3>1, <3>2, <3>4, <4>1 DEF TypeOK, Timely, Redis, Idle
    <3>6. CASE req[r].next # NoKey
      <4>1. req[r].next \in Accounts
        BY <3>1, <3>6 DEF Request
      <4>2. on = [req[r] EXCEPT !.key = req[r].next, !.next = NoKey, !.now = Read]
        BY <3>6
      <4>3. /\ on \in Request /\ on.key \in Keys /\ on.now = Read
        BY <3>1, <3>3, <4>1, <4>2 DEF Request, Keys
      <4> HIDE DEF on
      <4>4. Timely'
        BY <1>1, <2>2, <2>4, <3>1, <3>2, <3>3, <4>3, NumbersAssumption
           DEF Timely, Redis
      <4> QED
        BY <1>1, <3>1, <3>2, <4>3, <4>4 DEF TypeOK
    <3> QED
      BY <3>5, <3>6
  <2>7. TypeOK'
    BY <1>1, <2>2, <2>3, <2>5, <2>6 DEF TypeOK
  <2>8. Remembered' /\ SpanIsBounded'
    BY <2>1, AdmitKeepsWindows
  <2> QED
    BY <2>3, <2>6, <2>7, <2>8 DEF IInv
<1>5. CASE \E r \in Requests : Refuse(r)
  <2>1. PICK r \in Requests : Refuse(r)
    BY <1>5
  <2>2. /\ req[r].phase = "count" /\ Record(r)
        /\ UNCHANGED <<backend, clock, arrivals, granted>>
        /\ req' = [req EXCEPT ![r].phase = "refuse"]
    BY <2>1 DEF Refuse
  <2>3. /\ log' \in [Keys -> SUBSET Mark] /\ deadline' \in [Keys -> Nat]
        /\ asked' \in [Keys -> SUBSET Mark] /\ Known' /\ Dated'
        /\ \A k \in Keys : \A x \in log[k] :
             x \in log'[k] \/ x.at + Window(k) <= clock
    BY <2>2, RecordKeeps
  <2>4. TypeOK' /\ Timely'
    BY <1>1, <2>2, <2>3 DEF TypeOK, Request, Timely, Redis
  <2>5. Remembered' /\ SpanIsBounded'
    BY <1>1, <2>2, <2>3, GrantedKept DEF TypeOK
  <2> QED
    BY <2>3, <2>4, <2>5 DEF IInv
<1>6. CASE \E r \in Requests : Answer(r)
  <2>1. PICK r \in Requests : Answer(r)
    BY <1>6
  <2>2. TypeOK' /\ Timely'
    BY <1>1, <2>1 DEF Answer, End, Idle, TypeOK, Timely, Request, Redis, history
  <2>3. Known' /\ Dated' /\ Remembered' /\ SpanIsBounded'
    BY <1>1, <2>1, NothingRecorded DEF Answer, TypeOK, history
  <2> QED
    BY <2>2, <2>3 DEF IInv
<1>7. CASE \E r \in Requests : RedisFails(r)
  <2>1. PICK r \in Requests : RedisFails(r)
    BY <1>7
  <2>2. /\ req[r].phase = "count" /\ UNCHANGED <<backend, clock, arrivals, granted>>
        /\ req' = [req EXCEPT ![r] = Idle]
    BY <2>1 DEF RedisFails, End
  <2>3. CASE UNCHANGED <<log, deadline, asked>>
    <3>1. TypeOK' /\ Timely'
      BY <1>1, <2>2, <2>3 DEF TypeOK, Timely, Idle, Request, Redis
    <3>2. Known' /\ Dated' /\ Remembered' /\ SpanIsBounded'
      BY <1>1, <2>2, <2>3, NothingRecorded DEF TypeOK
    <3> QED
      BY <3>1, <3>2 DEF IInv
  <2>4. CASE Record(r)
    <3>1. /\ log' \in [Keys -> SUBSET Mark] /\ deadline' \in [Keys -> Nat]
          /\ asked' \in [Keys -> SUBSET Mark] /\ Known' /\ Dated'
          /\ \A k \in Keys : \A x \in log[k] :
               x \in log'[k] \/ x.at + Window(k) <= clock
      BY <2>2, <2>4, RecordKeeps
    <3>2. TypeOK' /\ Timely'
      BY <1>1, <2>2, <3>1 DEF TypeOK, Timely, Idle, Request, Redis
    <3>3. Remembered' /\ SpanIsBounded'
      BY <1>1, <2>2, <3>1, GrantedKept DEF TypeOK
    <3> QED
      BY <3>1, <3>2, <3>3 DEF IInv
  <2> QED
    BY <2>1, <2>3, <2>4 DEF RedisFails
<1>8. CASE Tick
  <2>1. TypeOK'
    BY <1>1, <1>8 DEF Tick, TypeOK, Mark, history
  <2>2. Timely'
    BY <1>1, <1>8, NumbersAssumption DEF Tick, TypeOK, Timely, Redis, Request, history
  <2>3. Known' /\ Dated' /\ Remembered' /\ SpanIsBounded'
    BY <1>1, <1>8, NothingRecorded DEF Tick, TypeOK, history
  <2> QED
    BY <2>1, <2>2, <2>3 DEF IInv
<1> QED
  BY <1>2, <1>3, <1>4, <1>5, <1>6, <1>7, <1>8 DEF Next, Bypass

\* The inductive invariant of the limiter.
THEOREM LimiterInv == Spec => []IInv
BY InitInv, NextInv, PTL DEF Spec

\* Every reachable state of the limiter is well typed.
THEOREM LimiterTypes == Spec => []TypeOK
<1>1. IInv => TypeOK
  BY DEF IInv
<1> QED
  BY <1>1, LimiterInv, PTL

\* No stretch of the window less the longest delay holds more requests found within
\* the limit than the limit; in memory, no window.
THEOREM SpanBounded == Spec => []SpanIsBounded
<1>1. IInv => SpanIsBounded
  BY DEF IInv
<1> QED
  BY <1>1, LimiterInv, PTL

\* Every refusal has more requests than the limit behind it: made in its window, or
\* after its own time, in Redis, and no later than the longest delay.
THEOREM RefusalFounded == Spec => RefusalIsFounded
<1>1. ASSUME IInv, [Next]_vars, NEW r \in Requests,
             req[r].phase = "count", req'[r].phase = "refuse"
      PROVE  Cardinality(AskedAround(req[r].key, r)) > Limit(req[r].key)
  <2> DEFINE k == req[r].key
             W == AskedAround(k, r)
  <2>1. req \in [Requests -> Request]
    BY <1>1 DEF IInv, TypeOK
  <2>2. Refuse(r)
    <3>1. \A q \in Requests : q # r => ~Refuse(q)
      BY <1>1, <2>1 DEF Refuse
    <3>2. \A q \in Requests, ip \in Ips, account \in Accounts \cup {NoKey} :
              ~Arrive(q, ip, account)
      BY <1>1, <2>1 DEF Arrive, Idle
    <3>3. \A q \in Requests : ~Admit(q)
      <4> SUFFICES ASSUME NEW q \in Requests, Admit(q) PROVE FALSE
        OBVIOUS
      <4>1. Proceed(q)
        BY DEF Admit
      <4>2. CASE q # r
        BY <1>1, <2>1, <4>1, <4>2 DEF Proceed
      <4>3. CASE q = r /\ req[r].next = NoKey
        BY <1>1, <2>1, <4>1, <4>3 DEF Proceed, Idle
      <4>4. CASE q = r /\ req[r].next # NoKey
        <5>1. req'[r] = [req[r] EXCEPT !.key = req[r].next, !.next = NoKey,
                                       !.now = Read]
          BY <2>1, <4>1, <4>4 DEF Proceed
        <5>2. req[r] \in Request
          BY <2>1
        <5>3. req'[r].phase = "count"
          BY <1>1, <5>1, <5>2 DEF Request
        <5> QED
          BY <1>1, <5>3
      <4> QED
        BY <4>2, <4>3, <4>4
    <3>4. \A q \in Requests : ~Answer(q) /\ ~RedisFails(q)
      BY <1>1, <2>1 DEF Answer, RedisFails, End, Idle
    <3>5. ~Tick /\ ~Bypass /\ ~UNCHANGED vars
      BY <1>1 DEF Tick, Bypass, vars
    <3> QED
      BY <1>1, <3>1, <3>2, <3>3, <3>4, <3>5 DEF Next
  <2>3. /\ Record(r) /\ UNCHANGED <<backend, clock>>
        /\ ~(Cardinality(Counted(r)) <= Limit(k))
    BY <2>2 DEF Refuse, WithinLimit
  <2>4. k \in Keys
    BY <1>1, NowIsRecent
  <2>5. IsFiniteSet(asked'[k]) /\ log'[k] \subseteq asked'[k]
    BY <1>1, <2>3, <2>4, RecordKeeps DEF Known
  <2>6. log'[k] = Counted(r)
    BY <1>1, <2>3, <2>4 DEF Record, IInv, TypeOK
  <2>7. /\ IsFiniteSet(Counted(r)) /\ Counted(r) \subseteq Mark
        /\ \A x \in Counted(r) : x.at > Now(r) - Window(k)
    BY <1>1, CountedIs
  <2>8. \A x \in Counted(r) : x.at <= Now(r) + Late
    <3>1. /\ clock \in Nat /\ Now(r) \in Nat /\ Late \in Nat
          /\ Now(r) <= clock /\ clock <= Now(r) + Late
      BY <1>1, NowIsRecent
    <3>2. \A x \in log[k] : x.at <= clock
      BY <1>1, <2>4 DEF IInv, Dated
    <3>3. Counted(r) \subseteq log[k] \cup {MarkOf(Now(r), req[r].n)}
      BY <1>1, CountedIs
    <3>4. \A x \in Counted(r) : x.at \in Nat /\ x.at <= clock
      BY <2>7, <3>1, <3>2, <3>3 DEF MarkOf, Mark
    <3> QED
      BY <3>1, <3>4
  <2>9. Counted(r) \subseteq W /\ IsFiniteSet(W)
    BY <2>5, <2>6, <2>7, <2>8, <1>1, <2>4, NowIsRecent, TtlCovers, FS_Subset
       DEF AskedAround, Mark
  <2>10. /\ Cardinality(Counted(r)) \in Nat /\ Cardinality(W) \in Nat
         /\ Cardinality(Counted(r)) <= Cardinality(W)
    BY <2>7, <2>9, FS_Subset, FS_CardinalityType
  <2>11. Limit(k) \in Nat
    BY NumbersAssumption DEF Limit
  <2> QED
    BY <2>3, <2>10, <2>11
<1>2. IInv /\ [Next]_vars =>
        [\A r \in Requests :
           req[r].phase = "count" /\ req'[r].phase = "refuse" =>
             Cardinality(AskedAround(req[r].key, r)) > Limit(req[r].key)]_vars
  BY <1>1
<1> QED
  BY <1>2, LimiterInv, PTL DEF Spec, RefusalIsFounded

\* What was granted under a key has an end.
Ended == \A k \in Keys : IsFiniteSet(granted[k])

\* An invariant: requests are granted one by one.
LEMMA EndedInvariant == Spec => []Ended
<1>1. Init => Ended
  BY FS_EmptySet DEF Init, Ended
<1>2. IInv /\ Ended /\ [Next]_vars => Ended'
  <2> SUFFICES ASSUME IInv, Ended, [Next]_vars, NEW k \in Keys
               PROVE  IsFiniteSet(granted'[k])
    BY DEF Ended
  <2>1. granted \in [Keys -> SUBSET Mark] /\ IsFiniteSet(granted[k])
    BY DEF IInv, TypeOK, Ended
  <2>2. CASE \E r \in Requests : Admit(r)
    <3>1. PICK r \in Requests : Admit(r)
      BY <2>2
    <3>2. \/ granted'[k] = granted[k]
          \/ granted'[k] = granted[k] \cup {[at |-> Now(r), n |-> req[r].n]}
      BY <2>1, <3>1 DEF Admit
    <3>3. \A x : IsFiniteSet(granted[k] \cup {x})
      BY <2>1, FS_AddElement
    <3> QED
      BY <2>1, <3>2, <3>3
  <2>3. CASE \A r \in Requests : ~Admit(r)
    <3>1. UNCHANGED granted
      BY <2>3 DEF Next, Arrive, Refuse, Answer, RedisFails, Tick, Bypass, vars, history
    <3> QED
      BY <2>1, <3>1
  <2> QED
    BY <2>2, <2>3
<1> QED
  BY <1>1, <1>2, LimiterInv, PTL DEF Spec

\* No two requests granted under one key read the same millisecond.  In memory a
\* request is counted as itself, and nothing is asked.
GrantsApart ==
    Redis => \A k \in Keys : \A x, y \in granted[k] : x.at = y.at => x = y

-----------------------------------------------------------------------------
(* What it takes for whole windows to be within the limit. *)

\* In Redis: when a transaction executes, no later request has overtaken it, and its
\* key did not run out after it read its time.  In memory nothing is asked.
InTime ==
    \A r \in Requests : Redis /\ req[r].phase = "count" =>
        LET k == req[r].key IN
        /\ \A x \in asked[k] : x.at <= req[r].now
        /\ clock < deadline[k] \/ req[r].now >= deadline[k]

\* What was granted was asked for, and is under its key until a request is recorded
\* that was made when its window was over.
Kept ==
    \A k \in Keys : \A g \in granted[k] :
        /\ MarkOf(g.at, g.n) \in asked[k]
        /\ \/ MarkOf(g.at, g.n) \in log[k]
           \/ \E x \in asked[k] : g.at + Window(k) <= x.at

\* In memory there are no later requests either.
Past == \A k \in Keys : \A x \in asked[k] : x.at <= clock

\* A request recorded in time finds all that was made less than a window before it.
LEMMA CountedInTime ==
  ASSUME IInv, Past, InTime, NEW r \in Requests, req[r].phase = "count",
         NEW k, k = req[r].key
  PROVE  /\ \A x \in asked[k] : x.at <= Now(r)
         /\ \A x \in log[k] : x.at > Now(r) - Window(k) => x \in Counted(r)
<1>1. /\ k \in Keys /\ Now(r) \in Nat /\ clock \in Nat /\ Now(r) <= clock
  BY NowIsRecent
<1>2. Ttl(k) \in Nat /\ Window(k) \in Nat \ {0} /\ Ttl(k) >= Window(k)
  BY <1>1, TtlCovers
<1>3. /\ log[k] \subseteq Mark /\ deadline[k] \in Nat
      /\ \A x \in log[k] : x.at + Ttl(k) <= deadline[k]
  BY <1>1 DEF IInv, TypeOK, Dated
<1>4. \A x \in asked[k] : x.at <= Now(r)
  BY <1>1 DEF InTime, Past, Now
<1>5. ASSUME NEW x \in log[k], x.at > Now(r) - Window(k)
      PROVE  x \in Counted(r)
  <2>1. x.at \in Nat
    BY <1>3 DEF Mark
  <2>2. Redis => clock < deadline[k] \/ Now(r) >= deadline[k]
    BY DEF InTime, Now
  <2>3. ~(Redis /\ clock >= deadline[k])
    BY <1>1, <1>2, <1>3, <1>5, <2>1, <2>2
  <2> QED
    BY <1>5, <2>3 DEF Counted, Recent, Stored
<1> QED
  BY <1>4, <1>5

\* Recording a request in time keeps what was granted.
LEMMA RecordInTime ==
  ASSUME IInv, Past, InTime, Kept, NEW r \in Requests, req[r].phase = "count",
         Record(r), UNCHANGED <<backend, clock>>
  PROVE  /\ Past'
         /\ \A k \in Keys : \A g \in granted[k] :
              /\ MarkOf(g.at, g.n) \in asked'[k]
              /\ \/ MarkOf(g.at, g.n) \in log'[k]
                 \/ \E x \in asked'[k] : g.at + Window(k) <= x.at
<1> DEFINE k == req[r].key
           e == MarkOf(Now(r), req[r].n)
<1>1. /\ k \in Keys /\ Now(r) \in Nat /\ clock \in Nat /\ Now(r) <= clock
      /\ e \in Mark /\ e.at = Now(r)
  BY NowIsRecent DEF MarkOf, Mark
<1>2. /\ log' = [log EXCEPT ![k] = Counted(r)]
      /\ asked' = [asked EXCEPT ![k] = asked[k] \cup {e}]
      /\ log \in [Keys -> SUBSET Mark] /\ asked \in [Keys -> SUBSET Mark]
      /\ granted \in [Keys -> SUBSET Mark]
  BY DEF Record, IInv, TypeOK
<1>3. \A x \in log[k] : x.at > Now(r) - Window(k) => x \in Counted(r)
  BY CountedInTime
<1> HIDE DEF k, e
<1>4. Past'
  BY <1>1, <1>2 DEF Past
<1>5. ASSUME NEW j \in Keys, NEW g \in granted[j]
      PROVE  /\ MarkOf(g.at, g.n) \in asked'[j]
             /\ \/ MarkOf(g.at, g.n) \in log'[j]
                \/ \E x \in asked'[j] : g.at + Window(j) <= x.at
  <2>1. asked[j] \subseteq asked'[j]
    BY <1>1, <1>2
  <2>2. /\ MarkOf(g.at, g.n) \in asked[j]
        /\ \/ MarkOf(g.at, g.n) \in log[j]
           \/ \E x \in asked[j] : g.at + Window(j) <= x.at
    BY DEF Kept
  <2>3. CASE MarkOf(g.at, g.n) \in log[j]
    <3>1. CASE j # k
      BY <1>1, <1>2, <2>1, <2>2, <2>3, <3>1
    <3>2. CASE j = k
      <4>1. MarkOf(g.at, g.n).at = g.at /\ g.at \in Nat /\ Window(k) \in Nat
        BY <1>1, <1>2, TtlCovers DEF MarkOf, Mark
      <4>2. log'[j] = Counted(r) /\ e \in asked'[j]
        BY <1>1, <1>2, <3>2
      <4>3. g.at > Now(r) - Window(k) \/ g.at + Window(k) <= e.at
        BY <1>1, <4>1
      <4> QED
        BY <1>3, <2>1, <2>2, <2>3, <3>2, <4>1, <4>2, <4>3
    <3> QED
      BY <3>1, <3>2
  <2>4. CASE MarkOf(g.at, g.n) \notin log[j]
    BY <2>1, <2>2, <2>4
  <2> QED
    BY <2>3, <2>4
<1> QED
  BY <1>4, <1>5

\* What whole windows need: all that was granted is kept while it counts, and no
\* window is over its limit yet.
WholeInv == Past /\ Kept /\ WindowIsBounded

\* A request that is admitted in time leaves every window within the limit.
LEMMA AdmitInTime ==
  ASSUME IInv, WholeInv, InTime, NEW r \in Requests, Admit(r)
  PROVE  WholeInv'
<1> DEFINE k == req[r].key
           e == MarkOf(Now(r), req[r].n)
           new == [at |-> Now(r), n |-> req[r].n]
<1>1. /\ req[r].phase = "count" /\ Record(r) /\ UNCHANGED <<backend, clock>>
      /\ Cardinality(Counted(r)) <= Limit(k)
      /\ granted' = [granted EXCEPT ![k] = granted[k] \cup {new}]
  BY DEF Admit, WithinLimit
<1>2. /\ k \in Keys /\ req[r].n \in Nat /\ clock \in Nat /\ Now(r) \in Nat
      /\ Now(r) <= clock /\ Window(k) \in Nat \ {0}
  BY <1>1, NowIsRecent, TtlCovers
<1>3. /\ e \in Counted(r) /\ Counted(r) \subseteq Mark /\ IsFiniteSet(Counted(r))
  BY <1>1, CountedIs
<1>4. /\ \A x \in asked[k] : x.at <= Now(r)
      /\ \A x \in log[k] : x.at > Now(r) - Window(k) => x \in Counted(r)
  BY <1>1, CountedInTime DEF WholeInv
<1>5. /\ log \in [Keys -> SUBSET Mark] /\ granted \in [Keys -> SUBSET Mark]
      /\ asked \in [Keys -> SUBSET Mark] /\ new \in Mark
  BY <1>2 DEF IInv, TypeOK, Mark
<1>6. /\ log'[k] = Counted(r) /\ e \in asked'[k]
      /\ granted'[k] = granted[k] \cup {new}
      /\ \A j \in Keys \ {k} : granted'[j] = granted[j]
  BY <1>1, <1>2, <1>5 DEF Record
<1>7. \A at, n : MarkOf(at, n)' = MarkOf(at, n)
  BY <1>1 DEF MarkOf, Redis
<1>8. Past' /\ Kept'
  <2>1. /\ Past'
        /\ \A j \in Keys : \A g \in granted[j] :
             /\ MarkOf(g.at, g.n) \in asked'[j]
             /\ \/ MarkOf(g.at, g.n) \in log'[j]
                \/ \E x \in asked'[j] : g.at + Window(j) <= x.at
    BY <1>1, RecordInTime DEF WholeInv
  <2>2. \A j \in Keys : \A g \in granted'[j] :
             /\ MarkOf(g.at, g.n) \in asked'[j]
             /\ \/ MarkOf(g.at, g.n) \in log'[j]
                \/ \E x \in asked'[j] : g.at + Window(j) <= x.at
    BY <1>3, <1>6, <2>1
  <2> QED
    BY <1>1, <2>1, <2>2 DEF Kept, MarkOf, Redis, Window
<1>9. WindowIsBounded'
  <2> DEFINE With(j, g) ==
               {x \in granted'[j] : g.at - Window(j) < x.at /\ x.at <= g.at}
             Marks(S) == {MarkOf(x.at, x.n) : x \in S}
  <2>1. SUFFICES ASSUME NEW j \in Keys, NEW g \in granted'[j]
                 PROVE  Cardinality(Marks(With(j, g))) <= Limit(j)
    BY <1>1, <1>7
       DEF WindowIsBounded, MarksWith, GrantedWith, Window, Limit, Redis, MarkOf
  <2>2. CASE j = k /\ new \in With(j, g)
    <3>1. /\ g \in Mark /\ g.at - Window(k) < Now(r) /\ Now(r) <= g.at
      BY <1>5, <1>6, <2>2
    \* Nothing is later than the request itself.
    <3>2. g.at = Now(r)
      <4>1. CASE g = new
        BY <4>1
      <4>2. CASE g # new
        <5>1. MarkOf(g.at, g.n) \in asked[k] /\ MarkOf(g.at, g.n).at = g.at
          BY <1>2, <1>6, <2>2, <4>2 DEF WholeInv, Kept, MarkOf
        <5> QED
          BY <1>2, <1>4, <3>1, <5>1 DEF Mark
      <4> QED
        BY <4>1, <4>2
    <3>3. ASSUME NEW x \in With(j, g)
          PROVE  MarkOf(x.at, x.n) \in Counted(r)
      <4>1. CASE x = new
        BY <1>3, <4>1
      <4>2. CASE x # new
        <5>1. /\ x \in granted[k] /\ x.at \in Nat
              /\ x.at > Now(r) - Window(k)
          BY <1>2, <1>5, <1>6, <2>2, <3>2, <3>3, <4>2 DEF Mark
        <5>2. ~\E y \in asked[k] : x.at + Window(k) <= y.at
          <6>1. \A y \in asked[k] : y.at \in Nat /\ y.at <= Now(r)
            BY <1>2, <1>4, <1>5 DEF Mark
          <6> QED
            BY <1>2, <5>1, <6>1
        <5>3. MarkOf(x.at, x.n) \in log[k] /\ MarkOf(x.at, x.n).at = x.at
          BY <1>2, <5>1, <5>2 DEF WholeInv, Kept, MarkOf
        <5> QED
          BY <1>4, <5>1, <5>3
      <4> QED
        BY <4>1, <4>2
    <3>4. Marks(With(j, g)) \subseteq Counted(r)
      BY <3>3
    <3>5. /\ Cardinality(Marks(With(j, g))) <= Cardinality(Counted(r))
          /\ Cardinality(Marks(With(j, g))) \in Nat /\ Cardinality(Counted(r)) \in Nat
      BY <1>3, <3>4, FS_Subset, FS_CardinalityType
    <3>6. Limit(k) \in Nat
      BY NumbersAssumption DEF Limit
    <3> QED
      BY <1>1, <2>2, <3>5, <3>6
  <2>3. CASE ~(j = k /\ new \in With(j, g))
    <3>1. g \in granted[j]
      <4>1. g = new /\ j = k => new \in With(j, g)
        BY <1>2, <1>6
      <4> QED
        BY <1>6, <2>3, <4>1
    <3>2. With(j, g) = GrantedWith(j, g, Window(j))
      BY <1>6, <2>3 DEF GrantedWith
    <3> QED
      BY <3>1, <3>2 DEF WholeInv, WindowIsBounded, MarksWith
  <2> QED
    BY <2>1, <2>2, <2>3
<1> QED
  BY <1>8, <1>9 DEF WholeInv

\* Every step taken in time keeps whole windows within the limit.
LEMMA WholeNext == IInv /\ WholeInv /\ InTime /\ [Next]_vars => WholeInv'
<1> SUFFICES ASSUME IInv, WholeInv, InTime, [Next]_vars PROVE WholeInv'
  OBVIOUS
<1>1. CASE \E r \in Requests : Admit(r)
  BY <1>1, AdmitInTime
<1>2. CASE /\ UNCHANGED <<backend, log, asked, granted>>
           /\ clock' \in Nat /\ clock <= clock'
  <2>1. Past'
    BY <1>2 DEF WholeInv, Past, IInv, TypeOK, Mark
  <2>2. Kept' /\ WindowIsBounded'
    BY <1>2 DEF WholeInv, Kept, WindowIsBounded, MarksWith, GrantedWith, MarkOf, Redis,
                Window, Limit
  <2> QED
    BY <2>1, <2>2 DEF WholeInv
<1>3. CASE \E r \in Requests : /\ req[r].phase = "count" /\ Record(r)
                               /\ UNCHANGED <<backend, clock, granted>>
  <2>1. PICK r \in Requests : /\ req[r].phase = "count" /\ Record(r)
                              /\ UNCHANGED <<backend, clock, granted>>
    BY <1>3
  <2>2. /\ Past'
        /\ \A k \in Keys : \A g \in granted[k] :
             /\ MarkOf(g.at, g.n) \in asked'[k]
             /\ \/ MarkOf(g.at, g.n) \in log'[k]
                \/ \E x \in asked'[k] : g.at + Window(k) <= x.at
    BY <2>1, RecordInTime DEF WholeInv
  <2>3. Kept' /\ WindowIsBounded'
    BY <2>1, <2>2 DEF WholeInv, Kept, WindowIsBounded, MarksWith, GrantedWith, MarkOf,
                      Redis, Window, Limit
  <2> QED
    BY <2>2, <2>3 DEF WholeInv
<1>4. clock \in Nat
  BY DEF IInv, TypeOK
<1> QED
  BY <1>1, <1>2, <1>3, <1>4
     DEF Next, Arrive, Refuse, Answer, RedisFails, Tick, Bypass, vars, history

\* In Redis, too, no window holds more requests found within the limit than the
\* limit, those of one millisecond counted once, where every transaction is in time.
\* WindowIsBounded fails for no other reason, and never in memory
\* (slidingWindowLimit, InMemoryLimiter).
THEOREM WindowBoundedInTime == Spec /\ []InTime => []WindowIsBounded
<1>1. Init => WholeInv
  BY DEF Init, WholeInv, Past, Kept, WindowIsBounded
<1>2. WholeInv => WindowIsBounded
  BY DEF WholeInv
<1> QED
  BY <1>1, <1>2, WholeNext, LimiterInv, PTL DEF Spec

\* LimitHolds fails in Redis for two reasons: a transaction is not in time, or two
\* requests of one millisecond are one member of the sorted set.  Without either, and
\* always in memory, every window is within the limit (slidingWindowLimit,
\* InMemoryLimiter).
THEOREM LimitHoldsApartInTime == Spec /\ []InTime /\ []GrantsApart => []LimitHolds
<1>1. IInv /\ Ended /\ WindowIsBounded /\ GrantsApart => LimitHolds
  <2> SUFFICES ASSUME IInv, Ended, WindowIsBounded, GrantsApart, NEW k \in Keys, NEW g \in granted[k]
               PROVE  Cardinality(GrantedWith(k, g, Window(k))) <= Limit(k)
    BY DEF LimitHolds
  <2> DEFINE G == GrantedWith(k, g, Window(k))
             M == {MarkOf(x.at, x.n) : x \in G}
             f == [x \in G |-> MarkOf(x.at, x.n)]
  <2>1. G \subseteq granted[k] /\ IsFiniteSet(G)
    BY FS_Subset DEF Ended, GrantedWith
  <2>2. \A x, y \in G : MarkOf(x.at, x.n) = MarkOf(y.at, y.n) => x = y
    <3> SUFFICES ASSUME NEW x \in G, NEW y \in G, MarkOf(x.at, x.n) = MarkOf(y.at, y.n)
                 PROVE  x = y
      OBVIOUS
    <3>1. x \in Mark /\ y \in Mark
      BY <2>1 DEF IInv, TypeOK
    <3>2. x.at = y.at /\ (~Redis => x.n = y.n)
      BY DEF MarkOf
    <3>3. CASE Redis
      BY <2>1, <3>2, <3>3 DEF GrantsApart
    <3>4. CASE ~Redis
      BY <3>1, <3>2, <3>4 DEF Mark
    <3> QED
      BY <3>3, <3>4
  <2>3. f \in Surjection(G, M)
    BY DEF Surjection
  <2>4. f \in Injection(G, M)
    <3>1. f \in [G -> M]
      OBVIOUS
    <3>2. ASSUME NEW x \in G, NEW y \in G, f[x] = f[y]
          PROVE  x = y
      BY <2>2, <3>2
    <3> HIDE DEF f, M, G
    <3> QED
      BY <3>1, <3>2 DEF Injection, IsInjective
  <2>5. Cardinality(M) = Cardinality(G)
    BY <2>1, <2>3, <2>4, FS_Surjection
  <2> QED
    BY <2>5 DEF WindowIsBounded, MarksWith
<1> QED
  BY <1>1, EndedInvariant, LimiterInv, WindowBoundedInTime, PTL
=============================================================================
