----------------------------- MODULE RateLimiter -----------------------------
(***************************************************************************)
(* RateLimitMiddleware: a sliding window per address and one per account,  *)
(* kept as sorted sets in Redis that several processes share, or, without  *)
(* Redis, as lists in the one process there is.                            *)
(*                                                                         *)
(* In Redis a process reads its clock, and then sends the transaction that *)
(* records the request under that time: transactions reach Redis up to     *)
(* MaxDelay later, and in any order.  A request that Redis fails is let    *)
(* through.                                                                *)
(*                                                                         *)
(* All paths have keys of their own, so the requests here are for one.     *)
(***************************************************************************)
EXTENDS Integers, FiniteSets

CONSTANTS
    Ips, Accounts,   \* the keys: of addresses, and of the emails in bodies
    Requests,        \* slots for HTTP requests in flight
    Backends,        \* which limiters are looked at: "redis", "memory"
    Faults,          \* what Redis may do: "refused", "reply_lost"
    IpLimit, AcctLimit, IpWindow, AcctWindow,
    Second,          \* ticks of the clock in a second, the unit of EXPIRE
    MaxDelay,        \* from reading the clock to the transaction, at most
    MaxTime,         \* bound: the clock
    MaxArrivals,     \* bound: requests
    NoKey

ASSUME KeysAssumption == Ips \cap Accounts = {} /\ NoKey \notin Ips \cup Accounts
ASSUME NumbersAssumption ==
    /\ IpLimit \in Nat /\ AcctLimit \in Nat
    /\ IpWindow \in Nat \ {0} /\ AcctWindow \in Nat \ {0}
    /\ Second \in Nat \ {0}
    /\ MaxDelay \in Nat /\ MaxTime \in Nat /\ MaxArrivals \in Nat
ASSUME ChoicesAssumption ==
    Backends \subseteq {"redis", "memory"} /\ Faults \subseteq {"refused", "reply_lost"}

VARIABLES
    backend,
    clock,
    log,        \* key -> the requests recorded
    deadline,   \* key -> when Redis drops the whole key
    req,        \* request slot -> the middleware that runs in it
    arrivals,   \* requests so far, which numbers them
    asked,      \* history: key -> all that was ever recorded
    granted     \* history: key -> the requests found within the limit

history == <<asked, granted>>
vars == <<backend, clock, log, deadline, req, arrivals, asked, granted>>

Keys == Ips \cup Accounts
Redis == backend = "redis"
Limit(k) == IF k \in Ips THEN IpLimit ELSE AcctLimit
Window(k) == IF k \in Ips THEN IpWindow ELSE AcctWindow

\* Mutant: whole seconds are rounded down.
Ttl_Floor(k) == (Window(k) \div Second) * Second

\* The window in whole seconds.
Ttl(k) == ((Window(k) + Second - 1) \div Second) * Second

Mark == [at : Nat, n : Nat]

Request == [phase : {"idle", "count", "refuse"},
            key : Keys \cup {NoKey},       \* being counted
            next : Accounts \cup {NoKey},  \* to be counted after it
            now : Nat, n : Nat]

Idle == [phase |-> "idle", key |-> NoKey, next |-> NoKey, now |-> 0, n |-> 0]

End(r) == req' = [req EXCEPT ![r] = Idle]

\* The time is read well before the request is recorded in Redis; in memory nothing
\* comes between the two.
Read == IF Redis THEN clock ELSE 0
Now(r) == IF Redis THEN req[r].now ELSE clock

\* What request r is recorded as.  In Redis a member is the key and the time, so
\* that requests of one millisecond are one member.
MarkOf(at, n) == [at |-> at, n |-> IF Redis THEN 0 ELSE n]

\* Mutant: what is exactly as old as the window stays.
Recent_Closed(marks, at, k) == {m \in marks : m.at >= at - Window(k)}

\* ZREMRANGEBYSCORE removes all up to the start of the window.
Recent(marks, at, k) == {m \in marks : m.at > at - Window(k)}

\* What is found under key k.
Stored(k) == IF Redis /\ clock >= deadline[k] THEN {} ELSE log[k]

\* What is under the key once request r is recorded.
Counted(r) ==
    LET k == req[r].key IN
    Recent(Stored(k) \cup {MarkOf(Now(r), req[r].n)}, Now(r), k)

Record(r) ==
    LET k == req[r].key IN
    /\ log' = [log EXCEPT ![k] = Counted(r)]
    /\ deadline' = [deadline EXCEPT ![k] = clock + Ttl(k)]
    /\ asked' = [asked EXCEPT ![k] = @ \cup {MarkOf(Now(r), req[r].n)}]

Init ==
    /\ backend \in Backends
    /\ clock = 0
    /\ log = [k \in Keys |-> {}]
    /\ deadline = [k \in Keys |-> 0]
    /\ req = [r \in Requests |-> Idle]
    /\ arrivals = 0
    /\ asked = [k \in Keys |-> {}]
    /\ granted = [k \in Keys |-> {}]

-----------------------------------------------------------------------------

\* A path that is not limited.
Bypass == UNCHANGED vars

\* A request from an address, with an email in its body or without.
Arrive(r, ip, account) ==
    /\ req[r] = Idle
    /\ arrivals < MaxArrivals
    /\ arrivals' = arrivals + 1
    /\ req' = [req EXCEPT ![r] =
           [phase |-> "count", key |-> ip, next |-> account,
            now |-> Read, n |-> arrivals + 1]]
    /\ UNCHANGED <<backend, clock, log, deadline, history>>

WithinLimit(marks, k) == Cardinality(marks) <= Limit(k)

\* Mutant: a body without an email is looked up as well.
Proceed_Always(r) ==
    req' = [req EXCEPT ![r] =
        IF @.key \in Accounts \cup {NoKey} THEN Idle
        ELSE [@ EXCEPT !.key = req[r].next, !.next = NoKey, !.now = Read]]

\* On to the account, for which the clock is read again; or to the handler.
Proceed(r) ==
    req' = [req EXCEPT ![r] =
        IF @.next = NoKey THEN Idle
        ELSE [@ EXCEPT !.key = req[r].next, !.next = NoKey, !.now = Read]]

Admit(r) ==
    /\ req[r].phase = "count"
    /\ WithinLimit(Counted(r), req[r].key)
    /\ Record(r)
    /\ granted' = [granted EXCEPT ![req[r].key] =
                      @ \cup {[at |-> Now(r), n |-> req[r].n]}]
    /\ Proceed(r)
    /\ UNCHANGED <<backend, clock, arrivals>>

\* The request stays recorded.
Refuse(r) ==
    /\ req[r].phase = "count"
    /\ ~WithinLimit(Counted(r), req[r].key)
    /\ Record(r)
    /\ req' = [req EXCEPT ![r].phase = "refuse"]
    /\ UNCHANGED <<backend, clock, arrivals, granted>>

\* The client gets its 429; when Redis fails the ZRANGE that asks for the oldest
\* score, the handler runs after all.
Answer(r) ==
    /\ req[r].phase = "refuse"
    /\ End(r)
    /\ UNCHANGED <<backend, clock, log, deadline, arrivals, history>>

\* The transaction fails, before or after Redis executed it; the handler runs.
RedisFails(r) ==
    /\ Redis /\ req[r].phase = "count"
    /\ \/ "refused" \in Faults /\ UNCHANGED <<log, deadline, asked>>
       \/ "reply_lost" \in Faults /\ Record(r)
    /\ End(r)
    /\ UNCHANGED <<backend, clock, arrivals, granted>>

Tick ==
    /\ clock < MaxTime
    /\ \A r \in Requests :
           Redis /\ req[r].phase = "count" => clock < req[r].now + MaxDelay
    /\ clock' = clock + 1
    /\ UNCHANGED <<backend, log, deadline, req, arrivals, history>>

Next ==
    \/ \E r \in Requests :
         \/ \E ip \in Ips, account \in Accounts \cup {NoKey} : Arrive(r, ip, account)
         \/ Admit(r) \/ Refuse(r) \/ Answer(r) \/ RedisFails(r)
    \/ Tick
    \/ Bypass

Spec == Init /\ [][Next]_vars

-----------------------------------------------------------------------------
(* Properties. *)

\* Every variable has its type.
TypeOK ==
    /\ backend \in Backends
    /\ clock \in Nat /\ arrivals \in Nat
    /\ log \in [Keys -> SUBSET Mark]
    /\ deadline \in [Keys -> Nat]
    /\ req \in [Requests -> Request]
    /\ \A r \in Requests : req[r].phase # "idle" => req[r].key \in Keys
    /\ asked \in [Keys -> SUBSET Mark]
    /\ granted \in [Keys -> SUBSET Mark]

\* The longest a transaction is on its way.
Late == IF Redis THEN MaxDelay ELSE 0

\* The requests for key k that were found within the limit, from a width before the
\* time of g to that time.
GrantedWith(k, g, width) == {x \in granted[k] : g.at - width < x.at /\ x.at <= g.at}

\* The same, requests of one millisecond counted once in Redis.
MarksWith(k, g, width) == {MarkOf(x.at, x.n) : x \in GrantedWith(k, g, width)}

\* In any stretch as long as the window less the longest delay of a transaction (in
\* memory: the window), no more requests are found within the limit than the limit,
\* however transactions overtake each other and whenever the key expires; requests
\* of one millisecond count once in Redis (slidingWindowLimit, InMemoryLimiter).
SpanIsBounded ==
    \A k \in Keys : \A g \in granted[k] :
        Cardinality(MarksWith(k, g, Window(k) - Late)) <= Limit(k)

\* No window holds more requests found within the limit than the limit, requests of
\* one millisecond counted once in Redis.  Late transactions break it: what counts
\* may be removed by a later request that overtakes, or expire with its key.
WindowIsBounded ==
    \A k \in Keys : \A g \in granted[k] :
        Cardinality(MarksWith(k, g, Window(k))) <= Limit(k)

\* The requests for key k, refused ones too, from the start of the window of r to the
\* time of r, and to Late after it.
AskedAround(k, r) ==
    {x \in asked'[k] : Now(r) - Window(k) < x.at /\ x.at <= Now(r) + Late}

\* A client is refused only when more requests than the limit are recorded in the
\* window that ends with its own, which in memory is exact.  In Redis those made up
\* to the longest delay after its own count as well, when they overtook it: a request
\* reads its time before its transaction.  Nothing else counts, and nothing twice.
RefusalIsFounded ==
    [][\A r \in Requests :
         req[r].phase = "count" /\ req'[r].phase = "refuse" =>
           Cardinality(AskedAround(req[r].key, r)) > Limit(req[r].key)]_vars

\* No window holds more requests that the limiter let through than the limit.
LimitHolds ==
    \A k \in Keys : \A g \in granted[k] :
        Cardinality(GrantedWith(k, g, Window(k))) <= Limit(k)
=============================================================================
