----------------------------- MODULE RateLimiter ------------------------------
(***************************************************************************)
(* The request limiter in front of every page and of the machine API       *)
(* (internal/web/middleware.go): a token bucket per client address, and a  *)
(* table of a fixed size that forgets clients it has not seen for a while. *)
(*                                                                         *)
(* The middleware reads the time before it asks for the lock, so requests  *)
(* are decided in another order than they were stamped, and time runs      *)
(* backwards for a bucket.  Tokens are counted in ticks of the clock: the  *)
(* code adds the elapsed seconds divided by rateRefill, here a request     *)
(* costs `Refill` ticks and every tick adds one.                           *)
(***************************************************************************)
EXTENDS Integers, FiniteSets

CONSTANTS
    Clients,     \* addresses
    Requests,    \* requests that can be under way at once
    Refill,      \* rateRefill: ticks to regain one request
    Burst,       \* rateBurst, in ticks: what a full bucket holds
    IdleTTL,     \* rateIdleTTL: a client unseen for longer may be forgotten
    MaxBuckets,  \* rateMaxBuckets
    Lag,         \* bound: how long a stamped request waits for the lock
    LastTick,    \* bound: the clock of the model stops there
    NoRequest

\* A forgotten bucket would be full again: 10 minutes against 120 seconds and
\* twice the wait for a mutex that guards a few map operations.
ASSUME LimiterIsTuned ==
    /\ Refill \in Nat \ {0} /\ Burst \in Nat /\ Burst >= Refill
    /\ Lag \in Nat /\ IdleTTL \in Nat /\ IdleTTL >= Burst + 2 * Lag
    /\ MaxBuckets \in Nat /\ LastTick \in Nat
    /\ IsFiniteSet(Clients)

Stamped == [client : Clients, at : Nat]
Buckets == [tokens : Int, seen : Nat]
Grants == [used : Nat, at : Nat]

ASSUME NoRequestIsNothing == NoRequest \notin Stamped /\ NoRequest \notin Buckets

VARIABLES
    clock,
    bucket,      \* the table: buckets by client, NoRequest where there is none
    request,     \* the requests that wait for the lock
    used,        \* history: ticks each client has been granted so far
    granted,     \* history: the stamps of its grants, with `used` before each
    answered     \* history: the time of its last answer

limiterVars == <<clock, bucket, request, used, granted, answered>>

Known(c) == bucket[c] # NoRequest
Tracked == {c \in Clients : Known(c)}

LimiterInit ==
    /\ clock = 0
    /\ bucket = [c \in Clients |-> NoRequest]
    /\ request = [r \in Requests |-> NoRequest]
    /\ used = [c \in Clients |-> 0]
    /\ granted = [c \in Clients |-> {}]
    /\ answered = [c \in Clients |-> 0]

-----------------------------------------------------------------------------
\* rateLimit reads the time, then allow asks for the lock.
Stamp(r, c) ==
    /\ request[r] = NoRequest
    /\ request' = [request EXCEPT ![r] = [client |-> c, at |-> clock]]
    /\ UNCHANGED <<clock, bucket, used, granted, answered>>

Tick ==
    /\ clock < LastTick
    /\ \A r \in Requests : request[r] # NoRequest => clock - request[r].at < Lag
    /\ clock' = clock + 1
    /\ UNCHANGED <<bucket, request, used, granted, answered>>

Lesser(a, b) == IF a <= b THEN a ELSE b

\* The bucket after the time that passed, full at most; time may have run back.
RefilledFromLatest(b, now) ==
    [tokens |-> Lesser(b.tokens + (now - b.seen), Burst), seen |-> IF now < b.seen THEN b.seen ELSE now]
Refilled(b, now) == [tokens |-> Lesser(b.tokens + (now - b.seen), Burst), seen |-> now]
Spend(b) == [b EXCEPT !.tokens = @ - Refill]

Idle(b, now) == now - b.seen > IdleTTL

\* What evictLocked leaves in the table.
Evicted(now) ==
    [c \in Clients |-> IF Known(c) /\ Idle(bucket[c], now) THEN NoRequest ELSE bucket[c]]

Remembered(now) == {c \in Clients : Evicted(now)[c] # NoRequest}
FullAfterEviction(now) == Cardinality(Remembered(now)) >= MaxBuckets

Answer(r, c) ==
    /\ request' = [request EXCEPT ![r] = NoRequest]
    /\ answered' = [answered EXCEPT ![c] = clock]
    /\ UNCHANGED clock

Grant(c, now) ==
    /\ used' = [used EXCEPT ![c] = @ + Refill]
    /\ granted' = [granted EXCEPT ![c] = @ \cup {[used |-> used[c], at |-> now]}]

Refuse == UNCHANGED <<used, granted>>

FullBucket(now) == [tokens |-> Burst, seen |-> now]
NewBucket(now) == [tokens |-> Burst - Refill, seen |-> now]

\* allow, one disjunct for each way through it.
AdmitNewcomer(r) ==
    LET c == request[r].client
        now == request[r].at
    IN  /\ request[r] # NoRequest
        /\ ~Known(c)
        /\ ~FullAfterEviction(now)
        /\ bucket' = [Evicted(now) EXCEPT ![c] = NewBucket(now)]
        /\ Grant(c, now)
        /\ Answer(r, c)

TurnNewcomerAway(r) ==
    LET c == request[r].client
        now == request[r].at
    IN  /\ request[r] # NoRequest
        /\ ~Known(c)
        /\ FullAfterEviction(now)
        /\ bucket' = Evicted(now)
        /\ Refuse
        /\ Answer(r, c)

AdmitKnown(r) ==
    LET c == request[r].client
        now == request[r].at
    IN  /\ request[r] # NoRequest
        /\ Known(c)
        /\ Refilled(bucket[c], now).tokens >= Refill
        /\ bucket' = [bucket EXCEPT ![c] = Spend(Refilled(@, now))]
        /\ Grant(c, now)
        /\ Answer(r, c)

TurnKnownAway(r) ==
    LET c == request[r].client
        now == request[r].at
    IN  /\ request[r] # NoRequest
        /\ Known(c)
        /\ Refilled(bucket[c], now).tokens < Refill
        /\ bucket' = [bucket EXCEPT ![c] = Refilled(@, now)]
        /\ Refuse
        /\ Answer(r, c)

LimiterNext ==
    \/ Tick
    \/ \E r \in Requests :
          \/ \E c \in Clients : Stamp(r, c)
          \/ AdmitNewcomer(r)
          \/ TurnNewcomerAway(r)
          \/ AdmitKnown(r)
          \/ TurnKnownAway(r)

LimiterSpec == LimiterInit /\ [][LimiterNext]_limiterVars

-----------------------------------------------------------------------------
LimiterTypeOK ==
    /\ clock \in Nat
    /\ bucket \in [Clients -> Buckets \cup {NoRequest}]
    /\ request \in [Requests -> Stamped \cup {NoRequest}]
    /\ used \in [Clients -> Nat]
    /\ granted \in [Clients -> SUBSET Grants]
    /\ answered \in [Clients -> Nat]

\* Between any two grants of a client there are no more than a full bucket and
\* the refill of the time between their stamps, in whatever order the requests
\* got the lock, and although the table forgets clients and starts them afresh.
QuotaKept ==
    \A c \in Clients : \A g, h \in granted[c] :
        g.used <= h.used => h.used - g.used <= Burst - Refill + (h.at - g.at)

\* The limiter never becomes the memory leak (the comment on rateMaxBuckets).
TableIsBounded == Cardinality(Tracked) <= MaxBuckets

\* The refusal names one refill as the time to wait (Retry-After: 1), and that
\* is enough: a known client that comes back a refill after its last answer is
\* granted, however far back the stamps of its earlier requests were.
RetryAfterHelps ==
    [][\A r \in Requests :
         (/\ request[r] # NoRequest /\ request'[r] = NoRequest
          /\ Known(request[r].client)
          /\ request[r].at >= answered[request[r].client] + Refill)
         => used'[request[r].client] # used[request[r].client]]_limiterVars
=============================================================================
