-------------------------- MODULE SmallPartsProofs ---------------------------
(***************************************************************************)
(* Theorems about the matching of payments, for every ledger and every     *)
(* statement.                                                              *)
(*                                                                         *)
(* The payments taken are those of the lines that had to be recognised so  *)
(* far (LinesServed).  A search that succeeds moves each key on its path   *)
(* by one payment, so one line more is served (OneMoreServed).  A search   *)
(* in vain has visited keys that hold all the payments they could have     *)
(* (VisitedClosed): there are more lines of these keys than payments, so   *)
(* no assignment covers them (VainSearch).                                 *)
(*                                                                         *)
(* Theorems about the request limiter, for all constants that satisfy      *)
(* LimiterIsTuned.                                                         *)
(*                                                                         *)
(* The argument is a potential: tokens - seen of a bucket changes with no  *)
(* passage of time, falls by the cost of every grant and is raised by      *)
(* nothing, so together with the history of a client it bounds the grants  *)
(* from above (Fits, first part); it never falls below minus the time of   *)
(* the last answer, which bounds the wait for the next grant (second       *)
(* part).  When the table forgets a client its bucket would be full again, *)
(* because IdleTTL leaves time for a whole burst.                          *)
(*                                                                         *)
(* And theorems about UploadQueue, for every set of files, number of       *)
(* changes and gestures.                                                   *)
(*                                                                         *)
(* Whether a page may believe what it shows depends on what is under way   *)
(* when an answer comes.  Handlers wait for what they asked for (Tied);    *)
(* one request for a part counts, the newest (OneNewest), and it knows     *)
(* every mapping the page has an entry for (Named) and at least what is    *)
(* shown (Ordered).  What is queued has a run or cannot have one (Waits),  *)
(* and what a part does not show is coming: on its way, or promised        *)
(* (Covered).  All of it together is inductive (QueueInv).                 *)
(***************************************************************************)
EXTENDS AugmentingPaths, RateLimiter, UploadQueue, InductionLemmas, FiniteSetTheorems

\* What relates a bucket `b` to its client's history: `u` ticks granted so far,
\* the grants `G`, the last answer at `a`, and the clock `t`.
Fits(b, u, G, a, t) ==
    /\ a <= t
    /\ \A g \in G : g.used + Refill <= u
    /\ b = NoRequest => \A g \in G : u - g.used <= t - Lag - g.at
    /\ b # NoRequest =>
          /\ \A g \in G : b.tokens - b.seen + (u - g.used) <= Burst - g.at
          /\ b.tokens - b.seen + a >= 0
          /\ b.tokens <= Burst
          /\ a - Lag <= b.seen
          /\ b.seen <= t

Quota(G) ==
    \A g, h \in G : g.used <= h.used => h.used - g.used <= Burst - Refill + (h.at - g.at)

HistoryFits == \A c \in Clients : Fits(bucket[c], used[c], granted[c], answered[c], clock)

\* Nobody waits for the lock longer than Lag.
StampsAreRecent ==
    \A r \in Requests : request[r] # NoRequest =>
        request[r].at <= clock /\ clock <= request[r].at + Lag

LimiterInv ==
    /\ LimiterTypeOK
    /\ StampsAreRecent
    /\ HistoryFits
    /\ QuotaKept
    /\ TableIsBounded

-----------------------------------------------------------------------------
\* A stamped request and a bucket are records, never NoRequest.
LEMMA Records ==
    /\ \A q \in Stamped : q # NoRequest /\ q.client \in Clients /\ q.at \in Nat
    /\ \A b \in Buckets : b # NoRequest /\ b.tokens \in Int /\ b.seen \in Nat
    /\ \A g \in Grants : g.used \in Nat /\ g.at \in Nat
BY NoRequestIsNothing DEF Stamped, Buckets, Grants

\* Refilling, spending and starting yield buckets again.
LEMMA BucketsStayBuckets ==
    ASSUME NEW b \in Buckets, NEW now \in Nat
    PROVE  /\ Refilled(b, now) \in Buckets
           /\ Spend(Refilled(b, now)) \in Buckets
           /\ NewBucket(now) \in Buckets
BY LimiterIsTuned DEF Refilled, Spend, NewBucket, Lesser, Buckets

\* The passage of time disturbs nothing.
LEMMA TimePasses ==
    ASSUME NEW b \in Buckets \cup {NoRequest}, NEW u \in Nat, NEW G \in SUBSET Grants,
           NEW a \in Nat, NEW t \in Nat, Fits(b, u, G, a, t)
    PROVE  Fits(b, u, G, a, t + 1)
<1>1. ASSUME NEW g \in G, b = NoRequest
      PROVE  u - g.used <= (t + 1) - Lag - g.at
  BY <1>1, Records, LimiterIsTuned DEF Fits
<1>2. b # NoRequest => b.seen <= t + 1
  BY Records DEF Fits
<1> QED BY <1>1, <1>2 DEF Fits

\* Forgetting a client: whatever it was granted, the time since then covers it.
LEMMA Forgetting ==
    ASSUME NEW b \in Buckets, NEW u \in Nat, NEW G \in SUBSET Grants,
           NEW a \in Nat, NEW t \in Nat, Fits(b, u, G, a, t),
           NEW now \in Nat, now <= t, Idle(b, now)
    PROVE  Fits(NoRequest, u, G, a, t)
<1>1. b # NoRequest /\ b.tokens \in Int /\ b.seen \in Nat
  BY Records
<1>2. t >= Burst + a + Lag
  BY <1>1, LimiterIsTuned DEF Idle, Fits
<1>3. ASSUME NEW g \in G PROVE u - g.used <= t - Lag - g.at
  <2>1. g.used \in Nat /\ g.at \in Nat
    BY Records
  <2>2. b.tokens - b.seen + (u - g.used) <= Burst - g.at /\ b.tokens - b.seen + a >= 0
    BY <1>1 DEF Fits
  <2> QED BY <1>1, <1>2, <2>1, <2>2, LimiterIsTuned
<1> QED BY <1>3 DEF Fits

\* A refusal leaves the bucket refilled and nothing else changed.
LEMMA Refusing ==
    ASSUME NEW b \in Buckets, NEW u \in Nat, NEW G \in SUBSET Grants,
           NEW a \in Nat, NEW t \in Nat, Fits(b, u, G, a, t),
           NEW now \in Nat, now <= t, t <= now + Lag
    PROVE  Fits(Refilled(b, now), u, G, t, t)
<1> DEFINE d == Refilled(b, now)
<1>1. b # NoRequest /\ b.tokens \in Int /\ b.seen \in Nat
  BY Records
<1>2. d \in Buckets /\ d # NoRequest /\ d.seen = now
  BY BucketsStayBuckets, Records DEF Refilled
<1>3. /\ d.tokens \in Int
      /\ d.tokens <= Burst /\ d.tokens <= b.tokens + (now - b.seen)
      /\ d.tokens = b.tokens + (now - b.seen) \/ d.tokens = Burst
  BY <1>1, LimiterIsTuned DEF Refilled, Lesser
<1>4. ASSUME NEW g \in G PROVE d.tokens - d.seen + (u - g.used) <= Burst - g.at
  <2>1. g.used \in Nat /\ g.at \in Nat /\ b.tokens - b.seen + (u - g.used) <= Burst - g.at
    BY <1>1, Records DEF Fits
  <2> QED BY <1>1, <1>2, <1>3, <2>1, LimiterIsTuned
<1>5. d.tokens - d.seen + t >= 0
  <2>1. b.tokens - b.seen + a >= 0 /\ a <= t
    BY <1>1 DEF Fits
  <2> QED BY <1>1, <1>2, <1>3, <2>1, LimiterIsTuned
<1>6. t - Lag <= d.seen /\ d.seen <= t
  BY <1>2, LimiterIsTuned
<1> HIDE DEF d
<1> QED BY <1>2, <1>3, <1>4, <1>5, <1>6 DEF Fits, d

\* A grant out of a bucket that holds enough.
LEMMA Granting ==
    ASSUME NEW b \in Buckets, NEW u \in Nat, NEW G \in SUBSET Grants,
           NEW t \in Nat, NEW now \in Nat, now <= t,
           Fits(b, u, G, t, t), Quota(G), b.seen = now, b.tokens >= Refill
    PROVE  LET H == G \cup {[used |-> u, at |-> now]}
           IN  Fits(Spend(b), u + Refill, H, t, t) /\ Quota(H)
<1> DEFINE new == [used |-> u, at |-> now]
           H == G \cup {new}
           d == Spend(b)
<1>1. b # NoRequest /\ b.tokens \in Int /\ b.seen \in Nat
  BY Records
<1>2. /\ d \in Buckets /\ d # NoRequest
      /\ d.tokens \in Int /\ d.tokens = b.tokens - Refill /\ d.seen = now
  BY <1>1, LimiterIsTuned, Records DEF Spend, Buckets
<1>3. \A g \in G : /\ g.used \in Nat /\ g.at \in Nat /\ g.used + Refill <= u
                   /\ b.tokens - b.seen + (u - g.used) <= Burst - g.at
  BY <1>1, Records DEF Fits
<1>4. new.used = u /\ new.at = now
  OBVIOUS
<1>5. \A g \in H : g.used + Refill <= u + Refill
  BY <1>3, <1>4, LimiterIsTuned
<1>6. \A g \in H : d.tokens - d.seen + ((u + Refill) - g.used) <= Burst - g.at
  <2>1. ASSUME NEW g \in G
        PROVE  d.tokens - d.seen + ((u + Refill) - g.used) <= Burst - g.at
    BY <1>1, <1>2, <1>3, LimiterIsTuned
  <2>2. d.tokens - d.seen + ((u + Refill) - new.used) <= Burst - new.at
    BY <1>1, <1>2, <1>4, LimiterIsTuned DEF Fits
  <2> QED BY <2>1, <2>2
<1>7. /\ d.tokens - d.seen + t >= 0 /\ d.tokens <= Burst
      /\ t - Lag <= d.seen /\ d.seen <= t
  BY <1>1, <1>2, LimiterIsTuned DEF Fits
<1>8. Fits(d, u + Refill, H, t, t)
  <2> HIDE DEF d, H
  <2> QED BY <1>2, <1>5, <1>6, <1>7 DEF Fits
<1>9. Quota(H)
  <2>1. ASSUME NEW g \in G, NEW h \in G, g.used <= h.used
        PROVE  h.used - g.used <= Burst - Refill + (h.at - g.at)
    BY <2>1 DEF Quota
  <2>2. ASSUME NEW g \in G
        PROVE  new.used - g.used <= Burst - Refill + (new.at - g.at)
    BY <1>1, <1>3, <1>4, LimiterIsTuned
  <2>3. ASSUME NEW h \in G PROVE ~(new.used <= h.used)
    BY <1>3, <1>4, LimiterIsTuned
  <2>4. new.used - new.used <= Burst - Refill + (new.at - new.at)
    BY <1>4, LimiterIsTuned
  <2> HIDE DEF new
  <2> QED BY <2>1, <2>2, <2>3, <2>4 DEF Quota
<1> QED BY <1>8, <1>9

\* A newcomer starts with a full bucket, less the request it is granted; if the
\* table has forgotten it, its history allows that.
LEMMA Starting ==
    ASSUME NEW u \in Nat, NEW G \in SUBSET Grants, NEW a \in Nat, NEW t \in Nat,
           Fits(NoRequest, u, G, a, t), Quota(G),
           NEW now \in Nat, now <= t, t <= now + Lag
    PROVE  LET H == G \cup {[used |-> u, at |-> now]}
           IN  Fits(NewBucket(now), u + Refill, H, t, t) /\ Quota(H)
<1> DEFINE full == [tokens |-> Burst, seen |-> now]
<1>1. full \in Buckets /\ full # NoRequest
  BY LimiterIsTuned, Records DEF Buckets
<1>2. full.tokens = Burst /\ full.seen = now
  OBVIOUS
<1>3. ASSUME NEW g \in G
      PROVE  g.used + Refill <= u /\ Burst - now + (u - g.used) <= Burst - g.at
  <2>1. /\ g.used \in Nat /\ g.at \in Nat /\ g.used + Refill <= u
        /\ u - g.used <= t - Lag - g.at
    BY Records DEF Fits
  <2> QED BY <2>1, LimiterIsTuned
<1>4. Fits(full, u, G, t, t)
  <2>1. Burst - now + t >= 0 /\ t - Lag <= now
    BY LimiterIsTuned
  <2> HIDE DEF full
  <2> QED BY <1>1, <1>2, <1>3, <2>1, LimiterIsTuned DEF Fits
<1>5. Spend(full) = NewBucket(now) /\ full.tokens >= Refill
  BY LimiterIsTuned DEF Spend, NewBucket
<1> HIDE DEF full
<1> QED BY <1>1, <1>2, <1>4, <1>5, Granting

-----------------------------------------------------------------------------
\* The start.
LEMMA LimiterStart == LimiterInit => LimiterInv
<1> SUFFICES ASSUME LimiterInit PROVE LimiterInv
  OBVIOUS
<1>1. LimiterTypeOK
  BY DEF LimiterInit, LimiterTypeOK
<1>2. StampsAreRecent
  BY DEF LimiterInit, StampsAreRecent
<1>3. HistoryFits
  BY LimiterIsTuned DEF LimiterInit, HistoryFits, Fits
<1>4. QuotaKept
  BY DEF LimiterInit, QuotaKept
<1>5. TableIsBounded
  <2>1. Tracked = {}
    BY DEF LimiterInit, Tracked, Known
  <2> QED BY <2>1, FS_EmptySet, LimiterIsTuned DEF TableIsBounded
<1> QED BY <1>1, <1>2, <1>3, <1>4, <1>5 DEF LimiterInv

\* What the table keeps when a newcomer makes it forget idle clients.
LEMMA EvictionFits ==
    ASSUME LimiterInv, NEW now \in Nat, now <= clock, NEW c \in Clients
    PROVE  /\ Evicted(now)[c] \in Buckets \cup {NoRequest}
           /\ Fits(Evicted(now)[c], used[c], granted[c], answered[c], clock)
<1>1. /\ bucket[c] \in Buckets \cup {NoRequest} /\ used[c] \in Nat
      /\ granted[c] \in SUBSET Grants /\ answered[c] \in Nat /\ clock \in Nat
      /\ Fits(bucket[c], used[c], granted[c], answered[c], clock)
  BY DEF LimiterInv, LimiterTypeOK, HistoryFits
<1>2. CASE Known(c) /\ Idle(bucket[c], now)
  <2>1. bucket[c] \in Buckets /\ Evicted(now)[c] = NoRequest
    BY <1>1, <1>2 DEF Known, Evicted
  <2> QED BY <1>1, <1>2, <2>1, Forgetting
<1>3. CASE ~(Known(c) /\ Idle(bucket[c], now))
  BY <1>1, <1>3 DEF Evicted
<1> QED BY <1>2, <1>3

\* The steps that decide a request do what they do to its client alone, except
\* that the table may have forgotten others.
LEMMA AnswerPreserves ==
    ASSUME LimiterInv, LimiterTypeOK',
           NEW r \in Requests, request[r] # NoRequest, NEW c \in Clients,
           Answer(r, c),
           Fits(bucket'[c], used'[c], granted'[c], clock, clock), Quota(granted'[c]),
           \A e \in Clients \ {c} :
              /\ Fits(bucket'[e], used[e], granted[e], answered[e], clock)
              /\ used'[e] = used[e] /\ granted'[e] = granted[e]
    PROVE  StampsAreRecent' /\ HistoryFits' /\ QuotaKept'
<1>1. clock' = clock
  BY DEF Answer
<1>2. \A q \in Requests : request'[q] # NoRequest => request'[q] = request[q]
  BY DEF Answer, LimiterInv, LimiterTypeOK
<1>3. StampsAreRecent'
  BY <1>1, <1>2 DEF StampsAreRecent, LimiterInv
<1>4. answered'[c] = clock /\ \A e \in Clients \ {c} : answered'[e] = answered[e]
  BY DEF Answer, LimiterInv, LimiterTypeOK
<1>5. HistoryFits'
  <2> SUFFICES ASSUME NEW e \in Clients
               PROVE  Fits(bucket'[e], used'[e], granted'[e], answered'[e], clock')
    BY DEF HistoryFits
  <2> QED BY <1>1, <1>4
<1>6. QuotaKept'
  <2> SUFFICES ASSUME NEW e \in Clients PROVE Quota(granted'[e])
    BY DEF QuotaKept, Quota
  <2>1. CASE e = c
    BY <2>1
  <2>2. CASE e # c
    <3>1. Quota(granted[e])
      BY DEF LimiterInv, QuotaKept, Quota
    <3> QED BY <2>2, <3>1
  <2> QED BY <2>1, <2>2
<1> QED BY <1>3, <1>5, <1>6

\* The facts every decision starts from.
LEMMA RequestFacts ==
    ASSUME LimiterInv, NEW r \in Requests, request[r] # NoRequest
    PROVE  /\ request[r].client \in Clients
           /\ request[r].at \in Nat /\ clock \in Nat
           /\ request[r].at <= clock /\ clock <= request[r].at + Lag
<1>1. request[r] \in Stamped /\ clock \in Nat
  BY DEF LimiterInv, LimiterTypeOK
<1> QED BY <1>1, Records DEF LimiterInv, StampsAreRecent

LEMMA ClientFacts ==
    ASSUME LimiterInv, NEW c \in Clients
    PROVE  /\ bucket[c] \in Buckets \cup {NoRequest}
           /\ used[c] \in Nat /\ granted[c] \in SUBSET Grants /\ answered[c] \in Nat
           /\ Fits(bucket[c], used[c], granted[c], answered[c], clock)
           /\ Quota(granted[c])
BY DEF LimiterInv, LimiterTypeOK, HistoryFits, QuotaKept, Quota

\* A table that keeps fewer clients is no larger.
LEMMA FewerTracked ==
    ASSUME NEW S, S \subseteq Tracked
    PROVE  Cardinality(S) \in Nat /\ Cardinality(S) <= Cardinality(Tracked)
<1>1. IsFiniteSet(Tracked)
  BY LimiterIsTuned, FS_Subset DEF Tracked
<1> QED BY <1>1, FS_Subset, FS_CardinalityType

\* Each action of Next, one lemma each.
LEMMA StampSafe ==
    ASSUME LimiterInv, NEW r \in Requests, NEW c \in Clients, Stamp(r, c)
    PROVE  LimiterInv'
<1>1. LimiterTypeOK'
  BY DEF LimiterInv, LimiterTypeOK, Stamp, Stamped
<1>2. StampsAreRecent'
  <2> SUFFICES ASSUME NEW q \in Requests, request'[q] # NoRequest
               PROVE  request'[q].at <= clock' /\ clock' <= request'[q].at + Lag
    BY DEF StampsAreRecent
  <2>1. CASE q = r
    <3>1. request'[q].at = clock /\ clock' = clock /\ clock \in Nat
      BY <2>1 DEF Stamp, LimiterInv, LimiterTypeOK
    <3> QED BY <3>1, LimiterIsTuned
  <2>2. CASE q # r
    BY <2>2 DEF Stamp, LimiterInv, LimiterTypeOK, StampsAreRecent
  <2> QED BY <2>1, <2>2
<1>3. HistoryFits' /\ QuotaKept' /\ TableIsBounded'
  BY DEF LimiterInv, Stamp, HistoryFits, QuotaKept, TableIsBounded, Tracked, Known
<1> QED BY <1>1, <1>2, <1>3 DEF LimiterInv

LEMMA TickSafe ==
    ASSUME LimiterInv, Tick
    PROVE  LimiterInv'
<1>1. clock \in Nat /\ clock' = clock + 1
  BY DEF Tick, LimiterInv, LimiterTypeOK
<1>2. LimiterTypeOK'
  BY <1>1 DEF LimiterInv, LimiterTypeOK, Tick
<1>3. StampsAreRecent'
  <2> SUFFICES ASSUME NEW q \in Requests, request[q] # NoRequest
               PROVE  request[q].at <= clock' /\ clock' <= request[q].at + Lag
    BY DEF StampsAreRecent, Tick
  <2>1. request[q].at \in Nat /\ request[q].at <= clock /\ clock - request[q].at < Lag
    BY RequestFacts DEF Tick
  <2> QED BY <1>1, <2>1, LimiterIsTuned
<1>4. HistoryFits'
  <2> SUFFICES ASSUME NEW c \in Clients
               PROVE  Fits(bucket[c], used[c], granted[c], answered[c], clock + 1)
    BY <1>1 DEF HistoryFits, Tick
  <2> QED BY <1>1, ClientFacts, TimePasses
<1>5. QuotaKept' /\ TableIsBounded'
  BY DEF LimiterInv, Tick, QuotaKept, TableIsBounded, Tracked, Known
<1> QED BY <1>2, <1>3, <1>4, <1>5 DEF LimiterInv

LEMMA TurnKnownAwaySafe ==
    ASSUME LimiterInv, NEW r \in Requests, TurnKnownAway(r)
    PROVE  LimiterInv'
<1> DEFINE c == request[r].client
           now == request[r].at
<1>1. request[r] # NoRequest /\ Answer(r, c) /\ Known(c)
  BY DEF TurnKnownAway
<1>2. /\ c \in Clients /\ now \in Nat /\ clock \in Nat
      /\ now <= clock /\ clock <= now + Lag
  BY <1>1, RequestFacts
<1>3. /\ bucket[c] \in Buckets /\ used[c] \in Nat /\ granted[c] \in SUBSET Grants
      /\ answered[c] \in Nat
      /\ Fits(bucket[c], used[c], granted[c], answered[c], clock) /\ Quota(granted[c])
  BY <1>1, <1>2, ClientFacts DEF Known
<1>4. bucket' = [bucket EXCEPT ![c] = Refilled(bucket[c], now)]
  BY DEF TurnKnownAway
<1>5. used' = used /\ granted' = granted
  BY DEF TurnKnownAway, Refuse
<1>6. bucket'[c] = Refilled(bucket[c], now) /\ \A e \in Clients \ {c} : bucket'[e] = bucket[e]
  BY <1>2, <1>4 DEF LimiterInv, LimiterTypeOK
<1>7. LimiterTypeOK'
  <2>1. Refilled(bucket[c], now) \in Buckets
    BY <1>2, <1>3, BucketsStayBuckets
  <2> QED BY <1>1, <1>2, <1>4, <1>5, <2>1 DEF LimiterInv, LimiterTypeOK, Answer
<1>8. Fits(bucket'[c], used'[c], granted'[c], clock, clock) /\ Quota(granted'[c])
  BY <1>2, <1>3, <1>5, <1>6, Refusing
<1>9. \A e \in Clients \ {c} :
         /\ Fits(bucket'[e], used[e], granted[e], answered[e], clock)
         /\ used'[e] = used[e] /\ granted'[e] = granted[e]
  BY <1>5, <1>6, ClientFacts
<1>10. TableIsBounded'
  <2>1. Tracked' = Tracked
    <3>1. bucket'[c] # NoRequest
      BY <1>2, <1>3, <1>6, BucketsStayBuckets, Records
    <3>2. bucket[c] # NoRequest
      BY <1>1 DEF Known
    <3> QED BY <1>6, <3>1, <3>2 DEF Tracked, Known
  <2> QED BY <2>1 DEF LimiterInv, TableIsBounded
<1> HIDE DEF c, now
<1> QED BY <1>1, <1>2, <1>7, <1>8, <1>9, <1>10, AnswerPreserves DEF LimiterInv

LEMMA AdmitKnownSafe ==
    ASSUME LimiterInv, NEW r \in Requests, AdmitKnown(r)
    PROVE  LimiterInv'
<1> DEFINE c == request[r].client
           now == request[r].at
           d == Refilled(bucket[c], now)
           new == [used |-> used[c], at |-> now]
<1>1. request[r] # NoRequest /\ Answer(r, c) /\ Known(c) /\ d.tokens >= Refill
  BY DEF AdmitKnown
<1>2. /\ c \in Clients /\ now \in Nat /\ clock \in Nat
      /\ now <= clock /\ clock <= now + Lag
  BY <1>1, RequestFacts
<1>3. /\ bucket[c] \in Buckets /\ used[c] \in Nat /\ granted[c] \in SUBSET Grants
      /\ answered[c] \in Nat
      /\ Fits(bucket[c], used[c], granted[c], answered[c], clock) /\ Quota(granted[c])
  BY <1>1, <1>2, ClientFacts DEF Known
<1>4. bucket' = [bucket EXCEPT ![c] = Spend(d)]
  BY DEF AdmitKnown
<1>5. /\ used' = [used EXCEPT ![c] = used[c] + Refill]
      /\ granted' = [granted EXCEPT ![c] = granted[c] \cup {new}]
  BY DEF AdmitKnown, Grant
<1>6. /\ bucket'[c] = Spend(d) /\ used'[c] = used[c] + Refill
      /\ granted'[c] = granted[c] \cup {new}
      /\ \A e \in Clients \ {c} :
            bucket'[e] = bucket[e] /\ used'[e] = used[e] /\ granted'[e] = granted[e]
  BY <1>2, <1>4, <1>5 DEF LimiterInv, LimiterTypeOK
<1>7. d \in Buckets /\ Spend(d) \in Buckets /\ new \in Grants
  BY <1>2, <1>3, BucketsStayBuckets DEF Grants
<1>8. LimiterTypeOK'
  <2>1. used[c] + Refill \in Nat /\ granted[c] \cup {new} \in SUBSET Grants
    BY <1>3, <1>7, LimiterIsTuned
  <2> HIDE DEF c, now, d, new
  <2> QED BY <1>1, <1>2, <1>4, <1>5, <1>7, <2>1 DEF LimiterInv, LimiterTypeOK, Answer
<1>9. Fits(bucket'[c], used'[c], granted'[c], clock, clock) /\ Quota(granted'[c])
  <2>1. Fits(d, used[c], granted[c], clock, clock)
    BY <1>2, <1>3, Refusing
  <2>2. d.seen = now
    BY DEF Refilled
  <2>3. Fits(Spend(d), used[c] + Refill, granted[c] \cup {new}, clock, clock)
        /\ Quota(granted[c] \cup {new})
    <3> HIDE DEF d
    <3> QED BY <1>1, <1>2, <1>3, <1>7, <2>1, <2>2, Granting
  <2> QED BY <1>6, <2>3
<1>10. \A e \in Clients \ {c} :
          /\ Fits(bucket'[e], used[e], granted[e], answered[e], clock)
          /\ used'[e] = used[e] /\ granted'[e] = granted[e]
  BY <1>6, ClientFacts
<1>11. TableIsBounded'
  <2>1. Tracked' = Tracked
    <3>1. bucket'[c] # NoRequest
      BY <1>6, <1>7, Records
    <3>2. bucket[c] # NoRequest
      BY <1>1 DEF Known
    <3> QED BY <1>6, <3>1, <3>2 DEF Tracked, Known
  <2> QED BY <2>1 DEF LimiterInv, TableIsBounded
<1> HIDE DEF c, now, d, new
<1> QED BY <1>1, <1>2, <1>8, <1>9, <1>10, <1>11, AnswerPreserves DEF LimiterInv

LEMMA TurnNewcomerAwaySafe ==
    ASSUME LimiterInv, NEW r \in Requests, TurnNewcomerAway(r)
    PROVE  LimiterInv'
<1> DEFINE c == request[r].client
           now == request[r].at
<1>1. request[r] # NoRequest /\ Answer(r, c) /\ ~Known(c)
  BY DEF TurnNewcomerAway
<1>2. /\ c \in Clients /\ now \in Nat /\ clock \in Nat
      /\ now <= clock /\ clock <= now + Lag
  BY <1>1, RequestFacts
<1>3. bucket' = Evicted(now) /\ used' = used /\ granted' = granted
  BY DEF TurnNewcomerAway, Refuse
<1>4. \A e \in Clients :
         /\ Evicted(now)[e] \in Buckets \cup {NoRequest}
         /\ Fits(Evicted(now)[e], used[e], granted[e], answered[e], clock)
  BY <1>2, EvictionFits
<1>5. LimiterTypeOK'
  <2>1. Evicted(now) \in [Clients -> Buckets \cup {NoRequest}]
    BY <1>4 DEF Evicted
  <2> HIDE DEF c, now
  <2> QED BY <1>1, <1>2, <1>3, <2>1 DEF LimiterInv, LimiterTypeOK, Answer
<1>6. Fits(bucket'[c], used'[c], granted'[c], clock, clock) /\ Quota(granted'[c])
  <2>1. /\ Fits(Evicted(now)[c], used[c], granted[c], answered[c], clock)
        /\ Quota(granted[c])
    BY <1>2, <1>4, ClientFacts
  <2>2. Evicted(now)[c] = NoRequest
    BY <1>1, <1>2 DEF Evicted, Known
  <2>3. Fits(NoRequest, used[c], granted[c], clock, clock)
    BY <1>2, <2>1, <2>2 DEF Fits
  <2> QED BY <1>3, <2>1, <2>2, <2>3
<1>7. \A e \in Clients \ {c} :
         /\ Fits(bucket'[e], used[e], granted[e], answered[e], clock)
         /\ used'[e] = used[e] /\ granted'[e] = granted[e]
  BY <1>3, <1>4
<1>8. TableIsBounded'
  <2>1. Tracked' \subseteq Tracked
    BY <1>3 DEF Tracked, Known, Evicted
  <2>2. PICK kept \in SUBSET Tracked : kept = Tracked'
    BY <2>1
  <2>3. /\ Cardinality(kept) \in Nat /\ Cardinality(kept) <= Cardinality(Tracked)
        /\ Cardinality(Tracked) \in Nat /\ Cardinality(Tracked) <= MaxBuckets
    BY FewerTracked DEF LimiterInv, TableIsBounded
  <2> QED BY <2>2, <2>3, LimiterIsTuned DEF TableIsBounded
<1> HIDE DEF c, now
<1> QED BY <1>1, <1>2, <1>5, <1>6, <1>7, <1>8, AnswerPreserves DEF LimiterInv

LEMMA AdmitNewcomerSafe ==
    ASSUME LimiterInv, NEW r \in Requests, AdmitNewcomer(r)
    PROVE  LimiterInv'
<1> DEFINE c == request[r].client
           now == request[r].at
           new == [used |-> used[c], at |-> now]
<1>1. request[r] # NoRequest /\ Answer(r, c) /\ ~Known(c) /\ ~FullAfterEviction(now)
  BY DEF AdmitNewcomer
<1>2. /\ c \in Clients /\ now \in Nat /\ clock \in Nat
      /\ now <= clock /\ clock <= now + Lag
  BY <1>1, RequestFacts
<1>3. bucket' = [Evicted(now) EXCEPT ![c] = NewBucket(now)]
  BY DEF AdmitNewcomer
<1>4. /\ used' = [used EXCEPT ![c] = used[c] + Refill]
      /\ granted' = [granted EXCEPT ![c] = granted[c] \cup {new}]
  BY DEF AdmitNewcomer, Grant
<1>5. \A e \in Clients :
         /\ Evicted(now)[e] \in Buckets \cup {NoRequest}
         /\ Fits(Evicted(now)[e], used[e], granted[e], answered[e], clock)
  BY <1>2, EvictionFits
<1>6. /\ bucket'[c] = NewBucket(now) /\ used'[c] = used[c] + Refill
      /\ granted'[c] = granted[c] \cup {new}
      /\ \A e \in Clients \ {c} :
            bucket'[e] = Evicted(now)[e] /\ used'[e] = used[e] /\ granted'[e] = granted[e]
  BY <1>2, <1>3, <1>4 DEF LimiterInv, LimiterTypeOK, Evicted
<1>7. /\ used[c] \in Nat /\ granted[c] \in SUBSET Grants /\ answered[c] \in Nat
      /\ Quota(granted[c])
  BY <1>2, ClientFacts
<1>8. NewBucket(now) \in Buckets /\ new \in Grants
  BY <1>2, <1>7, LimiterIsTuned DEF NewBucket, Buckets, Grants
<1>9. LimiterTypeOK'
  <2>1. used[c] + Refill \in Nat /\ granted[c] \cup {new} \in SUBSET Grants
    BY <1>7, <1>8, LimiterIsTuned
  <2>2. Evicted(now) \in [Clients -> Buckets \cup {NoRequest}]
    BY <1>5 DEF Evicted
  <2> HIDE DEF c, now, new
  <2> QED BY <1>1, <1>2, <1>3, <1>4, <1>8, <2>1, <2>2 DEF LimiterInv, LimiterTypeOK, Answer
<1>10. Fits(bucket'[c], used'[c], granted'[c], clock, clock) /\ Quota(granted'[c])
  <2>1. Evicted(now)[c] = NoRequest
    BY <1>1, <1>2 DEF Evicted, Known
  <2>2. Fits(NoRequest, used[c], granted[c], answered[c], clock)
    BY <1>2, <1>5, <2>1
  <2>3. /\ Fits(NewBucket(now), used[c] + Refill, granted[c] \cup {new}, clock, clock)
        /\ Quota(granted[c] \cup {new})
    BY <1>2, <1>7, <2>2, Starting
  <2> HIDE DEF c, now, new
  <2> QED BY <1>6, <2>3
<1>11. \A e \in Clients \ {c} :
          /\ Fits(bucket'[e], used[e], granted[e], answered[e], clock)
          /\ used'[e] = used[e] /\ granted'[e] = granted[e]
  BY <1>5, <1>6
<1>12. TableIsBounded'
  <2>1. Tracked' \subseteq Remembered(now) \cup {c}
    BY <1>6 DEF Tracked, Known, Remembered
  <2>2. IsFiniteSet(Remembered(now))
    BY LimiterIsTuned, FS_Subset DEF Remembered
  <2>3. Cardinality(Remembered(now)) \in Nat /\ Cardinality(Remembered(now)) < MaxBuckets
    BY <1>1, <2>2, FS_CardinalityType, LimiterIsTuned DEF FullAfterEviction
  <2>4. /\ IsFiniteSet(Remembered(now) \cup {c})
        /\ Cardinality(Remembered(now) \cup {c}) \in Nat
        /\ Cardinality(Remembered(now) \cup {c}) <= Cardinality(Remembered(now)) + 1
    <3> HIDE DEF c
    <3>1. IsFiniteSet(Remembered(now) \cup {c})
      BY <2>2, FS_AddElement
    <3>2. Cardinality(Remembered(now) \cup {c}) =
             IF c \in Remembered(now) THEN Cardinality(Remembered(now))
             ELSE Cardinality(Remembered(now)) + 1
      BY <2>2, FS_AddElement
    <3> QED BY <2>3, <3>1, <3>2, FS_CardinalityType
  <2>5. Cardinality(Tracked') \in Nat
        /\ Cardinality(Tracked') <= Cardinality(Remembered(now) \cup {c})
    BY <2>1, <2>4, FS_Subset, FS_CardinalityType
  <2> HIDE DEF c, now
  <2> QED BY <2>3, <2>4, <2>5, LimiterIsTuned DEF TableIsBounded
<1> HIDE DEF c, now, new
<1> QED BY <1>1, <1>2, <1>9, <1>10, <1>11, <1>12, AnswerPreserves DEF LimiterInv

\* The invariant is inductive.
LEMMA LimiterSteps == LimiterInv /\ [LimiterNext]_limiterVars => LimiterInv'
<1> SUFFICES ASSUME LimiterInv, [LimiterNext]_limiterVars PROVE LimiterInv'
  OBVIOUS
<1>1. CASE Tick
  BY <1>1, TickSafe
<1>2. ASSUME NEW r \in Requests, NEW c \in Clients, Stamp(r, c) PROVE LimiterInv'
  BY <1>2, StampSafe
<1>3. ASSUME NEW r \in Requests, AdmitNewcomer(r) PROVE LimiterInv'
  BY <1>3, AdmitNewcomerSafe
<1>4. ASSUME NEW r \in Requests, TurnNewcomerAway(r) PROVE LimiterInv'
  BY <1>4, TurnNewcomerAwaySafe
<1>5. ASSUME NEW r \in Requests, AdmitKnown(r) PROVE LimiterInv'
  BY <1>5, AdmitKnownSafe
<1>6. ASSUME NEW r \in Requests, TurnKnownAway(r) PROVE LimiterInv'
  BY <1>6, TurnKnownAwaySafe
<1>7. CASE UNCHANGED limiterVars
  BY <1>7 DEF limiterVars, LimiterInv, LimiterTypeOK, StampsAreRecent, HistoryFits,
              QuotaKept, TableIsBounded, Tracked, Known
<1> QED BY <1>1, <1>2, <1>3, <1>4, <1>5, <1>6, <1>7 DEF LimiterNext

THEOREM LimiterInvariant == LimiterSpec => []LimiterInv
BY LimiterStart, LimiterSteps, PTL DEF LimiterSpec

-----------------------------------------------------------------------------
\* The limiter's state is of its type.
THEOREM LimiterTypeCorrect == LimiterSpec => []LimiterTypeOK
<1>1. LimiterInv => LimiterTypeOK
  BY DEF LimiterInv
<1> QED BY <1>1, LimiterInvariant, PTL

\* No client gets more than a full bucket and the refill of the time that
\* passed, for every burst, refill, table size and number of clients.
THEOREM QuotaIsKept == LimiterSpec => []QuotaKept
<1>1. LimiterInv => QuotaKept
  BY DEF LimiterInv
<1> QED BY <1>1, LimiterInvariant, PTL

\* The table of clients never grows beyond its limit.
THEOREM TableStaysBounded == LimiterSpec => []TableIsBounded
<1>1. LimiterInv => TableIsBounded
  BY DEF LimiterInv
<1> QED BY <1>1, LimiterInvariant, PTL

\* A known client that waits one refill after its last answer is granted.
THEOREM WaitingHelps == LimiterSpec => RetryAfterHelps
<1> DEFINE Helps ==
        \A r \in Requests :
           (/\ request[r] # NoRequest /\ request'[r] = NoRequest
            /\ Known(request[r].client)
            /\ request[r].at >= answered[request[r].client] + Refill)
           => used'[request[r].client] # used[request[r].client]
<1>1. LimiterInv /\ [LimiterNext]_limiterVars => [Helps]_limiterVars
  <2> SUFFICES ASSUME LimiterInv, LimiterNext, NEW r \in Requests,
                      request[r] # NoRequest, request'[r] = NoRequest,
                      Known(request[r].client),
                      request[r].at >= answered[request[r].client] + Refill
               PROVE  used'[request[r].client] # used[request[r].client]
    BY DEF limiterVars
  <2> DEFINE c == request[r].client
             now == request[r].at
             b == bucket[c]
  <2>1. c \in Clients /\ now \in Nat
    BY RequestFacts
  <2>2. /\ b \in Buckets /\ b # NoRequest /\ used[c] \in Nat /\ answered[c] \in Nat
        /\ b.tokens \in Int /\ b.seen \in Nat
        /\ b.tokens - b.seen + answered[c] >= 0
    BY <2>1, ClientFacts, Records DEF Known, Fits
  <2>3. Refilled(b, now).tokens >= Refill
    <3> HIDE DEF b, c, now
    <3>1. b.tokens + (now - b.seen) >= Refill
      BY <2>1, <2>2, LimiterIsTuned DEF c, now
    <3> QED BY <2>1, <2>2, <3>1, LimiterIsTuned DEF Refilled, Lesser
  <2>4. AdmitKnown(r)
    <3>1. ASSUME NEW q \in Requests, Answer(q, request[q].client) PROVE q = r
      BY <3>1 DEF Answer, LimiterInv, LimiterTypeOK
    <3>2. ~Tick /\ ~(\E q \in Requests, d \in Clients : Stamp(q, d))
      <4>1. ASSUME Tick PROVE FALSE
        BY <4>1 DEF Tick
      <4>2. ASSUME NEW q \in Requests, NEW d \in Clients, Stamp(q, d) PROVE FALSE
        BY <4>2 DEF Stamp, LimiterInv, LimiterTypeOK
      <4> QED BY <4>1, <4>2
    <3>3. ASSUME NEW q \in Requests, AdmitNewcomer(q) \/ TurnNewcomerAway(q) PROVE FALSE
      BY <3>1, <3>3 DEF AdmitNewcomer, TurnNewcomerAway
    <3>4. ASSUME NEW q \in Requests, TurnKnownAway(q) PROVE FALSE
      <4>1. q = r
        BY <3>1, <3>4 DEF TurnKnownAway
      <4>2. Refilled(bucket[c], now).tokens < Refill
        BY <3>4, <4>1 DEF TurnKnownAway
      <4>3. Refilled(b, now).tokens \in Int
        BY <2>1, <2>2, BucketsStayBuckets, Records
      <4> QED BY <2>3, <4>2, <4>3, LimiterIsTuned
    <3>5. ASSUME NEW q \in Requests, AdmitKnown(q) PROVE AdmitKnown(r)
      BY <3>1, <3>5 DEF AdmitKnown
    <3> QED BY <3>2, <3>3, <3>4, <3>5 DEF LimiterNext
  <2>5. used' = [used EXCEPT ![c] = used[c] + Refill]
    BY <2>4 DEF AdmitKnown, Grant
  <2>6. used'[c] = used[c] + Refill
    BY <2>1, <2>5 DEF LimiterInv, LimiterTypeOK
  <2> QED BY <2>2, <2>6, LimiterIsTuned
<1> QED BY <1>1, LimiterInvariant, PTL DEF LimiterSpec, RetryAfterHelps


-----------------------------------------------------------------------------
(***************************************************************************)
(* What the page and the server consist of.                                *)
(***************************************************************************)
Copies == [generation : Nat, version : Nat, pending : SUBSET Nat]
States == {"queued", "uploading", "paused", "mapping", "imported", "closed", "error"}
Entry == [file : Files, state : States, token : Nat \cup {NoToken}]
Fetches ==
    {Quiet} \cup [at : {"asked"}, part : Parts, newest : BOOLEAN]
            \cup [at : {"answered"}, part : {"history"}, newest : BOOLEAN, copy : Copies]
            \cup [at : {"answered"}, part : {"review"}, newest : BOOLEAN, copy : Nat]
Runs == {Quiet} \cup [at : {"sending", "history", "review", "analysing"}, file : Files, stop : BOOLEAN, imported : BOOLEAN]
Posts == {Quiet, [at |-> "asked"]}
            \cup [at : {"answered"}, version : Nat,
                  outcome : {"imported", "mapping", "refused", "busy", "context"}]
Mappings == {Quiet} \cup [at : {"asked", "answered", "review", "analysing", "history"},
                          token : Nat, confirm : BOOLEAN, version : Nat]
Desks == {Quiet} \cup [at : {"asked", "answered", "history", "review"},
                       caller : {"queue", "mapping", "user"}, version : Nat]
Pages == [entries : Seq(Entry), paused : BOOLEAN, stale : BOOLEAN, ready : BOOLEAN, run : Runs,
          followed : BOOLEAN, post : Posts, refreshing : BOOLEAN, again : BOOLEAN, overtaken : BOOLEAN,
          mapping : Mappings, desk : Desks, fetch : [Callers -> Fetches], shown : Copies, review : Nat,
          failed : BOOLEAN, known : Nat]

Asks(p, c, part) == p.fetch[c] # Quiet /\ p.fetch[c].part = part
Has(p, c, part) == Asks(p, c, part) /\ p.fetch[c].at = "answered"

\* A handler waits for what it asked for.
Tied(p) ==
    /\ \A part \in Parts : /\ Asks(p, "queue", part) => p.run.at = part
                           /\ Asks(p, "mapping", part) => p.mapping.at = part
                           /\ Asks(p, "desk", part) => p.desk.at = part
    /\ p.fetch["status"] # Quiet => p.refreshing
    /\ p.post # Quiet => p.run.at = "sending"
    /\ p.desk # Quiet => /\ p.desk.caller = "queue" => p.run.at = "analysing"
                         /\ p.desk.caller = "mapping" => p.mapping.at = "analysing"

\* Whoever asks for a part is the only one to get it.
OneNewest(p) ==
    \A c, d \in Callers, part \in Parts :
        Asks(p, c, part) /\ Asks(p, d, part) /\ p.fetch[c].newest /\ p.fetch[d].newest => c = d

Past(copy, s) ==
    /\ copy.version <= s.version
    /\ \A k \in s.pending : k <= copy.version => k \in copy.pending

\* Tokens are older than the data, and a copy that will be shown knows those of the page.
Named(p, s) ==
    /\ \A k \in s.pending : k <= s.version
    /\ \A c \in Callers : Has(p, c, "history") => Past(p.fetch[c].copy, s)
    /\ \A i \in DOMAIN p.entries :
          /\ p.entries[i].state \in {"mapping", "closed"} => p.entries[i].token \in 0..s.version
          /\ p.entries[i].state = "mapping" => \A c \in Callers :
                Has(p, c, "history") /\ p.fetch[c].newest => p.entries[i].token <= p.fetch[c].copy.version
          /\ p.entries[i].state = "closed" => p.entries[i].token \notin s.pending
    /\ p.mapping.at = "answered" => p.mapping.token <= s.version /\ p.mapping.token \notin s.pending

\* Versions are of the past, and what will be shown is at least as new as what is shown.
VersionOf(f) == IF f.part = "history" THEN f.copy.version ELSE f.copy
Shown(p, part) == IF part = "history" THEN p.shown.version ELSE p.review
Ordered(p, s) ==
    /\ p.known <= s.version
    /\ p.post.at = "answered" => p.post.version <= s.version
    /\ p.mapping.at = "answered" => p.mapping.version <= s.version
    /\ p.desk.at = "answered" => p.desk.version <= s.version
    /\ \A part \in Parts : Shown(p, part) <= s.version
    /\ \A c \in Callers, part \in Parts : Has(p, c, part) =>
          /\ VersionOf(p.fetch[c]) <= s.version
          /\ p.fetch[c].newest => Shown(p, part) <= VersionOf(p.fetch[c])

Sound(p, s) == p \in Pages /\ s \in Copies /\ Tied(p) /\ OneNewest(p) /\ Named(p, s) /\ Ordered(p, s)

\* Nothing is queued behind a button, and what is queued has a run, or cannot have one.
HasQueued(p) == IndicesIn(p, {"queued"}) # {}
Waits(p) ==
    /\ p.paused => ~HasQueued(p) /\ ~Running(p)
    /\ HasQueued(p) => Running(p) \/ p.stale \/ ~p.ready

\* A refresh that is certain to start, and a part that is current or on its way.
Promised(p) == Running(p) \/ p.mapping # Quiet \/ (p.refreshing /\ p.again)
Coming(p, part) ==
    \/ Shown(p, part) >= p.known
    \/ \E c \in Callers : /\ Asks(p, c, part) /\ p.fetch[c].newest
                          /\ p.fetch[c].at = "answered" => VersionOf(p.fetch[c]) >= p.known
    \/ part = "review" /\ (p.desk.at = "history" \/ Asks(p, "status", "history"))
Covered(p) == Promised(p) \/ p.failed \/ (Coming(p, "history") /\ Coming(p, "review"))

QueueInv == Sound(page, server) /\ Waits(page) /\ Covered(page)
USE DEF Quiet

-----------------------------------------------------------------------------
(***************************************************************************)
(* The recursion of Without.                                               *)
(***************************************************************************)
PartsOf(entries) == {s \in Seq(Entry) : \A i \in DOMAIN s : \E j \in DOMAIN entries : s[i] = entries[j]}
Leaving(entries, files) ==
    [i \in 1..Len(entries) |-> [s \in PartsOf(entries) |->
        IF entries[i].file \in files THEN s ELSE Append(s, entries[i])]]
LeftFrom(entries, files, f) ==
    [i \in 0..Len(entries) |->
        IF i = 0 THEN <<>>
        ELSE IF entries[i].file \in files THEN f[i - 1] ELSE Append(f[i - 1], entries[i])]

\* A further entry of the queue joins what is left of it.
LEMMA PartsGrow ==
  ASSUME NEW entries \in Seq(Entry), NEW s \in PartsOf(entries), NEW i \in 1..Len(entries)
  PROVE  Append(s, entries[i]) \in PartsOf(entries)
<1>1. entries[i] \in Entry /\ i \in DOMAIN entries /\ s \in Seq(Entry)
  BY DEF PartsOf
<1>2. Append(s, entries[i]) \in Seq(Entry)
  BY <1>1
<1>3. ASSUME NEW k \in DOMAIN Append(s, entries[i])
      PROVE  \E j \in DOMAIN entries : Append(s, entries[i])[k] = entries[j]
  <2>1. CASE k \in DOMAIN s
    BY <1>1, <2>1 DEF PartsOf
  <2>2. CASE k = Len(s) + 1
    BY <1>1, <2>2
  <2> QED
    BY <1>1, <1>3, <2>1, <2>2
<1> QED
  BY <1>2, <1>3 DEF PartsOf

\* Each entry is a step from what is left before it to what is left after it.
LEMMA LeavingIsOne ==
  ASSUME NEW entries \in Seq(Entry), NEW files
  PROVE  Leaving(entries, files) \in [1..Len(entries) -> [PartsOf(entries) -> PartsOf(entries)]]
<1>1. ASSUME NEW i \in 1..Len(entries), NEW s \in PartsOf(entries)
      PROVE  (IF entries[i].file \in files THEN s ELSE Append(s, entries[i])) \in PartsOf(entries)
  BY PartsGrow
<1> QED
  BY <1>1 DEF Leaving

\* What is left of the queue are entries it had.
LEMMA WithoutKeeps ==
  ASSUME NEW entries \in Seq(Entry), NEW files
  PROVE  Without(entries, files) \in PartsOf(entries)
<1>1. Len(entries) \in Nat /\ <<>> \in PartsOf(entries)
  BY DEF PartsOf
<1>0. Leaving(entries, files) \in [1..Len(entries) -> [PartsOf(entries) -> PartsOf(entries)]]
  BY LeavingIsOne
<1>2. PICK f \in [0..Len(entries) -> PartsOf(entries)] :
         f[0] = <<>> /\ \A i \in 1..Len(entries) : f[i] = Leaving(entries, files)[i][f[i - 1]]
  <2>1. Recursions(Len(entries), PartsOf(entries), <<>>, Leaving(entries, files)) # {}
    BY <1>0, <1>1, RecursionExists
  <2> QED
    BY <2>1 DEF Recursions
<1>3. ASSUME NEW i \in 1..Len(entries)
      PROVE  f[i] = IF entries[i].file \in files THEN f[i - 1] ELSE Append(f[i - 1], entries[i])
  <2>1. i - 1 \in 0..Len(entries)
    BY <1>1
  <2>2. f[i - 1] \in PartsOf(entries)
    BY <2>1
  <2> QED
    BY <1>2, <2>2 DEF Leaving
<1>4. f = LeftFrom(entries, files, f)
  <2>1. \A i \in 0..Len(entries) : i # 0 => i \in 1..Len(entries)
    BY <1>1
  <2> QED
    BY <1>2, <1>3, <2>1 DEF LeftFrom
<1>5. PICK g : g = LeftFrom(entries, files, g) /\ Without(entries, files) = g[Len(entries)]
  BY <1>4 DEF Without, LeftFrom
<1>6. g[0] \in PartsOf(entries)
  BY <1>1, <1>5 DEF LeftFrom
<1>7. ASSUME NEW i \in 1..Len(entries), g[i - 1] \in PartsOf(entries)
      PROVE  g[i] \in PartsOf(entries)
  <2>0. i \in 0..Len(entries) /\ i # 0
    BY <1>1
  <2>1. LeftFrom(entries, files, g)[i]
           = IF entries[i].file \in files THEN g[i - 1] ELSE Append(g[i - 1], entries[i])
    BY <2>0 DEF LeftFrom
  <2> QED
    BY <1>5, <1>7, <2>1, PartsGrow
<1>8. \A i \in 0..Len(entries) : g[i] \in PartsOf(entries)
  BY <1>1, <1>6, <1>7, RecursionKeeps
<1> QED
  BY <1>1, <1>5, <1>8

-----------------------------------------------------------------------------
(***************************************************************************)
(* Steps that bring nothing new to the page: entries keep their names or   *)
(* lose them, and requests are made, overtaken or forgotten.               *)
(***************************************************************************)
Fresher(p, q) ==
    \A c \in Callers :
        \/ q.fetch[c] = p.fetch[c]
        \/ q.fetch[c] = Quiet
        \/ p.fetch[c] # Quiet /\ q.fetch[c] = [p.fetch[c] EXCEPT !.newest = FALSE]
        \/ q.fetch[c].at = "asked"

Calm(p, q) ==
    /\ \A i \in DOMAIN q.entries : q.entries[i].state \in {"mapping", "closed"} =>
           \E j \in DOMAIN p.entries : q.entries[i] = p.entries[j]
    /\ Fresher(p, q)
    /\ q.post = p.post \/ q.post.at # "answered"
    /\ q.mapping = p.mapping \/ q.mapping.at # "answered"
    /\ q.desk = p.desk \/ q.desk.at # "answered"
    /\ q.shown.version = p.shown.version /\ q.review = p.review /\ q.known = p.known

\* Requests that went further twice went further.
LEMMA FresherIsTransitive ==
  ASSUME NEW p \in Pages, NEW q \in Pages, NEW r \in Pages, Fresher(p, q), Fresher(q, r)
  PROVE  Fresher(p, r)
<1> SUFFICES ASSUME NEW c \in Callers
             PROVE  \/ r.fetch[c] = p.fetch[c]
                    \/ r.fetch[c] = Quiet
                    \/ p.fetch[c] # Quiet /\ r.fetch[c] = [p.fetch[c] EXCEPT !.newest = FALSE]
                    \/ r.fetch[c].at = "asked"
  BY DEF Fresher
<1> DEFINE a == p.fetch[c]
           b == q.fetch[c]
           d == r.fetch[c]
<1>1. a \in Fetches /\ b \in Fetches /\ d \in Fetches
  BY DEF Pages
<1>2. b = a \/ b = Quiet \/ (a # Quiet /\ b = [a EXCEPT !.newest = FALSE]) \/ b.at = "asked"
  BY DEF Fresher
<1>3. d = b \/ d = Quiet \/ (b # Quiet /\ d = [b EXCEPT !.newest = FALSE]) \/ d.at = "asked"
  BY DEF Fresher
<1> HIDE DEF a, b, d
<1>4. d = a \/ d = Quiet \/ (a # Quiet /\ d = [a EXCEPT !.newest = FALSE]) \/ d.at = "asked"
  BY <1>1, <1>2, <1>3 DEF Fetches
<1> QED
  BY <1>4 DEF a, d

\* Two steps that bring nothing new bring nothing new.
LEMMA CalmIsTransitive ==
  ASSUME NEW p \in Pages, NEW q \in Pages, NEW r \in Pages, Calm(p, q), Calm(q, r)
  PROVE  Calm(p, r)
<1>1. Fresher(p, r)
  BY FresherIsTransitive DEF Calm
<1>2. ASSUME NEW i \in DOMAIN r.entries, r.entries[i].state \in {"mapping", "closed"}
      PROVE  \E j \in DOMAIN p.entries : r.entries[i] = p.entries[j]
  BY <1>2 DEF Calm
<1> QED
  BY <1>1, <1>2 DEF Calm

\* Without news, tokens stay as old as they were.
LEMMA CalmKeepsNames ==
  ASSUME NEW p \in Pages, NEW q \in Pages, NEW s \in Copies, Calm(p, q), Named(p, s)
  PROVE  Named(q, s)
<1>1. ASSUME NEW c \in Callers, Has(q, c, "history")
      PROVE  /\ Has(p, c, "history") /\ q.fetch[c].copy = p.fetch[c].copy
             /\ q.fetch[c].newest => p.fetch[c].newest
  <2>1. p.fetch[c] \in Fetches /\ q.fetch[c] \in Fetches
    BY DEF Pages
  <2> QED
    BY <1>1, <2>1 DEF Calm, Fresher, Has, Asks, Fetches
<1>2. \A c \in Callers : Has(q, c, "history") => Past(q.fetch[c].copy, s)
  BY <1>1 DEF Named
<1>3. ASSUME NEW i \in DOMAIN q.entries
      PROVE  /\ q.entries[i].state \in {"mapping", "closed"} => q.entries[i].token \in 0..s.version
             /\ q.entries[i].state = "mapping" => \A c \in Callers :
                   Has(q, c, "history") /\ q.fetch[c].newest => q.entries[i].token <= q.fetch[c].copy.version
             /\ q.entries[i].state = "closed" => q.entries[i].token \notin s.pending
  <2> SUFFICES ASSUME q.entries[i].state \in {"mapping", "closed"}
               PROVE  /\ q.entries[i].token \in 0..s.version
                      /\ q.entries[i].state = "mapping" => \A c \in Callers :
                            Has(q, c, "history") /\ q.fetch[c].newest
                               => q.entries[i].token <= q.fetch[c].copy.version
                      /\ q.entries[i].state = "closed" => q.entries[i].token \notin s.pending
    OBVIOUS
  <2>1. PICK j \in DOMAIN p.entries : q.entries[i] = p.entries[j]
    BY DEF Calm
  <2> QED
    BY <1>1, <2>1 DEF Named
<1>4. q.mapping.at = "answered" => q.mapping.token <= s.version /\ q.mapping.token \notin s.pending
  BY DEF Calm, Named
<1> QED
  BY <1>2, <1>3, <1>4 DEF Named

\* Without news, versions stay of the past.
LEMMA CalmKeepsOrder ==
  ASSUME NEW p \in Pages, NEW q \in Pages, NEW s \in Copies, Calm(p, q), Ordered(p, s)
  PROVE  Ordered(q, s)
<1>1. ASSUME NEW c \in Callers, NEW part \in Parts, Has(q, c, part)
      PROVE  /\ Has(p, c, part) /\ VersionOf(q.fetch[c]) = VersionOf(p.fetch[c])
             /\ q.fetch[c].newest => p.fetch[c].newest
  <2>1. p.fetch[c] \in Fetches /\ q.fetch[c] \in Fetches
    BY DEF Pages
  <2>2. /\ Has(p, c, part) /\ q.fetch[c].copy = p.fetch[c].copy /\ q.fetch[c].part = p.fetch[c].part
        /\ q.fetch[c].newest => p.fetch[c].newest
    BY <1>1, <2>1 DEF Calm, Fresher, Has, Asks, Fetches
  <2> QED
    BY <2>2 DEF VersionOf
<1>2. \A part \in Parts : Shown(q, part) = Shown(p, part)
  BY DEF Calm, Shown
<1>3. \A part \in Parts : Shown(q, part) <= s.version
  BY <1>2 DEF Ordered
<1>4. \A c \in Callers, part \in Parts : Has(q, c, part) =>
          /\ VersionOf(q.fetch[c]) <= s.version
          /\ q.fetch[c].newest => Shown(q, part) <= VersionOf(q.fetch[c])
  BY <1>1, <1>2 DEF Ordered
<1>5. /\ q.known <= s.version
      /\ q.post.at = "answered" => q.post.version <= s.version
      /\ q.mapping.at = "answered" => q.mapping.version <= s.version
      /\ q.desk.at = "answered" => q.desk.version <= s.version
  BY DEF Calm, Ordered
<1> QED
  BY <1>3, <1>4, <1>5 DEF Ordered

\* Without news, a page stays sound if its handlers wait for what they asked for.
LEMMA CalmKeepsSound ==
  ASSUME NEW p, NEW s, NEW q \in Pages, Sound(p, s), Calm(p, q), Tied(q), OneNewest(q)
  PROVE  Sound(q, s)
BY CalmKeepsNames, CalmKeepsOrder DEF Sound

-----------------------------------------------------------------------------
(***************************************************************************)
(* The functions of the script.                                            *)
(***************************************************************************)
\* What asking for a part leaves alone.
SameQueue(p, q) ==
    /\ q.entries = p.entries /\ q.run = p.run /\ q.post = p.post
    /\ q.paused = p.paused /\ q.stale = p.stale /\ q.ready = p.ready
SameForms(p, q) == q.mapping = p.mapping /\ q.desk = p.desk
SameShown(p, q) == q.shown = p.shown /\ q.review = p.review /\ q.known = p.known
SameRefresh(p, q) ==
    q.refreshing = p.refreshing /\ q.again = p.again /\ q.overtaken = p.overtaken /\ q.failed = p.failed

\* What asking for a part changes: who asked last.
LEMMA AskIs ==
  ASSUME NEW p \in Pages, NEW c \in Callers, NEW part \in Parts
  PROVE  LET q == Ask(p, c, part)
         IN  /\ q \in Pages
             /\ SameQueue(p, q) /\ SameForms(p, q) /\ SameShown(p, q) /\ SameRefresh(p, q)
             /\ q.fetch[c] = [at |-> "asked", part |-> part, newest |-> TRUE]
             /\ \A d \in Callers \ {c} :
                   q.fetch[d] = IF Asks(p, d, part) THEN [p.fetch[d] EXCEPT !.newest = FALSE] ELSE p.fetch[d]
             /\ Calm(p, q)
<1> DEFINE fetch == [d \in Callers |->
                        IF d = c THEN [at |-> "asked", part |-> part, newest |-> TRUE]
                        ELSE IF p.fetch[d] # Quiet /\ p.fetch[d].part = part
                             THEN [p.fetch[d] EXCEPT !.newest = FALSE]
                        ELSE p.fetch[d]]
           q == Ask(p, c, part)
<1>1. ASSUME NEW d \in Callers, p.fetch[d] # Quiet
      PROVE  [p.fetch[d] EXCEPT !.newest = FALSE] \in Fetches
  <2>1. p.fetch[d] \in Fetches
    BY DEF Pages
  <2> QED
    BY <1>1, <2>1 DEF Fetches
<1>2. fetch \in [Callers -> Fetches]
  <2>1. [at |-> "asked", part |-> part, newest |-> TRUE] \in Fetches
    BY DEF Fetches
  <2>2. \A d \in Callers : p.fetch[d] \in Fetches
    BY DEF Pages
  <2> QED
    BY <1>1, <2>1, <2>2
<1>3. q = [p EXCEPT !.fetch = fetch]
  BY DEF Ask
<1>4. \A d \in Callers : fetch[d] = IF d = c THEN [at |-> "asked", part |-> part, newest |-> TRUE]
                                    ELSE IF Asks(p, d, part) THEN [p.fetch[d] EXCEPT !.newest = FALSE]
                                    ELSE p.fetch[d]
  BY DEF Asks
<1> HIDE DEF fetch, q
<1>5. q \in Pages /\ q.fetch = fetch
  BY <1>2, <1>3 DEF Pages
<1>6. SameQueue(p, q) /\ SameForms(p, q) /\ SameShown(p, q) /\ SameRefresh(p, q)
  BY <1>3 DEF Pages, SameQueue, SameForms, SameShown, SameRefresh
<1>7. Fresher(p, q)
  BY <1>4, <1>5 DEF Fresher, Asks
<1>8. Calm(p, q)
  BY <1>6, <1>7 DEF Calm, SameQueue, SameForms, SameShown
<1> QED
  BY <1>4, <1>5, <1>6, <1>8 DEF q

\* Who asks is the only one to get the part.
LEMMA AskIsOne ==
  ASSUME NEW p \in Pages, NEW c \in Callers, NEW part \in Parts, OneNewest(p)
  PROVE  OneNewest(Ask(p, c, part))
<1> DEFINE q == Ask(p, c, part)
<1>1. \A d \in Callers : p.fetch[d] \in Fetches /\ q.fetch[d] \in Fetches
  BY AskIs DEF Pages
<1>2. /\ q.fetch[c] = [at |-> "asked", part |-> part, newest |-> TRUE]
      /\ \A d \in Callers \ {c} :
            q.fetch[d] = IF Asks(p, d, part) THEN [p.fetch[d] EXCEPT !.newest = FALSE] ELSE p.fetch[d]
  BY AskIs
<1> HIDE DEF q
<1>3. ASSUME NEW d \in Callers \ {c}, NEW x \in Parts, Asks(q, d, x), q.fetch[d].newest
      PROVE  x # part /\ Asks(p, d, x) /\ p.fetch[d].newest
  BY <1>1, <1>2, <1>3 DEF Asks, Fetches
<1>4. ASSUME NEW x \in Parts, Asks(q, c, x)
      PROVE  x = part
  BY <1>2, <1>4 DEF Asks
<1> QED
  BY <1>3, <1>4 DEF OneNewest, q

\* Asking keeps a page sound when the caller waits for its answer.
LEMMA AskIsSound ==
  ASSUME NEW p, NEW s, Sound(p, s), NEW c \in Callers, NEW part \in Parts,
         c = "queue" => p.run.at = part,
         c = "status" => p.refreshing,
         c = "mapping" => p.mapping.at = part,
         c = "desk" => p.desk.at = part
  PROVE  Sound(Ask(p, c, part), s)
<1> DEFINE q == Ask(p, c, part)
<1>1. /\ p \in Pages /\ q \in Pages /\ Calm(p, q) /\ OneNewest(q)
      /\ SameQueue(p, q) /\ SameForms(p, q) /\ SameRefresh(p, q)
      /\ q.fetch[c] = [at |-> "asked", part |-> part, newest |-> TRUE]
      /\ \A d \in Callers \ {c} :
            q.fetch[d] = IF Asks(p, d, part) THEN [p.fetch[d] EXCEPT !.newest = FALSE] ELSE p.fetch[d]
  BY AskIs, AskIsOne DEF Sound
<1> HIDE DEF q
<1>2. ASSUME NEW d \in Callers \ {c}
      PROVE  /\ q.fetch[d] # Quiet => p.fetch[d] # Quiet
             /\ \A x \in Parts : Asks(q, d, x) => Asks(p, d, x)
  <2>1. p.fetch[d] \in Fetches
    BY <1>1 DEF Pages
  <2> QED
    BY <1>1, <2>1 DEF Asks, Fetches
<1>3. \A x \in Parts : Asks(q, c, x) => x = part
  BY <1>1 DEF Asks
<1>4. Tied(q)
  <2>1. Tied(p)
    BY DEF Sound
  <2>2. \A x \in Parts : /\ Asks(q, "queue", x) => q.run.at = x
                         /\ Asks(q, "mapping", x) => q.mapping.at = x
                         /\ Asks(q, "desk", x) => q.desk.at = x
    BY <1>1, <1>2, <1>3, <2>1 DEF Tied, SameQueue, SameForms, Callers
  <2>3. q.fetch["status"] # Quiet => q.refreshing
    BY <1>1, <1>2, <2>1 DEF Tied, SameRefresh, Callers
  <2> QED
    BY <1>1, <2>1, <2>2, <2>3 DEF Tied, SameQueue, SameForms
<1> QED
  BY <1>1, <1>4, CalmKeepsSound DEF q

\* refreshStatus, which promises a refresh in each of its cases.
LEMMA RefreshIsSound ==
  ASSUME NEW p, NEW s, Sound(p, s)
  PROVE  LET q == RefreshStatus(p)
         IN  Sound(q, s) /\ SameQueue(p, q) /\ SameForms(p, q) /\ SameShown(p, q) /\ Covered(q)
<1> DEFINE q == RefreshStatus(p)
<1>0. p \in Pages
  BY DEF Sound
<1>1. CASE Running(p)
  <2>1. q = p
    BY <1>1 DEF RefreshStatus
  <2> QED
    BY <1>1, <2>1 DEF SameQueue, SameForms, SameShown, Covered, Promised
<1>2. CASE ~Running(p) /\ p.refreshing
  <2>1. q = [p EXCEPT !.again = TRUE]
    BY <1>2 DEF RefreshStatus
  <2> HIDE DEF q
  <2>2. /\ q \in Pages /\ SameQueue(p, q) /\ SameForms(p, q) /\ SameShown(p, q)
        /\ q.fetch = p.fetch /\ q.refreshing /\ q.again
    BY <1>0, <1>2, <2>1 DEF Pages, SameQueue, SameForms, SameShown
  <2>3. Tied(q) /\ OneNewest(q) /\ Calm(p, q)
    BY <2>2 DEF Sound, Tied, OneNewest, Calm, Fresher, Asks, SameQueue, SameForms, SameShown
  <2> QED
    BY <2>2, <2>3, CalmKeepsSound DEF q, Covered, Promised
<1>3. CASE ~Running(p) /\ ~p.refreshing
  <2> DEFINE r == [p EXCEPT !.refreshing = TRUE, !.again = FALSE, !.overtaken = FALSE, !.failed = FALSE]
  <2>1. q = Ask(r, "status", "history")
    BY <1>3 DEF RefreshStatus
  <2> HIDE DEF q
  <2>2. /\ r \in Pages /\ SameQueue(p, r) /\ SameForms(p, r) /\ SameShown(p, r)
        /\ r.fetch = p.fetch /\ r.refreshing
    BY <1>0 DEF Pages, SameQueue, SameForms, SameShown
  <2> HIDE DEF r
  <2>3. Tied(r) /\ OneNewest(r) /\ Calm(p, r)
    BY <2>2 DEF Sound, Tied, OneNewest, Calm, Fresher, Asks, SameQueue, SameForms, SameShown
  <2>4. Sound(r, s)
    BY <2>2, <2>3, CalmKeepsSound
  <2>5. "status" \in Callers /\ "history" \in Parts
    BY DEF Callers, Parts
  <2>6. Sound(q, s)
    BY <2>1, <2>2, <2>4, <2>5, AskIsSound
  <2>7. /\ SameQueue(r, q) /\ SameForms(r, q) /\ SameShown(r, q)
        /\ q.fetch["status"] = [at |-> "asked", part |-> "history", newest |-> TRUE]
    BY <2>1, <2>2, <2>5, AskIs
  <2>8. Coming(q, "history") /\ Coming(q, "review")
    BY <2>5, <2>7 DEF Coming, Asks
  <2>9. SameQueue(p, q) /\ SameForms(p, q) /\ SameShown(p, q)
    BY <2>2, <2>7 DEF SameQueue, SameForms, SameShown
  <2> QED
    BY <2>6, <2>8, <2>9 DEF q, Covered
<1> QED
  BY <1>1, <1>2, <1>3

\* The end of refreshStatus.
LEMMA EndingIsSound ==
  ASSUME NEW p, NEW s, Sound(p, s), p.fetch["status"] = Quiet
  PROVE  LET q == StatusEnds(p)
         IN  /\ Sound(q, s) /\ SameQueue(p, q) /\ SameForms(p, q) /\ SameShown(p, q)
             /\ q.fetch = p.fetch /\ q.failed = p.failed
<1> DEFINE q == StatusEnds(p)
<1>1. q = [p EXCEPT !.refreshing = FALSE, !.again = FALSE, !.overtaken = FALSE]
  BY DEF StatusEnds
<1> HIDE DEF q
<1>2. /\ q \in Pages /\ SameQueue(p, q) /\ SameForms(p, q) /\ SameShown(p, q)
      /\ q.fetch = p.fetch /\ q.failed = p.failed
  BY <1>1 DEF Sound, Pages, SameQueue, SameForms, SameShown
<1>3. Tied(q) /\ OneNewest(q) /\ Calm(p, q)
  BY <1>2 DEF Sound, Tied, OneNewest, Calm, Fresher, Asks, SameQueue, SameForms, SameShown
<1> QED
  BY <1>2, <1>3, CalmKeepsSound DEF q

\* The end of refreshStatus, with the refresh that was asked for meanwhile.
LEMMA DoneIsSound ==
  ASSUME NEW p, NEW s, Sound(p, s), p.fetch["status"] = Quiet
  PROVE  LET q == StatusDone(p)
         IN  /\ Sound(q, s) /\ SameQueue(p, q) /\ SameForms(p, q) /\ SameShown(p, q)
             /\ p.again => Covered(q)
             /\ ~p.again => q.fetch = p.fetch /\ q.failed = p.failed
<1>1. CASE p.again
  <2>1. StatusDone(p) = RefreshStatus(StatusEnds(p))
    BY <1>1 DEF StatusDone
  <2> DEFINE r == StatusEnds(p)
             q == RefreshStatus(r)
  <2>2. Sound(r, s) /\ SameQueue(p, r) /\ SameForms(p, r) /\ SameShown(p, r)
    BY EndingIsSound
  <2> HIDE DEF r
  <2>3. Sound(q, s) /\ SameQueue(r, q) /\ SameForms(r, q) /\ SameShown(r, q) /\ Covered(q)
    BY <2>2, RefreshIsSound
  <2> QED
    BY <1>1, <2>1, <2>2, <2>3 DEF SameQueue, SameForms, SameShown, r
<1>2. CASE ~p.again
  <2>1. StatusDone(p) = StatusEnds(p)
    BY <1>2 DEF StatusDone
  <2> QED
    BY <1>2, <2>1, EndingIsSound
<1> QED
  BY <1>1, <1>2

-----------------------------------------------------------------------------
(***************************************************************************)
(* The queue.                                                              *)
(***************************************************************************)
\* The file that is sent is one that waits.
LEMMA FirstIsQueued ==
  ASSUME NEW p \in Pages, HasQueued(p)
  PROVE  FirstQueued(p) \in DOMAIN p.entries /\ p.entries[FirstQueued(p)].state = "queued"
<1>1. IndicesIn(p, {"queued"}) \in SUBSET Nat
  BY DEF IndicesIn, Pages
<1>2. \E i \in IndicesIn(p, {"queued"}) : \A j \in IndicesIn(p, {"queued"}) : i <= j
  BY <1>1, LeastNumber DEF HasQueued
<1>3. FirstQueued(p) \in IndicesIn(p, {"queued"})
  BY <1>2 DEF FirstQueued
<1> QED
  BY <1>3 DEF IndicesIn

\* An entry that takes another state is the same file's, and no longer in its old state.
LEMMA MarkIs ==
  ASSUME NEW p \in Pages, NEW i \in DOMAIN p.entries, NEW state \in States
  PROVE  /\ [p.entries EXCEPT ![i].state = state] \in Seq(Entry)
         /\ DOMAIN [p.entries EXCEPT ![i].state = state] = DOMAIN p.entries
         /\ [p.entries EXCEPT ![i].state = state][i].state = state
         /\ \A j \in DOMAIN p.entries \ {i} : [p.entries EXCEPT ![i].state = state][j] = p.entries[j]
<1>1. p.entries \in Seq(Entry) /\ p.entries[i] \in Entry
  BY DEF Pages
<1>2. [p.entries[i] EXCEPT !.state = state] \in Entry
  BY <1>1 DEF Entry
<1>3. \A v \in Entry : [p.entries EXCEPT ![i] = v] \in Seq(Entry)
  BY <1>1
<1>4. [p.entries EXCEPT ![i].state = state] = [p.entries EXCEPT ![i] = [p.entries[i] EXCEPT !.state = state]]
  OBVIOUS
<1>5. [p.entries[i] EXCEPT !.state = state].state = state
  BY <1>1 DEF Entry
<1> QED
  BY <1>1, <1>2, <1>3, <1>4, <1>5

\* Who sends waits for nothing else.
Loose(p) ==
    /\ p.fetch["queue"] = Quiet
    /\ p.desk # Quiet => p.desk.caller # "queue"

\* A queue that rests waits for nothing.
LEMMA RestIsLoose ==
  ASSUME NEW p \in Pages, Tied(p), ~Running(p)
  PROVE  Loose(p) /\ p.post = Quiet
<1>1. p.run = Quiet /\ p.fetch["queue"] \in Fetches
  BY DEF Running, Pages, Callers
<1>2. p.fetch["queue"] = Quiet
  BY <1>1 DEF Tied, Asks, Parts, Fetches
<1> QED
  BY <1>1, <1>2 DEF Loose, Tied

\* send.
LEMMA SendIsSound ==
  ASSUME NEW p, NEW s, Sound(p, s), Loose(p), HasQueued(p)
  PROVE  LET q == Send(p)
         IN  /\ Sound(q, s) /\ Running(q) /\ SameForms(p, q) /\ SameShown(p, q)
             /\ q.paused = p.paused /\ q.stale = p.stale /\ q.ready = p.ready
<1> DEFINE i == FirstQueued(p)
           entries == [p.entries EXCEPT ![i].state = "uploading"]
           run == [at |-> "sending", file |-> p.entries[i].file, stop |-> FALSE,
                   imported |-> FALSE]
           post == [at |-> "asked"]
           q == Send(p)
<1>1. p \in Pages /\ i \in DOMAIN p.entries
  BY FirstIsQueued DEF Sound
<1> HIDE DEF i
<1>2. q = [p EXCEPT !.entries = entries, !.overtaken = p.refreshing, !.post = post, !.run = run]
  BY <1>1 DEF Send, Mark, i, Pages
<1>3. "uploading" \in States
  BY DEF States
<1>4. /\ entries \in Seq(Entry) /\ DOMAIN entries = DOMAIN p.entries
      /\ entries[i].state = "uploading"
      /\ \A j \in DOMAIN p.entries \ {i} : entries[j] = p.entries[j]
  BY <1>1, <1>3, MarkIs
<1>5. run \in Runs /\ post \in Posts /\ run # Quiet /\ run.at = "sending" /\ post.at = "asked"
  <2>1. p.entries[i] \in Entry
    BY <1>1 DEF Pages
  <2> QED
    BY <2>1 DEF Runs, Posts, Entry
<1> HIDE DEF entries, run, post, q
<1>6. /\ q \in Pages /\ SameForms(p, q) /\ SameShown(p, q)
      /\ q.paused = p.paused /\ q.stale = p.stale /\ q.ready = p.ready
      /\ q.fetch = p.fetch /\ q.entries = entries /\ q.run = run /\ q.post = post
      /\ q.refreshing = p.refreshing
  BY <1>1, <1>2, <1>4, <1>5 DEF Pages, SameForms, SameShown
<1>7. Calm(p, q)
  <2>1. \A j \in DOMAIN q.entries : q.entries[j].state \in {"mapping", "closed"} =>
           \E k \in DOMAIN p.entries : q.entries[j] = p.entries[k]
    BY <1>4, <1>6
  <2> QED
    BY <1>5, <1>6, <2>1 DEF Calm, Fresher, SameForms, SameShown
<1>8. Tied(q) /\ OneNewest(q)
  <2>1. \A part \in Parts : ~Asks(q, "queue", part)
    BY <1>6 DEF Loose, Asks
  <2> QED
    BY <1>5, <1>6, <2>1 DEF Sound, Tied, OneNewest, Asks, SameForms, Loose
<1>9. Sound(q, s)
  BY <1>6, <1>7, <1>8, CalmKeepsSound
<1> QED
  BY <1>5, <1>6, <1>9 DEF Running, q

\* A queue that goes on, if only because of what is queued now.
LEMMA RunIsSound ==
  ASSUME NEW p, NEW s, Sound(p, s), p.paused => ~HasQueued(p) /\ ~Running(p)
  PROVE  LET q == RunQueue(p)
         IN  /\ Sound(q, s) /\ Waits(q) /\ SameForms(p, q) /\ SameShown(p, q)
             /\ Running(q) \/ q = p
<1> DEFINE q == RunQueue(p)
<1>1. CASE Running(p) \/ p.stale \/ p.paused \/ ~p.ready \/ ~HasQueued(p)
  <2>1. q = p
    BY <1>1 DEF RunQueue, HasQueued
  <2>2. Waits(p)
    BY <1>1 DEF Waits
  <2> QED
    BY <2>1, <2>2 DEF SameForms, SameShown
<1>2. CASE ~(Running(p) \/ p.stale \/ p.paused \/ ~p.ready \/ ~HasQueued(p))
  <2> DEFINE r == [p EXCEPT !.followed = FALSE]
  <2>1. q = Send(r)
    BY <1>2 DEF RunQueue, HasQueued
  <2>2. /\ r \in Pages /\ SameQueue(p, r) /\ SameForms(p, r) /\ SameShown(p, r)
        /\ r.fetch = p.fetch /\ r.refreshing = p.refreshing
    BY DEF Sound, Pages, SameQueue, SameForms, SameShown
  <2> HIDE DEF r, q
  <2>3. Tied(r) /\ OneNewest(r) /\ Calm(p, r)
    BY <2>2 DEF Sound, Tied, OneNewest, Calm, Fresher, Asks, SameQueue, SameForms, SameShown
  <2>4. Sound(r, s) /\ Loose(r) /\ HasQueued(r)
    BY <1>2, <2>2, <2>3, CalmKeepsSound, RestIsLoose
       DEF Sound, SameQueue, HasQueued, IndicesIn, Running
  <2>5. /\ Sound(q, s) /\ Running(q) /\ SameForms(r, q) /\ SameShown(r, q)
        /\ q.paused = r.paused
    BY <2>1, <2>4, SendIsSound
  <2>6. Waits(q) /\ SameForms(p, q) /\ SameShown(p, q)
    BY <1>2, <2>2, <2>5 DEF Waits, SameForms, SameShown, SameQueue
  <2> QED
    BY <2>5, <2>6 DEF q
<1> QED
  BY <1>1, <1>2

\* Entries that take another state together.
Restated(entries, chosen, state) ==
    [i \in DOMAIN entries |-> IF i \in chosen THEN [entries[i] EXCEPT !.state = state] ELSE entries[i]]

\* The chosen entries have the state, the others are as before.
LEMMA MarkAllIs ==
  ASSUME NEW p \in Pages, NEW chosen, NEW state \in States
  PROVE  LET entries == Restated(p.entries, chosen, state)
         IN  /\ entries \in Seq(Entry) /\ DOMAIN entries = DOMAIN p.entries
             /\ \A i \in DOMAIN entries : entries[i].state = state \/ entries[i] = p.entries[i]
             /\ \A i \in chosen \cap DOMAIN entries : entries[i].state = state
<1> DEFINE Set(e) == [e EXCEPT !.state = state]
           entries == [i \in DOMAIN p.entries |-> IF i \in chosen THEN Set(p.entries[i]) ELSE p.entries[i]]
<1>1. p.entries \in Seq(Entry) /\ DOMAIN p.entries = 1..Len(p.entries) /\ Len(p.entries) \in Nat
  BY DEF Pages
<1>2. \A e \in Entry : Set(e) \in Entry /\ Set(e).state = state
  BY DEF Entry
<1> HIDE DEF Set
<1>3. \A i \in DOMAIN p.entries : Set(p.entries[i]) \in Entry /\ Set(p.entries[i]).state = state
  BY <1>1, <1>2
<1>4. entries \in [1..Len(p.entries) -> Entry]
  BY <1>1, <1>3
<1>5. entries \in Seq(Entry)
  BY <1>1, <1>4
<1>6. /\ DOMAIN entries = DOMAIN p.entries
      /\ \A i \in DOMAIN entries : entries[i].state = state \/ entries[i] = p.entries[i]
      /\ \A i \in chosen \cap DOMAIN entries : entries[i].state = state
  BY <1>3
<1> QED
  BY <1>5, <1>6 DEF Set, Restated

\* A queue that stops leaves nothing queued.
LEMMA SetAsideIs ==
  ASSUME NEW p \in Pages
  PROVE  LET q == SetAside(p)
         IN  /\ q \in Pages /\ SameForms(p, q) /\ SameShown(p, q) /\ SameRefresh(p, q)
             /\ q.run = p.run /\ q.post = p.post /\ q.fetch = p.fetch /\ q.stale = p.stale
             /\ q.ready = p.ready
             /\ ~HasQueued(q)
             /\ \A i \in DOMAIN q.entries : q.entries[i].state \in {"mapping", "closed"} =>
                   i \in DOMAIN p.entries /\ q.entries[i] = p.entries[i]
<1> DEFINE state == IF p.stale THEN "error" ELSE "paused"
           chosen == {i \in DOMAIN p.entries : p.entries[i].state = "queued"}
           entries == Restated(p.entries, chosen, state)
           q == SetAside(p)
<1>1. state \in States /\ state \notin {"queued", "mapping", "closed"}
  BY DEF States
<1>2. q = [p EXCEPT !.paused = TRUE, !.entries = entries]
  <2> DEFINE r == [p EXCEPT !.paused = TRUE]
  <2>1. r.entries = p.entries
    BY DEF Pages
  <2>2. q = [r EXCEPT !.entries = [i \in DOMAIN r.entries |->
                 IF r.entries[i].state = "queued" THEN [r.entries[i] EXCEPT !.state = state] ELSE r.entries[i]]]
    BY DEF SetAside, MarkAll, Queued
  <2>3. [i \in DOMAIN p.entries |->
            IF p.entries[i].state = "queued" THEN [p.entries[i] EXCEPT !.state = state] ELSE p.entries[i]]
        = entries
    BY DEF Restated
  <2> HIDE DEF q, entries
  <2>4. q = [r EXCEPT !.entries = entries]
    BY <2>1, <2>2, <2>3
  <2> QED
    BY <2>4 DEF Pages
<1>3. /\ entries \in Seq(Entry) /\ DOMAIN entries = DOMAIN p.entries
      /\ \A i \in DOMAIN entries : entries[i].state = state \/ entries[i] = p.entries[i]
      /\ \A i \in chosen \cap DOMAIN entries : entries[i].state = state
  <2> HIDE DEF state, chosen
  <2> QED
    BY <1>1, MarkAllIs
<1>4. \A i \in DOMAIN entries : entries[i].state # "queued"
  BY <1>1, <1>3
<1> HIDE DEF entries, q, state, chosen
<1>5. /\ q \in Pages /\ SameForms(p, q) /\ SameShown(p, q) /\ SameRefresh(p, q)
      /\ q.run = p.run /\ q.post = p.post /\ q.fetch = p.fetch /\ q.stale = p.stale
      /\ q.ready = p.ready /\ q.entries = entries
  BY <1>2, <1>3 DEF Pages, SameForms, SameShown, SameRefresh
<1>6. ~HasQueued(q)
  BY <1>4, <1>5 DEF HasQueued, IndicesIn
<1> QED
  BY <1>1, <1>3, <1>5, <1>6 DEF q

\* The next round of a run, or its end.
LEMMA NextIsSound ==
  ASSUME NEW p, NEW s, Sound(p, s), Loose(p), p.post = Quiet, ~p.paused
  PROVE  LET q == NextRound(p)
         IN  Sound(q, s) /\ Waits(q) /\ Covered(q) /\ SameForms(p, q) /\ SameShown(p, q)
<1> DEFINE halted == p.run.stop \/ p.stale
           q == NextRound(p)
<1>0. p \in Pages
  BY DEF Sound
<1>1. CASE ~halted /\ HasQueued(p)
  <2>1. q = Send(p)
    BY <1>1 DEF NextRound, HasQueued
  <2>2. Sound(q, s) /\ Running(q) /\ SameForms(p, q) /\ SameShown(p, q) /\ q.paused = p.paused
    BY <1>1, <2>1, SendIsSound
  <2> QED
    BY <2>2 DEF Waits, Covered, Promised
<1>2. CASE ~(~halted /\ HasQueued(p))
  <2> DEFINE left == IF halted THEN SetAside(p) ELSE p
             r == [left EXCEPT !.run = Quiet, !.followed = FALSE]
  <2>1. q = RefreshStatus(r)
    BY <1>2 DEF NextRound, HasQueued
  <2>2. /\ left \in Pages /\ SameForms(p, left) /\ SameShown(p, left) /\ SameRefresh(p, left)
        /\ left.post = p.post /\ left.fetch = p.fetch
        /\ ~HasQueued(left)
        /\ \A i \in DOMAIN left.entries : left.entries[i].state \in {"mapping", "closed"} =>
              i \in DOMAIN p.entries /\ left.entries[i] = p.entries[i]
    <3>1. CASE halted
      BY <1>0, <3>1, SetAsideIs
    <3>2. CASE ~halted
      BY <1>0, <1>2, <3>2 DEF SameForms, SameShown, SameRefresh
    <3> QED
      BY <3>1, <3>2
  <2> HIDE DEF left
  <2>3. /\ r \in Pages /\ SameForms(p, r) /\ SameShown(p, r) /\ SameRefresh(p, r)
        /\ r.post = p.post /\ r.fetch = p.fetch /\ r.run = Quiet /\ r.entries = left.entries
    BY <2>2 DEF Pages, Runs, SameForms, SameShown, SameRefresh
  <2> HIDE DEF r, q
  <2>4. Calm(p, r)
    BY <2>2, <2>3 DEF Calm, Fresher, SameForms, SameShown
  <2>5. Tied(r) /\ OneNewest(r)
    <3>1. \A part \in Parts : ~Asks(r, "queue", part)
      BY <2>3 DEF Loose, Asks
    <3> QED
      BY <2>3, <3>1 DEF Sound, Tied, OneNewest, Asks, SameForms, SameRefresh, Loose
  <2>6. Sound(r, s)
    BY <2>3, <2>4, <2>5, CalmKeepsSound
  <2>7. Sound(q, s) /\ SameQueue(r, q) /\ SameForms(r, q) /\ SameShown(r, q) /\ Covered(q)
    BY <2>1, <2>6, RefreshIsSound
  <2>8. ~HasQueued(q) /\ ~Running(q)
    BY <2>2, <2>3, <2>7 DEF SameQueue, HasQueued, IndicesIn, Running
  <2> QED
    BY <2>3, <2>7, <2>8 DEF Waits, SameForms, SameShown, q
<1> QED
  BY <1>1, <1>2

-----------------------------------------------------------------------------
(***************************************************************************)
(* An answer to a request for a part.                                      *)
(***************************************************************************)
Rest(p, c) == [p EXCEPT !.fetch[c] = Quiet]

\* A request is forgotten.
LEMMA RestIs ==
  ASSUME NEW p, NEW s, Sound(p, s), NEW c \in Callers
  PROVE  LET q == Rest(p, c)
         IN  /\ Sound(q, s) /\ SameQueue(p, q) /\ SameForms(p, q) /\ SameShown(p, q) /\ SameRefresh(p, q)
             /\ q.fetch[c] = Quiet /\ \A d \in Callers \ {c} : q.fetch[d] = p.fetch[d]
<1> DEFINE q == Rest(p, c)
           fetch == [p.fetch EXCEPT ![c] = Quiet]
<1>1. p \in Pages /\ p.fetch \in [Callers -> Fetches] /\ Quiet \in Fetches
  BY DEF Sound, Pages, Fetches
<1>2. /\ fetch \in [Callers -> Fetches]
      /\ fetch[c] = Quiet /\ \A d \in Callers \ {c} : fetch[d] = p.fetch[d]
  BY <1>1
<1>3. q = [p EXCEPT !.fetch = fetch]
  BY DEF Rest
<1> HIDE DEF fetch, q
<1>4. /\ q \in Pages /\ q.fetch = fetch
      /\ SameQueue(p, q) /\ SameForms(p, q) /\ SameShown(p, q) /\ SameRefresh(p, q)
  BY <1>1, <1>2, <1>3 DEF Pages, SameQueue, SameForms, SameShown, SameRefresh
<1>5. \A d \in Callers : q.fetch[d] = p.fetch[d] \/ q.fetch[d] = Quiet
  BY <1>2, <1>4
<1>6. Calm(p, q)
  BY <1>4, <1>5 DEF Calm, Fresher, SameQueue, SameForms, SameShown
<1>7. Tied(q) /\ OneNewest(q)
  BY <1>4, <1>5 DEF Sound, Tied, OneNewest, Asks, SameQueue, SameForms, SameRefresh, Callers
<1> QED
  BY <1>2, <1>4, <1>6, <1>7, CalmKeepsSound DEF q

\* A newer copy of the history closes what it does not know, and rightly.
Closing(p, copy) == {i \in DOMAIN p.entries : p.entries[i].state = "mapping"
                                                /\ p.entries[i].token \notin copy.pending}

\* reconcileMappings, with what it closes.
LEMMA ReconcileIs ==
  ASSUME NEW p \in Pages, NEW copy \in Copies
  PROVE  LET q == Reconcile([p EXCEPT !.shown = copy])
         IN  /\ q \in Pages /\ SameForms(p, q) /\ SameRefresh(p, q)
             /\ q.run = p.run /\ q.post = p.post /\ q.paused = p.paused /\ q.ready = p.ready
             /\ p.stale => q.stale
             /\ q.fetch = p.fetch /\ q.shown = copy /\ q.review = p.review /\ q.known = p.known
             /\ DOMAIN q.entries = DOMAIN p.entries
             /\ \A i \in DOMAIN p.entries :
                   /\ i \in Closing(p, copy) => q.entries[i] = [p.entries[i] EXCEPT !.state = "closed"]
                   /\ i \notin Closing(p, copy) => q.entries[i] = p.entries[i]
<1> DEFINE r == [p EXCEPT !.shown = copy]
           entries == Restated(p.entries, Closing(p, copy), "closed")
           closed == [p EXCEPT !.shown = copy, !.entries = entries]
           q == Reconcile(r)
<1>1. r \in Pages /\ r.entries = p.entries /\ r.shown = copy
  BY DEF Pages
<1>2. "closed" \in States
  BY DEF States
<1>3. entries \in Seq(Entry) /\ DOMAIN entries = DOMAIN p.entries
  BY <1>2, MarkAllIs
<1>4. /\ closed \in Pages /\ SameForms(p, closed) /\ SameRefresh(p, closed)
      /\ closed.run = p.run /\ closed.post = p.post /\ closed.paused = p.paused /\ closed.ready = p.ready
      /\ closed.stale = p.stale
      /\ closed.fetch = p.fetch /\ closed.shown = copy /\ closed.review = p.review
      /\ closed.known = p.known /\ closed.entries = entries
  <2> HIDE DEF entries
  <2> QED
    BY <1>3 DEF Pages, SameForms, SameRefresh
<1>5. [r EXCEPT !.entries = [i \in DOMAIN r.entries |->
           IF r.entries[i].state = "mapping" /\ r.entries[i].token \notin r.shown.pending
           THEN [r.entries[i] EXCEPT !.state = "closed"] ELSE r.entries[i]]] = closed
  <2>1. [i \in DOMAIN p.entries |->
           IF p.entries[i].state = "mapping" /\ p.entries[i].token \notin copy.pending
           THEN [p.entries[i] EXCEPT !.state = "closed"] ELSE p.entries[i]] = entries
    BY DEF Closing, Restated
  <2> HIDE DEF entries
  <2>2. [r EXCEPT !.entries = entries] = closed
    BY DEF Pages
  <2> HIDE DEF r, closed
  <2> QED
    BY <1>1, <2>1, <2>2
<1>6. q = closed \/ q = [closed EXCEPT !.stale = TRUE]
  <2> HIDE DEF r, closed, entries
  <2> QED
    BY <1>5 DEF Reconcile, MarkAll, q
<1>7. \A i \in DOMAIN p.entries :
         /\ i \in Closing(p, copy) => entries[i] = [p.entries[i] EXCEPT !.state = "closed"]
         /\ i \notin Closing(p, copy) => entries[i] = p.entries[i]
  BY DEF Restated
<1> HIDE DEF closed, entries, q, r
<1>8. CASE q = closed
  BY <1>3, <1>4, <1>7, <1>8 DEF q, r
<1>9. CASE q = [closed EXCEPT !.stale = TRUE]
  <2>1. /\ q \in Pages /\ SameForms(closed, q) /\ SameRefresh(closed, q)
        /\ q.run = closed.run /\ q.post = closed.post /\ q.paused = closed.paused
        /\ q.ready = closed.ready /\ q.stale
        /\ q.fetch = closed.fetch /\ q.shown = closed.shown /\ q.review = closed.review
        /\ q.known = closed.known /\ q.entries = closed.entries
    BY <1>4, <1>9 DEF Pages, SameForms, SameRefresh
  <2> QED
    BY <1>3, <1>4, <1>7, <2>1 DEF q, r, SameForms, SameRefresh
<1> QED
  BY <1>6, <1>8, <1>9

\* What an answer leaves as it was, whether it is shown or thrown away.
Took(p, q, c) ==
    /\ SameForms(p, q) /\ SameRefresh(p, q)
    /\ q.run = p.run /\ q.post = p.post /\ q.paused = p.paused /\ q.ready = p.ready
    /\ p.stale => q.stale
    /\ HasQueued(q) => HasQueued(p)
    /\ q.known = p.known
    /\ q.fetch[c] = Quiet /\ \A d \in Callers \ {c} : q.fetch[d] = p.fetch[d]
    /\ \A part \in Parts : Shown(p, part) <= Shown(q, part)
    /\ \A part \in Parts : Asks(p, c, part) /\ p.fetch[c].newest => Shown(q, part) = VersionOf(p.fetch[c])

\* The newest copy of the history is shown: it knows every mapping it does not close.
LEMMA TakeHistory ==
  ASSUME NEW p, NEW s, Sound(p, s), NEW c \in Callers, Has(p, c, "history"), p.fetch[c].newest
  PROVE  Sound(Take(p, c), s) /\ Took(p, Take(p, c), c)
<1> DEFINE rest == Rest(p, c)
           copy == p.fetch[c].copy
           q == Take(p, c)
<1>1. /\ Sound(rest, s) /\ SameQueue(p, rest) /\ SameForms(p, rest) /\ SameShown(p, rest)
      /\ SameRefresh(p, rest)
      /\ rest.fetch[c] = Quiet /\ \A d \in Callers \ {c} : rest.fetch[d] = p.fetch[d]
  BY RestIs
<1>2. p \in Pages /\ s \in Copies /\ rest \in Pages /\ copy \in Copies
  <2>1. p \in Pages /\ p.fetch[c] \in Fetches
    BY DEF Sound, Pages
  <2> QED
    BY <1>1, <2>1 DEF Sound, Has, Asks, Fetches
<1>3. q = Reconcile([rest EXCEPT !.shown = copy])
  BY DEF Take, Newest, Has, Asks, Rest
<1>4. Past(copy, s) /\ p.shown.version <= copy.version
  BY DEF Sound, Named, Ordered, Parts, Shown, VersionOf, Has, Asks
<1> HIDE DEF rest, copy, q
<1>5. /\ q \in Pages /\ SameForms(rest, q) /\ SameRefresh(rest, q)
      /\ q.run = rest.run /\ q.post = rest.post /\ q.paused = rest.paused /\ q.ready = rest.ready
      /\ rest.stale => q.stale
      /\ q.fetch = rest.fetch /\ q.shown = copy /\ q.review = rest.review /\ q.known = rest.known
      /\ DOMAIN q.entries = DOMAIN rest.entries
      /\ \A i \in DOMAIN rest.entries :
            /\ i \in Closing(rest, copy) => q.entries[i] = [rest.entries[i] EXCEPT !.state = "closed"]
            /\ i \notin Closing(rest, copy) => q.entries[i] = rest.entries[i]
  BY <1>2, <1>3, ReconcileIs
<1>6. ASSUME NEW i \in DOMAIN q.entries
      PROVE  /\ q.entries[i].state \in {"mapping", "closed"} => q.entries[i].token \in 0..s.version
             /\ q.entries[i].state = "mapping" => \A d \in Callers :
                   Has(q, d, "history") /\ q.fetch[d].newest => q.entries[i].token <= q.fetch[d].copy.version
             /\ q.entries[i].state = "closed" => q.entries[i].token \notin s.pending
             /\ q.entries[i].state = "queued" => p.entries[i].state = "queued"
  <2>1. /\ i \in DOMAIN p.entries /\ p.entries[i] \in Entry /\ rest.entries = p.entries
        /\ p.entries[i].state \in {"mapping", "closed"} => p.entries[i].token \in 0..s.version
        /\ p.entries[i].state = "mapping" => p.entries[i].token <= copy.version
        /\ p.entries[i].state = "closed" => p.entries[i].token \notin s.pending
    BY <1>1, <1>2, <1>5 DEF Sound, Named, Pages, SameQueue, copy
  <2>2. CASE i \in Closing(rest, copy)
    <3>1. q.entries[i].state = "closed" /\ q.entries[i].token = p.entries[i].token
      <4>1. i \in DOMAIN rest.entries /\ q.entries[i] = [p.entries[i] EXCEPT !.state = "closed"]
        BY <1>5, <2>1, <2>2
      <4> DEFINE e == p.entries[i]
      <4>2. e \in Entry
        BY <2>1
      <4> HIDE DEF e
      <4>3. [e EXCEPT !.state = "closed"].state = "closed" /\ [e EXCEPT !.state = "closed"].token = e.token
        BY <4>2 DEF Entry
      <4> QED
        BY <4>1, <4>3 DEF e
    <3>2. p.entries[i].state = "mapping" /\ p.entries[i].token \notin copy.pending
      BY <2>1, <2>2 DEF Closing
    <3> QED
      BY <1>4, <2>1, <3>1, <3>2 DEF Past
  <2>3. CASE i \notin Closing(rest, copy)
    <3>1. q.entries[i] = p.entries[i]
      BY <1>5, <2>1, <2>3
    <3>2. \A d \in Callers : Has(q, d, "history") => Has(rest, d, "history") /\ q.fetch[d] = rest.fetch[d]
      BY <1>5 DEF Has, Asks
    <3> QED
      BY <1>1, <1>5, <2>1, <3>1, <3>2 DEF Sound, Named
  <2> QED
    BY <2>2, <2>3
<1>7. Named(q, s)
  BY <1>1, <1>5, <1>6 DEF Sound, Named, Has, Asks, SameForms
<1>8. ASSUME NEW d \in Callers, NEW part \in Parts, Has(q, d, part)
      PROVE  /\ VersionOf(q.fetch[d]) <= s.version
             /\ q.fetch[d].newest => Shown(q, part) <= VersionOf(q.fetch[d])
  <2>1. Has(rest, d, part) /\ q.fetch[d] = rest.fetch[d] /\ d # c
    BY <1>1, <1>5, <1>8 DEF Has, Asks
  <2>2. part = "history" => ~q.fetch[d].newest
    BY <1>1, <2>1 DEF Sound, OneNewest, Has, Asks, Parts
  <2> QED
    BY <1>1, <1>5, <2>1, <2>2 DEF Sound, Ordered, Shown
<1>9. Ordered(q, s)
  <2>1. \A part \in Parts : Shown(q, part) <= s.version
    BY <1>1, <1>4, <1>5 DEF Sound, Ordered, Shown, Past, Parts
  <2> QED
    BY <1>1, <1>5, <1>8, <2>1 DEF Sound, Ordered, SameForms
<1>10. Tied(q) /\ OneNewest(q)
  BY <1>1, <1>5 DEF Sound, Tied, OneNewest, Asks, SameForms, SameRefresh
<1>11. HasQueued(q) => HasQueued(p)
  BY <1>1, <1>5, <1>6 DEF HasQueued, IndicesIn, SameQueue
<1>12. Took(p, q, c)
  <2>1. \A part \in Parts : Shown(p, part) <= Shown(q, part)
    BY <1>1, <1>2, <1>4, <1>5 DEF Shown, SameShown, Pages
  <2>2. \A part \in Parts : Asks(p, c, part) => Shown(q, part) = VersionOf(p.fetch[c])
    BY <1>5 DEF Shown, VersionOf, Has, Asks, copy
  <2> QED
    BY <1>1, <1>5, <1>11, <2>1, <2>2 DEF Took, SameQueue, SameForms, SameShown, SameRefresh
<1> QED
  BY <1>2, <1>5, <1>7, <1>9, <1>10, <1>12 DEF Sound, q

\* An answer is shown or thrown away.
LEMMA TakeIs ==
  ASSUME NEW p, NEW s, Sound(p, s), NEW c \in Callers, p.fetch[c].at = "answered"
  PROVE  Sound(Take(p, c), s) /\ Took(p, Take(p, c), c)
<1> DEFINE rest == Rest(p, c)
           q == Take(p, c)
<1>1. /\ Sound(rest, s) /\ SameQueue(p, rest) /\ SameForms(p, rest) /\ SameShown(p, rest)
      /\ SameRefresh(p, rest)
      /\ rest.fetch[c] = Quiet /\ \A d \in Callers \ {c} : rest.fetch[d] = p.fetch[d]
  BY RestIs
<1>2. p \in Pages /\ rest \in Pages /\ p.fetch[c] \in Fetches /\ s \in Copies
  BY <1>1 DEF Sound, Pages
<1>3. p.fetch[c] # Quiet /\ p.fetch[c].part \in Parts
  BY <1>2 DEF Fetches, Parts
<1>4. HasQueued(rest) => HasQueued(p)
  BY <1>1 DEF HasQueued, IndicesIn, SameQueue
<1>5. CASE ~p.fetch[c].newest
  <2>1. q = rest
    BY <1>5 DEF Take, Newest, Rest
  <2>2. \A part \in Parts : Shown(p, part) = Shown(rest, part)
    BY <1>1 DEF Shown, SameShown
  <2>3. \A part \in Parts : Shown(p, part) \in Nat
    BY <1>2 DEF Shown, Pages, Copies
  <2>4. Took(p, rest, c)
    <3> HIDE DEF rest
    <3> QED
      BY <1>1, <1>4, <1>5, <2>2, <2>3 DEF Took, SameQueue, SameShown
  <2> QED
    BY <1>1, <2>1, <2>4
<1>6. CASE p.fetch[c].newest /\ p.fetch[c].part = "history"
  BY <1>3, <1>6, TakeHistory DEF Has, Asks
<1>7. CASE p.fetch[c].newest /\ p.fetch[c].part = "review"
  <2>1. q = [rest EXCEPT !.review = p.fetch[c].copy]
    BY <1>7 DEF Take, Newest, Rest
  <2>2. /\ p.fetch[c].copy \in Nat /\ p.fetch[c].copy <= s.version /\ p.review <= p.fetch[c].copy
        /\ Has(p, c, "review") /\ VersionOf(p.fetch[c]) = p.fetch[c].copy
    <3>1. Has(p, c, "review") /\ VersionOf(p.fetch[c]) = p.fetch[c].copy
      BY <1>3, <1>7 DEF Has, Asks, VersionOf
    <3> QED
      BY <1>2, <1>7, <3>1 DEF Sound, Ordered, Shown, Parts, Fetches, Has, Asks
  <2> HIDE DEF q, rest
  <2>3. /\ q \in Pages /\ SameQueue(rest, q) /\ SameForms(rest, q) /\ SameRefresh(rest, q)
        /\ q.fetch = rest.fetch /\ q.shown = rest.shown /\ q.known = rest.known
        /\ q.review = p.fetch[c].copy
    BY <1>2, <2>1, <2>2 DEF Pages, SameQueue, SameForms, SameRefresh
  <2>4. Named(q, s)
    BY <1>1, <2>3 DEF Sound, Named, Has, Asks, SameForms, SameQueue
  <2>5. ASSUME NEW d \in Callers, NEW part \in Parts, Has(q, d, part)
        PROVE  /\ VersionOf(q.fetch[d]) <= s.version
               /\ q.fetch[d].newest => Shown(q, part) <= VersionOf(q.fetch[d])
    <3>1. Has(rest, d, part) /\ q.fetch[d] = rest.fetch[d] /\ d # c /\ q.fetch[d] = p.fetch[d]
      BY <1>1, <2>3, <2>5 DEF Has, Asks
    <3>2. part = "review" => ~q.fetch[d].newest
      BY <1>7, <2>2, <3>1 DEF Sound, OneNewest, Has, Asks, Parts
    <3> QED
      BY <1>1, <2>3, <3>1, <3>2 DEF Sound, Ordered, Shown, Parts
  <2>6. Ordered(q, s)
    <3>1. \A part \in Parts : Shown(q, part) <= s.version
      BY <1>1, <2>2, <2>3 DEF Sound, Ordered, Shown, Parts
    <3> QED
      BY <1>1, <2>3, <2>5, <3>1 DEF Sound, Ordered, SameForms, SameQueue
  <2>7. Tied(q) /\ OneNewest(q)
    BY <1>1, <2>3 DEF Sound, Tied, OneNewest, Asks, SameForms, SameRefresh, SameQueue
  <2>8. HasQueued(q) => HasQueued(p)
    BY <1>1, <2>3 DEF HasQueued, IndicesIn, SameQueue
  <2>9. Took(p, q, c)
    <3>1. \A part \in Parts : Shown(p, part) <= Shown(q, part)
      BY <1>1, <1>2, <2>2, <2>3 DEF Shown, SameShown, Pages, Copies
    <3>2. \A part \in Parts : Asks(p, c, part) => Shown(q, part) = VersionOf(p.fetch[c])
      BY <1>7, <2>2, <2>3 DEF Shown, Asks
    <3> QED
      BY <1>1, <2>3, <2>8, <3>1, <3>2 DEF Took, SameQueue, SameForms, SameShown, SameRefresh
  <2> QED
    BY <1>2, <2>3, <2>4, <2>6, <2>7, <2>9 DEF Sound, q
<1> QED
  BY <1>3, <1>5, <1>6, <1>7 DEF Parts

\* An answer leaves a promise or a failure as it was, and what was coming still comes;
\* only what the status asks for next is left to it.
LEMMA TakeCovers ==
  ASSUME NEW p, NEW s, Sound(p, s), NEW c \in Callers, p.fetch[c].at = "answered",
         NEW part \in Parts, Coming(p, part)
  PROVE  \/ Coming(Take(p, c), part)
         \/ part = "review" /\ c = "status" /\ Asks(p, "status", "history")
<1> DEFINE q == Take(p, c)
<1>1. Sound(q, s) /\ Took(p, q, c)
  BY TakeIs
<1>2. /\ p \in Pages /\ q \in Pages /\ "history" \in Parts /\ "status" \in Callers
      /\ p.known \in Nat /\ Shown(p, part) \in Nat /\ Shown(q, part) \in Nat
  BY <1>1 DEF Sound, Pages, Copies, Shown, Parts, Callers
<1> HIDE DEF q
<1>3. CASE Shown(p, part) >= p.known
  BY <1>1, <1>2, <1>3 DEF Coming, Took, q
<1>4. ASSUME NEW d \in Callers, Asks(p, d, part), p.fetch[d].newest,
             p.fetch[d].at = "answered" => VersionOf(p.fetch[d]) >= p.known
      PROVE  Coming(q, part)
  <2>1. CASE d = c
    BY <1>1, <1>2, <1>4, <2>1 DEF Coming, Took
  <2>2. CASE d # c
    BY <1>1, <1>4, <2>2 DEF Coming, Took, Asks
  <2> QED
    BY <2>1, <2>2
<1>5. CASE part = "review" /\ p.desk.at = "history"
  BY <1>1, <1>5 DEF Coming, Took, SameForms, q
<1>6. CASE part = "review" /\ Asks(p, "status", "history")
  BY <1>1, <1>2, <1>6 DEF Coming, Took, Asks, q
<1> QED
  BY <1>3, <1>4, <1>5, <1>6 DEF Coming, q

-----------------------------------------------------------------------------
(***************************************************************************)
(* Whoever waits for an analysis, and whoever asked for it.                *)
(***************************************************************************)
\* The queue alone decides who waits.
LEMMA SameQueueWaits ==
  ASSUME NEW p, NEW q, SameQueue(p, q), Waits(p)
  PROVE  Waits(q)
BY DEF SameQueue, Waits, HasQueued, IndicesIn, Running

\* The form of a mapping, at another point of its handler.
MappingAt(p, at) == [p EXCEPT !.mapping.at = at]

\* Its handler may wait for something else once it waits for nothing.
LEMMA MappingAtIs ==
  ASSUME NEW p, NEW s, Sound(p, s), NEW at \in {"review", "analysing", "history"},
         p.mapping # Quiet, p.fetch["mapping"] = Quiet,
         p.desk # Quiet => p.desk.caller # "mapping"
  PROVE  LET q == MappingAt(p, at)
         IN  /\ Sound(q, s) /\ SameQueue(p, q) /\ SameShown(p, q) /\ SameRefresh(p, q)
             /\ q.desk = p.desk /\ q.fetch = p.fetch /\ q.mapping # Quiet /\ q.mapping.at = at
<1> DEFINE mapping == [p.mapping EXCEPT !.at = at]
           q == MappingAt(p, at)
<1>1. mapping \in Mappings /\ mapping.at = at /\ mapping # Quiet
  <2>1. p.mapping \in Mappings
    BY DEF Sound, Pages
  <2> QED
    BY <2>1 DEF Mappings
<1>2. q = [p EXCEPT !.mapping = mapping]
  BY DEF MappingAt
<1> HIDE DEF mapping, q
<1>3. /\ q \in Pages /\ SameQueue(p, q) /\ SameShown(p, q) /\ SameRefresh(p, q)
      /\ q.desk = p.desk /\ q.fetch = p.fetch /\ q.mapping = mapping
  BY <1>1, <1>2 DEF Sound, Pages, SameQueue, SameShown, SameRefresh
<1>4. Calm(p, q)
  BY <1>1, <1>3 DEF Calm, Fresher, SameQueue, SameShown
<1>5. Tied(q) /\ OneNewest(q)
  <2>1. \A part \in Parts : ~Asks(q, "mapping", part)
    BY <1>3 DEF Asks
  <2> QED
    BY <1>3, <2>1 DEF Sound, Tied, OneNewest, Asks, SameQueue, SameRefresh
<1> QED
  BY <1>1, <1>3, <1>4, <1>5, CalmKeepsSound DEF q

\* The handler of a mapping goes on: it asks for a fresh history.
LEMMA ContinueMapping ==
  ASSUME NEW p, NEW s, Sound(p, s), p.mapping # Quiet, p.fetch["mapping"] = Quiet,
         p.desk # Quiet => p.desk.caller # "mapping"
  PROVE  LET q == Continue(p, "mapping")
         IN  Sound(q, s) /\ SameQueue(p, q) /\ Promised(q)
<1> DEFINE r == MappingAt(p, "history")
           q == Continue(p, "mapping")
<1>1. q = Ask(r, "mapping", "history")
  BY DEF Continue, MappingAt
<1>2. /\ Sound(r, s) /\ SameQueue(p, r) /\ r.mapping # Quiet /\ r.mapping.at = "history"
  BY MappingAtIs
<1> HIDE DEF r, q
<1>3. r \in Pages /\ "mapping" \in Callers /\ "history" \in Parts
  BY <1>2 DEF Sound, Callers, Parts
<1>4. Sound(q, s)
  BY <1>1, <1>2, <1>3, AskIsSound
<1>5. SameQueue(r, q) /\ SameForms(r, q)
  BY <1>1, <1>3, AskIs
<1> QED
  BY <1>2, <1>4, <1>5 DEF q, Promised, SameQueue, SameForms

\* The list rests, or is done for somebody.
DeskRests(p) == [p EXCEPT !.desk = Quiet]

\* The action of the review list is over.
LEMMA DeskRestsIs ==
  ASSUME NEW p, NEW s, Sound(p, s), p.fetch["desk"] = Quiet
  PROVE  LET q == DeskRests(p)
         IN  /\ Sound(q, s) /\ SameQueue(p, q) /\ SameShown(p, q) /\ SameRefresh(p, q)
             /\ q.desk = Quiet /\ q.mapping = p.mapping /\ q.fetch = p.fetch
<1> DEFINE q == DeskRests(p)
<1>1. Quiet \in Desks
  BY DEF Desks
<1>2. q = [p EXCEPT !.desk = Quiet]
  BY DEF DeskRests
<1> HIDE DEF q
<1>3. /\ q \in Pages /\ SameQueue(p, q) /\ SameShown(p, q) /\ SameRefresh(p, q)
      /\ q.desk = Quiet /\ q.mapping = p.mapping /\ q.fetch = p.fetch
  BY <1>1, <1>2 DEF Sound, Pages, SameQueue, SameShown, SameRefresh
<1>4. Calm(p, q)
  BY <1>3 DEF Calm, Fresher, SameQueue, SameShown
<1>5. Tied(q) /\ OneNewest(q)
  <2>1. \A part \in Parts : ~Asks(q, "desk", part)
    BY <1>3 DEF Asks
  <2> QED
    BY <1>3, <2>1 DEF Sound, Tied, OneNewest, Asks, SameQueue, SameRefresh
<1> QED
  BY <1>3, <1>4, <1>5, CalmKeepsSound DEF q

\* Whoever waited for the action goes on.
LEMMA DeskDoneIsSound ==
  ASSUME NEW p, NEW s, Sound(p, s), Waits(p), p.desk # Quiet, p.fetch["desk"] = Quiet,
         p.failed \/ (Covered(p) /\ p.desk.at # "history")
  PROVE  LET q == DeskDone(p)
         IN  Sound(q, s) /\ Waits(q) /\ Covered(q)
<1> DEFINE r == DeskRests(p)
<1>1. DeskDone(p) = Continue(r, p.desk.caller)
  BY DEF DeskDone, DeskRests
<1>2. /\ Sound(r, s) /\ SameQueue(p, r) /\ SameShown(p, r) /\ SameRefresh(p, r)
      /\ r.desk = Quiet /\ r.mapping = p.mapping /\ r.fetch = p.fetch
  BY DeskRestsIs
<1> HIDE DEF r
<1>3. p \in Pages /\ p.desk.caller \in {"queue", "mapping", "user"}
  BY DEF Sound, Pages, Desks
<1>4. Waits(r)
  BY <1>2, SameQueueWaits
<1>5. CASE p.desk.caller = "queue"
  <2>1. p.run.at = "analysing" /\ p.run \in Runs /\ p.fetch["queue"] \in Fetches /\ p.post \in Posts
    BY <1>3, <1>5 DEF Sound, Tied, Pages, Callers
  <2>2. p.run # Quiet /\ p.fetch["queue"] = Quiet /\ p.post = Quiet
    BY <2>1 DEF Sound, Tied, Asks, Parts, Fetches
  <2>3. Loose(r) /\ r.post = Quiet /\ ~r.paused
    BY <1>2, <1>4, <2>2 DEF Loose, Waits, Running, SameQueue
  <2>4. DeskDone(p) = NextRound(r)
    BY <1>1, <1>5 DEF Continue
  <2> QED
    BY <1>2, <2>3, <2>4, NextIsSound
<1>6. CASE p.desk.caller = "mapping"
  <2>1. p.mapping.at = "analysing" /\ p.fetch["mapping"] \in Fetches
    BY <1>3, <1>6 DEF Sound, Tied, Pages, Callers
  <2>2. p.mapping # Quiet /\ p.fetch["mapping"] = Quiet
    BY <2>1 DEF Sound, Tied, Asks, Parts, Fetches
  <2>3. /\ Sound(Continue(r, "mapping"), s) /\ SameQueue(r, Continue(r, "mapping"))
        /\ Promised(Continue(r, "mapping"))
    BY <1>2, <2>2, ContinueMapping
  <2> QED
    BY <1>1, <1>4, <1>6, <2>3, SameQueueWaits DEF Covered
<1>7. CASE p.desk.caller = "user"
  <2>1. DeskDone(p) = r
    BY <1>1, <1>7 DEF Continue
  <2>2. Covered(r)
    BY <1>2 DEF Covered, Promised, Coming, Shown, Asks, Running, SameQueue, SameShown, SameRefresh
  <2> QED
    BY <1>2, <1>4, <2>1, <2>2
<1> QED
  BY <1>3, <1>5, <1>6, <1>7

\* An analysis sets out, and its caller waits for it.
LEMMA AnalyseIsSound ==
  ASSUME NEW p, NEW s, Sound(p, s), Waits(p), p.desk = Quiet,
         NEW c \in {"queue", "mapping"},
         c = "queue" => Running(p) /\ p.post = Quiet,
         c = "mapping" => p.mapping # Quiet,
         p.fetch[c] = Quiet
  PROVE  LET q == Analyse(p, c)
         IN  Sound(q, s) /\ Waits(q) /\ Covered(q)
<1> DEFINE desk == [at |-> "asked", caller |-> c, version |-> 0]
           q == Analyse(p, c)
<1>0. p \in Pages /\ desk \in Desks /\ desk # Quiet /\ desk.at = "asked" /\ desk.caller = c
  BY DEF Sound, Desks
<1>1. p.fetch["desk"] = Quiet
  BY <1>0 DEF Sound, Tied, Asks, Parts, Pages, Fetches, Callers
<1> HIDE DEF desk
<1>2. CASE c = "queue"
  <2> DEFINE run == [p.run EXCEPT !.at = "analysing"]
  <2>1. run \in Runs /\ run.at = "analysing" /\ run # Quiet
    <3>1. p.run \in Runs /\ p.run # Quiet
      BY <1>0, <1>2 DEF Pages, Running
    <3> QED
      BY <3>1 DEF Runs
  <2>2. q = [p EXCEPT !.desk = desk, !.run = run]
    BY <1>0, <1>2 DEF Analyse, desk, Pages
  <2> HIDE DEF run, q
  <2>3. /\ q \in Pages /\ SameShown(p, q) /\ SameRefresh(p, q)
        /\ q.desk = desk /\ q.mapping = p.mapping /\ q.fetch = p.fetch /\ q.run = run /\ q.post = p.post
        /\ q.entries = p.entries /\ q.paused = p.paused /\ q.stale = p.stale /\ q.ready = p.ready
    BY <1>0, <2>1, <2>2 DEF Pages, SameShown, SameRefresh
  <2>4. Calm(p, q)
    BY <1>0, <2>3 DEF Calm, Fresher, SameShown
  <2>5. Tied(q) /\ OneNewest(q)
    <3>1. \A part \in Parts : ~Asks(q, "queue", part) /\ ~Asks(q, "desk", part)
      BY <1>1, <1>2, <2>3 DEF Asks
    <3> QED
      BY <1>0, <1>2, <2>1, <2>3, <3>1 DEF Sound, Tied, OneNewest, Asks, SameRefresh
  <2>6. Waits(q)
    BY <1>2, <2>1, <2>3 DEF Waits, HasQueued, IndicesIn, Running
  <2> QED
    BY <2>1, <2>3, <2>4, <2>5, <2>6, CalmKeepsSound DEF q, Covered, Promised, Running
<1>3. CASE c = "mapping"
  <2> DEFINE r == MappingAt(p, "analysing")
  <2>1. /\ Sound(r, s) /\ SameQueue(p, r) /\ SameShown(p, r) /\ SameRefresh(p, r)
        /\ r.desk = p.desk /\ r.fetch = p.fetch /\ r.mapping # Quiet /\ r.mapping.at = "analysing"
    BY <1>3, MappingAtIs
  <2>2. q = [r EXCEPT !.desk = desk]
    BY <1>0, <1>3 DEF Analyse, desk, MappingAt, Pages
  <2> HIDE DEF r, q
  <2>3. /\ q \in Pages /\ SameQueue(r, q) /\ SameShown(r, q) /\ SameRefresh(r, q)
        /\ q.desk = desk /\ q.mapping = r.mapping /\ q.fetch = r.fetch
    BY <1>0, <2>1, <2>2 DEF Sound, Pages, SameQueue, SameShown, SameRefresh
  <2>4. Calm(r, q)
    BY <1>0, <2>3 DEF Calm, Fresher, SameShown, SameQueue
  <2>5. Tied(q) /\ OneNewest(q)
    <3>1. \A part \in Parts : ~Asks(q, "desk", part)
      BY <1>1, <2>1, <2>3 DEF Asks
    <3> QED
      BY <1>0, <1>3, <2>1, <2>3, <3>1 DEF Sound, Tied, OneNewest, Asks, SameRefresh, SameQueue
  <2>6. Waits(q)
    BY <2>1, <2>3, SameQueueWaits
  <2> QED
    BY <2>1, <2>3, <2>4, <2>5, <2>6, CalmKeepsSound DEF q, Covered, Promised
<1> QED
  BY <1>2, <1>3

\* The caller goes on with an analysis or without.
LEMMA AnalysesAreSound ==
  ASSUME NEW p, NEW s, Sound(p, s), Waits(p), NEW c \in {"queue", "mapping"},
         c = "queue" => Running(p) /\ p.post = Quiet,
         c = "mapping" => p.mapping # Quiet,
         p.fetch[c] = Quiet,
         p.desk # Quiet => p.desk.caller # c,
         NEW q \in Analyses(p, c)
  PROVE  Sound(q, s) /\ Waits(q) /\ Covered(q)
<1>1. CASE p.desk = Quiet /\ q = Analyse(p, c)
  BY <1>1, AnalyseIsSound
<1>2. CASE q = Continue(p, c)
  <2>1. CASE c = "queue"
    <3>1. Loose(p) /\ ~p.paused /\ q = NextRound(p)
      BY <1>2, <2>1 DEF Loose, Waits, Continue
    <3> QED
      BY <2>1, <3>1, NextIsSound
  <2>2. CASE c = "mapping"
    <3>1. Sound(Continue(p, "mapping"), s) /\ SameQueue(p, Continue(p, "mapping"))
            /\ Promised(Continue(p, "mapping"))
      BY <2>2, ContinueMapping
    <3> QED
      BY <1>2, <2>2, <3>1, SameQueueWaits DEF Covered
  <2> QED
    BY <2>1, <2>2
<1> QED
  BY <1>1, <1>2 DEF Analyses

\* What is asked for is on its way, and so is what was.
LEMMA AskBrings ==
  ASSUME NEW p \in Pages, NEW c \in Callers, NEW part \in Parts
  PROVE  /\ Coming(Ask(p, c, part), part)
         /\ \A x \in Parts \ {part} : Coming(p, x) /\ p.fetch[c] = Quiet => Coming(Ask(p, c, part), x)
<1> DEFINE q == Ask(p, c, part)
<1>1. /\ SameForms(p, q) /\ SameShown(p, q)
      /\ q.fetch[c] = [at |-> "asked", part |-> part, newest |-> TRUE]
      /\ \A d \in Callers \ {c} :
            q.fetch[d] = IF Asks(p, d, part) THEN [p.fetch[d] EXCEPT !.newest = FALSE] ELSE p.fetch[d]
  BY AskIs
<1> HIDE DEF q
<1>2. Coming(q, part)
  BY <1>1 DEF Coming, Asks
<1>3. ASSUME NEW x \in Parts \ {part}, Coming(p, x), p.fetch[c] = Quiet
      PROVE  Coming(q, x)
  <2>1. Shown(q, x) = Shown(p, x) /\ q.known = p.known /\ q.desk = p.desk
    BY <1>1 DEF Shown, SameForms, SameShown
  <2>2. ASSUME NEW d \in Callers, Asks(p, d, x)
        PROVE  q.fetch[d] = p.fetch[d] /\ Asks(q, d, x)
    BY <1>1, <1>3, <2>2 DEF Asks
  <2>3. ASSUME x = "review", Asks(p, "status", "history")
        PROVE  Asks(q, "status", "history")
    <3>1. "status" \in Callers /\ "status" # c /\ p.fetch["status"] \in Fetches
      BY <1>3, <2>3 DEF Asks, Callers, Pages
    <3> QED
      BY <1>1, <2>3, <3>1 DEF Asks, Fetches
  <2> QED
    BY <1>3, <2>1, <2>2, <2>3 DEF Coming
<1> QED
  BY <1>2, <1>3 DEF q

\* The mapping is done with.
MappingRests(p) == [p EXCEPT !.mapping = Quiet]

\* The form of the mapping is free again.
LEMMA MappingRestsIs ==
  ASSUME NEW p, NEW s, Sound(p, s), p.fetch["mapping"] = Quiet,
         p.desk # Quiet => p.desk.caller # "mapping"
  PROVE  Sound(MappingRests(p), s) /\ SameQueue(p, MappingRests(p))
<1> DEFINE q == MappingRests(p)
<1>1. Quiet \in Mappings
  BY DEF Mappings
<1>2. q = [p EXCEPT !.mapping = Quiet]
  BY DEF MappingRests
<1> HIDE DEF q
<1>3. /\ q \in Pages /\ SameQueue(p, q) /\ SameShown(p, q) /\ SameRefresh(p, q)
      /\ q.mapping = Quiet /\ q.desk = p.desk /\ q.fetch = p.fetch
  BY <1>1, <1>2 DEF Sound, Pages, SameQueue, SameShown, SameRefresh
<1>4. Calm(p, q)
  BY <1>3 DEF Calm, Fresher, SameQueue, SameShown
<1>5. Tied(q) /\ OneNewest(q)
  <2>1. \A part \in Parts : ~Asks(q, "mapping", part)
    BY <1>3 DEF Asks
  <2> QED
    BY <1>3, <2>1 DEF Sound, Tied, OneNewest, Asks, SameQueue, SameRefresh
<1> QED
  BY <1>3, <1>4, <1>5, CalmKeepsSound DEF q

\* While the answer was out, the handler waited for it and for nothing else.
LEMMA WaitingIs ==
  ASSUME NEW p, NEW s, Sound(p, s), NEW c \in Callers, p.fetch[c] # Quiet
  PROVE  /\ p.fetch[c].part \in Parts /\ Asks(p, c, p.fetch[c].part)
         /\ c = "queue" => /\ p.run \in Runs /\ p.run # Quiet /\ p.run.at = p.fetch[c].part
                           /\ p.post = Quiet
                           /\ p.desk # Quiet => p.desk.caller # "queue"
         /\ c = "status" => p.refreshing
         /\ c = "mapping" => /\ p.mapping # Quiet /\ p.mapping.at = p.fetch[c].part
                             /\ p.desk # Quiet => p.desk.caller # "mapping"
         /\ c = "desk" => p.desk # Quiet /\ p.desk.at = p.fetch[c].part
<1>1. p.fetch[c] \in Fetches /\ p.run \in Runs /\ p.post \in Posts /\ p.desk \in Desks /\ p.mapping \in Mappings
  BY DEF Sound, Pages
<1>2. p.fetch[c].part \in Parts /\ Asks(p, c, p.fetch[c].part)
  BY <1>1 DEF Fetches, Parts, Asks
<1> QED
  BY <1>1, <1>2 DEF Sound, Tied, Parts

\* The answer has been taken and the handler goes on.
LEMMA QueueGoesOnSound ==
  ASSUME NEW p, NEW s, Sound(p, s), Waits(p), p.fetch["queue"] = Quiet, p.post = Quiet,
         p.run # Quiet, p.run.at \in Parts,
         p.desk # Quiet => p.desk.caller # "queue",
         NEW q \in QueueGoesOn(p)
  PROVE  Sound(q, s) /\ Waits(q) /\ Covered(q)
<1>0. Loose(p) /\ Running(p) /\ ~p.paused /\ p \in Pages
  BY DEF Loose, Running, Waits, Sound
<1>1. CASE q = NextRound(p)
  BY <1>0, <1>1, NextIsSound
<1>2. CASE q \in Analyses(p, "queue")
  BY <1>0, <1>2, AnalysesAreSound
<1>3. CASE q = Ask([p EXCEPT !.followed = TRUE, !.run.at = "review"], "queue", "review")
  <2> DEFINE run == [p.run EXCEPT !.at = "review"]
             r == [p EXCEPT !.followed = TRUE, !.run.at = "review"]
  <2>1. run \in Runs /\ run # Quiet /\ run.at = "review"
    <3>1. p.run \in Runs
      BY <1>0 DEF Pages
    <3> QED
      BY <3>1 DEF Runs
  <2>2. r = [p EXCEPT !.followed = TRUE, !.run = run]
    BY <1>0 DEF Pages
  <2> HIDE DEF run, r
  <2>3. /\ r \in Pages /\ SameForms(p, r) /\ SameShown(p, r) /\ SameRefresh(p, r)
        /\ r.fetch = p.fetch /\ r.run = run /\ r.post = p.post
        /\ r.entries = p.entries /\ r.paused = p.paused /\ r.stale = p.stale /\ r.ready = p.ready
    BY <1>0, <2>1, <2>2 DEF Pages, SameForms, SameShown, SameRefresh
  <2>4. Calm(p, r)
    BY <2>3 DEF Calm, Fresher, SameForms, SameShown
  <2>5. Tied(r) /\ OneNewest(r)
    <3>1. \A part \in Parts : ~Asks(r, "queue", part)
      BY <2>3 DEF Asks
    <3> QED
      BY <2>3, <3>1 DEF Sound, Tied, OneNewest, Asks, SameForms, SameRefresh
  <2>6. Sound(r, s)
    BY <2>3, <2>4, <2>5, CalmKeepsSound
  <2>7. "queue" \in Callers /\ "review" \in Parts
    BY DEF Callers, Parts
  <2>8. q = Ask(r, "queue", "review")
    BY <1>3 DEF r
  <2>9. Sound(q, s) /\ SameQueue(r, q)
    BY <2>1, <2>3, <2>6, <2>7, <2>8, AskIsSound, AskIs
  <2>10. Running(q) /\ Waits(q)
    BY <1>0, <2>1, <2>3, <2>9 DEF Running, Waits, SameQueue
  <2> QED
    BY <2>9, <2>10 DEF Covered, Promised
<1> QED
  BY <1>1, <1>2, <1>3 DEF QueueGoesOn

\* refreshStatus goes on with the review list, or starts again.
LEMMA StatusGoesOnSound ==
  ASSUME NEW p, NEW s, Sound(p, s), Waits(p), p.fetch["status"] = Quiet, p.refreshing,
         NEW part \in Parts,
         \/ Promised(p) \/ p.failed
         \/ Coming(p, "history") /\ (part = "review" => Coming(p, "review")),
         NEW q \in StatusGoesOn(p, part)
  PROVE  Sound(q, s) /\ Waits(q) /\ Covered(q)
<1>0. p \in Pages /\ "status" \in Callers /\ "review" \in Parts /\ "history" \in Parts
  BY DEF Sound, Callers, Parts
<1>1. CASE part = "review"
  <2>1. q = StatusDone(p)
    BY <1>1 DEF StatusGoesOn
  <2>2. /\ Sound(q, s) /\ SameQueue(p, q) /\ SameForms(p, q) /\ SameShown(p, q)
        /\ p.again => Covered(q)
        /\ ~p.again => q.fetch = p.fetch /\ q.failed = p.failed
    BY <2>1, DoneIsSound
  <2>3. ASSUME ~p.again
        PROVE  Covered(q)
    <3>1. \A x \in {"history", "review"} : Coming(p, x) => Coming(q, x)
      <4>1. /\ q.fetch = p.fetch /\ q.desk = p.desk /\ q.known = p.known
            /\ \A x \in {"history", "review"} : Shown(q, x) = Shown(p, x)
        BY <2>2, <2>3 DEF Shown, SameForms, SameShown
      <4>2. \A d \in Callers, x \in Parts : Asks(q, d, x) = Asks(p, d, x)
        BY <4>1 DEF Asks
      <4> QED
        BY <4>1, <4>2 DEF Coming, Parts, Callers
    <3>2. Promised(p) => Promised(q)
      BY <2>2, <2>3 DEF Promised, Running, SameQueue, SameForms
    <3> QED
      BY <1>1, <2>2, <2>3, <3>1, <3>2 DEF Covered
  <2> QED
    BY <2>2, <2>3, SameQueueWaits
<1>2. CASE part = "history" /\ (Running(p) \/ p.overtaken)
  <2> DEFINE r == [p EXCEPT !.again = TRUE]
  <2>1. q = StatusDone(r)
    BY <1>2 DEF StatusGoesOn
  <2>2. /\ r \in Pages /\ SameQueue(p, r) /\ SameForms(p, r) /\ SameShown(p, r)
        /\ r.fetch = p.fetch /\ r.refreshing /\ r.again
    BY <1>0 DEF Pages, SameQueue, SameForms, SameShown
  <2> HIDE DEF r
  <2>3. Tied(r) /\ OneNewest(r) /\ Calm(p, r)
    BY <2>2 DEF Sound, Tied, OneNewest, Calm, Fresher, Asks, SameQueue, SameForms, SameShown
  <2>4. Sound(r, s)
    BY <2>2, <2>3, CalmKeepsSound
  <2>5. Sound(q, s) /\ SameQueue(r, q) /\ Covered(q)
    BY <2>1, <2>2, <2>4, DoneIsSound
  <2>6. SameQueue(p, q)
    BY <2>2, <2>5 DEF SameQueue
  <2> QED
    BY <2>5, <2>6, SameQueueWaits
<1>3. CASE part = "history" /\ ~(Running(p) \/ p.overtaken)
  <2>1. q = Ask(p, "status", "review")
    BY <1>3 DEF StatusGoesOn
  <2>2. Sound(q, s) /\ SameQueue(p, q) /\ SameForms(p, q) /\ SameRefresh(p, q)
    BY <1>0, <2>1, AskIsSound, AskIs
  <2>3. Coming(q, "review") /\ (Coming(p, "history") => Coming(q, "history"))
    BY <1>0, <2>1, AskBrings
  <2>4. Covered(q)
    BY <1>3, <2>2, <2>3 DEF Covered, Promised, Running, SameQueue, SameForms, SameRefresh
  <2> QED
    BY <2>2, <2>4, SameQueueWaits
<1> QED
  BY <1>1, <1>2, <1>3 DEF Parts

\* The handler of a mapping goes on with its analysis, or ends with a refresh.
LEMMA MappingGoesOnSound ==
  ASSUME NEW p, NEW s, Sound(p, s), Waits(p), p.fetch["mapping"] = Quiet, p.mapping # Quiet,
         p.desk # Quiet => p.desk.caller # "mapping",
         NEW q \in MappingGoesOn(p)
  PROVE  Sound(q, s) /\ Waits(q) /\ Covered(q)
<1>1. CASE q \in Analyses(p, "mapping")
  BY <1>1, AnalysesAreSound
<1>2. CASE q = RefreshStatus(MappingRests(p))
  <2>1. Sound(MappingRests(p), s) /\ SameQueue(p, MappingRests(p))
    BY MappingRestsIs
  <2>2. Sound(q, s) /\ SameQueue(MappingRests(p), q) /\ Covered(q)
    BY <1>2, <2>1, RefreshIsSound
  <2> QED
    BY <2>1, <2>2, SameQueueWaits
<1> QED
  BY <1>1, <1>2 DEF MappingGoesOn, MappingRests

\* The action of the review list goes on with the list, or ends.
LEMMA DeskGoesOnSound ==
  ASSUME NEW p, NEW s, Sound(p, s), Waits(p), Covered(p), p.fetch["desk"] = Quiet, p.desk # Quiet,
         p.desk.at \in Parts,
         NEW q \in DeskGoesOn(p)
  PROVE  Sound(q, s) /\ Waits(q) /\ Covered(q)
<1>1. CASE p.desk.at = "review"
  <2>1. q = DeskDone(p)
    BY <1>1 DEF DeskGoesOn
  <2> QED
    BY <1>1, <2>1, DeskDoneIsSound
<1>2. CASE p.desk.at = "history"
  <2> DEFINE desk == [p.desk EXCEPT !.at = "review"]
             r == [p EXCEPT !.desk.at = "review"]
  <2>1. p \in Pages /\ "desk" \in Callers /\ "review" \in Parts /\ "history" \in Parts
    BY DEF Sound, Callers, Parts
  <2>2. desk \in Desks /\ desk # Quiet /\ desk.at = "review" /\ desk.caller = p.desk.caller
    <3>1. p.desk \in Desks
      BY <2>1 DEF Pages
    <3> QED
      BY <3>1 DEF Desks
  <2>3. r = [p EXCEPT !.desk = desk]
    BY <2>1 DEF Pages
  <2> HIDE DEF desk, r
  <2>4. /\ r \in Pages /\ SameQueue(p, r) /\ SameShown(p, r) /\ SameRefresh(p, r)
        /\ r.desk = desk /\ r.mapping = p.mapping /\ r.fetch = p.fetch
    BY <2>1, <2>2, <2>3 DEF Pages, SameQueue, SameShown, SameRefresh
  <2>5. Calm(p, r)
    BY <2>2, <2>4 DEF Calm, Fresher, SameQueue, SameShown
  <2>6. Tied(r) /\ OneNewest(r)
    <3>1. \A part \in Parts : ~Asks(r, "desk", part)
      BY <2>4 DEF Asks
    <3> QED
      BY <2>2, <2>4, <3>1 DEF Sound, Tied, OneNewest, Asks, SameQueue, SameRefresh
  <2>7. Sound(r, s)
    BY <2>4, <2>5, <2>6, CalmKeepsSound
  <2>8. q = Ask(r, "desk", "review")
    BY <1>2 DEF DeskGoesOn, r
  <2>9. Sound(q, s) /\ SameQueue(r, q) /\ SameForms(r, q) /\ SameRefresh(r, q)
    BY <2>1, <2>2, <2>4, <2>7, <2>8, AskIsSound, AskIs
  <2>10. Coming(q, "review") /\ (Coming(r, "history") => Coming(q, "history"))
    BY <2>1, <2>4, <2>8, AskBrings
  <2>11. Coming(p, "history") => Coming(r, "history")
    BY <2>4 DEF Coming, Shown, Asks, SameShown
  <2>12. Covered(q)
    BY <2>4, <2>9, <2>10, <2>11 DEF Covered, Promised, Running, SameQueue, SameForms, SameRefresh
  <2>13. SameQueue(p, q)
    BY <2>4, <2>9 DEF SameQueue
  <2> QED
    BY <2>9, <2>12, <2>13, SameQueueWaits
<1> QED
  BY <1>1, <1>2 DEF Parts

\* An answer arrives: it is taken, and whoever waited for it goes on.
LEMMA ArriveIsSound ==
  ASSUME NEW p, NEW s, Sound(p, s), Waits(p), Covered(p), NEW c \in Callers,
         p.fetch[c].at = "answered",
         NEW q \in GoesOn(Take(p, c), c, p.fetch[c].part)
  PROVE  Sound(q, s) /\ Waits(q) /\ Covered(q)
<1> DEFINE t == Take(p, c)
           part == p.fetch[c].part
<1>1. Sound(t, s) /\ Took(p, t, c)
  BY TakeIs
<1>2. p.fetch[c] # Quiet
  OBVIOUS
<1>3. /\ part \in Parts
      /\ c = "queue" => /\ p.run # Quiet /\ p.run.at = part /\ p.post = Quiet
                        /\ p.desk # Quiet => p.desk.caller # "queue"
      /\ c = "status" => p.refreshing
      /\ c = "mapping" => /\ p.mapping # Quiet
                          /\ p.desk # Quiet => p.desk.caller # "mapping"
      /\ c = "desk" => p.desk # Quiet /\ p.desk.at = part
  BY <1>2, WaitingIs
<1>4. \/ Promised(t) \/ t.failed
      \/ /\ Coming(t, "history")
         /\ Coming(t, "review") \/ (c = "status" /\ part = "history")
  <2>1. "history" \in Parts /\ "review" \in Parts
    BY DEF Parts
  <2>2. Promised(p) => Promised(t)
    BY <1>1 DEF Took, Promised, Running, SameForms, SameRefresh
  <2>3. p.failed => t.failed
    BY <1>1 DEF Took, SameRefresh
  <2>4. Coming(p, "history") => Coming(t, "history")
    BY <2>1, TakeCovers
  <2>5. Coming(p, "review") => Coming(t, "review") \/ (c = "status" /\ part = "history")
    BY <2>1, TakeCovers DEF Asks
  <2> QED
    BY <2>2, <2>3, <2>4, <2>5 DEF Covered
<1>5. Waits(t)
  BY <1>1 DEF Took, Waits, Running
<1>6. q \in GoesOn(t, c, part)
  OBVIOUS
<1> HIDE DEF t, part
<1>7. CASE c = "queue"
  <2>1. q \in QueueGoesOn(t)
    BY <1>6, <1>7 DEF GoesOn
  <2> QED
    BY <1>1, <1>3, <1>5, <1>7, <2>1, QueueGoesOnSound DEF Took, SameForms
<1>8. CASE c = "status"
  <2>1. q \in StatusGoesOn(t, part)
    BY <1>6, <1>8 DEF GoesOn
  <2> QED
    BY <1>1, <1>3, <1>4, <1>5, <1>8, <2>1, StatusGoesOnSound DEF Took, SameRefresh
<1>9. CASE c = "mapping"
  <2>1. q \in MappingGoesOn(t)
    BY <1>6, <1>9 DEF GoesOn
  <2> QED
    BY <1>1, <1>3, <1>5, <1>9, <2>1, MappingGoesOnSound DEF Took, SameForms
<1>10. CASE c = "desk"
  <2>1. q \in DeskGoesOn(t)
    BY <1>6, <1>10 DEF GoesOn
  <2>2. Covered(t)
    BY <1>4, <1>10 DEF Covered
  <2> QED
    BY <1>1, <1>3, <1>5, <1>10, <2>1, <2>2, DeskGoesOnSound DEF Took, SameForms
<1> QED
  BY <1>7, <1>8, <1>9, <1>10 DEF Callers

\* A handler whose request for a part fails goes on, and the page says so.
Told(p, c) == [p EXCEPT !.fetch[c] = Quiet, !.failed = TRUE]
Spared(p, c) == [Told(p, c) EXCEPT !.failed = p.failed]

\* The request is forgotten, and the page told.
LEMMA ToldIs ==
  ASSUME NEW p, NEW s, Sound(p, s), NEW c \in Callers, NEW q \in {Told(p, c), Spared(p, c)}
  PROVE  /\ Sound(q, s) /\ SameQueue(p, q) /\ SameForms(p, q)
         /\ q.fetch[c] = Quiet /\ q.refreshing = p.refreshing /\ q.again = p.again
         /\ q = Told(p, c) => q.failed
<1> DEFINE r == Rest(p, c)
<1>1. /\ Sound(r, s) /\ SameQueue(p, r) /\ SameForms(p, r) /\ SameShown(p, r) /\ SameRefresh(p, r)
      /\ r.fetch[c] = Quiet
  BY RestIs
<1>2. q = [r EXCEPT !.failed = TRUE] \/ q = [r EXCEPT !.failed = p.failed]
  BY DEF Told, Spared, Rest, Sound, Pages
<1>3. q = Told(p, c) => q.failed
  BY DEF Told, Sound, Pages
<1> HIDE DEF r
<1>4. /\ q \in Pages /\ SameQueue(r, q) /\ SameForms(r, q) /\ SameShown(r, q)
      /\ q.fetch = r.fetch /\ q.refreshing = r.refreshing /\ q.again = r.again
  <2>1. p \in Pages /\ r \in Pages
    BY <1>1 DEF Sound
  <2> QED
    BY <1>2, <2>1 DEF Pages, SameQueue, SameForms, SameShown
<1>5. Tied(q) /\ OneNewest(q) /\ Calm(r, q)
  BY <1>1, <1>4 DEF Sound, Tied, OneNewest, Calm, Fresher, Asks, SameQueue, SameForms, SameShown
<1>6. Sound(q, s)
  BY <1>1, <1>4, <1>5, CalmKeepsSound
<1> QED
  BY <1>1, <1>3, <1>4, <1>6 DEF SameQueue, SameForms, SameRefresh

\* A request fails: whoever waited for it goes on.
LEMMA FailIsSound ==
  ASSUME NEW p, NEW s, Sound(p, s), Waits(p), NEW c \in Callers, p.fetch[c].at = "asked",
         NEW q, q = CASE c = "queue" -> NextRound(Told(p, c))
                      [] c = "status" -> StatusDone(Told(p, c))
                      [] c = "desk" -> DeskDone(Told(p, c))
                      [] c = "mapping" ->
                             IF p.mapping.at = "review"
                             THEN Continue(Spared(p, c), "mapping")
                             ELSE RefreshStatus([Told(p, c) EXCEPT !.mapping = Quiet])
  PROVE  Sound(q, s) /\ Waits(q) /\ Covered(q)
<1> DEFINE t == Told(p, c)
           u == Spared(p, c)
<1>1. /\ Sound(t, s) /\ SameQueue(p, t) /\ SameForms(p, t)
      /\ t.fetch[c] = Quiet /\ t.refreshing = p.refreshing /\ t.again = p.again /\ t.failed
  BY ToldIs
<1>2. /\ Sound(u, s) /\ SameQueue(p, u) /\ SameForms(p, u) /\ u.fetch[c] = Quiet
  BY ToldIs
<1>3. p.fetch[c] # Quiet
  OBVIOUS
<1>4. /\ c = "queue" => /\ p.run # Quiet /\ p.post = Quiet
                        /\ p.desk # Quiet => p.desk.caller # "queue"
      /\ c = "mapping" => /\ p.mapping # Quiet
                          /\ p.desk # Quiet => p.desk.caller # "mapping"
      /\ c = "desk" => p.desk # Quiet
  BY <1>3, WaitingIs
<1>5. Waits(t) /\ Waits(u)
  BY <1>1, <1>2, SameQueueWaits
<1> HIDE DEF t, u
<1>6. CASE c = "queue"
  <2>1. q = NextRound(t)
    BY <1>6 DEF t
  <2>2. Loose(t) /\ t.post = Quiet /\ ~t.paused
    BY <1>1, <1>4, <1>5, <1>6 DEF Loose, SameQueue, SameForms, Waits, Running
  <2> QED
    BY <1>1, <2>1, <2>2, NextIsSound
<1>7. CASE c = "status"
  <2>1. q = StatusDone(t)
    BY <1>7 DEF t
  <2>2. /\ Sound(q, s) /\ SameQueue(t, q)
        /\ t.again => Covered(q)
        /\ ~t.again => q.failed = t.failed
    BY <1>1, <1>7, <2>1, DoneIsSound
  <2>3. Covered(q)
    BY <1>1, <2>2 DEF Covered
  <2> QED
    BY <1>5, <2>2, <2>3, SameQueueWaits
<1>8. CASE c = "desk"
  <2>1. q = DeskDone(t)
    BY <1>8 DEF t
  <2> QED
    BY <1>1, <1>4, <1>5, <1>8, <2>1, DeskDoneIsSound DEF SameForms
<1>9. CASE c = "mapping" /\ p.mapping.at = "review"
  <2>1. q = Continue(u, "mapping")
    BY <1>9 DEF u
  <2>2. Sound(q, s) /\ SameQueue(u, q) /\ Promised(q)
    BY <1>2, <1>4, <1>9, <2>1, ContinueMapping DEF SameForms
  <2> QED
    BY <1>5, <2>2, SameQueueWaits DEF Covered
<1>10. CASE c = "mapping" /\ p.mapping.at # "review"
  <2>1. q = RefreshStatus(MappingRests(t))
    BY <1>10 DEF t, MappingRests
  <2>2. Sound(MappingRests(t), s) /\ SameQueue(t, MappingRests(t))
    BY <1>1, <1>4, <1>10, MappingRestsIs DEF SameForms
  <2>3. Sound(q, s) /\ SameQueue(MappingRests(t), q) /\ Covered(q)
    BY <2>1, <2>2, RefreshIsSound
  <2> QED
    BY <1>5, <2>2, <2>3, SameQueueWaits
<1> QED
  BY <1>6, <1>7, <1>8, <1>9, <1>10 DEF Callers

-----------------------------------------------------------------------------
(***************************************************************************)
(* The user.                                                               *)
(***************************************************************************)
\* Other entries, and what the form says, for a page that is otherwise the same.
Relined(p, entries, paused, ready) ==
    [p EXCEPT !.entries = entries, !.paused = paused, !.ready = ready]

\* Other entries leave the requests and the handlers alone.
LEMMA RelinedIs ==
  ASSUME NEW p, NEW s, Sound(p, s), NEW paused \in BOOLEAN, NEW ready \in BOOLEAN,
         NEW entries \in Seq(Entry),
         \A i \in DOMAIN entries : entries[i].state \in {"mapping", "closed"} =>
            \E j \in DOMAIN p.entries : entries[i] = p.entries[j]
  PROVE  LET r == Relined(p, entries, paused, ready)
         IN  /\ Sound(r, s) /\ SameForms(p, r) /\ r.entries = entries /\ r.paused = paused
             /\ r.ready = ready /\ r.run = p.run /\ r.stale = p.stale
             /\ Covered(p) => Covered(r)
<1> DEFINE r == Relined(p, entries, paused, ready)
<1>0. p \in Pages
  BY DEF Sound
<1>1. r = [p EXCEPT !.entries = entries, !.paused = paused, !.ready = ready]
  BY DEF Relined
<1> HIDE DEF r
<1>2. /\ r \in Pages /\ SameForms(p, r) /\ SameShown(p, r) /\ SameRefresh(p, r)
      /\ r.entries = entries /\ r.paused = paused /\ r.ready = ready
      /\ r.run = p.run /\ r.stale = p.stale /\ r.post = p.post /\ r.fetch = p.fetch
  BY <1>0, <1>1 DEF Pages, SameForms, SameShown, SameRefresh
<1>3. Tied(r) /\ OneNewest(r) /\ Calm(p, r)
  BY <1>2 DEF Sound, Tied, OneNewest, Calm, Fresher, Asks, SameForms, SameShown, SameRefresh
<1>4. Covered(p) => Covered(r)
  <2>1. Promised(p) => Promised(r)
    BY <1>2 DEF Promised, Running, SameForms, SameRefresh
  <2>2. r.failed = p.failed
    BY <1>2 DEF SameRefresh
  <2>3. \A part \in {"history", "review"} : Coming(p, part) => Coming(r, part)
    <3>1. /\ r.fetch = p.fetch /\ r.desk = p.desk /\ r.known = p.known
          /\ \A x \in {"history", "review"} : Shown(r, x) = Shown(p, x)
      BY <1>2 DEF Shown, SameForms, SameShown
    <3>2. \A d \in Callers, x \in Parts : Asks(r, d, x) = Asks(p, d, x)
      BY <3>1 DEF Asks
    <3> QED
      BY <3>1, <3>2 DEF Coming, Parts, Callers
  <2> QED
    BY <2>1, <2>2, <2>3 DEF Covered
<1> QED
  BY <1>2, <1>3, <1>4, CalmKeepsSound DEF r

\* A queue that takes up what it finds.
LEMMA RelinedRuns ==
  ASSUME NEW p, NEW s, Sound(p, s), Covered(p), NEW paused \in BOOLEAN, NEW ready \in BOOLEAN,
         NEW entries \in Seq(Entry),
         \A i \in DOMAIN entries : entries[i].state \in {"mapping", "closed"} =>
            \E j \in DOMAIN p.entries : entries[i] = p.entries[j],
         paused => ~Running(p) /\ \A i \in DOMAIN entries : entries[i].state # "queued"
  PROVE  LET q == RunQueue(Relined(p, entries, paused, ready))
         IN  Sound(q, s) /\ Waits(q) /\ Covered(q)
<1> DEFINE r == Relined(p, entries, paused, ready)
<1>1. /\ Sound(r, s) /\ r.entries = entries /\ r.paused = paused /\ r.run = p.run
      /\ Covered(r)
  BY RelinedIs
<1>2. r.paused => ~HasQueued(r) /\ ~Running(r)
  BY <1>1 DEF HasQueued, IndicesIn, Running
<1> HIDE DEF r
<1>3. Sound(RunQueue(r), s) /\ Waits(RunQueue(r)) /\ (Running(RunQueue(r)) \/ RunQueue(r) = r)
  BY <1>1, <1>2, RunIsSound
<1> QED
  BY <1>1, <1>3 DEF r, Covered, Promised

\* addFiles.
LEMMA AddIsSound ==
  ASSUME NEW p, NEW s, Sound(p, s), Waits(p), Covered(p), NEW files \in Seq(Files), NEW of,
         NEW added, added = [i \in DOMAIN files |->
            [file |-> files[i],
             state |-> IF p.stale THEN "error" ELSE IF p.paused THEN "paused" ELSE "queued",
             token |-> NoToken]]
  PROVE  LET q == RunQueue([p EXCEPT !.entries = Without(p.entries, of) \o added])
         IN  Sound(q, s) /\ Waits(q) /\ Covered(q)
<1> DEFINE state == IF p.stale THEN "error" ELSE IF p.paused THEN "paused" ELSE "queued"
           kept == Without(p.entries, of)
           entries == kept \o added
<1>1. p \in Pages /\ p.entries \in Seq(Entry)
  BY DEF Sound, Pages
<1>2. kept \in Seq(Entry) /\ \A i \in DOMAIN kept : \E j \in DOMAIN p.entries : kept[i] = p.entries[j]
  BY <1>1, WithoutKeeps DEF PartsOf
<1>3. state \in {"error", "paused", "queued"} /\ state \in States /\ (p.paused => state # "queued")
  BY DEF States
<1>4. added \in Seq(Entry) /\ \A i \in DOMAIN added : added[i].state = state
  <2>1. Len(files) \in Nat /\ DOMAIN files = 1..Len(files) /\ \A i \in DOMAIN files : files[i] \in Files
    OBVIOUS
  <2>2. \A i \in DOMAIN files : [file |-> files[i], state |-> state, token |-> NoToken] \in Entry
    BY <1>3, <2>1 DEF Entry
  <2> QED
    BY <2>1, <2>2
<1> HIDE DEF kept, state
<1>5. entries \in Seq(Entry)
  BY <1>2, <1>4
<1>6. ASSUME NEW i \in DOMAIN entries
      PROVE  \/ \E j \in DOMAIN p.entries : entries[i] = p.entries[j]
             \/ entries[i].state = state
  <2>1. CASE i \in DOMAIN kept
    <3>1. entries[i] = kept[i]
      BY <1>2, <1>4, <2>1
    <3> QED
      BY <1>2, <2>1, <3>1
  <2>2. CASE i \notin DOMAIN kept
    <3>1. i - Len(kept) \in DOMAIN added /\ entries[i] = added[i - Len(kept)]
      BY <1>2, <1>4, <1>6, <2>2
    <3> QED
      BY <1>4, <3>1
  <2> QED
    BY <2>1, <2>2
<1> HIDE DEF entries
<1>7. \A i \in DOMAIN entries : entries[i].state \in {"mapping", "closed"} =>
            \E j \in DOMAIN p.entries : entries[i] = p.entries[j]
  BY <1>3, <1>6
<1>8. p.paused => ~Running(p) /\ \A i \in DOMAIN entries : entries[i].state # "queued"
  <2> SUFFICES ASSUME p.paused
               PROVE  ~Running(p) /\ \A i \in DOMAIN entries : entries[i].state # "queued"
    OBVIOUS
  <2>1. ~Running(p) /\ \A j \in DOMAIN p.entries : p.entries[j].state # "queued"
    BY DEF Waits, HasQueued, IndicesIn
  <2> QED
    BY <1>3, <1>6, <2>1
<1>9. p.paused \in BOOLEAN /\ p.ready \in BOOLEAN
  BY <1>1 DEF Pages
<1>10. [p EXCEPT !.entries = entries] = Relined(p, entries, p.paused, p.ready)
  BY <1>1 DEF Relined, Pages
<1>11. Sound(RunQueue(Relined(p, entries, p.paused, p.ready)), s)
         /\ Waits(RunQueue(Relined(p, entries, p.paused, p.ready)))
         /\ Covered(RunQueue(Relined(p, entries, p.paused, p.ready)))
  BY <1>5, <1>7, <1>8, <1>9, RelinedRuns
<1> QED
  BY <1>10, <1>11 DEF entries, kept

\* An entry is removed.
LEMMA RemoveIsSound ==
  ASSUME NEW p, NEW s, Sound(p, s), Waits(p), Covered(p), NEW i \in DOMAIN p.entries
  PROVE  LET q == [p EXCEPT !.entries = RemoveAt(p.entries, i)]
         IN  Sound(q, s) /\ Waits(q) /\ Covered(q)
<1> DEFINE entries == RemoveAt(p.entries, i)
<1>1. p \in Pages /\ p.entries \in Seq(Entry) /\ p.paused \in BOOLEAN /\ p.ready \in BOOLEAN
  BY DEF Sound, Pages
<1>2. /\ entries \in Seq(Entry)
      /\ \A j \in DOMAIN entries : \E k \in DOMAIN p.entries : entries[j] = p.entries[k]
  <2> DEFINE old == p.entries
             left == SubSeq(old, 1, i - 1)
             right == SubSeq(old, i + 1, Len(old))
  <2>1. old \in Seq(Entry) /\ i \in 1..Len(old) /\ Len(old) \in Nat
    BY <1>1
  <2>2. entries = left \o right
    BY DEF RemoveAt
  <2> HIDE DEF old, entries
  <2>3. /\ left \in Seq(Entry) /\ Len(left) = i - 1
        /\ \A j \in 1..(i - 1) : left[j] = old[j]
    BY <2>1
  <2>4. /\ right \in Seq(Entry) /\ Len(right) = Len(old) - i
        /\ \A j \in 1..(Len(old) - i) : right[j] = old[i + j]
    BY <2>1
  <2> HIDE DEF left, right
  <2>5. entries \in Seq(Entry)
    BY <2>2, <2>3, <2>4
  <2>6. ASSUME NEW j \in DOMAIN entries
        PROVE  \E k \in DOMAIN old : entries[j] = old[k]
    <3>1. CASE j \in 1..(i - 1)
      BY <2>1, <2>2, <2>3, <2>4, <3>1
    <3>2. CASE j \notin 1..(i - 1)
      <4>1. j - (i - 1) \in 1..(Len(old) - i) /\ entries[j] = right[j - (i - 1)]
        BY <2>1, <2>2, <2>3, <2>4, <2>6, <3>2
      <4>2. i + (j - (i - 1)) \in 1..Len(old)
        BY <2>1, <4>1
      <4> DEFINE m == j - (i - 1)
      <4>3. m \in 1..(Len(old) - i) /\ entries[j] = right[m] /\ i + m \in 1..Len(old)
        BY <4>1, <4>2
      <4> HIDE DEF m
      <4>4. entries[j] = old[i + m]
        BY <2>4, <4>3
      <4>5. DOMAIN old = 1..Len(old)
        BY <2>1
      <4> QED
        BY <4>3, <4>4, <4>5
    <3> QED
      BY <3>1, <3>2
  <2> QED
    BY <2>5, <2>6 DEF old
<1> HIDE DEF entries
<1>3. [p EXCEPT !.entries = entries] = Relined(p, entries, p.paused, p.ready)
  BY <1>1 DEF Relined, Pages
<1> DEFINE q == Relined(p, entries, p.paused, p.ready)
<1>4. /\ Sound(q, s) /\ Covered(q) /\ q.entries = entries /\ q.paused = p.paused
      /\ q.ready = p.ready /\ q.run = p.run /\ q.stale = p.stale
  BY <1>1, <1>2, RelinedIs
<1> HIDE DEF q
<1>5. Waits(q)
  <2>1. HasQueued(q) => HasQueued(p)
    BY <1>2, <1>4 DEF HasQueued, IndicesIn
  <2> QED
    BY <1>4, <2>1 DEF Waits, Running
<1> QED
  BY <1>3, <1>4, <1>5 DEF q, entries

\* The button of an entry: what is paused is queued again, and the entry with it.
Resume(p, i) ==
    RunQueue(Mark(MarkAll([p EXCEPT !.paused = FALSE, !.entries[i].token = NoToken],
                          LAMBDA e : e.state = "paused", "queued"), i, "queued"))

\* Nothing is left behind the button, and the queue runs if it can.
LEMMA RetryIsSound ==
  ASSUME NEW p, NEW s, Sound(p, s), Covered(p), NEW i \in DOMAIN p.entries,
         NEW q, q = Resume(p, i)
  PROVE  Sound(q, s) /\ Waits(q) /\ Covered(q)
<1> DEFINE Selected == {j \in DOMAIN p.entries : p.entries[j].state = "paused"}
           blank == [p.entries EXCEPT ![i].token = NoToken]
           resumed == Restated(blank, Selected, "queued")
           entries == [resumed EXCEPT ![i].state = "queued"]
           r == [p EXCEPT !.paused = FALSE, !.entries = blank]
           m == [p EXCEPT !.paused = FALSE, !.entries = resumed]
<1>1. p \in Pages /\ p.entries \in Seq(Entry) /\ p.entries[i] \in Entry /\ p.ready \in BOOLEAN
  BY DEF Sound, Pages
<1>2. /\ blank \in Seq(Entry) /\ DOMAIN blank = DOMAIN p.entries
      /\ \A j \in DOMAIN p.entries : /\ blank[j].state = p.entries[j].state
                                     /\ j # i => blank[j] = p.entries[j]
  <2> DEFINE e == [p.entries[i] EXCEPT !.token = NoToken]
  <2>1. e \in Entry /\ e.state = p.entries[i].state
    BY <1>1 DEF Entry
  <2>2. blank = [p.entries EXCEPT ![i] = e]
    OBVIOUS
  <2> HIDE DEF e, blank
  <2> QED
    BY <1>1, <2>1, <2>2
<1> HIDE DEF blank
<1>3. r \in Pages /\ r.entries = blank
  BY <1>1, <1>2 DEF Pages
<1>4. "queued" \in States
  BY DEF States
<1>5. /\ resumed \in Seq(Entry) /\ DOMAIN resumed = DOMAIN blank
      /\ \A j \in DOMAIN resumed : resumed[j].state = "queued" \/ resumed[j] = blank[j]
  <2> HIDE DEF r, Selected
  <2>1. LET after == Restated(r.entries, Selected, "queued")
        IN  /\ after \in Seq(Entry) /\ DOMAIN after = DOMAIN r.entries
            /\ \A j \in DOMAIN after : after[j].state = "queued" \/ after[j] = r.entries[j]
            /\ \A j \in Selected \cap DOMAIN after : after[j].state = "queued"
    BY <1>3, <1>4, MarkAllIs
  <2> QED
    BY <1>3, <2>1
<1>6. [j \in DOMAIN blank |-> IF blank[j].state = "paused" THEN [blank[j] EXCEPT !.state = "queued"]
                              ELSE blank[j]] = resumed
  BY <1>2 DEF Restated
<1> HIDE DEF resumed
<1>7. MarkAll([p EXCEPT !.paused = FALSE, !.entries[i].token = NoToken],
              LAMBDA e : e.state = "paused", "queued") = m
  <2>1. [p EXCEPT !.paused = FALSE, !.entries[i].token = NoToken] = r
    BY <1>1 DEF Pages, blank
  <2>2. MarkAll(r, LAMBDA e : e.state = "paused", "queued")
          = [r EXCEPT !.entries = [j \in DOMAIN r.entries |->
                IF r.entries[j].state = "paused" THEN [r.entries[j] EXCEPT !.state = "queued"]
                ELSE r.entries[j]]]
    BY DEF MarkAll
  <2>3. [r EXCEPT !.entries = resumed] = m
    BY <1>1 DEF Pages
  <2> HIDE DEF r, m
  <2> QED
    BY <1>3, <1>6, <2>1, <2>2, <2>3
<1>8. m \in Pages /\ m.entries = resumed
  BY <1>1, <1>5 DEF Pages
<1>9. /\ entries \in Seq(Entry) /\ DOMAIN entries = DOMAIN resumed
      /\ entries[i].state = "queued"
      /\ \A j \in DOMAIN resumed \ {i} : entries[j] = resumed[j]
  <2> HIDE DEF m
  <2>1. i \in DOMAIN m.entries
    BY <1>2, <1>5, <1>8
  <2>2. LET after == [m.entries EXCEPT ![i].state = "queued"]
        IN  /\ after \in Seq(Entry) /\ DOMAIN after = DOMAIN m.entries
            /\ after[i].state = "queued"
            /\ \A j \in DOMAIN m.entries \ {i} : after[j] = m.entries[j]
    BY <1>4, <1>8, <2>1, MarkIs
  <2> QED
    BY <1>8, <2>2
<1>10. Mark(m, i, "queued") = Relined(p, entries, FALSE, p.ready)
  BY <1>1, <1>8 DEF Mark, Relined, Pages
<1>11. \A j \in DOMAIN entries : entries[j].state \in {"mapping", "closed"} =>
            \E k \in DOMAIN p.entries : entries[j] = p.entries[k]
  <2> HIDE DEF entries
  <2> QED
    BY <1>2, <1>5, <1>9
<1> HIDE DEF entries, m, r
<1>12. q = RunQueue(Relined(p, entries, FALSE, p.ready))
  BY <1>7, <1>10 DEF Resume
<1> QED
  BY <1>1, <1>9, <1>11, <1>12, RelinedRuns

\* The form of a mapping or an action of the review list sets out.
LEMMA SubmitIsSound ==
  ASSUME NEW p, NEW s, Sound(p, s), Waits(p), p.mapping = Quiet,
         NEW k \in p.shown.pending, NEW confirm \in BOOLEAN
  PROVE  LET q == [p EXCEPT !.mapping = [at |-> "asked", token |-> k, confirm |-> confirm, version |-> 0]]
         IN  Sound(q, s) /\ Waits(q) /\ Covered(q)
<1> DEFINE mapping == [at |-> "asked", token |-> k, confirm |-> confirm, version |-> 0]
           q == [p EXCEPT !.mapping = mapping]
<1>1. p \in Pages /\ k \in Nat
  BY DEF Sound, Pages, Copies
<1>2. mapping \in Mappings /\ mapping # Quiet /\ mapping.at = "asked"
  BY <1>1 DEF Mappings
<1> HIDE DEF mapping
<1>3. /\ q \in Pages /\ SameQueue(p, q) /\ SameShown(p, q) /\ SameRefresh(p, q)
      /\ q.mapping = mapping /\ q.desk = p.desk /\ q.fetch = p.fetch
  BY <1>1, <1>2 DEF Pages, SameQueue, SameShown, SameRefresh
<1> HIDE DEF q
<1>4. Calm(p, q)
  BY <1>2, <1>3 DEF Calm, Fresher, SameQueue, SameShown
<1>5. Tied(q) /\ OneNewest(q)
  <2>1. \A part \in Parts : ~Asks(q, "mapping", part)
    BY <1>3 DEF Sound, Tied, Asks, Parts
  <2>2. p.desk # Quiet => p.desk.caller # "mapping"
    BY DEF Sound, Tied
  <2> QED
    BY <1>3, <2>1, <2>2 DEF Sound, Tied, OneNewest, Asks, SameQueue, SameRefresh
<1>6. Sound(q, s) /\ Waits(q)
  BY <1>3, <1>4, <1>5, CalmKeepsSound, SameQueueWaits
<1> QED
  BY <1>2, <1>3, <1>6 DEF Covered, Promised, q, mapping

\* An action of the review list promises nothing yet.
LEMMA ActIsSound ==
  ASSUME NEW p, NEW s, Sound(p, s), Waits(p), Covered(p), p.desk = Quiet
  PROVE  LET q == [p EXCEPT !.desk = [at |-> "asked", caller |-> "user", version |-> 0]]
         IN  Sound(q, s) /\ Waits(q) /\ Covered(q)
<1> DEFINE desk == [at |-> "asked", caller |-> "user", version |-> 0]
           q == [p EXCEPT !.desk = desk]
<1>1. p \in Pages
  BY DEF Sound
<1>2. desk \in Desks /\ desk # Quiet /\ desk.at = "asked" /\ desk.caller = "user"
  BY DEF Desks
<1> HIDE DEF desk
<1>3. /\ q \in Pages /\ SameQueue(p, q) /\ SameShown(p, q) /\ SameRefresh(p, q)
      /\ q.desk = desk /\ q.mapping = p.mapping /\ q.fetch = p.fetch
  BY <1>1, <1>2 DEF Pages, SameQueue, SameShown, SameRefresh
<1> HIDE DEF q
<1>4. Calm(p, q)
  BY <1>2, <1>3 DEF Calm, Fresher, SameQueue, SameShown
<1>5. Tied(q) /\ OneNewest(q)
  <2>1. \A part \in Parts : ~Asks(q, "desk", part)
    BY <1>3 DEF Sound, Tied, Asks, Parts
  <2> QED
    BY <1>2, <1>3, <2>1 DEF Sound, Tied, OneNewest, Asks, SameQueue, SameRefresh
<1>6. Sound(q, s) /\ Waits(q)
  BY <1>3, <1>4, <1>5, CalmKeepsSound, SameQueueWaits
<1>7. Covered(q)
  <2>1. Promised(p) => Promised(q)
    BY <1>3 DEF Promised, Running, SameQueue, SameRefresh
  <2>2. \A x \in {"history", "review"} : Coming(p, x) => Coming(q, x)
    <3>1. /\ q.fetch = p.fetch /\ q.known = p.known /\ p.desk.at # "history"
          /\ \A x \in {"history", "review"} : Shown(q, x) = Shown(p, x)
      BY <1>3 DEF Shown, SameShown
    <3>2. \A d \in Callers, x \in Parts : Asks(q, d, x) = Asks(p, d, x)
      BY <3>1 DEF Asks
    <3> QED
      BY <3>1, <3>2 DEF Coming, Parts, Callers
  <2> QED
    BY <1>3, <2>1, <2>2 DEF Covered, SameRefresh
<1> QED
  BY <1>6, <1>7 DEF q, desk

-----------------------------------------------------------------------------
(***************************************************************************)
(* The server.                                                             *)
(***************************************************************************)
\* One more change, and at most one more mapping, named by the change.
Follows(s, r) ==
    r \in Copies /\ r.version = s.version + 1 /\ r.pending \subseteq s.pending \cup {r.version}

\* A change of the server makes no copy wrong, only older.
LEMMA FollowsIsSound ==
  ASSUME NEW p, NEW s, NEW r, Sound(p, s), Follows(s, r)
  PROVE  Sound(p, r)
<1>1. p \in Pages /\ s \in Copies /\ r \in Copies /\ s.version \in Nat /\ r.version \in Nat
  BY DEF Sound, Follows, Copies
<1>2. ASSUME NEW copy \in Copies, Past(copy, s)
      PROVE  Past(copy, r)
  <2>1. copy.version \in Nat
    BY DEF Copies
  <2> QED
    BY <1>1, <1>2, <2>1 DEF Past, Follows
<1>3. Named(p, r)
  <2>1. \A k \in r.pending : k <= r.version
    BY <1>1 DEF Sound, Named, Follows, Copies
  <2>2. ASSUME NEW c \in Callers, Has(p, c, "history")
        PROVE  Past(p.fetch[c].copy, r)
    <3>1. p.fetch[c] \in Fetches
      BY <1>1 DEF Pages
    <3>2. p.fetch[c].copy \in Copies
      BY <2>2, <3>1 DEF Fetches, Has, Asks
    <3> QED
      BY <1>2, <2>2, <3>2 DEF Sound, Named
  <2>3. ASSUME NEW i \in DOMAIN p.entries
        PROVE  /\ p.entries[i].state \in {"mapping", "closed"} => p.entries[i].token \in 0..r.version
               /\ p.entries[i].state = "closed" => p.entries[i].token \notin r.pending
    BY <1>1 DEF Sound, Named, Follows
  <2>4. p.mapping.at = "answered" => p.mapping.token <= r.version /\ p.mapping.token \notin r.pending
    <3>1. p.mapping \in Mappings
      BY <1>1 DEF Pages
    <3>2. p.mapping.at = "answered" => p.mapping.token \in Nat
      BY <3>1 DEF Mappings
    <3> QED
      BY <1>1, <3>2 DEF Sound, Named, Follows
  <2> QED
    BY <2>1, <2>2, <2>3, <2>4 DEF Sound, Named
<1>4. Ordered(p, r)
  <2>1. \A n \in Nat : n <= s.version => n <= r.version
    BY <1>1 DEF Follows
  <2>2. p.known \in Nat /\ p.shown.version \in Nat /\ p.review \in Nat
    BY <1>1 DEF Pages, Copies
  <2>3. ASSUME NEW c \in Callers, NEW part \in Parts, Has(p, c, part)
        PROVE  VersionOf(p.fetch[c]) \in Nat
    <3>1. p.fetch[c] \in Fetches
      BY <1>1 DEF Pages
    <3> QED
      BY <2>3, <3>1 DEF Fetches, Has, Asks, VersionOf, Copies
  <2>4. /\ p.post.at = "answered" => p.post.version \in Nat
        /\ p.mapping.at = "answered" => p.mapping.version \in Nat
        /\ p.desk.at = "answered" => p.desk.version \in Nat
    <3>1. p.post \in Posts /\ p.mapping \in Mappings /\ p.desk \in Desks
      BY <1>1 DEF Pages
    <3> QED
      BY <3>1 DEF Posts, Mappings, Desks
  <2>5. \A part \in Parts : Shown(p, part) \in Nat
    BY <2>2 DEF Shown
  <2> QED
    BY <2>1, <2>2, <2>3, <2>4, <2>5 DEF Sound, Ordered
<1> QED
  BY <1>1, <1>3, <1>4 DEF Sound

\* Each change of the server is of that kind.
LEMMA ChangedFollows ==
  ASSUME NEW s \in Copies, NEW pending, pending \subseteq s.pending \cup {s.version + 1}
  PROVE  /\ Follows(s, Changed(s, pending))
         /\ Changed(s, pending).pending = pending
         /\ Follows(s, [Changed(s, pending) EXCEPT !.generation = @ + 1])
<1> DEFINE r == Changed(s, pending)
           t == [r EXCEPT !.generation = @ + 1]
<1>1. s.version \in Nat /\ s.version + 1 \in Nat /\ s.generation \in Nat /\ pending \in SUBSET Nat
  BY DEF Copies
<1>2. r \in Copies /\ r.version = s.version + 1 /\ r.pending = pending
  BY <1>1 DEF Copies, Changed
<1> HIDE DEF r
<1>3. t \in Copies /\ t.version = r.version /\ t.pending = r.pending
  BY <1>2 DEF Copies
<1> HIDE DEF t
<1>4. Follows(s, r) /\ Follows(s, t)
  BY <1>2, <1>3 DEF Follows
<1> QED
  BY <1>2, <1>4 DEF r, t

\* The answer to an upload, which the page has not heard of yet.
LEMMA PostIsSound ==
  ASSUME NEW p, NEW s, Sound(p, s), Waits(p), Covered(p), p.post # Quiet,
         NEW post \in Posts, post.at = "answered" => post.version <= s.version
  PROVE  LET q == [p EXCEPT !.post = post]
         IN  Sound(q, s) /\ Waits(q) /\ Covered(q)
<1> DEFINE q == [p EXCEPT !.post = post]
<1>1. p \in Pages
  BY DEF Sound
<1>2. /\ q \in Pages /\ SameForms(p, q) /\ SameShown(p, q) /\ SameRefresh(p, q)
      /\ q.post = post /\ q.fetch = p.fetch /\ q.run = p.run
      /\ q.entries = p.entries /\ q.paused = p.paused /\ q.stale = p.stale /\ q.ready = p.ready
  BY <1>1 DEF Pages, SameForms, SameShown, SameRefresh
<1> HIDE DEF q
<1>3. Tied(q) /\ OneNewest(q) /\ Named(q, s)
  BY <1>2 DEF Sound, Tied, OneNewest, Named, Has, Asks, SameForms, SameRefresh
<1>4. Ordered(q, s)
  <2>1. \A part \in Parts : Shown(q, part) = Shown(p, part)
    BY <1>2 DEF Shown, SameShown
  <2>2. \A c \in Callers, part \in Parts : Has(q, c, part) = Has(p, c, part)
    BY <1>2 DEF Has, Asks
  <2> QED
    BY <1>2, <2>1, <2>2 DEF Sound, Ordered, SameForms, SameShown
<1>5. Running(q) /\ ~q.paused
  BY <1>2 DEF Sound, Tied, Running, Waits
<1> QED
  BY <1>2, <1>3, <1>4, <1>5 DEF Sound, Waits, Covered, Promised, q

\* A part is rendered: with all the server knows.
LEMMA RenderIsSound ==
  ASSUME NEW p, NEW s, Sound(p, s), Waits(p), Covered(p), NEW c \in Callers, p.fetch[c].at = "asked"
  PROVE  LET q == [p EXCEPT !.fetch[c] =
                      [at |-> "answered", part |-> @.part, newest |-> @.newest,
                       copy |-> IF @.part = "history" THEN s ELSE s.version]]
         IN  Sound(q, s) /\ Waits(q) /\ Covered(q)
<1> DEFINE old == p.fetch[c]
           new == [at |-> "answered", part |-> old.part, newest |-> old.newest,
                   copy |-> IF old.part = "history" THEN s ELSE s.version]
           q == [p EXCEPT !.fetch[c] = new]
<1>1. p \in Pages /\ s \in Copies /\ p.fetch \in [Callers -> Fetches] /\ s.version \in Nat
  BY DEF Sound, Pages, Copies
<1>2. /\ old.part \in Parts /\ old.newest \in BOOLEAN /\ old # Quiet
      /\ new \in Fetches /\ new # Quiet /\ new.at = "answered"
      /\ new.part = old.part /\ new.newest = old.newest
      /\ new.part = "history" => new.copy = s
      /\ VersionOf(new) = s.version
  <2>1. old \in Fetches /\ old.at = "asked"
    BY <1>1
  <2>2. old.part \in Parts /\ old.newest \in BOOLEAN /\ old # Quiet
    BY <2>1 DEF Fetches
  <2> HIDE DEF old
  <2> QED
    BY <1>1, <2>2 DEF Fetches, Parts, VersionOf
<1> HIDE DEF old, new
<1>3. /\ q \in Pages /\ SameQueue(p, q) /\ SameForms(p, q) /\ SameShown(p, q) /\ SameRefresh(p, q)
      /\ q.fetch[c] = new /\ \A d \in Callers \ {c} : q.fetch[d] = p.fetch[d]
  <2> DEFINE fetch == [p.fetch EXCEPT ![c] = new]
  <2>1. /\ fetch \in [Callers -> Fetches]
        /\ fetch[c] = new /\ \A d \in Callers \ {c} : fetch[d] = p.fetch[d]
    BY <1>1, <1>2
  <2>2. q = [p EXCEPT !.fetch = fetch]
    OBVIOUS
  <2> HIDE DEF fetch, q
  <2> QED
    BY <1>1, <2>1, <2>2 DEF Pages, SameQueue, SameForms, SameShown, SameRefresh
<1> HIDE DEF q
<1>4. /\ \A d \in Callers, x \in Parts : Asks(q, d, x) = Asks(p, d, x)
      /\ \A d \in Callers : q.fetch[d] # Quiet => p.fetch[d] # Quiet /\ q.fetch[d].newest = p.fetch[d].newest
  BY <1>2, <1>3 DEF Asks, old
<1>5. \A x \in Parts : Shown(q, x) = Shown(p, x)
  BY <1>3 DEF Shown, SameShown
<1>6. Tied(q) /\ OneNewest(q)
  <2>1. Tied(q)
    BY <1>3, <1>4 DEF Sound, Tied, SameQueue, SameForms, SameRefresh, Callers
  <2>2. OneNewest(q)
    BY <1>4 DEF Sound, OneNewest, Asks
  <2> QED
    BY <2>1, <2>2
<1>7. ASSUME NEW d \in Callers, NEW x \in Parts, Has(q, d, x)
      PROVE  /\ d # c => Has(p, d, x) /\ q.fetch[d] = p.fetch[d]
             /\ d = c => q.fetch[d] = new /\ old.part = x
  BY <1>2, <1>3, <1>7 DEF Has, Asks
<1>8. Named(q, s)
  <2>1. "history" \in Parts
    BY DEF Parts
  <2>2. ASSUME NEW d \in Callers, Has(q, d, "history")
        PROVE  Past(q.fetch[d].copy, s)
    <3>1. CASE d # c
      BY <1>7, <2>1, <2>2, <3>1 DEF Sound, Named
    <3>2. CASE d = c
      <4>1. q.fetch[d].copy = s
        BY <1>2, <1>7, <2>1, <2>2, <3>2
      <4> QED
        BY <1>1, <4>1 DEF Past
    <3> QED
      BY <3>1, <3>2
  <2>3. ASSUME NEW i \in DOMAIN p.entries, p.entries[i].state = "mapping",
               NEW d \in Callers, Has(q, d, "history"), q.fetch[d].newest
        PROVE  p.entries[i].token <= q.fetch[d].copy.version
    <3>1. CASE d # c
      BY <1>7, <2>1, <2>3, <3>1 DEF Sound, Named
    <3>2. CASE d = c
      <4>1. q.fetch[d].copy = s
        BY <1>2, <1>7, <2>1, <2>3, <3>2
      <4> QED
        BY <2>3, <1>1, <4>1 DEF Sound, Named
    <3> QED
      BY <3>1, <3>2
  <2> QED
    BY <1>3, <2>2, <2>3 DEF Sound, Named, SameQueue, SameForms
<1>9. Ordered(q, s)
  <2>1. ASSUME NEW d \in Callers, NEW x \in Parts, Has(q, d, x)
        PROVE  /\ VersionOf(q.fetch[d]) <= s.version
               /\ q.fetch[d].newest => Shown(q, x) <= VersionOf(q.fetch[d])
    <3>1. CASE d # c
      BY <1>5, <1>7, <2>1, <3>1 DEF Sound, Ordered
    <3>2. CASE d = c
      <4>1. VersionOf(q.fetch[d]) = s.version
        BY <1>2, <1>7, <2>1, <3>2
      <4> QED
        BY <1>1, <1>5, <4>1 DEF Sound, Ordered
    <3> QED
      BY <3>1, <3>2
  <2> QED
    BY <1>3, <1>5, <2>1 DEF Sound, Ordered, SameQueue, SameForms, SameShown
<1>10. Covered(q)
  <2>1. Promised(p) => Promised(q)
    BY <1>3 DEF Promised, Running, SameQueue, SameForms, SameRefresh
  <2>2. ASSUME NEW x \in Parts, Coming(p, x)
        PROVE  Coming(q, x)
    <3>1. CASE Shown(p, x) >= p.known
      BY <1>3, <1>5, <3>1 DEF Coming, SameShown
    <3>2. CASE x = "review" /\ (p.desk.at = "history" \/ Asks(p, "status", "history"))
      BY <1>3, <1>4, <3>2 DEF Coming, SameForms, Callers, Parts
    <3>3. ASSUME NEW d \in Callers, Asks(p, d, x), p.fetch[d].newest,
                 p.fetch[d].at = "answered" => VersionOf(p.fetch[d]) >= p.known
          PROVE  Coming(q, x)
      <4>1. Asks(q, d, x) /\ q.fetch[d].newest
        BY <1>2, <1>3, <1>4, <3>3 DEF old
      <4>2. q.fetch[d].at = "answered" => VersionOf(q.fetch[d]) >= q.known
        <5>1. CASE d = c
          <6>1. VersionOf(q.fetch[d]) = s.version /\ q.known <= s.version
            BY <1>2, <1>3, <1>9, <5>1 DEF Ordered
          <6>2. q.known \in Nat
            BY <1>3 DEF Pages
          <6> QED
            BY <1>1, <6>1, <6>2
        <5>2. CASE d # c
          BY <1>3, <3>3, <5>2 DEF SameShown
        <5> QED
          BY <5>1, <5>2
      <4> QED
        BY <4>1, <4>2 DEF Coming
    <3> QED
      BY <2>2, <3>1, <3>2, <3>3 DEF Coming
  <2> QED
    BY <1>3, <2>1, <2>2 DEF Covered, SameRefresh, Parts
<1>11. Waits(q)
  BY <1>3, SameQueueWaits
<1> QED
  BY <1>1, <1>3, <1>6, <1>8, <1>9, <1>10, <1>11 DEF Sound, q, new, old

-----------------------------------------------------------------------------
(***************************************************************************)
(* The answers to what was posted.                                         *)
(***************************************************************************)
\* The run, after the answer to its upload.
After(p, stop, stale, state) ==
    [p EXCEPT !.post = Quiet, !.stale = @ \/ stale,
              !.run = [p.run EXCEPT !.at = "history", !.stop = stop, !.imported = (state = "imported")]]

\* The run goes on to the history.
LEMMA AfterIsSound ==
  ASSUME NEW p, NEW s, Sound(p, s), Waits(p), p.post # Quiet, NEW stop \in BOOLEAN, NEW stale \in BOOLEAN, NEW state
  PROVE  LET q == After(p, stop, stale, state)
         IN  /\ Sound(q, s) /\ SameForms(p, q) /\ SameShown(p, q) /\ q.fetch = p.fetch
             /\ q.entries = p.entries /\ q.run # Quiet /\ q.run.at = "history" /\ ~q.paused
<1> DEFINE run == [p.run EXCEPT !.at = "history", !.stop = stop, !.imported = (state = "imported")]
           q == After(p, stop, stale, state)
<1>1. p \in Pages /\ p.run.at = "sending" /\ p.run \in Runs
  BY DEF Sound, Tied, Pages
<1>2. run \in Runs /\ run # Quiet /\ run.at = "history"
  <2>1. p.run \in [at : {"sending", "history", "review", "analysing"}, file : Files, stop : BOOLEAN, imported : BOOLEAN]
    BY <1>1 DEF Runs
  <2> DEFINE r == p.run
  <2>2. r \in [at : {"sending", "history", "review", "analysing"}, file : Files, stop : BOOLEAN, imported : BOOLEAN]
    BY <2>1
  <2> HIDE DEF r
  <2>3. /\ [r EXCEPT !.at = "history", !.stop = stop, !.imported = (state = "imported")] \in Runs
        /\ [r EXCEPT !.at = "history", !.stop = stop, !.imported = (state = "imported")].at = "history"
    BY <2>2 DEF Runs
  <2> QED
    BY <2>3 DEF r
<1>3. q = [p EXCEPT !.post = Quiet, !.stale = p.stale \/ stale, !.run = run]
  BY <1>1 DEF After, Pages
<1> HIDE DEF run, q
<1>4. /\ q \in Pages /\ SameForms(p, q) /\ SameShown(p, q) /\ SameRefresh(p, q)
      /\ q.post = Quiet /\ q.run = run /\ q.fetch = p.fetch /\ q.entries = p.entries
      /\ q.paused = p.paused
  <2>1. Quiet \in Posts /\ (p.stale \/ stale) \in BOOLEAN
    BY <1>1 DEF Posts
  <2> QED
    BY <1>1, <1>2, <1>3, <2>1 DEF Pages, SameForms, SameShown, SameRefresh
<1>5. Calm(p, q)
  BY <1>4 DEF Calm, Fresher, SameForms, SameShown
<1>6. Tied(q) /\ OneNewest(q)
  <2>1. \A part \in Parts : ~Asks(q, "queue", part)
    BY <1>1, <1>4 DEF Sound, Tied, Asks, Parts
  <2>2. p.desk # Quiet => p.desk.caller # "queue"
    BY <1>1 DEF Sound, Tied
  <2> QED
    BY <1>2, <1>4, <2>1, <2>2 DEF Sound, Tied, OneNewest, Asks, SameForms, SameRefresh
<1>7. ~p.paused
  BY <1>1 DEF Waits, Running
<1> QED
  BY <1>2, <1>4, <1>5, <1>6, <1>7, CalmKeepsSound DEF q

\* The entry, with its token.
Settled(entries, i, state, token) == [[entries EXCEPT ![i].state = state] EXCEPT ![i].token = token]

SettledFrom(entries, after, state, token) ==
    /\ after \in Seq(Entry) /\ DOMAIN after = DOMAIN entries
    /\ \A j \in DOMAIN entries : \/ after[j] = entries[j]
                                 \/ after[j].state = state /\ after[j].token = token

\* One entry at most has another state and token.
LEMMA SettledIs ==
  ASSUME NEW entries \in Seq(Entry), NEW i, NEW state \in States, NEW token \in Nat \cup {NoToken}
  PROVE  SettledFrom(entries, Settled(entries, i, state, token), state, token)
<1> DEFINE after == Settled(entries, i, state, token)
<1>1. CASE i \in DOMAIN entries
  <2> DEFINE e == [[entries[i] EXCEPT !.state = state] EXCEPT !.token = token]
  <2>1. entries[i] \in Entry
    BY <1>1
  <2>2. e \in Entry /\ e.state = state /\ e.token = token
    BY <2>1 DEF Entry
  <2>3. after = [entries EXCEPT ![i] = e]
    BY <1>1 DEF Settled
  <2> HIDE DEF e, after
  <2> QED
    BY <1>1, <2>2, <2>3 DEF after, SettledFrom
<1>2. CASE i \notin DOMAIN entries
  <2>1. after = entries
    BY <1>2 DEF Settled
  <2> QED
    BY <2>1 DEF SettledFrom
<1> QED
  BY <1>1, <1>2

\* The entry of the run's file.
Its(p) == CHOOSE j \in Current(p) : TRUE

\* The answer changes the run, one entry and who asked last for the history.
SettlesOne(p, state, token, stop, stale) ==
    LET a == Ask(After(p, stop, stale, state), "queue", "history")
    IN  /\ Settle(p, state, token, stop, stale)
              = [a EXCEPT !.entries = Settled(p.entries, Its(p), state, token)]
        /\ Settle(p, state, token, stop, stale).known = p.known

\* It does.
LEMMA SettleIs ==
  ASSUME NEW p, NEW s, Sound(p, s), Waits(p), p.post # Quiet,
         NEW state \in States, NEW token \in Nat \cup {NoToken}, NEW stop \in BOOLEAN, NEW stale \in BOOLEAN
  PROVE  SettlesOne(p, state, token, stop, stale)
<1> DEFINE i == Its(p)
           after == After(p, stop, stale, state)
           a == Ask(after, "queue", "history")
           entries == Settled(p.entries, i, state, token)
<1>A. p \in Pages /\ p.entries \in Seq(Entry) /\ "queue" \in Callers /\ "history" \in Parts
  BY DEF Sound, Pages, Callers, Parts
<1>B. after \in Pages /\ after.known = p.known
  BY AfterIsSound DEF Sound, SameShown
<1> HIDE DEF i
<1> DEFINE marked == [Mark(p, i, state) EXCEPT
              !.entries[i].token = token, !.post = Quiet, !.stale = @ \/ stale,
              !.run.at = "history", !.run.stop = stop,
              !.run.imported = (state = "imported")]
<1>1. marked = [after EXCEPT !.entries = entries]
  <2> DEFINE m1 == Mark(p, i, state)
             m2 == [m1 EXCEPT !.entries[i].token = token]
             m3 == [m2 EXCEPT !.post = Quiet, !.stale = @ \/ stale]
             m4 == [m3 EXCEPT !.run.at = "history", !.run.stop = stop,
              !.run.imported = (state = "imported")]
             f3 == [p EXCEPT !.post = Quiet, !.stale = @ \/ stale]
  <2>1. m2 = [p EXCEPT !.entries = entries]
    BY <1>A DEF Mark, Settled, Pages
  <2>2. marked = m4
    OBVIOUS
  <2> HIDE DEF m1, m2, entries, marked
  <2>3. m3 = [f3 EXCEPT !.entries = entries] /\ m3.run = p.run /\ f3.run = p.run
    BY <1>A, <2>1 DEF Pages
  <2>4. after = [f3 EXCEPT !.run = [p.run EXCEPT !.at = "history", !.stop = stop, !.imported = (state = "imported")]]
    BY DEF After
  <2> DEFINE run == [p.run EXCEPT !.at = "history", !.stop = stop, !.imported = (state = "imported")]
  <2>5. m4 = [m3 EXCEPT !.run = run]
    <3> HIDE DEF m3
    <3>1. p.run \in Runs
      BY <1>A DEF Pages
    <3> QED
      BY <2>3
  <2>6. f3 = [p EXCEPT !.post = Quiet, !.stale = p.stale \/ stale]
    BY <1>A DEF Pages
  <2> HIDE DEF m3, m4, run, after, f3
  <2>7. [[f3 EXCEPT !.entries = entries] EXCEPT !.run = run] = [[f3 EXCEPT !.run = run] EXCEPT !.entries = entries]
    BY <1>A, <2>6 DEF Pages
  <2> QED
    BY <2>2, <2>3, <2>4, <2>5, <2>7 DEF run
<1>2. Settle(p, state, token, stop, stale) = Ask(marked, "queue", "history")
  BY DEF Settle, i, Its
<1> HIDE DEF marked, after, entries
<1>3. [after EXCEPT !.entries = entries].fetch = after.fetch
  BY <1>B DEF Pages
<1>4. Ask([after EXCEPT !.entries = entries], "queue", "history") = [a EXCEPT !.entries = entries]
  BY <1>B, <1>3 DEF Ask, Pages
<1>5. a \in Pages /\ a.known = p.known
  BY <1>A, <1>B, AskIs DEF SameShown
<1>6. [a EXCEPT !.entries = entries].known = a.known
  BY <1>5 DEF Pages
<1> QED
  BY <1>1, <1>2, <1>4, <1>5, <1>6 DEF SettlesOne, after, entries, i

\* An entry may get the newest token: the copies under way that do not know it are thrown away.
LEMMA SettleIsSound ==
  ASSUME NEW p, NEW s, Sound(p, s), Waits(p), p.post # Quiet,
         NEW state \in {"imported", "mapping", "error"}, NEW token \in Nat \cup {NoToken},
         state = "mapping" => token \in 0..s.version,
         NEW stop \in BOOLEAN, NEW stale \in BOOLEAN, NEW known \in 0..s.version
  PROVE  LET q == [Settle(p, state, token, stop, stale) EXCEPT !.known = known]
         IN  Sound(q, s) /\ Waits(q) /\ Covered(q)
<1> DEFINE i == Its(p)
           after == After(p, stop, stale, state)
           a == Ask(after, "queue", "history")
           entries == Settled(p.entries, i, state, token)
           q == [Settle(p, state, token, stop, stale) EXCEPT !.known = known]
<1>1. p \in Pages /\ p.entries \in Seq(Entry) /\ "queue" \in Callers /\ "history" \in Parts
  BY DEF Sound, Pages, Callers, Parts
<1>2. state \in States /\ s \in Copies /\ s.version \in Nat
  BY DEF States, Sound, Copies
<1> HIDE DEF i
<1>3. /\ entries \in Seq(Entry) /\ DOMAIN entries = DOMAIN p.entries
      /\ \A j \in DOMAIN p.entries : \/ entries[j] = p.entries[j]
                                     \/ entries[j].state = state /\ entries[j].token = token
  <2>1. SettledFrom(p.entries, entries, state, token)
    BY <1>1, <1>2, SettledIs
  <2> HIDE DEF entries
  <2> QED
    BY <2>1 DEF SettledFrom
<1>4. /\ Sound(after, s) /\ SameForms(p, after) /\ SameShown(p, after) /\ after.fetch = p.fetch
      /\ after.entries = p.entries /\ after.run # Quiet /\ after.run.at = "history" /\ ~after.paused
  BY AfterIsSound
<1>5. after \in Pages
  BY <1>4 DEF Sound
<1>6. q = [a EXCEPT !.entries = entries, !.known = known]
  <2>1. Settle(p, state, token, stop, stale) = [a EXCEPT !.entries = entries]
    <3>1. SettlesOne(p, state, token, stop, stale)
      BY <1>2, SettleIs
    <3> QED
      BY <3>1 DEF SettlesOne, i
  <2>2. a \in Pages
    BY <1>1, <1>5, AskIs
  <2> HIDE DEF a, entries
  <2> QED
    BY <2>1, <2>2 DEF Pages
<1> HIDE DEF entries, after, q
<1>7. /\ Sound(a, s) /\ a.entries = p.entries /\ a.run # Quiet /\ ~a.paused
      /\ a.fetch["queue"].at = "asked"
      /\ \A c \in Callers : Has(a, c, "history") => ~a.fetch[c].newest
  <2>1. Sound(a, s)
    BY <1>1, <1>4, AskIsSound
  <2>2. /\ SameQueue(after, a)
        /\ a.fetch["queue"] = [at |-> "asked", part |-> "history", newest |-> TRUE]
    BY <1>1, <1>5, AskIs
  <2>3. ASSUME NEW c \in Callers, Has(a, c, "history"), a.fetch[c].newest
        PROVE  FALSE
    <3>1. c = "queue"
      BY <1>1, <2>1, <2>2, <2>3 DEF Sound, OneNewest, Has, Asks
    <3> QED
      BY <2>2, <2>3, <3>1 DEF Has
  <2> QED
    BY <1>4, <2>1, <2>2, <2>3 DEF SameQueue
<1> HIDE DEF a
<1>8. /\ q \in Pages /\ SameForms(a, q) /\ SameRefresh(a, q)
      /\ q.fetch = a.fetch /\ q.run = a.run /\ q.post = a.post /\ q.paused = a.paused
      /\ q.shown = a.shown /\ q.review = a.review /\ q.known = known /\ q.entries = entries
  <2>1. known \in Nat
    BY <1>2
  <2> QED
    BY <1>3, <1>6, <1>7, <2>1 DEF Sound, Pages, SameForms, SameRefresh
<1>9. Tied(q) /\ OneNewest(q)
  BY <1>7, <1>8 DEF Sound, Tied, OneNewest, Asks, SameForms, SameRefresh
<1>10. Named(q, s)
  <2>1. \A c \in Callers : Has(q, c, "history") => Has(a, c, "history") /\ ~q.fetch[c].newest
    BY <1>7, <1>8 DEF Has, Asks
  <2>2. ASSUME NEW j \in DOMAIN entries
        PROVE  /\ entries[j].state \in {"mapping", "closed"} => entries[j].token \in 0..s.version
               /\ entries[j].state = "closed" => entries[j].token \notin s.pending
    <3>1. CASE entries[j] = p.entries[j]
      BY <1>3, <1>7, <3>1 DEF Sound, Named
    <3>2. CASE entries[j].state = state /\ entries[j].token = token
      BY <3>2
    <3> QED
      BY <1>3, <3>1, <3>2
  <2> QED
    BY <1>7, <1>8, <2>1, <2>2 DEF Sound, Named, SameForms
<1>11. Ordered(q, s)
  <2>1. \A c \in Callers, x \in Parts : Has(q, c, x) = Has(a, c, x) /\ Shown(q, x) = Shown(a, x)
    BY <1>8 DEF Has, Asks, Shown
  <2>2. known <= s.version
    BY <1>2
  <2>3. \A x \in Parts : Shown(q, x) = Shown(a, x)
    BY <1>8 DEF Shown
  <2> QED
    BY <1>7, <1>8, <2>1, <2>2, <2>3 DEF Sound, Ordered, SameForms
<1>12. Running(q) /\ ~q.paused
  BY <1>7, <1>8 DEF Running
<1> QED
  BY <1>2, <1>8, <1>9, <1>10, <1>11, <1>12 DEF Sound, Waits, Covered, Promised, q

\* The mapping is done: at the server before, on the page now.
Closed(p, after) ==
    [p EXCEPT !.entries = Restated(@, {i \in DOMAIN p.entries : p.entries[i].state = "mapping"
                                                             /\ p.entries[i].token = p.mapping.token}, after),
              !.shown.pending = @ \ {p.mapping.token},
              !.known = p.mapping.version]

\* The entries of the mapping say so, and rightly.
LEMMA ClosedIs ==
  ASSUME NEW p, NEW s, Sound(p, s), Waits(p), p.mapping.at = "answered",
         NEW after \in {"imported", "closed"}
  PROVE  LET q == Closed(p, after)
         IN  Sound(q, s) /\ Waits(q) /\ SameForms(p, q) /\ q.fetch = p.fetch
<1> DEFINE k == p.mapping.token
           chosen == {i \in DOMAIN p.entries : p.entries[i].state = "mapping" /\ p.entries[i].token = k}
           entries == Restated(p.entries, chosen, after)
           shown == [p.shown EXCEPT !.pending = @ \ {k}]
           q == Closed(p, after)
<1>1. p \in Pages /\ p.entries \in Seq(Entry) /\ after \in States /\ p.shown \in Copies
  BY DEF Sound, Pages, States
<1>2. /\ entries \in Seq(Entry) /\ DOMAIN entries = DOMAIN p.entries
      /\ \A i \in DOMAIN entries : entries[i].state = after \/ entries[i] = p.entries[i]
      /\ \A i \in chosen \cap DOMAIN entries : entries[i].state = after
  <2> HIDE DEF chosen
  <2> QED
    BY <1>1, MarkAllIs
<1>3. ASSUME NEW i \in DOMAIN entries
      PROVE  \/ entries[i] = p.entries[i]
             \/ /\ entries[i].state = after /\ entries[i].token = k
  <2>1. CASE i \in chosen
    <3> DEFINE e == p.entries[i]
    <3>1. e \in Entry /\ e.token = k
      BY <1>1, <2>1
    <3>2. entries[i] = [e EXCEPT !.state = after]
      BY <1>2, <2>1 DEF Restated
    <3> HIDE DEF e
    <3>3. [e EXCEPT !.state = after].state = after /\ [e EXCEPT !.state = after].token = e.token
      BY <3>1 DEF Entry
    <3> QED
      BY <3>1, <3>2, <3>3
  <2>2. CASE i \notin chosen
    <3>1. i \in DOMAIN p.entries
      BY <1>2
    <3> QED
      BY <2>2, <3>1 DEF Restated
  <2> QED
    BY <2>1, <2>2
<1>4. shown \in Copies /\ shown.version = p.shown.version
  BY <1>1 DEF Copies
<1>5. q = [p EXCEPT !.entries = entries, !.shown = shown, !.known = p.mapping.version]
  BY <1>1 DEF Closed, Pages
<1>6. /\ p.mapping.version \in Nat /\ p.mapping.version <= s.version
      /\ k \in Nat /\ k <= s.version /\ k \notin s.pending
      /\ s \in Copies /\ s.version \in Nat
  <2>1. p.mapping \in Mappings
    BY <1>1 DEF Pages
  <2>2. p.mapping.version \in Nat /\ k \in Nat
    BY <2>1 DEF Mappings
  <2> QED
    BY <2>2 DEF Sound, Named, Ordered, Copies
<1> HIDE DEF entries, shown, q, k, chosen
<1>7. /\ q \in Pages /\ SameForms(p, q) /\ SameRefresh(p, q)
      /\ q.fetch = p.fetch /\ q.run = p.run /\ q.post = p.post /\ q.paused = p.paused
      /\ q.stale = p.stale /\ q.ready = p.ready
      /\ q.shown = shown /\ q.review = p.review /\ q.known = p.mapping.version /\ q.entries = entries
  BY <1>1, <1>2, <1>4, <1>5, <1>6 DEF Pages, SameForms, SameRefresh
<1>8. Tied(q) /\ OneNewest(q)
  BY <1>7 DEF Sound, Tied, OneNewest, Asks, SameForms, SameRefresh
<1>9. Named(q, s)
  <2>1. \A c \in Callers : Has(q, c, "history") = Has(p, c, "history")
    BY <1>7 DEF Has, Asks
  <2>2. ASSUME NEW j \in DOMAIN entries
        PROVE  /\ entries[j].state \in {"mapping", "closed"} => entries[j].token \in 0..s.version
               /\ entries[j].state = "mapping" => \A c \in Callers :
                     Has(p, c, "history") /\ p.fetch[c].newest => entries[j].token <= p.fetch[c].copy.version
               /\ entries[j].state = "closed" => entries[j].token \notin s.pending
    <3>1. CASE entries[j] = p.entries[j]
      BY <1>2, <3>1 DEF Sound, Named
    <3>2. CASE entries[j].state = after /\ entries[j].token = k
      BY <1>6, <3>2
    <3> QED
      BY <1>3, <3>1, <3>2
  <2> QED
    BY <1>7, <2>1, <2>2 DEF Sound, Named, SameForms
<1>10. Ordered(q, s)
  <2>1. \A c \in Callers, x \in Parts : Has(q, c, x) = Has(p, c, x)
    BY <1>7 DEF Has, Asks
  <2>2. \A x \in Parts : Shown(q, x) = Shown(p, x)
    BY <1>4, <1>7 DEF Shown
  <2> QED
    BY <1>6, <1>7, <2>1, <2>2 DEF Sound, Ordered, SameForms
<1>11. Waits(q)
  <2>1. HasQueued(q) => HasQueued(p)
    BY <1>2, <1>7 DEF HasQueued, IndicesIn
  <2> QED
    BY <1>7, <2>1 DEF Waits, Running
<1> QED
  BY <1>6, <1>7, <1>8, <1>9, <1>10, <1>11 DEF Sound, q

\* The form of a mapping hears from the server.
LEMMA HeardIs ==
  ASSUME NEW p, NEW s, Sound(p, s), p.mapping.at \in {"asked", "answered"}
  PROVE  /\ p.mapping # Quiet /\ p.fetch["mapping"] = Quiet
         /\ p.desk # Quiet => p.desk.caller # "mapping"
<1>1. p.fetch["mapping"] \in Fetches
  BY DEF Sound, Pages, Callers
<1>2. \A part \in Parts : ~Asks(p, "mapping", part)
  BY DEF Sound, Tied, Parts
<1> QED
  BY <1>1, <1>2 DEF Sound, Tied, Asks, Fetches, Parts

\* The mapping is confirmed or cancelled, and its handler goes on.
LEMMA MappingAnsweredSound ==
  ASSUME NEW p, NEW s, Sound(p, s), Waits(p), p.mapping.at = "answered",
         NEW after \in {"imported", "closed"},
         NEW q \in {Ask([Closed(p, after) EXCEPT !.mapping.at = "review"], "mapping", "review"),
                    Continue(Closed(p, after), "mapping")}
  PROVE  Sound(q, s) /\ Waits(q) /\ Covered(q)
<1> DEFINE r == Closed(p, after)
<1>1. Sound(r, s) /\ Waits(r) /\ SameForms(p, r) /\ r.fetch = p.fetch
  BY ClosedIs
<1> HIDE DEF r
<1>2. /\ r.mapping # Quiet /\ r.fetch["mapping"] = Quiet
      /\ r.desk # Quiet => r.desk.caller # "mapping"
  BY <1>1, HeardIs DEF SameForms
<1>3. CASE q = Continue(r, "mapping")
  <2>1. Sound(q, s) /\ SameQueue(r, q) /\ Promised(q)
    BY <1>1, <1>2, <1>3, ContinueMapping
  <2> QED
    BY <1>1, <2>1, SameQueueWaits DEF Covered
<1>4. CASE q = Ask(MappingAt(r, "review"), "mapping", "review")
  <2> DEFINE m == MappingAt(r, "review")
  <2>1. Sound(m, s) /\ SameQueue(r, m) /\ m.mapping # Quiet /\ m.mapping.at = "review"
    BY <1>1, <1>2, MappingAtIs
  <2> HIDE DEF m
  <2>2. "mapping" \in Callers /\ "review" \in Parts /\ m \in Pages
    BY <2>1 DEF Callers, Parts, Sound
  <2>3. q = Ask(m, "mapping", "review")
    BY <1>4 DEF m
  <2>4. Sound(q, s)
    BY <2>1, <2>2, <2>3, AskIsSound
  <2>5. SameQueue(m, q) /\ SameForms(m, q)
    BY <2>2, <2>3, AskIs
  <2>6. Waits(q)
    BY <1>1, <2>1, <2>5, SameQueueWaits
  <2> QED
    BY <2>1, <2>4, <2>5, <2>6 DEF Covered, Promised, SameForms
<1> QED
  BY <1>3, <1>4 DEF r, MappingAt

\* A page that turns stale.
LEMMA StaleIsSound ==
  ASSUME NEW p, NEW s, Sound(p, s), Waits(p), NEW stale \in BOOLEAN
  PROVE  LET q == [p EXCEPT !.stale = @ \/ stale]
         IN  Sound(q, s) /\ Waits(q) /\ SameForms(p, q) /\ SameShown(p, q) /\ SameRefresh(p, q)
             /\ q.fetch = p.fetch /\ q.run = p.run
<1> DEFINE q == [p EXCEPT !.stale = @ \/ stale]
<1>1. p \in Pages /\ p.stale \in BOOLEAN
  BY DEF Sound, Pages
<1>2. /\ q \in Pages /\ SameForms(p, q) /\ SameShown(p, q) /\ SameRefresh(p, q)
      /\ q.fetch = p.fetch /\ q.run = p.run /\ q.entries = p.entries /\ q.post = p.post
      /\ q.paused = p.paused /\ q.ready = p.ready
      /\ p.stale => q.stale
  BY <1>1 DEF Pages, SameForms, SameShown, SameRefresh
<1> HIDE DEF q
<1>3. Tied(q) /\ OneNewest(q) /\ Calm(p, q)
  BY <1>2 DEF Sound, Tied, OneNewest, Calm, Fresher, Asks, SameForms, SameShown, SameRefresh
<1>4. Waits(q)
  BY <1>2 DEF Waits, HasQueued, IndicesIn, Running
<1> QED
  BY <1>2, <1>3, <1>4, CalmKeepsSound DEF q

\* The mapping is not done, and its handler goes on.
LEMMA MappingFailedSound ==
  ASSUME NEW p, NEW s, Sound(p, s), Waits(p), p.mapping.at \in {"asked", "answered"}, NEW stale \in BOOLEAN
  PROVE  LET q == Continue([p EXCEPT !.stale = @ \/ stale], "mapping")
         IN  Sound(q, s) /\ Waits(q) /\ Covered(q)
<1> DEFINE r == [p EXCEPT !.stale = @ \/ stale]
           q == Continue(r, "mapping")
<1>1. Sound(r, s) /\ Waits(r) /\ SameForms(p, r) /\ r.fetch = p.fetch
  BY StaleIsSound
<1>2. /\ p.mapping # Quiet /\ p.fetch["mapping"] = Quiet
      /\ p.desk # Quiet => p.desk.caller # "mapping"
  BY HeardIs
<1> HIDE DEF r
<1>3. Sound(q, s) /\ SameQueue(r, q) /\ Promised(q)
  BY <1>1, <1>2, ContinueMapping DEF SameForms
<1> QED
  BY <1>1, <1>3, SameQueueWaits DEF Covered, r

\* An action of the review list hears from the server, and asks for a fresh history.
LEMMA DeskAnsweredSound ==
  ASSUME NEW p, NEW s, Sound(p, s), Waits(p), p.desk.at \in {"asked", "answered"},
         NEW stale \in BOOLEAN, NEW done \in BOOLEAN, done => p.desk.at = "answered"
  PROVE  LET q == Ask([p EXCEPT !.desk.at = "history", !.stale = @ \/ stale,
                                !.known = IF done THEN p.desk.version ELSE @], "desk", "history")
         IN  Sound(q, s) /\ Waits(q) /\ Covered(q)
<1> DEFINE r == [p EXCEPT !.stale = @ \/ stale]
           desk == [p.desk EXCEPT !.at = "history"]
           known == IF done THEN p.desk.version ELSE p.known
           d == [r EXCEPT !.desk = desk, !.known = known]
           q == Ask(d, "desk", "history")
<1>1. /\ Sound(r, s) /\ Waits(r) /\ SameForms(p, r) /\ SameShown(p, r) /\ SameRefresh(p, r)
      /\ r.fetch = p.fetch /\ r.run = p.run
  BY StaleIsSound
<1>2. p \in Pages /\ r \in Pages /\ p.desk \in Desks /\ s \in Copies /\ s.version \in Nat
  BY <1>1 DEF Sound, Pages, Copies
<1>3. desk \in Desks /\ desk # Quiet /\ desk.at = "history" /\ desk.caller = p.desk.caller
  <2> DEFINE e == p.desk
  <2>1. e \in [at : {"asked", "answered", "history", "review"},
               caller : {"queue", "mapping", "user"}, version : Nat]
    BY <1>2 DEF Desks
  <2> HIDE DEF e
  <2>2. /\ [e EXCEPT !.at = "history"] \in Desks /\ [e EXCEPT !.at = "history"].at = "history"
        /\ [e EXCEPT !.at = "history"].caller = e.caller
    BY <2>1 DEF Desks
  <2> QED
    BY <2>2 DEF e
<1>4. known \in Nat /\ known <= s.version
  <2>1. p.known \in Nat /\ (p.desk.at = "answered" => p.desk.version \in Nat)
    BY <1>2 DEF Pages, Desks
  <2> QED
    BY <2>1 DEF Sound, Ordered
<1>5. [p EXCEPT !.desk.at = "history", !.stale = @ \/ stale,
                !.known = IF done THEN p.desk.version ELSE @] = d
  BY <1>2 DEF Pages
<1> HIDE DEF r, desk, known
<1>6. /\ d \in Pages /\ SameQueue(r, d) /\ SameRefresh(r, d)
      /\ d.desk = desk /\ d.mapping = r.mapping /\ d.fetch = r.fetch
      /\ d.shown = r.shown /\ d.review = r.review /\ d.known = known
  BY <1>2, <1>3, <1>4 DEF Pages, SameQueue, SameRefresh
<1> HIDE DEF d
<1>7. Tied(d) /\ OneNewest(d)
  <2>1. \A part \in Parts : ~Asks(d, "desk", part)
    BY <1>1, <1>6 DEF Sound, Tied, Asks, Parts, SameForms
  <2>2. p.desk # Quiet
    OBVIOUS
  <2> QED
    BY <1>1, <1>3, <1>6, <2>1, <2>2 DEF Sound, Tied, OneNewest, Asks, SameQueue, SameRefresh, SameForms
<1>8. Named(d, s)
  BY <1>1, <1>6 DEF Sound, Named, Has, Asks, SameQueue
<1>9. Ordered(d, s)
  <2>1. \A c \in Callers, x \in Parts : Has(d, c, x) = Has(r, c, x)
    BY <1>6 DEF Has, Asks
  <2>2. \A x \in Parts : Shown(d, x) = Shown(r, x)
    BY <1>6 DEF Shown
  <2> QED
    BY <1>1, <1>3, <1>4, <1>6, <2>1, <2>2 DEF Sound, Ordered, SameQueue
<1>10. Sound(d, s)
  BY <1>1, <1>6, <1>7, <1>8, <1>9 DEF Sound
<1>11. "desk" \in Callers /\ "history" \in Parts
  BY DEF Callers, Parts
<1>12. Sound(q, s)
  BY <1>3, <1>6, <1>10, <1>11, AskIsSound
<1>13. SameQueue(d, q) /\ SameForms(d, q)
  BY <1>6, <1>11, AskIs
<1>14. Coming(q, "history")
  BY <1>6, <1>11, AskBrings
<1>15. Coming(q, "review")
  BY <1>3, <1>6, <1>13 DEF Coming, SameForms
<1>16. Waits(q)
  BY <1>1, <1>6, <1>13, SameQueueWaits
<1> QED
  BY <1>5, <1>12, <1>14, <1>15, <1>16 DEF Covered

-----------------------------------------------------------------------------
(***************************************************************************)
(* The specification keeps the invariant.                                  *)
(***************************************************************************)
\* A page that was just rendered shows what the server has.
LEMMA InitIsSound ==
  QueueInit => QueueInv
<1> SUFFICES ASSUME QueueInit
             PROVE  QueueInv
  OBVIOUS
<1>1. server \in Copies /\ server = [generation |-> 0, version |-> 0, pending |-> {}]
  BY DEF QueueInit, Copies, PageGeneration
<1>2. /\ page.entries = <<>> /\ page.paused = FALSE /\ page.run = Quiet /\ page.post = Quiet
      /\ page.mapping = Quiet /\ page.desk = Quiet /\ page.fetch = [c \in Callers |-> Quiet]
      /\ page.shown = server /\ page.review = 0 /\ page.known = 0 /\ page.refreshing = FALSE
  BY DEF QueueInit
<1>3. page \in Pages
  <2>1. /\ Quiet \in Runs /\ Quiet \in Posts /\ Quiet \in Mappings /\ Quiet \in Desks
        /\ [c \in Callers |-> Quiet] \in [Callers -> Fetches] /\ <<>> \in Seq(Entry)
    BY DEF Runs, Posts, Mappings, Desks, Fetches
  <2> QED
    BY <1>1, <2>1 DEF QueueInit, Pages
<1>4. \A c \in Callers : page.fetch[c] = Quiet
  BY <1>2
<1>5. /\ \A c \in Callers, part \in Parts : ~Asks(page, c, part) /\ ~Has(page, c, part)
      /\ \A part : ~Asks(page, "queue", part) /\ ~Asks(page, "mapping", part) /\ ~Asks(page, "desk", part)
  BY <1>4 DEF Asks, Has, Callers
<1>6. Tied(page) /\ OneNewest(page)
  BY <1>2, <1>4, <1>5 DEF Tied, OneNewest, Callers
<1>7. \A c \in Callers : ~Has(page, c, "history")
  BY <1>5 DEF Parts
<1>8. Named(page, server)
  BY <1>1, <1>2, <1>7 DEF Named
<1>9. \A part \in Parts : Shown(page, part) = 0
  BY <1>1, <1>2 DEF Shown
<1>10. Ordered(page, server)
  BY <1>1, <1>2, <1>5, <1>9 DEF Ordered
<1>11. Waits(page)
  BY <1>2 DEF Waits, HasQueued, IndicesIn
<1>12. Covered(page)
  <2>1. Coming(page, "history") /\ Coming(page, "review")
    BY <1>2, <1>9 DEF Coming, Parts
  <2> QED
    BY <2>1 DEF Covered
<1> QED
  BY <1>1, <1>3, <1>6, <1>8, <1>10, <1>11, <1>12 DEF QueueInv, Sound

\* What the user does.
LEMMA UserKeeps ==
  ASSUME QueueInv, User
  PROVE  QueueInv'
<1> DEFINE Fine(q) == Sound(q, server) /\ Waits(q) /\ Covered(q)
<1>1. Sound(page, server) /\ Waits(page) /\ Covered(page) /\ page \in Pages
  BY DEF QueueInv, Sound
<1>2. ASSUME NEW fs \in (SUBSET Files) \ {{}}, NEW order \in SetToSeqs(fs), AddFiles(order)
      PROVE  QueueInv'
  <2>1. order \in Seq(Files)
    <3>1. IsFiniteSet(fs)
      BY <1>2, QueueFiles, FS_Subset
    <3>2. Cardinality(fs) \in Nat
      BY <3>1, FS_CardinalityType
    <3>3. order \in [1..Cardinality(fs) -> fs]
      BY <1>2 DEF SetToSeqs
    <3> QED
      BY <1>2, <3>2, <3>3
  <2> DEFINE added == [i \in DOMAIN order |->
            [file |-> order[i],
             state |-> IF page.stale THEN "error" ELSE IF page.paused THEN "paused" ELSE "queued",
             token |-> NoToken]]
             q == RunQueue([page EXCEPT !.entries = Without(page.entries, ToSet(order)) \o added])
  <2>2. page' = q /\ server' = server
    BY <1>2 DEF AddFiles
  <2>3. Sound(q, server) /\ Waits(q) /\ Covered(q)
    BY <1>1, <2>1, AddIsSound
  <2> QED
    BY <2>2, <2>3 DEF QueueInv
<1>3. ASSUME NEW i \in DOMAIN page.entries, RemoveEntry(i)
      PROVE  QueueInv'
  <2> DEFINE q == [page EXCEPT !.entries = RemoveAt(page.entries, i)]
  <2>1. page' = q /\ server' = server
    BY <1>3 DEF RemoveEntry
  <2>2. Sound(q, server) /\ Waits(q) /\ Covered(q)
    BY <1>1, RemoveIsSound
  <2> QED
    BY <2>1, <2>2 DEF QueueInv
<1>4. ASSUME NEW i \in DOMAIN page.entries, Retry(i)
      PROVE  QueueInv'
  <2>1. page' = Resume(page, i) /\ server' = server
    BY <1>4 DEF Retry, Resume, MarkAll
  <2>2. Sound(Resume(page, i), server) /\ Waits(Resume(page, i)) /\ Covered(Resume(page, i))
    BY <1>1, RetryIsSound
  <2> QED
    BY <2>1, <2>2 DEF QueueInv
<1>5. ASSUME ChangeForm
      PROVE  QueueInv'
  <2> DEFINE r == Relined(page, page.entries, page.paused, ~page.ready)
             q == RunQueue(r)
  <2>1. page' = q /\ server' = server
    <3>1. [page EXCEPT !.ready = ~@] = r
      BY <1>1 DEF Relined, Pages
    <3> QED
      BY <1>5, <3>1 DEF ChangeForm
  <2>2. /\ page.entries \in Seq(Entry) /\ page.paused \in BOOLEAN /\ (~page.ready) \in BOOLEAN
        /\ page.paused => ~Running(page) /\ \A i \in DOMAIN page.entries : page.entries[i].state # "queued"
    BY <1>1 DEF Pages, Waits, HasQueued, IndicesIn
  <2>3. Sound(q, server) /\ Waits(q) /\ Covered(q)
    BY <1>1, <2>2, RelinedRuns
  <2> QED
    BY <2>1, <2>3 DEF QueueInv
<1>6. ASSUME Focus
      PROVE  QueueInv'
  <2> DEFINE q == RefreshStatus(page)
  <2>1. page' = q /\ server' = server
    BY <1>6 DEF Focus
  <2>2. Sound(q, server) /\ SameQueue(page, q) /\ Covered(q)
    BY <1>1, RefreshIsSound
  <2>3. Waits(q)
    BY <1>1, <2>2, SameQueueWaits
  <2> QED
    BY <2>1, <2>2, <2>3 DEF QueueInv
<1>7. ASSUME NEW k \in Versions, NEW confirm \in BOOLEAN, SubmitMapping(k, confirm)
      PROVE  QueueInv'
  <2> DEFINE q == [page EXCEPT !.mapping =
                      [at |-> "asked", token |-> k, confirm |-> confirm, version |-> 0]]
  <2>1. page' = q /\ server' = server /\ page.mapping = Quiet /\ k \in page.shown.pending
    BY <1>7 DEF SubmitMapping
  <2>2. Sound(q, server) /\ Waits(q) /\ Covered(q)
    BY <1>1, <2>1, SubmitIsSound
  <2> QED
    BY <2>1, <2>2 DEF QueueInv
<1>8. ASSUME Act
      PROVE  QueueInv'
  <2> DEFINE q == [page EXCEPT !.desk = [at |-> "asked", caller |-> "user", version |-> 0]]
  <2>1. page' = q /\ server' = server /\ page.desk = Quiet
    BY <1>8 DEF Act
  <2>2. Sound(q, server) /\ Waits(q) /\ Covered(q)
    BY <1>1, <2>1, ActIsSound
  <2> QED
    BY <2>1, <2>2 DEF QueueInv
<1> QED
  BY <1>2, <1>3, <1>4, <1>5, <1>6, <1>7, <1>8 DEF User

\* What the server and the handlers of the page do.
LEMMA ServerKeeps ==
  ASSUME QueueInv, Replace \/ \E k \in Versions : CloseElsewhere(k)
  PROVE  QueueInv'
<1>1. Sound(page, server) /\ Waits(page) /\ Covered(page) /\ server \in Copies /\ server.version \in Nat
  BY DEF QueueInv, Sound, Copies
<1>2. ASSUME Replace
      PROVE  QueueInv'
  <2>1. server' = [Changed(server, {}) EXCEPT !.generation = @ + 1] /\ page' = page
    BY <1>2 DEF Replace
  <2>2. Follows(server, [Changed(server, {}) EXCEPT !.generation = @ + 1])
    BY <1>1, ChangedFollows
  <2>3. Sound(page, server')
    BY <1>1, <2>1, <2>2, FollowsIsSound
  <2> QED
    BY <1>1, <2>1, <2>3 DEF QueueInv
<1>3. ASSUME NEW k \in Versions, CloseElsewhere(k)
      PROVE  QueueInv'
  <2>1. server' = Changed(server, server.pending \ {k}) /\ page' = page
    BY <1>3 DEF CloseElsewhere
  <2>2. Follows(server, Changed(server, server.pending \ {k}))
    BY <1>1, ChangedFollows
  <2>3. Sound(page, server')
    BY <1>1, <2>1, <2>2, FollowsIsSound
  <2> QED
    BY <1>1, <2>1, <2>3 DEF QueueInv
<1> QED
  BY <1>2, <1>3

\* The uploads, and what comes back of them.
LEMMA UploadKeeps ==
  ASSUME QueueInv, Upload
  PROVE  QueueInv'
<1>1. /\ Sound(page, server) /\ Waits(page) /\ Covered(page) /\ server \in Copies /\ server.version \in Nat
      /\ page \in Pages
  BY DEF QueueInv, Sound, Copies
<1>2. ASSUME Accept
      PROVE  QueueInv'
  <2> DEFINE post == [at |-> "answered", version |-> server'.version,
                      outcome |-> IF server'.pending = server.pending THEN "imported" ELSE "mapping"]
             q == [page EXCEPT !.post = post]
  <2>1. server' \in Additions(server) /\ page' = q /\ page.post = [at |-> "asked"]
    BY <1>2 DEF Accept
  <2>2. Follows(server, server')
    <3>1. /\ Follows(server, Changed(server, server.pending))
          /\ Follows(server, Changed(server, server.pending \cup {server.version + 1}))
      BY <1>1, ChangedFollows
    <3> QED
      BY <2>1, <3>1 DEF Additions
  <2>3. Sound(page, server')
    BY <1>1, <2>2, FollowsIsSound
  <2>4. post \in Posts /\ post.version <= server'.version /\ page.post # Quiet
    <3>1. server'.version \in Nat
      BY <1>1, <2>2 DEF Follows
    <3> QED
      BY <2>1, <3>1 DEF Posts
  <2> HIDE DEF post
  <2>5. Sound(q, server') /\ Waits(q) /\ Covered(q)
    BY <1>1, <2>3, <2>4, PostIsSound
  <2> QED
    BY <2>1, <2>5 DEF QueueInv
<1>3. ASSUME TurnDown
      PROVE  QueueInv'
  <2>1. PICK outcome \in {"refused", "busy", "context"} :
           /\ page' = [page EXCEPT !.post = [at |-> "answered", version |-> 0, outcome |-> outcome]]
           /\ server' = server /\ page.post = [at |-> "asked"]
    BY <1>3 DEF TurnDown
  <2> DEFINE post == [at |-> "answered", version |-> 0, outcome |-> outcome]
             q == [page EXCEPT !.post = post]
  <2>2. post \in Posts /\ post.version <= server.version /\ page.post # Quiet
    BY <1>1, <2>1 DEF Posts
  <2> HIDE DEF post
  <2>3. Sound(q, server) /\ Waits(q) /\ Covered(q)
    BY <1>1, <2>2, PostIsSound
  <2> QED
    BY <2>1, <2>3 DEF QueueInv, post
<1>4. ASSUME Answered
      PROVE  QueueInv'
  <2> DEFINE outcome == page.post.outcome
             stored == outcome \in {"imported", "mapping"}
             state == IF stored THEN outcome ELSE "error"
             token == IF outcome = "mapping" THEN page.post.version ELSE NoToken
             stop == outcome \in {"busy", "context"}
             stale == outcome = "context"
             known == IF stored THEN page.post.version ELSE page.known
             q == [Settle(page, state, token, stop, stale) EXCEPT !.known = known]
  <2>1. page.post.at = "answered" /\ server' = server
    BY <1>4 DEF Answered
  <2>2. page.post \in Posts /\ page.post # Quiet /\ page.post.version \in Nat
          /\ page.post.version <= server.version
    <3>1. page.post \in Posts
      BY <1>1 DEF Pages
    <3> QED
      BY <1>1, <2>1, <3>1 DEF Posts, Sound, Ordered
  <2>3. page.known \in 0..server.version
    <3>1. page.known \in Nat /\ page.known <= server.version
      BY <1>1 DEF Pages, Sound, Ordered
    <3> QED
      BY <1>1, <3>1
  <2>4. /\ state \in {"imported", "mapping", "error"} /\ token \in Nat \cup {NoToken}
        /\ state = "mapping" => token \in 0..server.version
        /\ stop \in BOOLEAN /\ stale \in BOOLEAN /\ known \in 0..server.version
    BY <1>1, <2>2, <2>3
  <2>5. page' = q
    <3> DEFINE asked == Settle(page, state, token, stop, stale)
    <3>1. asked.known = page.known
      <4>1. state \in States
        BY <2>4 DEF States
      <4> HIDE DEF state, token, stop, stale
      <4>2. SettlesOne(page, state, token, stop, stale)
        BY <1>1, <2>2, <2>4, <4>1, SettleIs
      <4> QED
        BY <4>2 DEF SettlesOne
    <3> HIDE DEF asked
    <3>2. page' = [asked EXCEPT !.known = IF stored THEN page.post.version ELSE asked.known]
      BY <1>4 DEF Answered, asked
    <3> QED
      BY <3>1, <3>2 DEF asked
  <2> HIDE DEF state, token, stop, stale, known
  <2>6. Sound(q, server) /\ Waits(q) /\ Covered(q)
    BY <1>1, <2>2, <2>4, SettleIsSound
  <2> QED
    BY <2>1, <2>5, <2>6 DEF QueueInv
<1>5. ASSUME Lost
      PROVE  QueueInv'
  <2> DEFINE q == [Settle(page, "error", NoToken, TRUE, FALSE) EXCEPT !.known = page.known]
  <2>1. page.post # Quiet /\ server' = server /\ page' = q
    <3> DEFINE asked == Settle(page, "error", NoToken, TRUE, FALSE)
    <3>1. page.post # Quiet /\ server' = server /\ page' = asked
      BY <1>5 DEF Lost
    <3>2. "error" \in States /\ NoToken \in Nat \cup {NoToken}
      BY DEF States
    <3>3. /\ asked = [Ask(After(page, TRUE, FALSE, "error"), "queue", "history") EXCEPT
                          !.entries = Settled(page.entries, Its(page), "error", NoToken)]
          /\ asked.known = page.known
      <4>1. SettlesOne(page, "error", NoToken, TRUE, FALSE)
        BY <1>1, <3>1, <3>2, SettleIs
      <4> QED
        BY <4>1 DEF SettlesOne
    <3>4. Ask(After(page, TRUE, FALSE, "error"), "queue", "history") \in Pages
      <4>1. After(page, TRUE, FALSE, "error") \in Pages /\ "queue" \in Callers /\ "history" \in Parts
        BY <1>1, <3>1, AfterIsSound DEF Sound, Callers, Parts
      <4> QED
        BY <4>1, AskIs
    <3>5. [asked EXCEPT !.known = page.known] = asked
      <4> DEFINE a == Ask(After(page, TRUE, FALSE, "error"), "queue", "history")
                 e == Settled(page.entries, Its(page), "error", NoToken)
      <4>1. a \in Pages /\ asked = [a EXCEPT !.entries = e] /\ asked.known = page.known
        BY <3>3, <3>4
      <4> HIDE DEF a, e, asked
      <4> QED
        BY <4>1 DEF Pages
    <3> QED
      BY <3>1, <3>5
  <2>2. page.known \in 0..server.version
    <3>1. page.known \in Nat /\ page.known <= server.version
      BY <1>1 DEF Pages, Sound, Ordered
    <3> QED
      BY <1>1, <3>1
  <2>3. Sound(q, server) /\ Waits(q) /\ Covered(q)
    BY <1>1, <2>1, <2>2, SettleIsSound
  <2> QED
    BY <2>1, <2>3 DEF QueueInv
<1> QED
  BY <1>2, <1>3, <1>4, <1>5 DEF Upload

\* The server has done what a form or the review list posted.
LEMMA ServedMapping ==
  ASSUME NEW p, NEW s, Sound(p, s), Waits(p), p.mapping.at = "asked",
         NEW version \in 0..s.version, p.mapping.token <= s.version, p.mapping.token \notin s.pending
  PROVE  LET q == [p EXCEPT !.mapping = [@ EXCEPT !.at = "answered", !.version = version]]
         IN  Sound(q, s) /\ Waits(q) /\ Covered(q)
<1> DEFINE mapping == [p.mapping EXCEPT !.at = "answered", !.version = version]
           q == [p EXCEPT !.mapping = mapping]
<1>1. p \in Pages /\ s \in Copies /\ s.version \in Nat /\ version \in Nat /\ version <= s.version
  BY DEF Sound, Copies
<1>2. /\ mapping \in Mappings /\ mapping # Quiet /\ mapping.at = "answered"
      /\ mapping.token = p.mapping.token /\ mapping.version = version
  <2> DEFINE m == p.mapping
  <2>1. m \in [at : {"asked", "answered", "review", "analysing", "history"},
               token : Nat, confirm : BOOLEAN, version : Nat]
    <3>1. m \in Mappings
      BY <1>1 DEF Pages
    <3> QED
      BY <3>1 DEF Mappings
  <2> HIDE DEF m
  <2>2. LET n == [m EXCEPT !.at = "answered", !.version = version]
        IN  /\ n \in Mappings /\ n # Quiet /\ n.at = "answered"
            /\ n.token = m.token /\ n.version = version
    BY <1>1, <2>1 DEF Mappings
  <2> QED
    BY <2>2 DEF m
<1>3. p.fetch["mapping"] = Quiet /\ (p.desk # Quiet => p.desk.caller # "mapping")
  BY HeardIs
<1> HIDE DEF mapping
<1>4. /\ q \in Pages /\ SameQueue(p, q) /\ SameShown(p, q) /\ SameRefresh(p, q)
      /\ q.mapping = mapping /\ q.desk = p.desk /\ q.fetch = p.fetch
  BY <1>1, <1>2 DEF Pages, SameQueue, SameShown, SameRefresh
<1> HIDE DEF q
<1>5. Tied(q) /\ OneNewest(q)
  <2>1. \A part \in Parts : ~Asks(q, "mapping", part)
    BY <1>3, <1>4 DEF Asks
  <2> QED
    BY <1>3, <1>4, <2>1 DEF Sound, Tied, OneNewest, Asks, SameQueue, SameRefresh
<1>6. Named(q, s)
  BY <1>2, <1>4 DEF Sound, Named, Has, Asks, SameQueue
<1>7. Ordered(q, s)
  <2>1. \A c \in Callers, x \in Parts : Has(q, c, x) = Has(p, c, x)
    BY <1>4 DEF Has, Asks
  <2>2. \A x \in Parts : Shown(q, x) = Shown(p, x)
    BY <1>4 DEF Shown, SameShown
  <2> QED
    BY <1>1, <1>2, <1>4, <2>1, <2>2 DEF Sound, Ordered, SameQueue, SameShown
<1>8. Waits(q)
  BY <1>4, SameQueueWaits
<1> QED
  BY <1>1, <1>2, <1>4, <1>5, <1>6, <1>7, <1>8 DEF Sound, Covered, Promised, q, mapping

\* The server has done what the review list posted.
LEMMA ServedDesk ==
  ASSUME NEW p, NEW s, Sound(p, s), Waits(p), Covered(p), p.desk.at = "asked",
         NEW version \in 0..s.version
  PROVE  LET q == [p EXCEPT !.desk = [@ EXCEPT !.at = "answered", !.version = version]]
         IN  Sound(q, s) /\ Waits(q) /\ Covered(q)
<1> DEFINE desk == [p.desk EXCEPT !.at = "answered", !.version = version]
           q == [p EXCEPT !.desk = desk]
<1>1. p \in Pages /\ s \in Copies /\ s.version \in Nat /\ version \in Nat /\ version <= s.version
  BY DEF Sound, Copies
<1>2. /\ desk \in Desks /\ desk # Quiet /\ desk.at = "answered"
      /\ desk.caller = p.desk.caller /\ desk.version = version
  <2> DEFINE d == p.desk
  <2>1. d \in [at : {"asked", "answered", "history", "review"},
               caller : {"queue", "mapping", "user"}, version : Nat]
    <3>1. d \in Desks
      BY <1>1 DEF Pages
    <3> QED
      BY <3>1 DEF Desks
  <2> HIDE DEF d
  <2>2. LET n == [d EXCEPT !.at = "answered", !.version = version]
        IN  /\ n \in Desks /\ n # Quiet /\ n.at = "answered"
            /\ n.caller = d.caller /\ n.version = version
    BY <1>1, <2>1 DEF Desks
  <2> QED
    BY <2>2 DEF d
<1> HIDE DEF desk
<1>4. /\ q \in Pages /\ SameQueue(p, q) /\ SameShown(p, q) /\ SameRefresh(p, q)
      /\ q.desk = desk /\ q.mapping = p.mapping /\ q.fetch = p.fetch
  BY <1>1, <1>2 DEF Pages, SameQueue, SameShown, SameRefresh
<1> HIDE DEF q
<1>5. Tied(q) /\ OneNewest(q)
  <2>1. \A part \in Parts : ~Asks(q, "desk", part)
    BY <1>4 DEF Sound, Tied, Asks, Parts
  <2>2. p.desk # Quiet
    OBVIOUS
  <2> QED
    BY <1>2, <1>4, <2>1, <2>2 DEF Sound, Tied, OneNewest, Asks, SameQueue, SameRefresh
<1>6. Named(q, s)
  BY <1>4 DEF Sound, Named, Has, Asks, SameQueue
<1>7. Ordered(q, s)
  <2>1. \A c \in Callers, x \in Parts : Has(q, c, x) = Has(p, c, x)
    BY <1>4 DEF Has, Asks
  <2>2. \A x \in Parts : Shown(q, x) = Shown(p, x)
    BY <1>4 DEF Shown, SameShown
  <2> QED
    BY <1>1, <1>2, <1>4, <2>1, <2>2 DEF Sound, Ordered, SameQueue, SameShown
<1>8. Covered(q)
  <2>1. Promised(p) => Promised(q)
    BY <1>4 DEF Promised, Running, SameQueue, SameRefresh
  <2>2. \A x \in {"history", "review"} : Coming(p, x) => Coming(q, x)
    <3>1. /\ q.fetch = p.fetch /\ q.known = p.known /\ p.desk.at # "history"
          /\ \A x \in {"history", "review"} : Shown(q, x) = Shown(p, x)
      BY <1>4 DEF Shown, SameShown
    <3>2. \A d \in Callers, x \in Parts : Asks(q, d, x) = Asks(p, d, x)
      BY <3>1 DEF Asks
    <3> QED
      BY <3>1, <3>2 DEF Coming, Parts, Callers
  <2> QED
    BY <1>4, <2>1, <2>2 DEF Covered, SameRefresh
<1>9. Waits(q)
  BY <1>4, SameQueueWaits
<1> QED
  BY <1>1, <1>4, <1>5, <1>6, <1>7, <1>8, <1>9 DEF Sound, q, desk

\* The mappings.
LEMMA MappingKeeps ==
  ASSUME QueueInv, Mapping
  PROVE  QueueInv'
<1>1. /\ Sound(page, server) /\ Waits(page) /\ Covered(page) /\ server \in Copies /\ server.version \in Nat
      /\ page \in Pages
  BY DEF QueueInv, Sound, Copies
<1>2. ASSUME ServeMapping
      PROVE  QueueInv'
  <2> DEFINE k == page.mapping.token
             q == [page EXCEPT !.mapping = [@ EXCEPT !.at = "answered", !.version = server'.version]]
  <2>1. /\ server' = Changed(server, server.pending \ {k}) /\ page' = q
        /\ page.mapping.at = "asked" /\ k \in server.pending
    BY <1>2 DEF ServeMapping
  <2>2. Follows(server, server') /\ server'.pending = server.pending \ {k}
    <3>1. /\ Follows(server, Changed(server, server.pending \ {k}))
          /\ Changed(server, server.pending \ {k}).pending = server.pending \ {k}
      BY <1>1, ChangedFollows
    <3> QED
      BY <2>1, <3>1
  <2>3. Sound(page, server')
    BY <1>1, <2>2, FollowsIsSound
  <2>4. server'.version \in 0..server'.version /\ k <= server'.version /\ k \notin server'.pending
    <3>1. k \in Nat /\ k <= server.version /\ server'.version = server.version + 1
      BY <1>1, <2>1, <2>2 DEF Sound, Named, Follows, Copies
    <3> QED
      BY <1>1, <2>2, <3>1
  <2>5. Sound(q, server') /\ Waits(q) /\ Covered(q)
    BY <1>1, <2>1, <2>3, <2>4, ServedMapping
  <2> QED
    BY <2>1, <2>5 DEF QueueInv
<1>3. ASSUME MappingAnswered
      PROVE  QueueInv'
  <2> DEFINE k == page.mapping.token
             after == IF page.mapping.confirm THEN "imported" ELSE "closed"
             settled == [MarkAll(page, LAMBDA e : e.state = "mapping" /\ e.token = k, after) EXCEPT
                            !.shown.pending = @ \ {k}, !.known = page.mapping.version]
             closed == Closed(page, after)
  <2>1. page.mapping.at = "answered" /\ server' = server
    BY <1>3 DEF MappingAnswered
  <2>2. settled = closed
    <3> DEFINE chosen == {i \in DOMAIN page.entries : page.entries[i].state = "mapping"
                                                        /\ page.entries[i].token = k}
               entries == Restated(page.entries, chosen, after)
    <3>1. MarkAll(page, LAMBDA e : e.state = "mapping" /\ e.token = k, after)
             = [page EXCEPT !.entries = [i \in DOMAIN page.entries |->
                   IF page.entries[i].state = "mapping" /\ page.entries[i].token = k
                   THEN [page.entries[i] EXCEPT !.state = after] ELSE page.entries[i]]]
      BY DEF MarkAll
    <3>2. [i \in DOMAIN page.entries |->
                   IF page.entries[i].state = "mapping" /\ page.entries[i].token = k
                   THEN [page.entries[i] EXCEPT !.state = after] ELSE page.entries[i]] = entries
      BY DEF Restated
    <3>3. closed = [page EXCEPT !.entries = entries, !.shown.pending = @ \ {k},
                                !.known = page.mapping.version]
      BY DEF Closed
    <3> HIDE DEF entries, closed
    <3> QED
      BY <3>1, <3>2, <3>3
  <2>3. page' = IF page.mapping.confirm
                THEN Ask([settled EXCEPT !.mapping.at = "review"], "mapping", "review")
                ELSE Continue(settled, "mapping")
    BY <1>3 DEF MappingAnswered, MarkAll
  <2>4. after \in {"imported", "closed"}
    OBVIOUS
  <2> HIDE DEF after, settled
  <2>5. page' \in {Ask([Closed(page, after) EXCEPT !.mapping.at = "review"], "mapping", "review"),
                   Continue(Closed(page, after), "mapping")}
    BY <2>2, <2>3
  <2>6. Sound(page', server) /\ Waits(page') /\ Covered(page')
    BY <1>1, <2>1, <2>4, <2>5, MappingAnsweredSound
  <2> QED
    BY <2>1, <2>6 DEF QueueInv
<1>4. ASSUME MappingFailed
      PROVE  QueueInv'
  <2>1. PICK stale \in BOOLEAN : page' = Continue([page EXCEPT !.stale = @ \/ stale], "mapping")
    BY <1>4 DEF MappingFailed
  <2>2. page.mapping.at \in {"asked", "answered"} /\ server' = server
    BY <1>4 DEF MappingFailed
  <2> DEFINE q == Continue([page EXCEPT !.stale = @ \/ stale], "mapping")
  <2>3. Sound(q, server) /\ Waits(q) /\ Covered(q)
    BY <1>1, <2>2, MappingFailedSound
  <2> QED
    BY <2>1, <2>2, <2>3 DEF QueueInv
<1> QED
  BY <1>2, <1>3, <1>4 DEF Mapping

\* The actions of the review list.
LEMMA DeskKeeps ==
  ASSUME QueueInv, Desk
  PROVE  QueueInv'
<1>1. /\ Sound(page, server) /\ Waits(page) /\ Covered(page) /\ server \in Copies /\ server.version \in Nat
  BY DEF QueueInv, Sound, Copies
<1>2. ASSUME ServeDesk
      PROVE  QueueInv'
  <2> DEFINE q == [page EXCEPT !.desk = [@ EXCEPT !.at = "answered", !.version = server'.version]]
  <2>1. server' = Changed(server, server.pending) /\ page' = q /\ page.desk.at = "asked"
    BY <1>2 DEF ServeDesk
  <2>2. Follows(server, server')
    <3>1. Follows(server, Changed(server, server.pending))
      BY <1>1, ChangedFollows
    <3> QED
      BY <2>1, <3>1
  <2>3. Sound(page, server')
    BY <1>1, <2>2, FollowsIsSound
  <2>4. server'.version \in 0..server'.version
    BY <1>1, <2>2 DEF Follows
  <2>5. Sound(q, server') /\ Waits(q) /\ Covered(q)
    BY <1>1, <2>1, <2>3, <2>4, ServedDesk
  <2> QED
    BY <2>1, <2>5 DEF QueueInv
<1>3. ASSUME DeskAnswered
      PROVE  QueueInv'
  <2>1. PICK done \in BOOLEAN, stale \in BOOLEAN :
           /\ done => page.desk.at = "answered"
           /\ page' = Ask([page EXCEPT !.desk.at = "history", !.stale = @ \/ stale,
                              !.known = IF done THEN page.desk.version ELSE @], "desk", "history")
    BY <1>3 DEF DeskAnswered
  <2>2. page.desk.at \in {"asked", "answered"} /\ server' = server
    BY <1>3 DEF DeskAnswered
  <2> DEFINE q == Ask([page EXCEPT !.desk.at = "history", !.stale = @ \/ stale,
                              !.known = IF done THEN page.desk.version ELSE @], "desk", "history")
  <2>3. Sound(q, server) /\ Waits(q) /\ Covered(q)
    BY <1>1, <2>1, <2>2, DeskAnsweredSound
  <2> QED
    BY <2>1, <2>2, <2>3 DEF QueueInv
<1> QED
  BY <1>2, <1>3 DEF Desk

\* The requests for the parts.
LEMMA FetchKeeps ==
  ASSUME QueueInv, NEW c \in Callers, Render(c) \/ Arrive(c) \/ Fail(c)
  PROVE  QueueInv'
<1>1. Sound(page, server) /\ Waits(page) /\ Covered(page)
  BY DEF QueueInv
<1>2. ASSUME Render(c)
      PROVE  QueueInv'
  <2> DEFINE q == [page EXCEPT !.fetch[c] =
                      [at |-> "answered", part |-> @.part, newest |-> @.newest,
                       copy |-> IF @.part = "history" THEN server ELSE server.version]]
  <2>1. page' = q /\ server' = server /\ page.fetch[c].at = "asked"
    BY <1>2 DEF Render
  <2>2. Sound(q, server) /\ Waits(q) /\ Covered(q)
    BY <1>1, <2>1, RenderIsSound
  <2> QED
    BY <2>1, <2>2 DEF QueueInv
<1>3. ASSUME Arrive(c)
      PROVE  QueueInv'
  <2>1. /\ page.fetch[c].at = "answered" /\ server' = server
        /\ page' \in GoesOn(Take(page, c), c, page.fetch[c].part)
    BY <1>3 DEF Arrive
  <2>2. Sound(page', server) /\ Waits(page') /\ Covered(page')
    BY <1>1, <2>1, ArriveIsSound
  <2> QED
    BY <2>1, <2>2 DEF QueueInv
<1>4. ASSUME Fail(c)
      PROVE  QueueInv'
  <2>1. /\ page.fetch[c].at = "asked" /\ server' = server
        /\ page' = CASE c = "queue" -> NextRound(Told(page, c))
                     [] c = "status" -> StatusDone(Told(page, c))
                     [] c = "desk" -> DeskDone(Told(page, c))
                     [] c = "mapping" ->
                            IF page.mapping.at = "review"
                            THEN Continue(Spared(page, c), "mapping")
                            ELSE RefreshStatus([Told(page, c) EXCEPT !.mapping = Quiet])
    BY <1>4 DEF Fail, Told, Spared
  <2>2. Sound(page', server) /\ Waits(page') /\ Covered(page')
    BY <1>1, <2>1, FailIsSound
  <2> QED
    BY <2>1, <2>2 DEF QueueInv
<1> QED
  BY <1>2, <1>3, <1>4

\* The upload page stays sound, whatever the user, the server and the network do.
THEOREM QueueStaysSound == QueueSpec => []QueueInv
<1>1. ASSUME QueueInv, [QueueNext]_queueVars
      PROVE  QueueInv'
  <2>1. CASE UNCHANGED queueVars
    BY <1>1, <2>1 DEF queueVars, QueueInv
  <2>2. CASE User
    BY <1>1, <2>2, UserKeeps
  <2>3. CASE Upload
    BY <1>1, <2>3, UploadKeeps
  <2>4. CASE Replace \/ \E k \in Versions : CloseElsewhere(k)
    BY <1>1, <2>4, ServerKeeps
  <2>5. CASE Mapping
    BY <1>1, <2>5, MappingKeeps
  <2>6. CASE Desk
    BY <1>1, <2>6, DeskKeeps
  <2>7. CASE \E c \in Callers : Render(c) \/ Arrive(c) \/ Fail(c)
    BY <1>1, <2>7, FetchKeeps
  <2> QED
    BY <1>1, <2>1, <2>2, <2>3, <2>4, <2>5, <2>6, <2>7 DEF QueueNext
<1> QED
  BY <1>1, InitIsSound, PTL DEF QueueSpec

\* A mapping the page calls closed is closed at the server, in whatever order the
\* copies of the history arrive (refreshPart, reconcileMappings).
THEOREM ClosedMappingsAreGone == QueueSpec => []ClosedMeansGone
<1>1. QueueInv => ClosedMeansGone
  BY DEF QueueInv, Sound, Named, ClosedMeansGone
<1> QED
  BY <1>1, QueueStaysSound, PTL

\* A file that waits for its turn has a run, or the user is being told what the
\* form lacks or that the page is stale (runQueue).
THEOREM QueuedFilesHaveARun == QueueSpec => []NobodyWaitsInVain
<1>1. QueueInv => NobodyWaitsInVain
  BY DEF QueueInv, Waits, HasQueued, NobodyWaitsInVain
<1> QED
  BY <1>1, QueueStaysSound, PTL

\* Once nothing is under way, both parts of the page show all the server has
\* confirmed to it, or the page says that a refresh failed (refreshStatus).
THEOREM QuietPagesAreCurrent == QueueSpec => []QuietPageIsCurrent
<1>1. ASSUME QueueInv, AtRest
      PROVE  \/ page.failed
             \/ page.shown.version >= page.known /\ page.review >= page.known
  <2>1. /\ page \in Pages /\ Tied(page) /\ Covered(page)
        /\ page.run = Quiet /\ ~page.refreshing /\ page.mapping = Quiet /\ page.desk = Quiet
    BY <1>1 DEF QueueInv, Sound, AtRest, Running
  <2>2. ~Promised(page)
    BY <2>1 DEF Promised, Running
  <2>3. \A c \in Callers, part \in Parts : ~Asks(page, c, part)
    BY <2>1 DEF Tied, Asks, Parts, Callers
  <2>4. ASSUME NEW part \in Parts, Coming(page, part)
        PROVE  Shown(page, part) >= page.known
    BY <2>1, <2>3, <2>4 DEF Coming, Callers, Parts
  <2> QED
    BY <2>1, <2>2, <2>4 DEF Covered, Parts, Shown
<1>2. QueueInv => QuietPageIsCurrent
  BY <1>1 DEF QuietPageIsCurrent
<1> QED
  BY <1>2, QueueStaysSound, PTL

-----------------------------------------------------------------------------
(***************************************************************************)
(* What a statement's recognised lines are.                                *)
(***************************************************************************)
Together(known, i, lines, payments) == Coverable({j \in known : j < i} \cup {i}, lines, payments)

\* Going through a statement in order picks out lines: the definition of
\* Recognised is met by some set.
LEMMA SomeRecognised ==
  ASSUME NEW lines \in Seq(Keys), NEW payments
  PROVE  \E known \in SUBSET DOMAIN lines :
            \A i \in DOMAIN lines : i \in known <=> Together(known, i, lines, payments)
<1> DEFINE Picked(known, n) == \A i \in 1..n : i \in known <=> Together(known, i, lines, payments)
           Good == {n \in Nat : \E known \in SUBSET (1..n) : Picked(known, n)}
<1>1. 0 \in Good
  <2>1. Picked({}, 0)
    OBVIOUS
  <2> QED BY <2>1
<1>2. ASSUME NEW n \in Nat, n \in Good
      PROVE  n + 1 \in Good
  <2>1. PICK known \in SUBSET (1..n) : Picked(known, n)
    BY <1>2
  <2> DEFINE more == IF Together(known, n + 1, lines, payments) THEN known \cup {n + 1} ELSE known
  <2>2. more \in SUBSET (1..n + 1)
    BY <2>1
  <2>3. \A i \in 1..n + 1 : {j \in more : j < i} = {j \in known : j < i}
    BY <2>1
  <2>4. \A i \in 1..n + 1 : Together(more, i, lines, payments) <=> Together(known, i, lines, payments)
    BY <2>3 DEF Together
  <2>5. ASSUME NEW i \in 1..n + 1
        PROVE  i \in more <=> Together(more, i, lines, payments)
    <3>1. CASE i = n + 1
      <4>1. i \notin known
        BY <3>1, <2>1
      <4> QED BY <3>1, <4>1, <2>4
    <3>2. CASE i \in 1..n
      <4>1. i \in more <=> i \in known
        BY <3>2
      <4>2. i \in known <=> Together(known, i, lines, payments)
        BY <3>2, <2>1
      <4> QED BY <4>1, <4>2, <2>4, <2>5
    <3> QED BY <3>1, <3>2, <2>5
  <2> HIDE DEF more
  <2>6. Picked(more, n + 1)
    BY <2>5
  <2>7. n + 1 \in Nat
    OBVIOUS
  <2> HIDE DEF Picked
  <2> QED BY <2>2, <2>6, <2>7
<1>3. Nat \subseteq Good
  <2> HIDE DEF Good
  <2> QED BY <1>1, <1>2, UpTheNumbers
<1>4. Len(lines) \in Nat /\ DOMAIN lines = 1..Len(lines)
  OBVIOUS
<1>5. Len(lines) \in Good
  <2> HIDE DEF Good
  <2> QED BY <1>3, <1>4
<1> QED BY <1>4, <1>5

\* Recognised is such a set.
LEMMA RecognisedIs ==
  ASSUME NEW lines \in Seq(Keys), NEW payments
  PROVE  /\ Recognised(lines, payments) \in SUBSET DOMAIN lines
         /\ \A i \in DOMAIN lines : i \in Recognised(lines, payments)
                                    <=> Together(Recognised(lines, payments), i, lines, payments)
<1> DEFINE Picked(known) ==
        \A i \in DOMAIN lines : i \in known <=> Together(known, i, lines, payments)
<1>1. \E known \in SUBSET DOMAIN lines : Picked(known)
  BY SomeRecognised
<1>2. Recognised(lines, payments) = CHOOSE known \in SUBSET DOMAIN lines : Picked(known)
  BY DEF Recognised, Together
<1> HIDE DEF Picked
<1>3. /\ Recognised(lines, payments) \in SUBSET DOMAIN lines
      /\ Picked(Recognised(lines, payments))
  BY <1>1, <1>2
<1> QED BY <1>3 DEF Picked

\* Of equal lines, the earlier ones are recognised first.
LEMMA TwinsInOrder ==
  ASSUME NEW lines \in Seq(Keys), NEW payments,
         NEW j \in Recognised(lines, payments), NEW i \in DOMAIN lines, i < j, lines[i] = lines[j]
  PROVE  i \in Recognised(lines, payments)
<1> DEFINE R == Recognised(lines, payments)
           before(n) == {h \in R : h < n}
<1>1. R \in SUBSET DOMAIN lines /\ j \in DOMAIN lines /\ Together(R, j, lines, payments)
      /\ DOMAIN lines = 1..Len(lines)
  BY RecognisedIs
<1> HIDE DEF R
<1>2. PICK use \in Injection(before(j) \cup {j}, DOMAIN payments) :
          \A h \in before(j) \cup {j} : Answers(payments[use[h]], lines[h])
  BY <1>1 DEF Together, Coverable
<1> DEFINE mine == [h \in before(i) \cup {i} |-> IF h = i THEN use[j] ELSE use[h]]
<1>3. before(i) \subseteq before(j) /\ j \notin before(i) /\ i \notin before(i) /\ j # i
  BY <1>1
<1>4. mine \in Injection(before(i) \cup {i}, DOMAIN payments)
  BY <1>2, <1>3 DEF Injection, IsInjective
<1>5. \A h \in before(i) \cup {i} : Answers(payments[mine[h]], lines[h])
  BY <1>2, <1>3
<1>6. Together(R, i, lines, payments)
  BY <1>4, <1>5 DEF Together, Coverable
<1> QED BY <1>6, RecognisedIs DEF R

(***************************************************************************)
(* Counting.                                                               *)
(***************************************************************************)
\* The n-th of some numbers has n before it.
LEMMA EachRank ==
  ASSUME NEW T \in SUBSET Nat, IsFiniteSet(T)
  PROVE  /\ Cardinality(T) \in Nat
         /\ \A r \in T : Cardinality({q \in T : q < r}) \in 0..(Cardinality(T) - 1)
         /\ \A n \in Nat : n < Cardinality(T) => \E r \in T : Cardinality({q \in T : q < r}) = n
<1> DEFINE below(r) == {q \in T : q < r}
           rank == [r \in T |-> Cardinality(below(r))]
           N == Cardinality(T)
<1>1. N \in Nat
  BY FS_CardinalityType
<1>2. ASSUME NEW r \in T
      PROVE  IsFiniteSet(below(r)) /\ Cardinality(below(r)) \in 0..(N - 1)
  <2>1. below(r) \in SUBSET T /\ below(r) # T
    BY <1>2
  <2>2. IsFiniteSet(below(r)) /\ Cardinality(below(r)) <= N /\ Cardinality(below(r)) # N
    BY <2>1, FS_Subset
  <2>3. Cardinality(below(r)) \in Nat
    BY <2>2, FS_CardinalityType
  <2> QED BY <1>1, <2>2, <2>3
<1>3. ASSUME NEW r \in T, NEW s \in T, r < s
      PROVE  rank[r] # rank[s]
  <2>1. below(r) \in SUBSET below(s) /\ below(r) # below(s)
    <3>1. r \in below(s) /\ r \notin below(r)
      BY <1>3
    <3>2. \A q \in T : q < r => q < s
      BY <1>3
    <3> QED BY <3>1, <3>2
  <2>2. IsFiniteSet(below(s))
    BY <1>2
  <2> HIDE DEF below
  <2>3. Cardinality(below(s)) # Cardinality(below(r))
    BY <2>1, <2>2, FS_Subset
  <2> QED BY <2>3
<1>4. rank \in Injection(T, 0..(N - 1))
  <2>1. rank \in [T -> 0..(N - 1)]
    BY <1>2
  <2>2. \A r, s \in T : rank[r] = rank[s] => r = s
    <3>1. \A r, s \in T : r < s \/ s < r \/ r = s
      OBVIOUS
    <3> HIDE DEF rank
    <3> QED BY <1>3, <3>1
  <2> HIDE DEF rank
  <2> QED BY <2>1, <2>2 DEF Injection, IsInjective
<1>5. IsFiniteSet(0..(N - 1)) /\ Cardinality(0..(N - 1)) = N
  <2> HIDE DEF N
  <2>1. 0 \in Int /\ N - 1 \in Int /\ ~(0 > N - 1 /\ N > 0) /\ (0 > N - 1 => N = 0) /\ N - 1 - 0 + 1 = N
    BY <1>1
  <2> QED BY <2>1, FS_Interval
<1>6. rank \in Surjection(T, 0..(N - 1))
  <2> HIDE DEF rank, N
  <2>1. N = Cardinality(T)
    BY DEF N
  <2> QED BY <1>4, <1>5, <2>1, FS_Injection
<1>7. ASSUME NEW n \in Nat, n < N
      PROVE  \E r \in T : Cardinality(below(r)) = n
  <2>1. n \in 0..(N - 1)
    BY <1>1, <1>7
  <2>2. \E r \in T : rank[r] = n
    BY <1>6, <2>1 DEF Surjection
  <2> QED BY <2>2
<1> QED BY <1>1, <1>2, <1>7

(***************************************************************************)
(* The invariant.                                                          *)
(***************************************************************************)
MatchTypeOK ==
    /\ existing \in Seq(Stored) /\ incoming \in Seq(Keys)
    /\ line \in 1..Len(incoming) + 2
    /\ assigned \in [DOMAIN existing -> Keys \cup {None}]
    /\ trail \in Seq(DOMAIN existing) /\ visited \in SUBSET Keys

\* Payments are assigned to keys they answer to.
AssignedAnswer == \A i \in DOMAIN existing : assigned[i] # None => i \in Candidates(assigned[i])

\* The calls on the stack are for different keys, each waits for a payment its key
\* could have, and that payment's key is what the next call is for.
Calls == 1..Len(trail) + 1
TrailLeads ==
    /\ ~Searching => trail = <<>>
    /\ Searching => /\ \A n \in Calls : KeyOf(n) \in Keys
                    /\ \A n \in DOMAIN trail : trail[n] \in Candidates(KeyOf(n)) /\ KeyOf(n) \in visited
                    /\ \A m, n \in Calls : KeyOf(m) = KeyOf(n) => m = n

\* What a visited key could have is taken by visited keys, but for the keys of
\* calls that have not returned.
VisitedClosed ==
    Searching =>
        \A k \in visited : \A i \in Candidates(k) :
            /\ assigned[i] # None
            /\ assigned[i] \in visited \/ \E n \in Calls : KeyOf(n) = k

\* The payments taken are those of the lines that had to be recognised so far.
Serves(use, known, to) ==
    /\ use \in Injection(known, DOMAIN existing)
    /\ \A j \in known : to[use[j]] = incoming[j]
    /\ \A i \in DOMAIN existing : to[i] # None => \E j \in known : use[j] = i
Before(n) == {j \in Recognised(incoming, existing) : j < n}
LinesServed == \E use : Serves(use, Before(line), assigned)

MatchInv == /\ MatchTypeOK /\ AssignedAnswer /\ TrailLeads /\ VisitedClosed /\ LinesServed
            /\ MatchesAreRecognised

(***************************************************************************)
(* The steps of a search.                                                  *)
(***************************************************************************)
\* The least of some payments is one of them.
LEMMA MinIsOne ==
  ASSUME NEW S \in SUBSET Nat, S # {}
  PROVE  Min(S) \in S
<1>1. \E n \in S : \A m \in S : n <= m
  BY LeastNumber
<1> QED BY <1>1 DEF Min

\* The payments on the path are taken by different keys.
LEMMA TrailIs ==
  ASSUME MatchInv, Searching
  PROVE  /\ Len(trail) \in Nat /\ DOMAIN trail = 1..Len(trail) /\ DOMAIN existing \in SUBSET Nat
         /\ IsFiniteSet(DOMAIN existing)
         /\ \A n \in DOMAIN trail : /\ trail[n] \in DOMAIN existing
                                    /\ assigned[trail[n]] = KeyOf(n + 1)
                                    /\ assigned[trail[n]] \in Keys
         /\ \A m, n \in DOMAIN trail : trail[m] = trail[n] => m = n
         /\ Key \in Keys /\ Key = KeyOf(Len(trail) + 1)
<1>1. /\ Len(trail) \in Nat /\ DOMAIN trail = 1..Len(trail)
      /\ DOMAIN existing = 1..Len(existing) /\ Len(existing) \in Nat
  BY DEF MatchInv, MatchTypeOK
<1>2. IsFiniteSet(DOMAIN existing)
  BY <1>1, FS_Interval
<1>3. ASSUME NEW n \in DOMAIN trail
      PROVE  /\ trail[n] \in DOMAIN existing
             /\ assigned[trail[n]] = KeyOf(n + 1)
             /\ assigned[trail[n]] \in Keys
  <2>1. n + 1 \in Calls /\ n + 1 # 1 /\ (n + 1) - 1 = n
    BY <1>1 DEF Calls
  <2> QED BY <2>1, <1>1 DEF KeyOf, MatchInv, MatchTypeOK, TrailLeads
<1>4. ASSUME NEW m \in DOMAIN trail, NEW n \in DOMAIN trail, trail[m] = trail[n]
      PROVE  m = n
  <2>1. m + 1 \in Calls /\ n + 1 \in Calls /\ KeyOf(m + 1) = KeyOf(n + 1)
    BY <1>1, <1>3, <1>4 DEF Calls
  <2>2. m + 1 = n + 1
    BY <2>1 DEF MatchInv, TrailLeads
  <2> QED BY <1>1, <2>2
<1>5. Key \in Keys
  <2>1. Len(trail) + 1 \in Calls
    BY <1>1 DEF Calls
  <2> QED BY <2>1 DEF Key, MatchInv, TrailLeads
<1> QED BY <1>1, <1>2, <1>3, <1>4, <1>5 DEF Key

\* The n-th payment of the path with the free one at its end, which the n-th call takes.
Taken(n) == IF n = Len(trail) + 1 THEN Min(Free) ELSE trail[n]

\* Every call on the stack takes its payment, and nothing else changes.
LEMMA CallsTake ==
  ASSUME MatchInv, TakeFree
  PROVE  /\ \A n \in Calls : /\ Taken(n) \in Candidates(KeyOf(n))
                             /\ assigned'[Taken(n)] = KeyOf(n)
         /\ \A m, n \in Calls : Taken(m) = Taken(n) => m = n
         /\ \A n \in DOMAIN trail : Taken(n) = trail[n]
         /\ assigned[Taken(Len(trail) + 1)] = None
         /\ \A i \in DOMAIN existing : (\A n \in Calls : Taken(n) # i) => assigned'[i] = assigned[i]
<1> DEFINE L == Len(trail)
           free == Min(Free)
<1>1. Searching /\ Free # {}
  BY DEF TakeFree
<1>2. /\ L \in Nat /\ DOMAIN trail = 1..L /\ DOMAIN existing \in SUBSET Nat
      /\ \A n \in DOMAIN trail : /\ trail[n] \in DOMAIN existing
                                 /\ assigned[trail[n]] = KeyOf(n + 1)
                                 /\ assigned[trail[n]] \in Keys
      /\ \A m, n \in DOMAIN trail : trail[m] = trail[n] => m = n
      /\ Key \in Keys /\ Key = KeyOf(L + 1)
  BY <1>1, TrailIs
<1>3. free \in Free
  BY <1>1, <1>2, MinIsOne DEF Free, Candidates
<1>4. free \in Candidates(Key) /\ assigned[free] = None /\ free \in DOMAIN existing
  BY <1>3 DEF Free, Candidates
<1>5. \A n \in DOMAIN trail : trail[n] # free /\ Taken(n) = trail[n]
  BY <1>2, <1>4, NoneIsNoKey DEF Taken
<1>6. Taken(L + 1) = free /\ Calls = DOMAIN trail \cup {L + 1} /\ L + 1 \notin DOMAIN trail
  BY <1>2 DEF Taken, Calls
<1>7. assigned' = [i \in DOMAIN existing |->
                      IF i = free THEN Key
                      ELSE IF \E n \in DOMAIN trail : trail[n] = i
                           THEN KeyOf(CHOOSE n \in DOMAIN trail : trail[n] = i)
                           ELSE assigned[i]]
  BY DEF TakeFree
<1> HIDE DEF free, L
<1>8. assigned'[free] = KeyOf(L + 1)
  BY <1>2, <1>4, <1>7
<1>9. ASSUME NEW n \in DOMAIN trail
      PROVE  assigned'[trail[n]] = KeyOf(n) /\ trail[n] \in Candidates(KeyOf(n))
  <2>1. (CHOOSE m \in DOMAIN trail : trail[m] = trail[n]) = n
    BY <1>2
  <2>2. assigned'[trail[n]] = KeyOf(n)
    BY <1>2, <1>5, <1>7, <2>1
  <2> QED BY <2>2, <1>1 DEF MatchInv, TrailLeads
<1>10. ASSUME NEW i \in DOMAIN existing, \A n \in Calls : Taken(n) # i
       PROVE  assigned'[i] = assigned[i]
  BY <1>5, <1>6, <1>7, <1>10
<1>11. \A n \in Calls : Taken(n) \in Candidates(KeyOf(n)) /\ assigned'[Taken(n)] = KeyOf(n)
  BY <1>2, <1>4, <1>5, <1>6, <1>8, <1>9
<1>12. \A m, n \in Calls : Taken(m) = Taken(n) => m = n
  BY <1>2, <1>5, <1>6
<1> QED BY <1>4, <1>5, <1>6, <1>10, <1>11, <1>12 DEF L

\* The lines served before are served still, and the line that was searched for
\* with them.
LEMMA OneMoreServed ==
  ASSUME MatchInv, TakeFree
  PROVE  \E use : Serves(use, Before(line) \cup {line}, assigned')
<1> DEFINE known == Before(line)
           L == Len(trail)
<1>1. PICK use : Serves(use, known, assigned)
  BY DEF MatchInv, LinesServed
<1>2. /\ \A n \in Calls : Taken(n) \in Candidates(KeyOf(n)) /\ assigned'[Taken(n)] = KeyOf(n)
      /\ \A m, n \in Calls : Taken(m) = Taken(n) => m = n
      /\ \A n \in DOMAIN trail : Taken(n) = trail[n]
      /\ assigned[Taken(L + 1)] = None
      /\ \A i \in DOMAIN existing : (\A n \in Calls : Taken(n) # i) => assigned'[i] = assigned[i]
  BY CallsTake
<1>3. /\ L \in Nat /\ DOMAIN trail = 1..L
      /\ \A n \in DOMAIN trail : /\ trail[n] \in DOMAIN existing
                                 /\ assigned[trail[n]] = KeyOf(n + 1)
                                 /\ assigned[trail[n]] \in Keys
  BY TrailIs DEF TakeFree
<1>4. \A n \in Calls : Taken(n) \in DOMAIN existing
  BY <1>2 DEF Candidates
<1>5. 1 \in Calls /\ KeyOf(1) = incoming[line] /\ (\A n \in DOMAIN trail : n \in Calls /\ n + 1 \in Calls)
      /\ (\A n \in Calls : n # 1 => n - 1 \in DOMAIN trail /\ (n - 1) + 1 = n)
      /\ (\A n \in Calls : n \in DOMAIN trail \/ n = L + 1)
      /\ (\A n \in DOMAIN trail : n + 1 # 1)
      /\ (\A m, n \in DOMAIN trail : m + 1 = n + 1 => m = n)
  BY <1>3 DEF Calls, KeyOf
<1>6. line \notin known /\ \A j \in known : incoming[j] \in Keys
  <2>1. incoming \in Seq(Keys)
    BY DEF MatchInv, MatchTypeOK
  <2> QED BY <2>1, RecognisedIs DEF Before, MatchInv, MatchTypeOK
<1> HIDE DEF known, L
<1> DEFINE onTrail(j) == \E n \in DOMAIN trail : trail[n] = use[j]
           at(j) == CHOOSE n \in DOMAIN trail : trail[n] = use[j]
           now == [j \in known \cup {line} |->
                      IF j = line THEN Taken(1) ELSE IF onTrail(j) THEN Taken(at(j) + 1) ELSE use[j]]
<1>7. /\ use \in [known -> DOMAIN existing]
      /\ \A i, j \in known : use[i] = use[j] => i = j
      /\ \A j \in known : assigned[use[j]] = incoming[j]
      /\ \A i \in DOMAIN existing : assigned[i] # None => \E j \in known : use[j] = i
  BY <1>1 DEF Serves, Injection, IsInjective
<1>8. now[line] = Taken(1)
  OBVIOUS
<1>9. ASSUME NEW j \in known, NEW n \in DOMAIN trail, trail[n] = use[j]
      PROVE  now[j] = Taken(n + 1)
  <2>1. \A m \in DOMAIN trail : trail[m] = use[j] => m = n
    BY <1>2, <1>5, <1>9
  <2>2. at(j) = n
    BY <1>9, <2>1
  <2> QED BY <1>6, <1>9, <2>2
<1>10. ASSUME NEW j \in known, ~onTrail(j)
       PROVE  now[j] = use[j] /\ \A n \in Calls : Taken(n) # use[j]
  <2>1. Taken(L + 1) # use[j]
    BY <1>2, <1>6, <1>7, NoneIsNoKey
  <2>2. \A n \in DOMAIN trail : Taken(n) # use[j]
    BY <1>2, <1>10
  <2> QED BY <1>5, <1>6, <1>10, <2>1, <2>2
<1> HIDE DEF now
<1>11. now \in [known \cup {line} -> DOMAIN existing]
  <2>1. \A j \in known \cup {line} : now[j] \in DOMAIN existing
    BY <1>4, <1>5, <1>7, <1>8, <1>9, <1>10
  <2> QED BY <2>1 DEF now
<1>12. ASSUME NEW j \in known \cup {line}
       PROVE  assigned'[now[j]] = incoming[j]
  <2>1. CASE j = line
    BY <1>2, <1>5, <1>8, <2>1
  <2>2. ASSUME j \in known, NEW n \in DOMAIN trail, trail[n] = use[j]
        PROVE  assigned'[now[j]] = incoming[j]
    <3>1. now[j] = Taken(n + 1) /\ n + 1 \in Calls
      BY <1>5, <1>9, <2>2
    <3>2. assigned'[now[j]] = KeyOf(n + 1)
      BY <1>2, <3>1
    <3>3. KeyOf(n + 1) = assigned[use[j]]
      BY <1>3, <2>2
    <3> QED BY <1>7, <2>2, <3>2, <3>3
  <2>3. CASE j \in known /\ ~onTrail(j)
    BY <1>2, <1>7, <1>10, <2>3
  <2> QED BY <2>1, <2>2, <2>3
<1>13. ASSUME NEW i \in known \cup {line}, NEW j \in known \cup {line}, now[i] = now[j]
       PROVE  i = j
  <2>1. \A h \in known : onTrail(h) => now[h] # Taken(1) /\ \E n \in Calls : now[h] = Taken(n)
    BY <1>2, <1>5, <1>9
  <2>2. \A h \in known : ~onTrail(h) => \A n \in Calls : now[h] # Taken(n)
    BY <1>10
  <2>3. CASE i = line \/ j = line
    BY <1>5, <1>8, <1>13, <2>1, <2>2, <2>3
  <2>4. CASE i \in known /\ j \in known /\ onTrail(i) /\ onTrail(j)
    <3>1. PICK m \in DOMAIN trail, n \in DOMAIN trail : trail[m] = use[i] /\ trail[n] = use[j]
      BY <2>4
    <3>2. Taken(m + 1) = Taken(n + 1)
      BY <1>9, <1>13, <2>4, <3>1
    <3>3. m = n
      BY <1>2, <1>5, <3>2
    <3> QED BY <1>7, <2>4, <3>1, <3>3
  <2>5. CASE i \in known /\ j \in known /\ ~onTrail(i) /\ ~onTrail(j)
    BY <1>7, <1>10, <1>13, <2>5
  <2>6. CASE i \in known /\ j \in known /\ ~(onTrail(i) <=> onTrail(j))
    BY <1>13, <2>1, <2>2, <2>6
  <2> QED BY <2>3, <2>4, <2>5, <2>6
<1>14. ASSUME NEW i \in DOMAIN existing, assigned'[i] # None
       PROVE  \E j \in known \cup {line} : now[j] = i
  <2>1. CASE i = Taken(1)
    BY <1>8, <2>1
  <2>2. ASSUME NEW n \in Calls, n # 1, i = Taken(n)
        PROVE  \E j \in known : now[j] = i
    <3>1. n - 1 \in DOMAIN trail /\ (n - 1) + 1 = n
      BY <1>5, <2>2
    <3>2. PICK j \in known : use[j] = trail[n - 1]
      BY <1>3, <1>7, <3>1, NoneIsNoKey
    <3> QED BY <1>9, <2>2, <3>1, <3>2
  <2>3. CASE \A n \in Calls : Taken(n) # i
    <3>1. assigned[i] # None
      BY <1>2, <1>14, <2>3
    <3>2. PICK j \in known : use[j] = i
      BY <1>7, <3>1
    <3>3. ~onTrail(j)
      BY <1>2, <1>5, <2>3, <3>2
    <3> QED BY <1>10, <3>2, <3>3
  <2> QED BY <2>1, <2>2, <2>3
<1>15. Serves(now, known \cup {line}, assigned')
  BY <1>11, <1>12, <1>13, <1>14 DEF Serves, Injection, IsInjective
<1> QED BY <1>15 DEF known

\* A set that covers a line with those recognised before makes it recognised.
LEMMA ServedAreRecognised ==
  ASSUME MatchInv, Searching, NEW use, NEW to, Serves(use, Before(line) \cup {line}, to),
         \A i \in DOMAIN existing : to[i] # None => i \in Candidates(to[i])
  PROVE  Before(line + 1) = Before(line) \cup {line}
<1> DEFINE R == Recognised(incoming, existing)
<1>1. incoming \in Seq(Keys) /\ line \in DOMAIN incoming /\ DOMAIN incoming \in SUBSET Nat
  BY DEF MatchInv, MatchTypeOK, Searching
<1>2. R \in SUBSET DOMAIN incoming /\ (Together(R, line, incoming, existing) => line \in R)
  BY <1>1, RecognisedIs
<1>3. \A j \in Before(line) \cup {line} : j \in DOMAIN incoming /\ incoming[j] \in Keys
  BY <1>1, <1>2 DEF Before
<1>4. \A j \in Before(line) \cup {line} : Answers(existing[use[j]], incoming[j])
  BY <1>3, NoneIsNoKey DEF Serves, Injection, Candidates
<1>5. Coverable(Before(line) \cup {line}, incoming, existing)
  BY <1>4 DEF Serves, Coverable
<1>6. line \in R
  BY <1>2, <1>5 DEF Together, Before
<1>7. \A j \in R : j < line + 1 <=> j < line \/ j = line
  BY <1>1, <1>2
<1> QED BY <1>6, <1>7 DEF Before

\* The next search starts with nothing visited.
LEMMA NextLineStarts ==
  ASSUME MatchInv, Searching, NextLine, UNCHANGED <<existing, incoming, matched>>
  PROVE  /\ line' \in 1..Len(incoming') + 2 /\ trail' \in Seq(DOMAIN existing') /\ visited' \in SUBSET Keys
         /\ TrailLeads' /\ VisitedClosed' /\ MatchesAreRecognised'
<1>1. /\ incoming \in Seq(Keys) /\ Len(incoming) \in Nat /\ line \in 1..Len(incoming)
      /\ trail' = <<>> /\ visited' = {} /\ line' = line + 1 /\ line' \in 1..Len(incoming) + 1
  BY DEF MatchInv, MatchTypeOK, Searching, NextLine
<1>2. Calls' = {1} /\ DOMAIN trail' = {} /\ KeyOf(1)' = incoming[line']
  BY <1>1 DEF Calls, KeyOf
<1>3. TrailLeads'
  BY <1>1, <1>2 DEF TrailLeads, Searching
<1> QED BY <1>1, <1>3 DEF VisitedClosed, MatchesAreRecognised

\* A search that succeeds serves its line (assign returns true).
LEMMA TakeFreeKeeps ==
  ASSUME MatchInv, TakeFree
  PROVE  MatchInv'
<1>1. Searching /\ NextLine /\ UNCHANGED <<existing, incoming, matched>>
  BY DEF TakeFree
<1>2. /\ \A n \in Calls : Taken(n) \in Candidates(KeyOf(n)) /\ assigned'[Taken(n)] = KeyOf(n)
      /\ \A i \in DOMAIN existing : (\A n \in Calls : Taken(n) # i) => assigned'[i] = assigned[i]
  BY CallsTake
<1>3. assigned' = [i \in DOMAIN existing |-> assigned'[i]]
  BY DEF TakeFree
<1>4. \A n \in Calls : KeyOf(n) \in Keys
  BY <1>1 DEF MatchInv, TrailLeads
<1>5. ASSUME NEW i \in DOMAIN existing
      PROVE  assigned'[i] \in Keys \cup {None} /\ (assigned'[i] # None => i \in Candidates(assigned'[i]))
  <2>1. CASE \E n \in Calls : Taken(n) = i
    BY <1>2, <1>4, <2>1
  <2>2. CASE \A n \in Calls : Taken(n) # i
    BY <1>2, <2>2 DEF MatchInv, MatchTypeOK, AssignedAnswer
  <2> QED BY <2>1, <2>2
<1>6. assigned' \in [DOMAIN existing' -> Keys \cup {None}]
  BY <1>1, <1>3, <1>5
<1>7. MatchTypeOK'
  <2>1. existing' \in Seq(Stored) /\ incoming' \in Seq(Keys)
    BY <1>1 DEF MatchInv, MatchTypeOK
  <2> QED BY <1>1, <1>6, <2>1, NextLineStarts DEF MatchTypeOK
<1>8. AssignedAnswer'
  BY <1>1, <1>5 DEF AssignedAnswer, Candidates
<1>9. PICK use : Serves(use, Before(line) \cup {line}, assigned')
  BY OneMoreServed
<1>10. Before(line + 1) = Before(line) \cup {line}
  BY <1>1, <1>5, <1>9, ServedAreRecognised
<1>11. LinesServed'
  <2>1. Before(line)' = Before(line + 1)
    BY <1>1 DEF Before, NextLine
  <2>2. Serves(use, Before(line)', assigned')
    BY <1>9, <1>10, <2>1
  <2>3. Serves(use, Before(line), assigned)'
    BY <1>1, <2>2 DEF Serves
  <2> QED BY <2>3 DEF LinesServed
<1> QED BY <1>1, <1>7, <1>8, <1>11, NextLineStarts DEF MatchInv

\* A search assigns nothing before it succeeds.
LEMMA SameAssignment ==
  ASSUME MatchInv, UNCHANGED <<existing, incoming, line, assigned, matched>>
  PROVE  AssignedAnswer' /\ LinesServed' /\ MatchesAreRecognised'
<1>1. AssignedAnswer'
  BY DEF MatchInv, AssignedAnswer, Candidates
<1>2. PICK use : Serves(use, Before(line), assigned)
  BY DEF MatchInv, LinesServed
<1>3. Before(line)' = Before(line)
  BY DEF Before
<1>4. Serves(use, Before(line)', assigned')
  BY <1>2, <1>3
<1>5. Serves(use, Before(line), assigned)'
  BY <1>4 DEF Serves
<1>6. LinesServed'
  BY <1>5 DEF LinesServed
<1>7. MatchesAreRecognised'
  BY DEF MatchInv, MatchesAreRecognised
<1> QED BY <1>1, <1>6, <1>7

\* A further call visits a key no call on the stack is for (assign calls itself).
LEMMA DisplaceKeeps ==
  ASSUME MatchInv, Displace
  PROVE  MatchInv'
<1>0. PICK L : L = Len(trail)
  OBVIOUS
<1> DEFINE next == Min(Movable(Key))
<1>1. /\ Searching /\ Free = {} /\ Movable(Key) # {}
      /\ trail' = Append(trail, next) /\ visited' = visited \cup {Key}
      /\ UNCHANGED <<existing, incoming, line, assigned, matched>>
  BY DEF Displace
<1>2. /\ L \in Nat /\ DOMAIN trail = 1..L /\ DOMAIN existing \in SUBSET Nat
      /\ Key \in Keys /\ Key = KeyOf(L + 1)
  BY <1>0, <1>1, TrailIs
<1>3. next \in Movable(Key)
  BY <1>1, <1>2, MinIsOne DEF Movable, Candidates
<1>4. next \in DOMAIN existing /\ next \in Candidates(Key) /\ assigned[next] \notin visited \cup {Key}
  BY <1>3 DEF Movable, Candidates
<1>5. assigned[next] \in Keys
  BY <1>1, <1>4 DEF Free, MatchInv, MatchTypeOK
<1> HIDE DEF next
<1>6. /\ trail \in Seq(DOMAIN existing) /\ trail' \in Seq(DOMAIN existing)
      /\ Len(trail') = L + 1 /\ DOMAIN trail' = 1..L + 1
      /\ \A n \in 1..L : trail'[n] = trail[n]
      /\ trail'[L + 1] = next
  <2>1. trail \in Seq(DOMAIN existing)
    BY DEF MatchInv, MatchTypeOK
  <2> QED BY <1>0, <1>1, <1>4, <2>1
<1>7. Calls = 1..L + 1 /\ Calls' = 1..L + 2 /\ Calls' = Calls \cup {L + 2} /\ L + 2 \notin Calls
  BY <1>0, <1>2, <1>6 DEF Calls
<1>8. \A n \in Calls : KeyOf(n)' = KeyOf(n)
  <2>1. \A n \in Calls : n # 1 => n - 1 \in 1..L
    BY <1>2, <1>7
  <2> QED BY <1>1, <1>6, <2>1 DEF KeyOf
<1>9. KeyOf(L + 2)' = assigned[next]
  <2>1. L + 2 # 1 /\ (L + 2) - 1 = L + 1
    BY <1>2
  <2> QED BY <1>1, <1>6, <2>1 DEF KeyOf
<1>10. /\ \A n \in Calls : KeyOf(n) \in Keys
       /\ \A n \in DOMAIN trail : trail[n] \in Candidates(KeyOf(n)) /\ KeyOf(n) \in visited
       /\ \A m, n \in Calls : KeyOf(m) = KeyOf(n) => m = n
  BY <1>1 DEF MatchInv, TrailLeads
<1>11. \A n \in Calls : KeyOf(n) \in visited \cup {Key} /\ (n \in DOMAIN trail \/ n = L + 1)
  BY <1>2, <1>7, <1>10
<1>12. TrailLeads'
  <2>1. \A n \in Calls' : KeyOf(n)' \in Keys
    BY <1>5, <1>7, <1>8, <1>9, <1>10
  <2>2. ASSUME NEW n \in DOMAIN trail'
        PROVE  trail'[n] \in Candidates(KeyOf(n))' /\ KeyOf(n)' \in visited'
    <3>1. n \in Calls /\ KeyOf(n)' = KeyOf(n) /\ Candidates(KeyOf(n))' = Candidates(KeyOf(n))
      BY <1>1, <1>6, <1>7, <1>8 DEF Candidates
    <3>2. CASE n \in DOMAIN trail
      BY <1>1, <1>2, <1>6, <1>10, <3>1, <3>2
    <3>3. CASE n = L + 1
      BY <1>1, <1>2, <1>4, <1>6, <3>1, <3>3
    <3> QED BY <1>11, <3>1, <3>2, <3>3
  <2>3. ASSUME NEW m \in Calls', NEW n \in Calls', KeyOf(m)' = KeyOf(n)'
        PROVE  m = n
    <3>1. \A k \in Calls : KeyOf(k)' # assigned[next]
      BY <1>4, <1>8, <1>11
    <3> QED BY <1>7, <1>8, <1>9, <1>10, <2>3, <3>1
  <2>4. Searching'
    BY <1>1 DEF Searching
  <2> QED BY <2>1, <2>2, <2>3, <2>4 DEF TrailLeads
<1>13. VisitedClosed'
  <2>1. ASSUME NEW k \in visited', NEW i \in Candidates(k)
        PROVE  /\ assigned[i] # None
               /\ assigned[i] \in visited' \/ \E n \in Calls' : KeyOf(n)' = k
    <3>1. CASE k = Key
      <4>1. assigned[i] # None
        BY <1>1, <2>1, <3>1 DEF Free
      <4> QED BY <1>2, <1>7, <1>8, <3>1, <4>1
    <3>2. CASE k \in visited
      BY <1>1, <1>7, <1>8, <2>1, <3>2 DEF MatchInv, VisitedClosed
    <3> QED BY <1>1, <2>1, <3>1, <3>2
  <2> QED BY <1>1, <2>1 DEF VisitedClosed, Candidates
<1>14. MatchTypeOK'
  BY <1>1, <1>2, <1>6 DEF MatchInv, MatchTypeOK
<1> QED BY <1>1, <1>12, <1>13, <1>14, SameAssignment DEF MatchInv

\* A search in vain has come to keys whose payments are all taken by these keys,
\* one more line than there are payments: no assignment covers them.
LEMMA VainSearch ==
  ASSUME MatchInv, Searching, trail = <<>>, Free = {}, Movable(Key) = {}
  PROVE  Before(line + 1) = Before(line)
<1> DEFINE R == Recognised(incoming, existing)
           known == Before(line)
           keys == visited \cup {Key}
           lines == {j \in known : incoming[j] \in keys}
           taken == {i \in DOMAIN existing : assigned[i] \in keys}
<1>1. /\ incoming \in Seq(Keys) /\ line \in DOMAIN incoming /\ DOMAIN incoming \in SUBSET Nat
  BY DEF MatchInv, MatchTypeOK, Searching
<1>2. R \in SUBSET DOMAIN incoming /\ (line \in R => Together(R, line, incoming, existing))
  BY <1>1, RecognisedIs
<1>3. Key = incoming[line] /\ Key \in Keys /\ IsFiniteSet(DOMAIN existing) /\ keys \in SUBSET Keys
      /\ Calls = {1} /\ KeyOf(1) = Key
  <2>1. Key \in Keys /\ IsFiniteSet(DOMAIN existing) /\ Len(trail) = 0
    BY TrailIs
  <2>2. visited \in SUBSET Keys
    BY DEF MatchInv, MatchTypeOK
  <2> QED BY <2>1, <2>2 DEF Key, KeyOf, Calls
<1>4. ASSUME NEW k \in keys, NEW i \in Candidates(k)
      PROVE  assigned[i] \in keys
  <2>1. CASE k = Key
    BY <1>4, <2>1 DEF Movable
  <2>2. CASE k \in visited /\ k # Key
    BY <1>3, <1>4, <2>2 DEF MatchInv, VisitedClosed
  <2> QED BY <2>1, <2>2
<1>5. PICK use : Serves(use, known, assigned)
  BY DEF MatchInv, LinesServed
<1>6. /\ use \in [known -> DOMAIN existing]
      /\ \A i, j \in known : use[i] = use[j] => i = j
      /\ \A j \in known : assigned[use[j]] = incoming[j]
      /\ \A i \in DOMAIN existing : assigned[i] # None => \E j \in known : use[j] = i
  BY <1>5 DEF Serves, Injection, IsInjective
<1>7. line \notin known /\ known \subseteq R
  BY <1>1 DEF Before
<1>8. IsFiniteSet(taken)
  BY <1>3, FS_Subset
<1> HIDE DEF known
<1>9. IsFiniteSet(lines) /\ Cardinality(lines) = Cardinality(taken)
  <2> DEFINE own == [j \in lines |-> use[j]]
  <2>1. own \in Injection(lines, taken)
    BY <1>6 DEF Injection, IsInjective
  <2>2. ASSUME NEW i \in taken
        PROVE  \E j \in lines : own[j] = i
    <3>1. assigned[i] # None
      BY <1>3, NoneIsNoKey
    <3>2. PICK j \in known : use[j] = i
      BY <1>6, <3>1
    <3> QED BY <1>6, <3>2
  <2>3. own \in Surjection(lines, taken)
    BY <2>1, <2>2 DEF Injection, Surjection
  <2> HIDE DEF own, lines, taken
  <2> QED BY <1>8, <2>1, <2>3, FS_Injection
<1>10. ASSUME line \in R
       PROVE  FALSE
  <2>1. PICK cover \in Injection(known \cup {line}, DOMAIN existing) :
            \A j \in known \cup {line} : Answers(existing[cover[j]], incoming[j])
    BY <1>2, <1>10 DEF Together, Coverable, known, Before
  <2> DEFINE part == [j \in lines \cup {line} |-> cover[j]]
  <2>2. ASSUME NEW j \in lines \cup {line}
        PROVE  cover[j] \in taken
    <3>1. incoming[j] \in keys /\ j \in known \cup {line}
      BY <1>3
    <3>2. cover[j] \in Candidates(incoming[j])
      BY <2>1, <3>1 DEF Injection, Candidates
    <3>3. cover[j] \in DOMAIN existing
      BY <2>1, <3>1 DEF Injection
    <3> QED BY <1>4, <3>1, <3>2, <3>3
  <2>3. part \in Injection(lines \cup {line}, taken)
    BY <2>1, <2>2 DEF Injection, IsInjective
  <2>4. line \notin lines
    BY <1>7
  <2> HIDE DEF part, lines, taken
  <2>5. Cardinality(lines \cup {line}) <= Cardinality(taken)
    BY <1>8, <2>3, FS_Injection
  <2>6. Cardinality(lines \cup {line}) = Cardinality(lines) + 1
    BY <1>9, <2>4, FS_AddElement
  <2>7. Cardinality(lines) \in Nat
    BY <1>9, FS_CardinalityType
  <2> QED BY <1>9, <2>5, <2>6, <2>7
<1>11. \A j \in R : j < line + 1 <=> j < line \/ j = line
  BY <1>1, <1>2
<1> QED BY <1>10, <1>11 DEF Before

\* A call that returns false leaves a key whose payments are all taken by visited keys.
LEMMA GiveUpKeeps ==
  ASSUME MatchInv, GiveUp
  PROVE  MatchInv'
<1>1. /\ Searching /\ Free = {} /\ Movable(Key) = {}
      /\ UNCHANGED <<existing, incoming, assigned, matched>>
  BY DEF GiveUp
<1>2. CASE trail = <<>>
  <2>1. NextLine
    BY <1>2 DEF GiveUp
  <2>2. AssignedAnswer'
    BY <1>1 DEF MatchInv, AssignedAnswer, Candidates
  <2>3. PICK use : Serves(use, Before(line), assigned)
    BY DEF MatchInv, LinesServed
  <2>4. Before(line)' = Before(line)
    <3>1. Before(line)' = Before(line + 1)
      BY <1>1, <2>1 DEF Before, NextLine
    <3> QED BY <1>1, <1>2, <3>1, VainSearch
  <2>5. Serves(use, Before(line)', assigned')
    BY <1>1, <2>3, <2>4
  <2>6. Serves(use, Before(line), assigned)'
    BY <1>1, <2>5 DEF Serves
  <2>7. LinesServed'
    BY <2>6 DEF LinesServed
  <2>8. /\ existing' \in Seq(Stored) /\ incoming' \in Seq(Keys)
        /\ assigned' \in [DOMAIN existing' -> Keys \cup {None}]
    BY <1>1 DEF MatchInv, MatchTypeOK
  <2> QED BY <1>1, <2>1, <2>2, <2>7, <2>8, NextLineStarts DEF MatchInv, MatchTypeOK
<1>3. CASE trail # <<>>
  <2>0. PICK L : L = Len(trail)
    OBVIOUS
  <2>1. /\ L \in Nat /\ DOMAIN trail = 1..L /\ DOMAIN existing \in SUBSET Nat
        /\ Key \in Keys /\ Key = KeyOf(L + 1)
    BY <1>1, <2>0, TrailIs
  <2>2. trail \in Seq(DOMAIN existing) /\ L \in Nat \ {0}
    BY <1>3, <2>0 DEF MatchInv, MatchTypeOK
  <2>3. /\ trail' = SubSeq(trail, 1, L - 1) /\ visited' = visited \cup {Key} /\ line' = line
    BY <1>3, <2>0 DEF GiveUp, Front
  <2>4. /\ trail' \in Seq(DOMAIN existing) /\ Len(trail') = L - 1 /\ DOMAIN trail' = 1..L - 1
        /\ \A n \in 1..L - 1 : trail'[n] = trail[n]
    BY <2>0, <2>2, <2>3
  <2>5. Calls = 1..L + 1 /\ Calls' = 1..L /\ Calls = Calls' \cup {L + 1} /\ L + 1 \notin Calls'
    BY <2>0, <2>1, <2>2, <2>4 DEF Calls
  <2>6. \A n \in Calls' : KeyOf(n)' = KeyOf(n)
    <3>1. \A n \in Calls' : n # 1 => n - 1 \in 1..L - 1
      BY <2>1, <2>5
    <3> QED BY <1>1, <2>3, <2>4, <3>1 DEF KeyOf
  <2>7. /\ \A n \in Calls : KeyOf(n) \in Keys
        /\ \A n \in DOMAIN trail : trail[n] \in Candidates(KeyOf(n)) /\ KeyOf(n) \in visited
        /\ \A m, n \in Calls : KeyOf(m) = KeyOf(n) => m = n
    BY <1>1 DEF MatchInv, TrailLeads
  <2>8. TrailLeads'
    <3>1. \A n \in Calls' : KeyOf(n)' \in Keys
      BY <2>5, <2>6, <2>7
    <3>2. ASSUME NEW n \in DOMAIN trail'
          PROVE  trail'[n] \in Candidates(KeyOf(n))' /\ KeyOf(n)' \in visited'
      <4>1. n \in Calls' /\ n \in DOMAIN trail /\ trail'[n] = trail[n]
        BY <2>1, <2>4, <2>5
      <4>2. Candidates(KeyOf(n))' = Candidates(KeyOf(n))
        BY <1>1, <2>6, <4>1 DEF Candidates
      <4> QED BY <2>3, <2>6, <2>7, <4>1, <4>2
    <3>3. \A m, n \in Calls' : KeyOf(m)' = KeyOf(n)' => m = n
      BY <2>5, <2>6, <2>7
    <3>4. Searching'
      BY <1>1, <2>3 DEF Searching
    <3> QED BY <3>1, <3>2, <3>3, <3>4 DEF TrailLeads
  <2>9. VisitedClosed'
    <3>1. ASSUME NEW k \in visited', NEW i \in Candidates(k)
          PROVE  /\ assigned[i] # None
                 /\ assigned[i] \in visited' \/ \E n \in Calls' : KeyOf(n)' = k
      <4>1. CASE k = Key
        <5>1. assigned[i] # None /\ assigned[i] \in visited \cup {Key}
          BY <1>1, <3>1, <4>1 DEF Free, Movable, Candidates
        <5> QED BY <2>3, <5>1
      <4>2. CASE k \in visited /\ k # Key
        <5>1. assigned[i] # None
          BY <1>1, <3>1, <4>2 DEF MatchInv, VisitedClosed
        <5>2. assigned[i] \in visited \/ \E n \in Calls : KeyOf(n) = k
          BY <1>1, <3>1, <4>2 DEF MatchInv, VisitedClosed
        <5>3. \A n \in Calls : KeyOf(n) = k => n \in Calls'
          BY <2>1, <2>5, <4>2
        <5> QED BY <2>3, <2>6, <5>1, <5>2, <5>3
      <4> QED BY <2>3, <3>1, <4>1, <4>2
    <3> QED BY <1>1, <3>1 DEF VisitedClosed, Candidates
  <2>10. MatchTypeOK'
    BY <1>1, <2>1, <2>3, <2>4 DEF MatchInv, MatchTypeOK
  <2> QED BY <1>1, <2>3, <2>8, <2>9, <2>10, SameAssignment DEF MatchInv
<1> QED BY <1>2, <1>3

\* The payments go to the lines of their keys in order, which are the lines that
\* had to be recognised.
LEMMA DistributeKeeps ==
  ASSUME MatchInv, Distribute
  PROVE  MatchInv'
<1> DEFINE R == Recognised(incoming, existing)
           linesOf(k) == {j \in R : incoming[j] = k}
           takenBy(k) == {r \in DOMAIN existing : assigned[r] = k}
           twins(i) == {j \in DOMAIN incoming : j < i /\ incoming[j] = incoming[i]}
<1>1. /\ line = Len(incoming) + 1 /\ line' = line + 1
      /\ matched' = [i \in {j \in DOMAIN incoming : Gets(j) # {}} |-> CHOOSE r \in Gets(i) : TRUE]
      /\ UNCHANGED <<existing, incoming, assigned, trail, visited>>
  BY DEF Distribute
<1>2. /\ incoming \in Seq(Keys) /\ DOMAIN incoming = 1..Len(incoming) /\ Len(incoming) \in Nat
      /\ existing \in Seq(Stored) /\ DOMAIN existing = 1..Len(existing) /\ Len(existing) \in Nat
      /\ assigned \in [DOMAIN existing -> Keys \cup {None}]
  BY DEF MatchInv, MatchTypeOK
<1>3. IsFiniteSet(DOMAIN incoming) /\ IsFiniteSet(DOMAIN existing)
  BY <1>2, FS_Interval
<1>4. R \in SUBSET DOMAIN incoming /\ Before(line) = R
  BY <1>1, <1>2, RecognisedIs DEF Before
<1>5. PICK use : Serves(use, R, assigned)
  BY <1>4 DEF MatchInv, LinesServed
<1>6. /\ use \in [R -> DOMAIN existing]
      /\ \A i, j \in R : use[i] = use[j] => i = j
      /\ \A j \in R : assigned[use[j]] = incoming[j]
      /\ \A i \in DOMAIN existing : assigned[i] # None => \E j \in R : use[j] = i
  BY <1>5 DEF Serves, Injection, IsInjective
<1>7. ASSUME NEW i \in DOMAIN incoming, NEW j \in R, i < j, incoming[i] = incoming[j]
      PROVE  i \in R
  BY <1>2, <1>7, TwinsInOrder
<1> HIDE DEF R
<1>8. ASSUME NEW k \in Keys
      PROVE  /\ IsFiniteSet(takenBy(k)) /\ IsFiniteSet(linesOf(k))
             /\ Cardinality(linesOf(k)) = Cardinality(takenBy(k))
  <2> DEFINE own == [j \in linesOf(k) |-> use[j]]
  <2>1. own \in Injection(linesOf(k), takenBy(k))
    BY <1>6 DEF Injection, IsInjective
  <2>2. ASSUME NEW r \in takenBy(k)
        PROVE  \E j \in linesOf(k) : own[j] = r
    <3>1. PICK j \in R : use[j] = r
      BY <1>6, <1>8, NoneIsNoKey
    <3> QED BY <1>6, <3>1
  <2>3. own \in Surjection(linesOf(k), takenBy(k))
    BY <2>1, <2>2 DEF Injection, Surjection
  <2>4. IsFiniteSet(takenBy(k))
    BY <1>3, FS_Subset
  <2> HIDE DEF own, linesOf, takenBy
  <2> QED BY <2>1, <2>3, <2>4, FS_Injection
<1>9. ASSUME NEW r \in DOMAIN existing
      PROVE  Rank(r) = Cardinality({q \in takenBy(assigned[r]) : q < r})
  <2>1. {q \in takenBy(assigned[r]) : q < r} = {q \in DOMAIN existing : q < r /\ assigned[q] = assigned[r]}
    OBVIOUS
  <2> QED BY <2>1 DEF Rank
<1>10. ASSUME NEW i \in DOMAIN incoming
       PROVE  IsFiniteSet(twins(i)) /\ Place(i) = Cardinality(twins(i)) /\ Place(i) \in Nat
  <2>1. IsFiniteSet(twins(i))
    BY <1>3, FS_Subset
  <2> QED BY <2>1, FS_CardinalityType DEF Place
<1>11. ASSUME NEW i \in DOMAIN incoming
       PROVE  Gets(i) # {} <=> i \in R
  <2> DEFINE k == incoming[i]
             T == takenBy(k)
  <2>1. k \in Keys
    BY <1>2
  <2>2. /\ IsFiniteSet(T) /\ T \in SUBSET Nat /\ Cardinality(T) \in Nat
        /\ Cardinality(linesOf(k)) = Cardinality(T) /\ IsFiniteSet(linesOf(k))
    <3>1. IsFiniteSet(T) /\ IsFiniteSet(linesOf(k)) /\ Cardinality(linesOf(k)) = Cardinality(T)
      <4> HIDE DEF k, takenBy, linesOf
      <4> QED BY <1>8, <2>1
    <3>2. T \in SUBSET Nat
      BY <1>2
    <3> HIDE DEF T
    <3>3. Cardinality(T) \in Nat
      BY <3>1, FS_CardinalityType
    <3> QED BY <3>1, <3>2, <3>3
  <2>3. /\ \A r \in T : Cardinality({q \in T : q < r}) \in 0..(Cardinality(T) - 1)
        /\ \A n \in Nat : n < Cardinality(T) => \E r \in T : Cardinality({q \in T : q < r}) = n
    <3> HIDE DEF T
    <3> QED BY <2>2, EachRank
  <2>4. \A r \in T : r \in DOMAIN existing /\ assigned[r] = k /\ Rank(r) = Cardinality({q \in T : q < r})
    BY <1>9
  <2>5. CASE i \in R
    <3>1. twins(i) \cup {i} \in SUBSET linesOf(k) /\ i \notin twins(i)
      BY <1>2, <1>7, <2>5
    <3>2. Cardinality(twins(i) \cup {i}) = Cardinality(twins(i)) + 1
      <4> HIDE DEF twins
      <4> QED BY <1>10, <3>1, FS_AddElement
    <3>3. Cardinality(twins(i) \cup {i}) <= Cardinality(linesOf(k))
      <4> HIDE DEF twins, linesOf, k
      <4> QED BY <2>2, <3>1, FS_Subset
    <3>4. Place(i) < Cardinality(T)
      <4> HIDE DEF twins, linesOf, k, T
      <4> QED BY <1>10, <2>2, <3>2, <3>3
    <3>5. PICK r \in T : Cardinality({q \in T : q < r}) = Place(i)
      BY <1>10, <2>3, <3>4
    <3>6. r \in Gets(i)
      BY <2>4, <3>5 DEF Gets
    <3> QED BY <2>5, <3>6
  <2>6. CASE i \notin R
    <3>1. linesOf(k) \in SUBSET twins(i)
      <4>1. ASSUME NEW j \in linesOf(k)
            PROVE  j < i
        <5>1. j \in DOMAIN incoming /\ j # i /\ incoming[i] = incoming[j] /\ j \in R
          BY <1>4, <2>6, <4>1
        <5>2. ~(i < j)
          BY <1>7, <2>6, <5>1
        <5> QED BY <1>2, <5>1, <5>2
      <4> QED BY <1>4, <4>1
    <3>2. Cardinality(linesOf(k)) <= Cardinality(twins(i))
      <4> HIDE DEF twins, linesOf, k
      <4> QED BY <1>10, <3>1, FS_Subset
    <3>3. \A r \in T : Rank(r) # Place(i)
      <4> HIDE DEF twins, linesOf, k, T
      <4>1. Place(i) >= Cardinality(T) /\ Place(i) \in Nat
        BY <1>10, <2>2, <3>2
      <4>2. ASSUME NEW r \in T
            PROVE  Rank(r) # Place(i)
        <5>1. Rank(r) \in 0..(Cardinality(T) - 1)
          BY <2>3, <2>4
        <5> QED BY <2>2, <4>1, <5>1
      <4> QED BY <4>2
    <3>4. Gets(i) = {}
      BY <3>3 DEF Gets
    <3> QED BY <2>6, <3>4
  <2> QED BY <2>5, <2>6
<1>12. DOMAIN matched' = R /\ \A i \in R : matched'[i] \in Gets(i)
  BY <1>1, <1>4, <1>11
<1>13. ASSUME NEW i \in DOMAIN incoming, NEW j \in DOMAIN incoming, i < j, incoming[i] = incoming[j]
       PROVE  Place(i) # Place(j)
  <2>1. twins(i) \in SUBSET twins(j) /\ i \in twins(j) /\ i \notin twins(i)
    BY <1>2, <1>13
  <2> HIDE DEF twins
  <2>2. Cardinality(twins(i)) # Cardinality(twins(j))
    BY <1>10, <2>1, FS_Subset
  <2> QED BY <1>10, <2>2
<1>14. matched' \in Injection(R, DOMAIN existing)
  <2>1. matched' \in [R -> DOMAIN existing]
    BY <1>1, <1>4, <1>12 DEF Gets
  <2>2. ASSUME NEW i \in R, NEW j \in R, matched'[i] = matched'[j]
        PROVE  i = j
    <3>1. Place(i) = Place(j) /\ incoming[i] = incoming[j]
      BY <1>12, <2>2 DEF Gets
    <3>2. ~(i < j) /\ ~(j < i)
      BY <1>4, <1>13, <3>1
    <3> QED BY <1>2, <1>4, <3>2
  <2> QED BY <2>1, <2>2 DEF Injection, IsInjective
<1>15. \A i \in R : Answers(existing[matched'[i]], incoming[i])
  <2>1. \A i \in R : incoming[i] \in Keys
    BY <1>2, <1>4
  <2> QED BY <1>12, <2>1, NoneIsNoKey DEF Gets, MatchInv, AssignedAnswer, Candidates
<1>16. MatchesAreRecognised'
  BY <1>1, <1>12, <1>14, <1>15 DEF MatchesAreRecognised, R
<1>17. MatchTypeOK'
  BY <1>1, <1>2 DEF MatchInv, MatchTypeOK
<1>18. AssignedAnswer'
  BY <1>1 DEF MatchInv, AssignedAnswer, Candidates
<1>19. ~Searching /\ ~Searching'
  BY <1>1, <1>2 DEF Searching
<1>20. TrailLeads' /\ VisitedClosed'
  BY <1>1, <1>19 DEF MatchInv, TrailLeads, VisitedClosed
<1>21. LinesServed'
  <2>1. Before(line)' = R
    <3>1. Before(line)' = {j \in R : j < line + 1}
      BY <1>1 DEF Before, R
    <3> QED BY <1>1, <1>2, <1>4, <3>1
  <2>2. Serves(use, Before(line)', assigned')
    BY <1>1, <1>5, <2>1
  <2>3. Serves(use, Before(line), assigned)'
    BY <1>1, <2>2 DEF Serves
  <2> QED BY <2>3 DEF LinesServed
<1> QED BY <1>16, <1>17, <1>18, <1>20, <1>21 DEF MatchInv

\* Before the first line nothing is assigned.
LEMMA InitMatches ==
  ASSUME MatchInit
  PROVE  MatchInv
<1>1. existing \in Seq(Stored) /\ incoming \in Seq(Keys)
  <2>1. ASSUME NEW n \in Nat, NEW S, NEW s \in AtMost(n, S)
        PROVE  s \in Seq(S)
    <3>1. PICK k \in 0..n : s \in [1..k -> S]
      BY <2>1 DEF AtMost
    <3>2. k \in Nat
      BY <3>1
    <3> QED BY <3>1, <3>2
  <2> QED BY <2>1, MatchBounds DEF MatchInit
<1>2. /\ line = 1 /\ assigned = [i \in DOMAIN existing |-> None] /\ trail = <<>> /\ visited = {}
  BY DEF MatchInit
<1>3. Len(incoming) \in Nat /\ DOMAIN incoming = 1..Len(incoming)
  BY <1>1
<1>4. MatchTypeOK
  BY <1>1, <1>2, <1>3 DEF MatchTypeOK
<1>5. TrailLeads
  <2>1. Calls = {1} /\ DOMAIN trail = {} /\ KeyOf(1) = incoming[line]
    BY <1>2 DEF Calls, KeyOf
  <2>2. Searching => incoming[line] \in Keys
    BY <1>1, <1>2, <1>3 DEF Searching
  <2> QED BY <1>2, <2>1, <2>2 DEF TrailLeads
<1>6. LinesServed
  <2>1. Before(line) = {}
    BY <1>1, <1>2, <1>3, RecognisedIs DEF Before
  <2> DEFINE none == [j \in {} |-> 1]
  <2>2. none \in Injection({}, DOMAIN existing)
    BY DEF Injection, IsInjective
  <2>3. Serves(none, {}, assigned)
    BY <1>2, <2>2 DEF Serves
  <2> HIDE DEF none
  <2> QED BY <2>1, <2>3 DEF LinesServed
<1>7. AssignedAnswer /\ VisitedClosed /\ MatchesAreRecognised
  BY <1>2, <1>3 DEF AssignedAnswer, VisitedClosed, MatchesAreRecognised
<1> QED BY <1>4, <1>5, <1>6, <1>7 DEF MatchInv

\* The invariant holds of every ledger and every statement.
LEMMA MatchInvHolds == MatchSpec => []MatchInv
<1>1. ASSUME MatchInv, [MatchNext]_pathVars
      PROVE  MatchInv'
  <2>1. CASE TakeFree
    BY <1>1, <2>1, TakeFreeKeeps
  <2>2. CASE Displace
    BY <1>1, <2>2, DisplaceKeeps
  <2>3. CASE GiveUp
    BY <1>1, <2>3, GiveUpKeeps
  <2>4. CASE Distribute
    BY <1>1, <2>4, DistributeKeeps
  <2>5. CASE UNCHANGED pathVars
    <3>1. UNCHANGED <<existing, incoming, line, assigned, trail, visited, matched>>
      BY <2>5 DEF pathVars
    <3>2. MatchTypeOK' /\ TrailLeads' /\ VisitedClosed'
      BY <1>1, <3>1 DEF MatchInv, MatchTypeOK, TrailLeads, VisitedClosed, Searching, Calls, KeyOf, Candidates
    <3> QED BY <1>1, <3>1, <3>2, SameAssignment DEF MatchInv
  <2> QED BY <1>1, <2>1, <2>2, <2>3, <2>4, <2>5 DEF MatchNext
<1> QED BY <1>1, InitMatches, PTL DEF MatchSpec

\* The algorithm recognises exactly the lines that the ledger may treat as already
\* imported, each with a payment of its own that answers to it (matchBankPayments).
THEOREM MatchingIsRight == MatchSpec => []MatchesAreRecognised
  BY MatchInvHolds, PTL DEF MatchInv
=============================================================================
