----------------------------- MODULE RateLimit -----------------------------
(***************************************************************************)
(* The hit counter of RateLimitMiddleware                                  *)
(* (presentation/middlewares/rate-limiter.middleware.ts) and the increment *)
(* of the caches that keep it (infrastructure/cache/redis.cache.ts and     *)
(* inmemory.cache.ts).                                                     *)
(*                                                                         *)
(* A request is counted once, under a key.  Redis increments and sets the  *)
(* expiry in one transaction; the in-memory cache reads, awaits and writes.*)
(***************************************************************************)
EXTENDS Integers, FiniteSets

CONSTANTS
  Requests,
  Keys,
  MaxRequests,  \* maxRequests
  Window,       \* windowSeconds, in ticks
  Caches,       \* the caches a deployment may have
  NoKey

\* "redis" answers or rejects; the answers of "flaky" may also be missing;
\* "memory" is the InMemoryCacheExtended.
CacheKinds == {"redis", "flaky", "memory"}

ASSUME LimiterAssumption ==
  /\ IsFiniteSet(Requests)
  /\ MaxRequests \in Nat /\ Window \in Nat
  /\ Caches \subseteq CacheKinds
  /\ NoKey \notin Keys

VARIABLES
  cache,    \* the cache of the deployment
  counter,  \* its entry for each key
  hit,      \* of each request: the key it is counted under, the count it has
            \* read, and what became of it
  age       \* history: the time since each request was counted

limiterVars == <<cache, counter, hit, age>>

Entry == [count : Nat, ttl : Nat]
NoEntry == [count |-> 0, ttl |-> 0]
Hit == [key : Keys \cup {NoKey}, read : Nat,
        verdict : {"none", "reading", "admitted", "refused", "failed"}]
NoHit == [key |-> NoKey, read |-> 0, verdict |-> "none"]

LimiterTypeOK ==
  /\ cache \in Caches
  /\ counter \in [Keys -> Entry]
  /\ hit \in [Requests -> Hit]
  /\ \A r \in Requests : hit[r].verdict # "none" => hit[r].key \in Keys
  /\ age \in [Requests -> 0 .. Window]

LimiterInit ==
  /\ cache \in Caches
  /\ counter = [k \in Keys |-> NoEntry]
  /\ hit = [r \in Requests |-> NoHit]
  /\ age = [r \in Requests |-> 0]

-----------------------------------------------------------------------------
\* An expiry of 0 deletes the entry.
Written(n) == IF Window = 0 THEN NoEntry ELSE [count |-> n, ttl |-> Window]
Count(k, n) == counter' = [counter EXCEPT ![k] = Written(n)]

Decide(r, k, verdict) ==
  /\ hit' = [hit EXCEPT ![r] = [key |-> k, read |-> 0, verdict |-> verdict]]
  /\ age' = [age EXCEPT ![r] = 0]
  /\ UNCHANGED cache

JudgeLate(r, k, n) ==
  Decide(r, k, IF n > MaxRequests + 1 THEN "refused" ELSE "admitted")

\* More hits than the maximum are refused.
Judge(r, k, n) ==
  Decide(r, k, IF n > MaxRequests THEN "refused" ELSE "admitted")

\* RedisCache.increment: INCR and EXPIRE, by every hit.
Increment(r, k) ==
  /\ cache # "memory" /\ hit[r].verdict = "none"
  /\ Count(k, counter[k].count + 1)
  /\ Judge(r, k, counter[k].count + 1)

\* A missing result counts as the first hit.
EmptyResult(r, k) ==
  /\ cache = "flaky" /\ hit[r].verdict = "none"
  /\ UNCHANGED counter \/ Count(k, counter[k].count + 1)
  /\ Judge(r, k, 1)

\* InMemoryCacheExtended.increment, before and after its awaits.
ReadCount(r, k) ==
  /\ cache = "memory" /\ hit[r].verdict = "none"
  /\ hit' = [hit EXCEPT ![r] = [key |-> k, read |-> counter[k].count,
                                verdict |-> "reading"]]
  /\ UNCHANGED <<cache, counter, age>>
WriteCount(r, k) ==
  /\ hit[r].verdict = "reading" /\ hit[r].key = k
  /\ Count(k, hit[r].read + 1)
  /\ Judge(r, k, hit[r].read + 1)

\* Redis rejects, with or without having counted, and the middleware with it.
IncrementRejects(r, k) ==
  /\ cache # "memory" /\ hit[r].verdict = "none"
  /\ UNCHANGED counter \/ Count(k, counter[k].count + 1)
  /\ Decide(r, k, "failed")

NeverExpiring(e) == e
AgedPastZero(e) == [e EXCEPT !.ttl = @ - 1]
Expiring(e) == IF e.ttl > 1 THEN [e EXCEPT !.ttl = @ - 1] ELSE NoEntry
Older(a) == IF a < Window THEN a + 1 ELSE a

LimiterTick ==
  /\ counter' = [k \in Keys |-> Expiring(counter[k])]
  /\ age' = [r \in Requests |-> Older(age[r])]
  /\ UNCHANGED <<cache, hit>>

LimiterNext ==
  \/ \E r \in Requests, k \in Keys :
       \/ Increment(r, k) \/ EmptyResult(r, k) \/ IncrementRejects(r, k)
       \/ ReadCount(r, k) \/ WriteCount(r, k)
  \/ LimiterTick

LimiterSpec == LimiterInit /\ [][LimiterNext]_limiterVars

-----------------------------------------------------------------------------
\* The requests counted under a key, ever and in the last window of time, and
\* those of the latter that were let through.
CountedUnder(k) == {r \in Requests : /\ hit[r].verdict \notin {"none", "reading"}
                                     /\ hit[r].key = k}
Recent(k) == {r \in CountedUnder(k) : age[r] < Window}
Admitted(k) == {r \in Recent(k) : hit[r].verdict = "admitted"}

\* With a cache that counts atomically and answers, no stretch of time as long
\* as the window sees more requests of a key let through than the maximum: not
\* even one that straddles the expiry of the counter.
SlidingWindow ==
  cache = "redis" => \A k \in Keys : Cardinality(Admitted(k)) <= MaxRequests

NewlyRefused(r) == hit'[r].verdict = "refused" /\ hit[r].verdict # "refused"

\* With whatever cache, nobody is refused before as many others as the maximum
\* were counted under the same key.  With Redis a client that stays away for as
\* long as the Retry-After header says is let in again: whoever is refused,
\* another request was counted under its key less than a window ago.
RefusalsAreDeserved ==
  [][\A r \in Requests :
       NewlyRefused(r) =>
         /\ Cardinality(CountedUnder(hit'[r].key)) >= MaxRequests
         /\ cache = "redis" /\ MaxRequests > 0 => Recent(hit'[r].key) # {}
    ]_limiterVars
=============================================================================
