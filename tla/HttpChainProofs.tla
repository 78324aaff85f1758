-------------------------- MODULE HttpChainProofs --------------------------
(***************************************************************************)
(* What the rate limiter and the chain around it guarantee, for any        *)
(* requests, deployments, limits and windows.                              *)
(***************************************************************************)
EXTENDS HttpChain, FiniteSetTheorems, TLAPS

-----------------------------------------------------------------------------
(* The limiter.                                                            *)

LEMMA EntryFacts ==
  /\ NoEntry \in Entry
  /\ \A n \in Nat : Written(n) \in Entry
  /\ \A e \in Entry : Expiring(e) \in Entry
BY LimiterAssumption DEF NoEntry, Entry, Written, Expiring

\* A step of the limiter keeps the types, with whatever cache.
LEMMA LimiterTypeStep == LimiterTypeOK /\ [LimiterNext]_limiterVars => LimiterTypeOK'
<1> SUFFICES ASSUME LimiterTypeOK, [LimiterNext]_limiterVars
             PROVE LimiterTypeOK'
  OBVIOUS
<1> USE LimiterAssumption
<1>a. ASSUME NEW r \in Requests, NEW k \in Keys, NEW n \in Nat,
             UNCHANGED counter \/ Count(k, n),
             \E verdict \in {"admitted", "refused", "failed"} :
               Decide(r, k, verdict)
      PROVE LimiterTypeOK'
  <2>1. counter' \in [Keys -> Entry]
    BY <1>a, EntryFacts DEF Count, LimiterTypeOK
  <2> QED
    BY <1>a, <2>1 DEF Decide, LimiterTypeOK, Hit
<1>j. ASSUME NEW r \in Requests, NEW k \in Keys, NEW n \in Nat, Judge(r, k, n)
      PROVE \E verdict \in {"admitted", "refused", "failed"} :
               Decide(r, k, verdict)
  BY <1>j DEF Judge
<1>n. \A k \in Keys : counter[k].count + 1 \in Nat
  BY DEF LimiterTypeOK, Entry
<1>1. ASSUME NEW r \in Requests, NEW k \in Keys, Increment(r, k)
      PROVE LimiterTypeOK'
  BY <1>1, <1>n, <1>j, <1>a DEF Increment
<1>2. ASSUME NEW r \in Requests, NEW k \in Keys, EmptyResult(r, k)
      PROVE LimiterTypeOK'
  BY <1>2, <1>n, <1>j, <1>a DEF EmptyResult
<1>3. ASSUME NEW r \in Requests, NEW k \in Keys, IncrementRejects(r, k)
      PROVE LimiterTypeOK'
  BY <1>3, <1>n, <1>a DEF IncrementRejects
<1>4. ASSUME NEW r \in Requests, NEW k \in Keys, ReadCount(r, k)
      PROVE LimiterTypeOK'
  BY <1>4 DEF ReadCount, LimiterTypeOK, Hit, Entry
<1>5. ASSUME NEW r \in Requests, NEW k \in Keys, WriteCount(r, k)
      PROVE LimiterTypeOK'
  <2>1. hit[r].read + 1 \in Nat
    BY DEF LimiterTypeOK, Hit
  <2> QED
    BY <1>5, <2>1, <1>j, <1>a DEF WriteCount
<1>6. CASE LimiterTick
  BY <1>6, EntryFacts DEF LimiterTick, LimiterTypeOK, Older
<1>7. CASE UNCHANGED limiterVars
  BY <1>7 DEF limiterVars, LimiterTypeOK
<1> QED
  BY <1>1, <1>2, <1>3, <1>4, <1>5, <1>6, <1>7 DEF LimiterNext

(* Counters, hits and ages keep their types, with every cache.             *)
THEOREM LimiterTypeCorrect == LimiterSpec => []LimiterTypeOK
<1>1. LimiterInit => LimiterTypeOK
  BY EntryFacts, LimiterAssumption
  DEF LimiterInit, LimiterTypeOK, NoHit, Hit
<1> QED
  BY <1>1, LimiterTypeStep, PTL DEF LimiterSpec

(* With Redis an entry counts every hit that was let through in the last   *)
(* window, outlives it, and lives no longer than its last hit justifies.   *)
CounterCovers ==
  \A k \in Keys :
    /\ Cardinality(Admitted(k)) <= counter[k].count
    /\ \A r \in Admitted(k) : Window - age[r] <= counter[k].ttl
    /\ counter[k].ttl > 0 =>
         \E r \in CountedUnder(k) : age[r] + counter[k].ttl <= Window
    /\ counter[k].ttl = 0 => counter[k].count = 0

LimiterInv ==
  /\ LimiterTypeOK
  /\ cache = "redis" =>
       /\ CounterCovers
       /\ \A r \in Requests : hit[r].verdict # "reading"
       /\ SlidingWindow

\* What the sets of hits become when a request is decided.
LEMMA DecideFacts ==
  ASSUME LimiterTypeOK, NEW r \in Requests, NEW k \in Keys,
         hit[r].verdict = "none",
         NEW verdict \in {"admitted", "refused", "failed"},
         Decide(r, k, verdict)
  PROVE  /\ \A j \in Keys : CountedUnder(j) \subseteq CountedUnder(j)'
         /\ r \in CountedUnder(k)' /\ age'[r] = 0
         /\ \A q \in Requests \ {r} : age'[q] = age[q]
         /\ \A j \in Keys \ {k} : Admitted(j)' = Admitted(j)
         /\ verdict # "admitted" => Admitted(k)' = Admitted(k)
         /\ verdict = "admitted" /\ Window > 0 => Admitted(k)' = Admitted(k) \cup {r}
         /\ Window = 0 => Admitted(k)' = {}
         /\ \A j \in Keys : r \notin CountedUnder(j)
<1> USE DEF LimiterTypeOK, Hit, Decide, CountedUnder, Recent, Admitted
<1>1. /\ hit'[r] = [key |-> k, read |-> 0, verdict |-> verdict]
      /\ age'[r] = 0
      /\ \A q \in Requests \ {r} : hit'[q] = hit[q] /\ age'[q] = age[q]
  OBVIOUS
<1>2. \A j \in Keys : r \notin CountedUnder(j)
  OBVIOUS
<1>3. \A j \in Keys : CountedUnder(j)' = IF j = k THEN CountedUnder(j) \cup {r}
                                                  ELSE CountedUnder(j)
  BY <1>1, <1>2
<1>4. \A j \in Keys \ {k} : Admitted(j)' = Admitted(j)
  BY <1>1, <1>2
<1>5. verdict # "admitted" => Admitted(k)' = Admitted(k)
  BY <1>1, <1>2
<1>6. verdict = "admitted" /\ Window > 0 => Admitted(k)' = Admitted(k) \cup {r}
  BY <1>1, <1>2
<1>7. Window = 0 => Admitted(k)' = {}
  BY LimiterAssumption
<1> QED
  BY <1>1, <1>2, <1>3, <1>4, <1>5, <1>6, <1>7

(* The counter goes on covering the hits of the last window, whichever     *)
(* way a step counts, fails to count, or lets time pass.                   *)
THEOREM WindowIsCovered == LimiterSpec => []LimiterInv
<1>1. LimiterInit => LimiterInv
  <2> SUFFICES ASSUME LimiterInit PROVE LimiterInv
    OBVIOUS
  <2>1. LimiterTypeOK
    BY EntryFacts, LimiterAssumption DEF LimiterInit, LimiterTypeOK, NoHit, Hit
  <2>2. \A k \in Keys : Admitted(k) = {}
    BY DEF LimiterInit, Admitted, Recent, CountedUnder, NoHit
  <2>3. CounterCovers /\ SlidingWindow
    <3>1. \A k \in Keys : Cardinality(Admitted(k)) = 0
      BY <2>2, FS_EmptySet
    <3>2. \A k \in Keys : counter[k].count = 0 /\ counter[k].ttl = 0
      BY DEF LimiterInit, NoEntry
    <3> QED
      BY <2>2, <3>1, <3>2, LimiterAssumption DEF CounterCovers, SlidingWindow
  <2> QED
    BY <2>1, <2>3 DEF LimiterInv, LimiterInit, NoHit
<1>2. LimiterInv /\ LimiterTypeOK' /\ [LimiterNext]_limiterVars => LimiterInv'
  <2> SUFFICES ASSUME LimiterInv, LimiterTypeOK', [LimiterNext]_limiterVars,
                      cache' = "redis"
               PROVE /\ CounterCovers'
                     /\ \A q \in Requests : hit'[q].verdict # "reading"
                     /\ SlidingWindow'
    BY DEF LimiterInv
  <2> USE LimiterAssumption
  <2>0. /\ LimiterTypeOK /\ cache = "redis" /\ CounterCovers /\ SlidingWindow
        /\ \A q \in Requests : hit[q].verdict # "reading"
    BY DEF LimiterInv, LimiterNext, limiterVars, Increment, EmptyResult, ReadCount,
           WriteCount, IncrementRejects, LimiterTick, Judge, Decide
  <2>f. \A k \in Keys : /\ IsFiniteSet(Admitted(k))
                        /\ Cardinality(Admitted(k)) \in Nat
                        /\ counter[k].count \in Nat /\ counter[k].ttl \in Nat
    BY <2>0, FS_Subset, FS_CardinalityType
    DEF Admitted, Recent, CountedUnder, LimiterTypeOK, Entry
  \* A hit that is not let through.
  <2>1. ASSUME NEW r \in Requests, NEW k \in Keys, hit[r].verdict = "none",
               NEW verdict \in {"refused", "failed"}, Decide(r, k, verdict),
               UNCHANGED counter \/ Count(k, counter[k].count + 1)
        PROVE /\ CounterCovers' /\ SlidingWindow'
              /\ \A q \in Requests : hit'[q].verdict # "reading"
    <3>1. /\ \A j \in Keys : CountedUnder(j) \subseteq CountedUnder(j)'
          /\ r \in CountedUnder(k)' /\ age'[r] = 0
          /\ \A q \in Requests \ {r} : age'[q] = age[q]
          /\ \A j \in Keys : Admitted(j)' = Admitted(j) /\ r \notin CountedUnder(j)
      BY <2>0, <2>1, DecideFacts
    <3>2. \A j \in Keys : \A q \in CountedUnder(j) : age'[q] = age[q]
      BY <3>1 DEF CountedUnder
    <3>3. SlidingWindow'
      BY <2>0, <3>1 DEF SlidingWindow
    <3>4. \A q \in Requests : hit'[q].verdict # "reading"
      BY <2>0, <2>1 DEF Decide, LimiterTypeOK
    <3>5. \A j \in Keys : \/ counter'[j] = counter[j]
                          \/ j = k /\ counter'[j] = Written(counter[j].count + 1)
      BY <2>1, <2>0 DEF Count, LimiterTypeOK
    <3>6. \A j \in Keys : \A q \in Admitted(j) : q \in CountedUnder(j) /\ age[q] < Window
      BY DEF Admitted, Recent
    <3>7. ASSUME NEW j \in Keys, counter'[j] = counter[j]
          PROVE /\ Cardinality(Admitted(j)') <= counter'[j].count
                /\ \A q \in Admitted(j)' : Window - age'[q] <= counter'[j].ttl
                /\ counter'[j].ttl > 0 =>
                     \E q \in CountedUnder(j)' : age'[q] + counter'[j].ttl <= Window
                /\ counter'[j].ttl = 0 => counter'[j].count = 0
      BY <3>7, <3>1, <3>2, <3>6, <2>0 DEF CounterCovers
    <3>8. ASSUME counter'[k] = Written(counter[k].count + 1)
          PROVE /\ Cardinality(Admitted(k)') <= counter'[k].count
                /\ \A q \in Admitted(k)' : Window - age'[q] <= counter'[k].ttl
                /\ counter'[k].ttl > 0 =>
                     \E q \in CountedUnder(k)' : age'[q] + counter'[k].ttl <= Window
                /\ counter'[k].ttl = 0 => counter'[k].count = 0
      <4>1. \A q \in Admitted(k) : age'[q] \in Nat /\ age'[q] < Window
        BY <3>2, <3>6, <2>0 DEF LimiterTypeOK, CountedUnder
      <4>2. Window = 0 => Admitted(k) = {}
        BY <4>1
      <4>3. CASE Window = 0
        <5>1. Admitted(k)' = {} /\ counter'[k] = [count |-> 0, ttl |-> 0]
          BY <4>2, <4>3, <3>8, <3>1 DEF Written, NoEntry
        <5>2. Cardinality(Admitted(k)') = 0
          BY <5>1, FS_EmptySet
        <5>3. /\ counter'[k].count = 0 /\ counter'[k].ttl = 0
              /\ \A q \in Admitted(k)' : FALSE
          BY <5>1
        <5> QED
          BY <5>2, <5>3
      <4>4. CASE Window # 0
        BY <4>1, <4>4, <3>8, <3>1, <2>0, <2>f DEF Written, CounterCovers
      <4> QED
        BY <4>3, <4>4
    <3>9. CounterCovers'
      BY <3>5, <3>7, <3>8 DEF CounterCovers
    <3> QED
      BY <3>3, <3>4, <3>9
  \* A hit that is let through has been counted.
  <2>2. ASSUME NEW r \in Requests, NEW k \in Keys, hit[r].verdict = "none",
               Decide(r, k, "admitted"), Count(k, counter[k].count + 1),
               counter[k].count + 1 <= MaxRequests
        PROVE /\ CounterCovers' /\ SlidingWindow'
              /\ \A q \in Requests : hit'[q].verdict # "reading"
    <3>1. /\ \A j \in Keys : CountedUnder(j) \subseteq CountedUnder(j)'
          /\ r \in CountedUnder(k)' /\ age'[r] = 0
          /\ \A q \in Requests \ {r} : age'[q] = age[q]
          /\ \A j \in Keys \ {k} : Admitted(j)' = Admitted(j)
          /\ Window > 0 => Admitted(k)' = Admitted(k) \cup {r}
          /\ Window = 0 => Admitted(k)' = {}
          /\ \A j \in Keys : r \notin CountedUnder(j)
      BY <2>0, <2>2, DecideFacts
    <3>2. \A j \in Keys : \A q \in CountedUnder(j) : age'[q] = age[q]
      BY <3>1 DEF CountedUnder
    <3>3. /\ counter'[k] = Written(counter[k].count + 1)
          /\ \A j \in Keys \ {k} : counter'[j] = counter[j]
      BY <2>0, <2>2 DEF Count, LimiterTypeOK
    <3>4. \A q \in Requests : hit'[q].verdict # "reading"
      BY <2>0, <2>2 DEF Decide, LimiterTypeOK
    <3>5. \A j \in Keys : \A q \in Admitted(j) : q \in CountedUnder(j) /\ age[q] < Window
      BY DEF Admitted, Recent
    <3>6. ASSUME NEW j \in Keys \ {k}
          PROVE /\ Cardinality(Admitted(j)') <= counter'[j].count
                /\ \A q \in Admitted(j)' : Window - age'[q] <= counter'[j].ttl
                /\ counter'[j].ttl > 0 =>
                     \E q \in CountedUnder(j)' : age'[q] + counter'[j].ttl <= Window
                /\ counter'[j].ttl = 0 => counter'[j].count = 0
      BY <3>1, <3>2, <3>3, <3>5, <2>0 DEF CounterCovers
    <3>7. /\ Cardinality(Admitted(k)') <= counter'[k].count
          /\ \A q \in Admitted(k)' : Window - age'[q] <= counter'[k].ttl
          /\ counter'[k].ttl > 0 =>
               \E q \in CountedUnder(k)' : age'[q] + counter'[k].ttl <= Window
          /\ counter'[k].ttl = 0 => counter'[k].count = 0
          /\ Cardinality(Admitted(k)') <= MaxRequests
      <4>1. CASE Window = 0
        <5>1. Admitted(k)' = {} /\ counter'[k] = [count |-> 0, ttl |-> 0]
          BY <4>1, <3>1, <3>3 DEF Written, NoEntry
        <5>2. Cardinality(Admitted(k)') = 0
          BY <5>1, FS_EmptySet
        <5>3. /\ counter'[k].count = 0 /\ counter'[k].ttl = 0
              /\ \A q \in Admitted(k)' : FALSE
          BY <5>1
        <5> QED
          BY <5>2, <5>3
      <4>2. CASE Window # 0
        <5>1. Admitted(k)' = Admitted(k) \cup {r} /\ r \notin Admitted(k)
          BY <4>2, <3>1, <3>5
        <5>2. Cardinality(Admitted(k)') = Cardinality(Admitted(k)) + 1
          BY <5>1, <2>f, FS_AddElement
        <5>3. Cardinality(Admitted(k)) <= counter[k].count
          BY <2>0 DEF CounterCovers
        <5>4. counter'[k] = [count |-> counter[k].count + 1, ttl |-> Window]
          BY <4>2, <3>3 DEF Written
        <5>5. \A q \in Admitted(k)' : age'[q] \in Nat
          BY DEF LimiterTypeOK, Admitted, Recent, CountedUnder
        <5> QED
          BY <5>1, <5>2, <5>3, <5>4, <5>5, <4>2, <3>1, <2>2, <2>f
      <4> QED
        BY <4>1, <4>2
    <3>8. CounterCovers'
      BY <3>6, <3>7 DEF CounterCovers
    <3>9. SlidingWindow'
      BY <3>1, <3>7, <2>0 DEF SlidingWindow
    <3> QED
      BY <3>4, <3>8, <3>9
  <2>3. ASSUME NEW r \in Requests, NEW k \in Keys, Increment(r, k)
        PROVE /\ CounterCovers' /\ SlidingWindow'
              /\ \A q \in Requests : hit'[q].verdict # "reading"
    BY <2>3, <2>1, <2>2, <2>f DEF Increment, Judge
  <2>4. ASSUME NEW r \in Requests, NEW k \in Keys, IncrementRejects(r, k)
        PROVE /\ CounterCovers' /\ SlidingWindow'
              /\ \A q \in Requests : hit'[q].verdict # "reading"
    BY <2>4, <2>1 DEF IncrementRejects
  <2>5. ASSUME NEW r \in Requests, NEW k \in Keys,
               EmptyResult(r, k) \/ ReadCount(r, k) \/ WriteCount(r, k)
        PROVE FALSE
    BY <2>5, <2>0 DEF EmptyResult, ReadCount, WriteCount
  <2>6. CASE LimiterTick
    <3>1. /\ \A k \in Keys : counter'[k] = Expiring(counter[k])
          /\ \A q \in Requests : /\ age[q] \in 0 .. Window
                                 /\ age'[q] = Older(age[q])
          /\ hit' = hit
      BY <2>6, <2>0 DEF LimiterTick, LimiterTypeOK
    <3>2. \A k \in Keys : /\ CountedUnder(k)' = CountedUnder(k)
                          /\ Admitted(k)' \subseteq Admitted(k)
                          /\ \A q \in Admitted(k)' : /\ age'[q] = age[q] + 1
                                                     /\ age'[q] < Window
      BY <3>1 DEF CountedUnder, Recent, Admitted, Older
    <3>3. \A k \in Keys : Cardinality(Admitted(k)') <= Cardinality(Admitted(k))
      BY <3>2, <2>f, FS_Subset
    <3>4. ASSUME NEW k \in Keys
          PROVE /\ Cardinality(Admitted(k)') <= counter'[k].count
                /\ \A q \in Admitted(k)' : Window - age'[q] <= counter'[k].ttl
                /\ counter'[k].ttl > 0 =>
                     \E q \in CountedUnder(k)' : age'[q] + counter'[k].ttl <= Window
                /\ counter'[k].ttl = 0 => counter'[k].count = 0
      <4>0. /\ Cardinality(Admitted(k)) <= counter[k].count
            /\ \A q \in Admitted(k) : Window - age[q] <= counter[k].ttl
            /\ counter[k].ttl > 0 =>
                 \E q \in CountedUnder(k) : age[q] + counter[k].ttl <= Window
            /\ counter[k].ttl = 0 => counter[k].count = 0
        BY <2>0 DEF CounterCovers
      <4>a. \A q \in Admitted(k)' : age[q] \in Nat
        BY <3>1, <3>2 DEF CountedUnder, Recent, Admitted
      <4>1. CASE counter[k].ttl > 1
        <5>1. /\ counter'[k].ttl = counter[k].ttl - 1
              /\ counter'[k].count = counter[k].count
          BY <4>1, <3>1, <2>0 DEF Expiring, LimiterTypeOK, Entry
        <5>2. Cardinality(Admitted(k)') \in Nat
          BY <3>2, <2>f, FS_Subset, FS_CardinalityType
        <5>3. Cardinality(Admitted(k)') <= counter'[k].count
          BY <5>1, <5>2, <4>0, <3>3, <2>f
        <5>4. \A q \in Admitted(k)' : Window - age'[q] <= counter'[k].ttl
          BY <5>1, <4>0, <4>a, <3>2, <2>f
        <5>5. PICK q \in CountedUnder(k) : age[q] + counter[k].ttl <= Window
          <6>1. counter[k].ttl > 0
            BY <4>1, <2>f
          <6> QED
            BY <4>0, <6>1
        <5>6. age'[q] + counter'[k].ttl <= Window
          BY <5>1, <5>5, <3>1, <2>f DEF Older, CountedUnder
        <5> QED
          BY <5>1, <5>3, <5>4, <5>5, <5>6, <4>1, <3>2, <2>f
      <4>2. CASE ~ (counter[k].ttl > 1)
        <5>1. counter'[k] = NoEntry
          BY <4>2, <3>1 DEF Expiring
        <5>2. Admitted(k)' = {}
          BY <4>0, <4>2, <4>a, <3>2, <2>f
        <5> QED
          BY <5>1, <5>2, FS_EmptySet DEF NoEntry
      <4> QED
        BY <4>1, <4>2
    <3>5. SlidingWindow'
      <4>1. ASSUME NEW k \in Keys PROVE Cardinality(Admitted(k)') <= MaxRequests
        <5>1. Cardinality(Admitted(k)') \in Nat
          BY <3>2, <2>f, FS_Subset, FS_CardinalityType
        <5> QED
          BY <5>1, <3>3, <2>f, <2>0 DEF SlidingWindow
      <4> QED
        BY <4>1 DEF SlidingWindow
    <3> QED
      BY <3>1, <3>4, <3>5, <2>0 DEF CounterCovers
  <2>7. CASE UNCHANGED limiterVars
    <3>1. \A k \in Keys : Admitted(k)' = Admitted(k) /\ CountedUnder(k)' = CountedUnder(k)
      BY <2>7 DEF limiterVars, Admitted, Recent, CountedUnder
    <3> QED
      BY <3>1, <2>7, <2>0 DEF limiterVars, CounterCovers, SlidingWindow
  <2> QED
    BY <2>3, <2>4, <2>5, <2>6, <2>7 DEF LimiterNext
<1> QED
  BY <1>1, <1>2, LimiterTypeCorrect, PTL DEF LimiterSpec

\* A step that newly refuses somebody counts a hit of a key that has others.
LEMMA RefusalFollowsHit ==
  ASSUME LimiterInv, [LimiterNext]_limiterVars, cache = "redis", MaxRequests > 0,
         NEW r \in Requests, NewlyRefused(r)
  PROVE  Recent(hit'[r].key) # {}
<1> USE LimiterAssumption
<1>0. LimiterTypeOK /\ CounterCovers /\ \A q \in Requests : hit[q].verdict # "reading"
  BY DEF LimiterInv
<1>1. ASSUME NEW q \in Requests, NEW k \in Keys, Increment(q, k)
      PROVE Recent(hit'[r].key) # {}
  <2>1. hit' = [hit EXCEPT ![q] = [key |-> k, read |-> 0,
                  verdict |-> IF counter[k].count + 1 > MaxRequests
                                THEN "refused" ELSE "admitted"]]
    BY <1>1 DEF Increment, Judge, Decide
  <2>2. q = r
    BY <2>1, <1>0 DEF NewlyRefused, LimiterTypeOK
  <2>3. hit'[r].key = k /\ counter[k].count + 1 > MaxRequests
    BY <2>1, <2>2, <1>0 DEF NewlyRefused, LimiterTypeOK
  <2>4. counter[k].count \in Nat /\ counter[k].ttl \in Nat
    BY <1>0 DEF LimiterTypeOK, Entry
  <2>5. counter[k].ttl > 0
    BY <2>3, <2>4, <1>0 DEF CounterCovers
  <2>6. PICK s \in CountedUnder(k) : age[s] + counter[k].ttl <= Window
    BY <2>5, <1>0 DEF CounterCovers
  <2>7. age[s] < Window
    BY <2>4, <2>5, <2>6, <1>0 DEF LimiterTypeOK, CountedUnder
  <2> QED
    BY <2>3, <2>6, <2>7 DEF Recent
<1>2. ASSUME NEW q \in Requests, NEW k \in Keys, IncrementRejects(q, k)
      PROVE FALSE
  BY <1>2, <1>0 DEF IncrementRejects, Decide, NewlyRefused, LimiterTypeOK
<1>3. ASSUME NEW q \in Requests, NEW k \in Keys,
             EmptyResult(q, k) \/ ReadCount(q, k) \/ WriteCount(q, k)
      PROVE FALSE
  BY <1>3, <1>0 DEF EmptyResult, ReadCount, WriteCount
<1>4. CASE LimiterTick \/ UNCHANGED limiterVars
  BY <1>4 DEF LimiterTick, limiterVars, NewlyRefused
<1> QED
  BY <1>1, <1>2, <1>3, <1>4 DEF LimiterNext

\* No count, kept or read, runs ahead of the requests that were counted.
CountsAreHits ==
  /\ \A k \in Keys : counter[k].count <= Cardinality(CountedUnder(k))
  /\ \A r \in Requests, k \in Keys :
       hit[r].verdict = "reading" /\ hit[r].key = k =>
         hit[r].read <= Cardinality(CountedUnder(k))

LEMMA CountedFinite ==
  ASSUME NEW k \in Keys
  PROVE  IsFiniteSet(CountedUnder(k)) /\ Cardinality(CountedUnder(k)) \in Nat
BY LimiterAssumption, FS_Subset, FS_CardinalityType DEF CountedUnder

\* A request that is decided is one more under its key.
LEMMA DecidedIsCounted ==
  ASSUME LimiterTypeOK, NEW r \in Requests, NEW k \in Keys,
         hit[r].verdict \in {"none", "reading"},
         NEW verdict \in {"admitted", "refused", "failed"},
         Decide(r, k, verdict)
  PROVE  /\ Cardinality(CountedUnder(k)') = Cardinality(CountedUnder(k)) + 1
         /\ \A j \in Keys \ {k} : CountedUnder(j)' = CountedUnder(j)
<1>1. /\ hit'[r] = [key |-> k, read |-> 0, verdict |-> verdict]
      /\ \A q \in Requests \ {r} : hit'[q] = hit[q]
  BY DEF Decide, LimiterTypeOK
<1>2. \A j \in Keys : r \notin CountedUnder(j)
  BY DEF CountedUnder
<1>3. CountedUnder(k)' = CountedUnder(k) \cup {r}
  BY <1>1 DEF CountedUnder
<1>4. \A j \in Keys \ {k} : CountedUnder(j)' = CountedUnder(j)
  BY <1>1, <1>2 DEF CountedUnder
<1> QED
  BY <1>2, <1>3, <1>4, CountedFinite, FS_AddElement

\* A step that decides a request with a count of at most one more than the
\* requests counted before keeps the counts, and refuses it only when they
\* are as many as the maximum.
LEMMA DecidedInStep ==
  ASSUME LimiterTypeOK, CountsAreHits, NEW r \in Requests, NEW k \in Keys,
         hit[r].verdict \in {"none", "reading"},
         NEW n \in Nat, n <= Cardinality(CountedUnder(k)) + 1,
         NEW verdict \in {"admitted", "refused", "failed"}, Decide(r, k, verdict),
         UNCHANGED counter \/ Count(k, n)
  PROVE  /\ CountsAreHits'
         /\ \A q \in Requests : NewlyRefused(q) =>
              q = r /\ hit'[q].key = k /\ verdict = "refused"
<1>1. /\ hit'[r] = [key |-> k, read |-> 0, verdict |-> verdict]
      /\ \A q \in Requests \ {r} : hit'[q] = hit[q]
  BY DEF Decide, LimiterTypeOK
<1>2. /\ Cardinality(CountedUnder(k)') = Cardinality(CountedUnder(k)) + 1
      /\ \A j \in Keys \ {k} : CountedUnder(j)' = CountedUnder(j)
  BY DecidedIsCounted
<1>3. /\ \A j \in Keys \ {k} : counter'[j] = counter[j]
      /\ counter'[k].count \in {counter[k].count, n, 0}
  BY DEF Count, Written, NoEntry, LimiterTypeOK
<1>4. \A j \in Keys : /\ Cardinality(CountedUnder(j)) \in Nat
                      /\ counter[j].count \in Nat
  BY CountedFinite DEF LimiterTypeOK, Entry
<1>5. \A j \in Keys : counter'[j].count <= Cardinality(CountedUnder(j)')
  <2>1. counter'[k].count <= Cardinality(CountedUnder(k)')
    BY <1>2, <1>3, <1>4 DEF CountsAreHits
  <2> QED
    BY <2>1, <1>2, <1>3 DEF CountsAreHits
<1>6. ASSUME NEW q \in Requests, NEW j \in Keys,
             hit'[q].verdict = "reading", hit'[q].key = j
      PROVE  hit'[q].read <= Cardinality(CountedUnder(j)')
  <2>1. q # r /\ hit'[q] = hit[q] /\ hit[q].read \in Nat
    BY <1>1, <1>6 DEF LimiterTypeOK, Hit
  <2>2. hit[q].read <= Cardinality(CountedUnder(j))
    BY <1>6, <2>1 DEF CountsAreHits
  <2> QED
    BY <2>1, <2>2, <1>2, <1>4
<1>7. CountsAreHits'
  BY <1>5, <1>6 DEF CountsAreHits
<1> QED
  BY <1>1, <1>7 DEF NewlyRefused

LEMMA CountsStep ==
  ASSUME LimiterTypeOK, CountsAreHits, [LimiterNext]_limiterVars
  PROVE  /\ CountsAreHits'
         /\ \A r \in Requests : NewlyRefused(r) =>
              Cardinality(CountedUnder(hit'[r].key)) >= MaxRequests
<1> USE LimiterAssumption
<1>0. \A k \in Keys : /\ Cardinality(CountedUnder(k)) \in Nat
                      /\ counter[k].count \in Nat
                      /\ counter[k].count <= Cardinality(CountedUnder(k))
  BY CountedFinite DEF LimiterTypeOK, Entry, CountsAreHits
<1>1. ASSUME NEW r \in Requests, NEW k \in Keys, NEW n \in Nat, NEW m \in Nat,
             hit[r].verdict \in {"none", "reading"},
             n <= Cardinality(CountedUnder(k)) + 1,
             m <= Cardinality(CountedUnder(k)) + 1,
             UNCHANGED counter \/ Count(k, n), Judge(r, k, m)
      PROVE  /\ CountsAreHits'
             /\ \A q \in Requests : NewlyRefused(q) =>
                  Cardinality(CountedUnder(hit'[q].key)) >= MaxRequests
  <2> DEFINE verdict == IF m > MaxRequests THEN "refused" ELSE "admitted"
  <2>1. Decide(r, k, verdict) /\ verdict \in {"admitted", "refused", "failed"}
    BY <1>1 DEF Judge
  <2>2. verdict = "refused" => Cardinality(CountedUnder(k)) >= MaxRequests
    BY <1>0, <1>1
  <2> HIDE DEF verdict
  <2> QED
    BY <2>1, <2>2, <1>1, DecidedInStep
<1>2. ASSUME NEW r \in Requests, NEW k \in Keys,
             Increment(r, k) \/ EmptyResult(r, k)
      PROVE  /\ CountsAreHits'
             /\ \A q \in Requests : NewlyRefused(q) =>
                  Cardinality(CountedUnder(hit'[q].key)) >= MaxRequests
  <2>1. /\ counter[k].count + 1 \in Nat /\ 1 \in Nat
        /\ counter[k].count + 1 <= Cardinality(CountedUnder(k)) + 1
        /\ 1 <= Cardinality(CountedUnder(k)) + 1
    BY <1>0
  <2> QED
    BY <1>1, <1>2, <2>1 DEF Increment, EmptyResult
<1>3. ASSUME NEW r \in Requests, NEW k \in Keys, IncrementRejects(r, k)
      PROVE  /\ CountsAreHits'
             /\ \A q \in Requests : ~ NewlyRefused(q)
  <2>1. /\ counter[k].count + 1 \in Nat
        /\ counter[k].count + 1 <= Cardinality(CountedUnder(k)) + 1
    BY <1>0
  <2> QED
    BY <1>3, <2>1, DecidedInStep DEF IncrementRejects
<1>4. ASSUME NEW r \in Requests, NEW k \in Keys, WriteCount(r, k)
      PROVE  /\ CountsAreHits'
             /\ \A q \in Requests : NewlyRefused(q) =>
                  Cardinality(CountedUnder(hit'[q].key)) >= MaxRequests
  <2>1. /\ hit[r].read + 1 \in Nat /\ hit[r].verdict = "reading"
        /\ hit[r].read + 1 <= Cardinality(CountedUnder(k)) + 1
    BY <1>4, <1>0 DEF WriteCount, CountsAreHits, LimiterTypeOK, Hit
  <2> QED
    BY <1>1, <1>4, <2>1 DEF WriteCount
<1>5. ASSUME NEW r \in Requests, NEW k \in Keys, ReadCount(r, k)
      PROVE  CountsAreHits' /\ \A q \in Requests : ~ NewlyRefused(q)
  <2>1. /\ hit'[r] = [key |-> k, read |-> counter[k].count, verdict |-> "reading"]
        /\ \A q \in Requests \ {r} : hit'[q] = hit[q]
        /\ UNCHANGED counter /\ hit[r].verdict = "none"
    BY <1>5 DEF ReadCount, LimiterTypeOK
  <2>2. \A j \in Keys : CountedUnder(j)' = CountedUnder(j)
    BY <2>1 DEF CountedUnder
  <2>3. \A q \in Requests : hit'[q].verdict = "reading" => hit'[q].key \in Keys
    BY <2>1 DEF LimiterTypeOK
  <2> QED
    BY <1>0, <2>1, <2>2, <2>3 DEF CountsAreHits, NewlyRefused
<1>6. CASE LimiterTick \/ UNCHANGED limiterVars
  <2>0. \A k \in Keys : Expiring(counter[k]).count \in {counter[k].count, 0}
    BY DEF LimiterTypeOK, Entry, Expiring, NoEntry
  <2>1. hit' = hit /\ \A k \in Keys : counter'[k].count \in {counter[k].count, 0}
    BY <1>6, <2>0 DEF LimiterTick, limiterVars
  <2>2. \A j \in Keys : CountedUnder(j)' = CountedUnder(j)
    BY <2>1 DEF CountedUnder
  <2>3. \A q \in Requests : hit[q].verdict = "reading" => hit[q].key \in Keys
    BY DEF LimiterTypeOK
  <2> QED
    BY <1>0, <2>1, <2>2, <2>3 DEF CountsAreHits, NewlyRefused
<1> QED
  BY <1>2, <1>3, <1>4, <1>5, <1>6 DEF LimiterNext

(* No count runs ahead of the requests that were counted, even when the     *)
(* increments of the in-memory cache overlap or Redis answers nothing.      *)
THEOREM CountsAreEarned == LimiterSpec => []CountsAreHits
<1>1. LimiterInit => CountsAreHits
  BY CountedFinite DEF LimiterInit, CountsAreHits, NoEntry, NoHit
<1> QED
  BY <1>1, CountsStep, LimiterTypeCorrect, PTL DEF LimiterSpec

(* Nobody is refused before the maximum of others were counted, and with    *)
(* Redis only if one of them was counted within the window: staying away    *)
(* for as long as Retry-After says is enough.                               *)
THEOREM RefusalsAreEarned == LimiterSpec => RefusalsAreDeserved
<1>1. LimiterInv /\ CountsAreHits /\ [LimiterNext]_limiterVars =>
        [\A r \in Requests : NewlyRefused(r) =>
           /\ Cardinality(CountedUnder(hit'[r].key)) >= MaxRequests
           /\ cache = "redis" /\ MaxRequests > 0 => Recent(hit'[r].key) # {}
        ]_limiterVars
  BY RefusalFollowsHit, CountsStep DEF LimiterInv
<1> QED
  BY <1>1, WindowIsCovered, CountsAreEarned, PTL DEF LimiterSpec, RefusalsAreDeserved

-----------------------------------------------------------------------------
(* The chain.                                                              *)

(* What the middlewares a request has passed have made sure of, at each of *)
(* the awaits it may have reached.                                         *)
AllowedAndRouted(r) ==
  visit[r].origin # "foreign" /\ ("routes" \in setup => visit[r].routed)
Vouched(r) ==
  /\ identity[r] # Guest => "auth" \in setup /\ identity[r] = visit[r].claims
  /\ "auth" \in setup /\ visit[r].token => identity[r] = visit[r].claims
LetThrough(r) ==
  "limit" \in setup =>
    /\ hit[r].verdict = "admitted"
    /\ hit[r].key = KeyFor(visit[r], identity[r])
Forgeable(r) == "csrf" \in setup /\ visit[r].method = "POST"

Passed(r) ==
  /\ place[r].stage \in {"authenticating", "counting", "validating", "handling"} =>
       AllowedAndRouted(r)
  /\ place[r].stage \in {"counting", "validating", "handling"} => Vouched(r)
  /\ place[r].stage = "counting" => KeyFor(visit[r], identity[r]) \in Keys
  /\ place[r].stage \in {"validating", "handling"} => LetThrough(r)
  /\ place[r].stage = "validating" =>
       visit[r].header = visit[r].cookie /\ identity[r].user # None
  /\ place[r].stage = "handling" /\ Forgeable(r) =>
       /\ identity[r].user # None
       /\ visit[r].header = identity[r].user /\ visit[r].cookie = identity[r].user

ChainInv == TypeOK /\ \A r \in Requests : Passed(r)

\* Where the middlewares send a request.
LEMMA PlaceFacts ==
  /\ \A stage \in Stages, status \in Statuses, cors \in BOOLEAN :
       /\ At(stage, status, cors) \in Place
       /\ At(stage, status, cors).stage = stage
  /\ \A v \in Visits : \A status \in Statuses :
       /\ Leaving(v, status) \in Place
       /\ Leaving(v, status).stage = "disposing"
  /\ Thrown \in Place /\ Thrown.stage = "disposing"
<1>1. None \in Subjects
  BY DEF Subjects
<1> QED
  BY <1>1 DEF At, Place, Leaving, Marked, Thrown, Stages, Statuses

LEMMA CsrfFacts ==
  ASSUME NEW v \in Visits, NEW who \in Identities
  PROVE  /\ \A status \in Statuses :
              /\ LeavingCsrf(v, who, status) \in Place
              /\ LeavingCsrf(v, who, status).stage \in {"minting", "disposing"}
         /\ IntoCsrf(v, who) \in Place
         /\ IntoCsrf(v, who).stage
              \in {"handling", "validating", "minting", "disposing"}
         /\ IntoCsrf(v, who).stage = "handling" =>
              ~ ("csrf" \in setup /\ v.method = "POST")
         /\ IntoCsrf(v, who).stage = "validating" =>
              v.header = v.cookie /\ who.user # None
<1>1. \A status \in Statuses :
        /\ LeavingCsrf(v, who, status) \in Place
        /\ LeavingCsrf(v, who, status).stage \in {"minting", "disposing"}
  <2> SUFFICES ASSUME NEW status \in Statuses
               PROVE /\ LeavingCsrf(v, who, status) \in Place
                     /\ LeavingCsrf(v, who, status).stage \in {"minting", "disposing"}
    OBVIOUS
  <2>1. Marked(v) \in BOOLEAN /\ "minting" \in Stages
    BY DEF Marked, Stages
  <2> QED
    BY <2>1, PlaceFacts DEF LeavingCsrf
<1>2. /\ "handling" \in Stages /\ "validating" \in Stages
      /\ "none" \in Statuses /\ "forbidden" \in Statuses
  BY DEF Stages, Statuses
<1> QED
  BY <1>1, <1>2, PlaceFacts DEF IntoCsrf

LEMMA EntranceFacts ==
  ASSUME NEW v \in Visits
  PROVE  /\ IntoOrigin(v) \in Place
         /\ IntoOrigin(v).stage \in {"authenticating", "disposing"}
         /\ IntoOrigin(v).stage = "authenticating" =>
              v.origin # "foreign" /\ ("routes" \in setup => v.routed)
         /\ \A who \in Identities :
              /\ IntoLimiter(v, who) \in Place
              /\ IntoLimiter(v, who).stage = "counting" => KeyFor(v, who) \in Keys
              /\ IntoLimiter(v, who).stage # "counting" /\ "limit" \in setup =>
                   IntoLimiter(v, who).stage = "disposing"
              /\ "limit" \notin setup => IntoLimiter(v, who) = IntoCsrf(v, who)
<1>1. /\ "authenticating" \in Stages /\ "counting" \in Stages
      /\ "disposing" \in Stages /\ "none" \in Statuses /\ "forbidden" \in Statuses
      /\ "noContent" \in Statuses /\ "notAllowed" \in Statuses
      /\ "unavailable" \in Statuses
      /\ (v.origin # "none") \in BOOLEAN
  BY DEF Stages, Statuses
<1>2. /\ IntoMethods(v) \in Place
      /\ IntoMethods(v).stage \in {"authenticating", "disposing"}
      /\ IntoMethods(v).stage = "authenticating" => ("routes" \in setup => v.routed)
  BY <1>1, PlaceFacts DEF IntoMethods
<1>3. IntoOptions(v) \in Place /\ IntoOptions(v).stage = "disposing"
  BY <1>1, PlaceFacts DEF IntoOptions
<1>4. ASSUME NEW who \in Identities
      PROVE /\ IntoLimiter(v, who) \in Place
            /\ IntoLimiter(v, who).stage = "counting" => KeyFor(v, who) \in Keys
            /\ IntoLimiter(v, who).stage # "counting" /\ "limit" \in setup =>
                 IntoLimiter(v, who).stage = "disposing"
            /\ "limit" \notin setup => IntoLimiter(v, who) = IntoCsrf(v, who)
  BY <1>1, PlaceFacts, CsrfFacts, KeyAssumption DEF IntoLimiter
<1> QED
  BY <1>1, <1>2, <1>3, <1>4, PlaceFacts DEF IntoOrigin

\* A request that goes somewhere leaves the others where they are.
LEMMA GotoFacts ==
  ASSUME TypeOK, NEW r \in Requests, NEW p \in Place, Goto(r, p)
  PROVE  /\ place' \in [Requests -> Place] /\ place'[r] = p
         /\ \A q \in Requests \ {r} : place'[q] = place[q]
         /\ setup' = setup /\ visit' = visit
BY DEF Goto, TypeOK

\* What a request has passed does not depend on the others.
LEMMA OthersStay ==
  ASSUME NEW q \in Requests, Passed(q), setup' = setup, visit' = visit,
         place'[q] = place[q], identity'[q] = identity[q], hit'[q] = hit[q]
  PROVE  Passed(q)'
BY DEF Passed, AllowedAndRouted, Vouched, LetThrough, Forgeable, KeyFor

\* An await that the limiter and the identity take no part in.
LEMMA StayStep ==
  ASSUME ChainInv, NEW r \in Requests, NEW p \in Place, Goto(r, p), Stay,
         p.stage = "authenticating" => AllowedAndRouted(r),
         p.stage \notin {"counting", "validating"},
         p.stage = "handling" => /\ AllowedAndRouted(r) /\ Vouched(r) /\ LetThrough(r)
                                 /\ Forgeable(r) =>
                                      /\ identity[r].user # None
                                      /\ visit[r].header = identity[r].user
                                      /\ visit[r].cookie = identity[r].user
  PROVE  ChainInv' /\ UNCHANGED limiterVars
<1>1. /\ place' \in [Requests -> Place] /\ place'[r] = p
      /\ \A q \in Requests \ {r} : place'[q] = place[q]
      /\ setup' = setup /\ visit' = visit
  BY GotoFacts DEF ChainInv
<1>2. /\ UNCHANGED limiterVars /\ identity' = identity /\ hit' = hit
      /\ cache' = cache /\ counter' = counter /\ age' = age
  BY DEF Stay, limiterVars
<1>3. TypeOK'
  BY <1>1, <1>2 DEF ChainInv, TypeOK, LimiterTypeOK
<1>4. ASSUME NEW q \in Requests, q # r PROVE Passed(q)'
  BY <1>1, <1>2, <1>4, OthersStay DEF ChainInv
<1>5. Passed(r)'
  BY <1>1, <1>2 DEF Passed, AllowedAndRouted, Vouched, LetThrough, Forgeable, KeyFor
<1> QED
  BY <1>2, <1>3, <1>4, <1>5 DEF ChainInv

\* A request is counted under its own key, and goes on if it is let through.
LEMMA CountStep ==
  ASSUME ChainInv, NEW r \in Requests, Is(r, "counting"), UNCHANGED identity,
         NEW p \in Place, Goto(r, p),
         LimiterTypeOK', \A q \in Requests \ {r} : hit'[q] = hit[q],
         \/ p.stage = "disposing"
         \/ /\ p = IntoCsrf(visit[r], identity[r])
            /\ hit'[r].verdict = "admitted"
            /\ hit'[r].key = KeyFor(visit[r], identity[r])
  PROVE  ChainInv'
<1>1. /\ place' \in [Requests -> Place] /\ place'[r] = p
      /\ \A q \in Requests \ {r} : place'[q] = place[q]
      /\ setup' = setup /\ visit' = visit
  BY GotoFacts DEF ChainInv
<1>2. TypeOK'
  BY <1>1 DEF ChainInv, TypeOK
<1>3. ASSUME NEW q \in Requests, q # r PROVE Passed(q)'
  BY <1>1, <1>3, OthersStay DEF ChainInv
<1>4. Passed(r)'
  <2>1. Passed(r) /\ visit[r] \in Visits /\ identity[r] \in Identities
    BY DEF ChainInv, TypeOK
  <2>2. AllowedAndRouted(r) /\ Vouched(r)
    BY <2>1 DEF Passed, Is
  <2>3. CASE p.stage = "disposing"
    BY <2>3, <1>1 DEF Passed
  <2>4. CASE /\ p = IntoCsrf(visit[r], identity[r])
             /\ hit'[r].verdict = "admitted"
             /\ hit'[r].key = KeyFor(visit[r], identity[r])
    <3>1. /\ p.stage \in {"handling", "validating", "minting", "disposing"}
          /\ p.stage = "handling" => ~ Forgeable(r)
          /\ p.stage = "validating" =>
               visit[r].header = visit[r].cookie /\ identity[r].user # None
      BY <2>1, <2>4, CsrfFacts DEF Forgeable
    <3> QED
      BY <1>1, <2>2, <2>4, <3>1
      DEF Passed, AllowedAndRouted, Vouched, LetThrough, Forgeable, KeyFor
  <2> QED
    BY <2>3, <2>4
<1> QED
  BY <1>2, <1>3, <1>4 DEF ChainInv

\* The identity is replaced once, before it is used.
LEMMA IdentifyStep ==
  ASSUME ChainInv, NEW r \in Requests, NEW who \in Identities, Identify(r, who),
         who # Guest => "auth" \in setup /\ who = visit[r].claims,
         "auth" \in setup /\ visit[r].token => who = visit[r].claims
  PROVE  ChainInv' /\ UNCHANGED limiterVars
<1>0. visit[r] \in Visits /\ Passed(r)
  BY DEF ChainInv, TypeOK
<1> DEFINE p == IntoLimiter(visit[r], who)
<1>p. p \in Place
  BY <1>0, EntranceFacts
<1>1. /\ place' \in [Requests -> Place] /\ place'[r] = p
      /\ \A q \in Requests \ {r} : place'[q] = place[q]
      /\ setup' = setup /\ visit' = visit
  BY <1>p, GotoFacts DEF ChainInv, Identify
<1>2. /\ UNCHANGED limiterVars /\ hit' = hit
      /\ cache' = cache /\ counter' = counter /\ age' = age
      /\ identity' \in [Requests -> Identities] /\ identity'[r] = who
      /\ \A q \in Requests \ {r} : identity'[q] = identity[q]
  BY DEF Identify, UpdateIdentity, limiterVars, ChainInv, TypeOK
<1>3. TypeOK'
  BY <1>1, <1>2 DEF ChainInv, TypeOK, LimiterTypeOK
<1>4. ASSUME NEW q \in Requests, q # r PROVE Passed(q)'
  BY <1>1, <1>2, <1>4, OthersStay DEF ChainInv
<1>5. Passed(r)'
  <2>1. AllowedAndRouted(r)
    BY <1>0 DEF Passed, Identify, Is
  <2>2. p.stage = "counting" => KeyFor(visit[r], who) \in Keys
    BY <1>0, EntranceFacts
  <2>3. p.stage \in {"validating", "handling"} =>
          "limit" \notin setup /\ p = IntoCsrf(visit[r], who)
    BY <1>0, EntranceFacts
  <2>4. /\ p.stage = "handling" => ~ ("csrf" \in setup /\ visit[r].method = "POST")
        /\ p.stage = "validating" =>
             visit[r].header = visit[r].cookie /\ who.user # None
    BY <1>0, <2>3, CsrfFacts
  <2> HIDE DEF p
  <2> QED
    BY <1>1, <1>2, <2>1, <2>2, <2>3, <2>4
    DEF Passed, AllowedAndRouted, Vouched, LetThrough, Forgeable, KeyFor
<1> QED
  BY <1>2, <1>3, <1>4, <1>5 DEF ChainInv

\* Each step keeps the invariant, and is one of the limiter or leaves it alone.
LEMMA ChainStep ==
  ASSUME ChainInv, [ChainNext]_vars
  PROVE  ChainInv' /\ [LimiterNext]_limiterVars
<1>0. /\ TypeOK /\ LimiterTypeOK
      /\ \A r \in Requests : /\ Passed(r) /\ visit[r] \in Visits
                             /\ identity[r] \in Identities /\ place[r] \in Place
  BY DEF ChainInv, TypeOK
<1>s. /\ \A s \in {"disposing", "answered", "authenticating", "handling", "minting"} :
           s \in Stages
      /\ \A s \in {"none", "ok", "failed", "unauthorized", "forbidden", "tooMany",
                   "systemError"} : s \in Statuses
  BY DEF Stages, Statuses
<1>1. ASSUME NEW r \in Requests, Arrive(r) PROVE ChainInv' /\ UNCHANGED limiterVars
  BY <1>1, <1>0, EntranceFacts, StayStep DEF Arrive, AllowedAndRouted
<1>2. ASSUME NEW r \in Requests, Malformed(r) PROVE ChainInv' /\ UNCHANGED limiterVars
  BY <1>2, <1>s, PlaceFacts, StayStep DEF Malformed
<1>3. ASSUME NEW r \in Requests, Authenticated(r)
      PROVE ChainInv' /\ UNCHANGED limiterVars
  <2>1. visit[r].claims \in Identities /\ Guest \in Identities
    BY <1>0 DEF Identities
  <2>2. CASE "auth" \in setup
    BY <1>3, <2>1, <2>2, IdentifyStep DEF Authenticated
  <2>3. CASE "auth" \notin setup
    BY <1>3, <2>1, <2>3, IdentifyStep DEF Authenticated
  <2> QED
    BY <2>2, <2>3
<1>4. ASSUME NEW r \in Requests, SessionFails(r)
      PROVE ChainInv' /\ UNCHANGED limiterVars
  <2>1. Guest \in Identities
    BY DEF Identities
  <2> QED
    BY <1>4, <2>1, IdentifyStep DEF SessionFails
<1>5. ASSUME NEW r \in Requests, TokenRefused(r)
      PROVE ChainInv' /\ UNCHANGED limiterVars
  BY <1>5, <1>0, <1>s, PlaceFacts, StayStep DEF TokenRefused
<1>6. ASSUME NEW r \in Requests, ServiceThrows(r) \/ HandlerThrows(r)
      PROVE ChainInv' /\ UNCHANGED limiterVars
  BY <1>6, PlaceFacts, StayStep DEF ServiceThrows, HandlerThrows
<1>7. ASSUME NEW r \in Requests, Counted(r) PROVE ChainInv' /\ LimiterNext
  <2> DEFINE k == KeyFor(visit[r], identity[r])
             p == IF hit'[r].verdict = "refused" THEN Leaving(visit[r], "tooMany")
                  ELSE IntoCsrf(visit[r], identity[r])
  <2>1. k \in Keys
    BY <1>0, <1>7 DEF Counted, Is, Passed
  <2>2. Increment(r, k) \/ EmptyResult(r, k) \/ WriteCount(r, k)
    BY <1>7 DEF Counted
  <2>3. LimiterNext
    BY <2>1, <2>2 DEF LimiterNext
  <2>4. LimiterTypeOK'
    BY <2>3, <1>0, LimiterTypeStep
  <2>5. /\ hit'[r].verdict \in {"admitted", "refused"} /\ hit'[r].key = k
        /\ \A q \in Requests \ {r} : hit'[q] = hit[q]
    <3>1. PICK verdict \in {"admitted", "refused"} : Decide(r, k, verdict)
      BY <2>2 DEF Increment, EmptyResult, WriteCount, Judge
    <3> QED
      BY <3>1, <1>0 DEF Decide, LimiterTypeOK
  <2>6. p \in Place
    BY <1>0, <1>s, PlaceFacts, CsrfFacts
  <2>7. \/ p.stage = "disposing"
        \/ p = IntoCsrf(visit[r], identity[r]) /\ hit'[r].verdict = "admitted"
    BY <1>0, <1>s, <2>5, PlaceFacts
  <2>8. Is(r, "counting") /\ UNCHANGED identity /\ Goto(r, p)
    BY <1>7 DEF Counted
  <2> HIDE DEF p
  <2>9. ChainInv'
    BY <2>4, <2>5, <2>6, <2>7, <2>8, CountStep
  <2> QED
    BY <2>3, <2>9
<1>8. ASSUME NEW r \in Requests, CountFails(r) PROVE ChainInv' /\ LimiterNext
  <2> DEFINE k == KeyFor(visit[r], identity[r])
  <2>1. k \in Keys
    BY <1>0, <1>8 DEF CountFails, Is, Passed
  <2>2. IncrementRejects(r, k)
    BY <1>8 DEF CountFails
  <2>3. LimiterNext
    BY <2>1, <2>2 DEF LimiterNext
  <2>4. LimiterTypeOK'
    BY <2>3, <1>0, LimiterTypeStep
  <2>5. \A q \in Requests \ {r} : hit'[q] = hit[q]
    BY <2>2, <1>0 DEF IncrementRejects, Decide, LimiterTypeOK
  <2> QED
    BY <1>8, <2>3, <2>4, <2>5, PlaceFacts, CountStep DEF CountFails
<1>9. ASSUME NEW r \in Requests, CountRead(r) PROVE ChainInv' /\ LimiterNext
  <2> DEFINE k == KeyFor(visit[r], identity[r])
  <2>1. k \in Keys
    BY <1>0, <1>9 DEF CountRead, Is, Passed
  <2>2. ReadCount(r, k)
    BY <1>9 DEF CountRead
  <2>3. LimiterNext
    BY <2>1, <2>2 DEF LimiterNext
  <2>4. LimiterTypeOK'
    BY <2>3, <1>0, LimiterTypeStep
  <2>5. /\ \A q \in Requests \ {r} : hit'[q] = hit[q]
        /\ UNCHANGED chainVars /\ place[r].stage = "counting"
    BY <2>2, <1>0, <1>9 DEF CountRead, ReadCount, LimiterTypeOK, Is
  <2>6. TypeOK'
    BY <2>4, <2>5, <1>0 DEF TypeOK, chainVars
  <2>7. ASSUME NEW q \in Requests PROVE Passed(q)'
    <3>1. CASE q = r
      BY <3>1, <2>5, <1>0
      DEF Passed, AllowedAndRouted, Vouched, LetThrough, Forgeable, KeyFor, chainVars
    <3>2. CASE q # r
      BY <3>2, <2>5, <1>0, OthersStay DEF chainVars
    <3> QED
      BY <3>1, <3>2
  <2> QED
    BY <2>3, <2>6, <2>7 DEF ChainInv
<1>10. ASSUME NEW r \in Requests, Validated(r)
       PROVE ChainInv' /\ UNCHANGED limiterVars
  <2>1. /\ AllowedAndRouted(r) /\ Vouched(r) /\ LetThrough(r)
        /\ visit[r].header = visit[r].cookie /\ identity[r].user # None
    BY <1>0, <1>10 DEF Validated, Is, Passed
  <2>2. CASE visit[r].header = identity[r].user
    BY <1>10, <1>s, <2>1, <2>2, PlaceFacts, StayStep DEF Validated
  <2>3. CASE visit[r].header # identity[r].user
    BY <1>0, <1>10, <1>s, <2>3, CsrfFacts, StayStep DEF Validated
  <2> QED
    BY <2>2, <2>3
<1>11. ASSUME NEW r \in Requests, HandlerReturns(r)
       PROVE ChainInv' /\ UNCHANGED limiterVars
  BY <1>0, <1>11, <1>s, CsrfFacts, StayStep DEF HandlerReturns, ControllerStatuses
<1>12. ASSUME NEW r \in Requests, Minted(r)
       PROVE ChainInv' /\ UNCHANGED limiterVars
  <2> DEFINE p == [stage |-> "disposing",
                   answer |-> [place[r].answer EXCEPT !.cookie = identity[r].user]]
  <2>1. identity[r].user \in Subjects
    BY <1>0 DEF Subjects
  <2>2. p \in Place
    BY <1>0, <1>s, <2>1 DEF Place
  <2> QED
    BY <1>12, <2>2, StayStep DEF Minted
<1>13. ASSUME NEW r \in Requests, Disposed(r)
       PROVE ChainInv' /\ UNCHANGED limiterVars
  <2> DEFINE p == [place[r] EXCEPT !.stage = "answered"]
  <2>1. p \in Place /\ p.stage = "answered"
    BY <1>0, <1>s DEF Place
  <2>2. Goto(r, p) /\ Stay
    BY <1>13 DEF Disposed
  <2> HIDE DEF p
  <2> QED
    BY <2>1, <2>2, StayStep
<1>14. CASE Tick
  <2>1. LimiterTypeOK'
    BY <1>0, <1>14, LimiterTypeStep DEF Tick, LimiterNext
  <2>2. TypeOK'
    BY <2>1, <1>0, <1>14 DEF Tick, chainVars, TypeOK
  <2>3. ASSUME NEW q \in Requests PROVE Passed(q)'
    BY <1>0, <1>14, OthersStay DEF Tick, chainVars, LimiterTick
  <2> QED
    BY <1>14, <2>2, <2>3 DEF Tick, LimiterNext, ChainInv
<1>15. CASE UNCHANGED vars
  <2>1. TypeOK'
    BY <1>0, <1>15 DEF vars, chainVars, limiterVars, TypeOK, LimiterTypeOK
  <2>2. ASSUME NEW q \in Requests PROVE Passed(q)'
    BY <1>0, <1>15, OthersStay DEF vars, chainVars, limiterVars
  <2> QED
    BY <1>15, <2>1, <2>2 DEF vars, ChainInv
<1> QED
  BY <1>1, <1>2, <1>3, <1>4, <1>5, <1>6, <1>7, <1>8, <1>9, <1>10, <1>11, <1>12,
     <1>13, <1>14, <1>15
  DEF ChainNext, Step

LEMMA ChainStarts == ChainInit => ChainInv
<1> SUFFICES ASSUME ChainInit PROVE ChainInv
  OBVIOUS
<1>1. LimiterTypeOK
  BY EntryFacts, LimiterAssumption DEF ChainInit, LimiterInit, LimiterTypeOK, NoHit, Hit
<1>2. "new" \in Stages /\ "none" \in Statuses
  BY DEF Stages, Statuses
<1>3. TypeOK
  BY <1>1, <1>2, PlaceFacts DEF ChainInit, TypeOK, Identities
<1>4. ASSUME NEW r \in Requests PROVE Passed(r)
  <2>1. place[r].stage = "new"
    BY <1>2, PlaceFacts DEF ChainInit
  <2> QED
    BY <2>1 DEF Passed
<1> QED
  BY <1>3, <1>4 DEF ChainInv

(* Every variable of the chain keeps its type.                             *)
THEOREM TypeCorrect == ChainSpec => []TypeOK
<1>1. ChainInv => TypeOK
  BY DEF ChainInv
<1>2. ChainInv /\ [ChainNext]_vars => ChainInv'
  BY ChainStep
<1> QED
  BY <1>1, <1>2, ChainStarts, PTL DEF ChainSpec

(* No handler is reached but past every middleware of the deployment.      *)
THEOREM HandlersAreGuarded == ChainSpec => []HandlerIsGuarded
<1>1. ChainInv => HandlerIsGuarded
  BY DEF ChainInv, Passed, AllowedAndRouted, Vouched, LetThrough, Forgeable,
         HandlerIsGuarded, Is
<1>2. ChainInv /\ [ChainNext]_vars => ChainInv'
  BY ChainStep
<1> QED
  BY <1>1, <1>2, ChainStarts, PTL DEF ChainSpec

(* The chain uses the limiter as its specification says.                   *)
THEOREM ChainImplementsLimiter == ChainSpec => LimiterSpec
<1>1. ChainInit => LimiterInit
  BY DEF ChainInit
<1>2. ChainInv /\ [ChainNext]_vars => ChainInv' /\ [LimiterNext]_limiterVars
  BY ChainStep
<1> QED
  BY <1>1, <1>2, ChainStarts, PTL DEF ChainSpec, LimiterSpec

(* So no client has more requests let through in any window than allowed,  *)
(* wherever in the chain requests wait, fail or are refused.               *)
THEOREM ChainKeepsLimit == ChainSpec => []SlidingWindow
<1>1. ASSUME LimiterInv PROVE SlidingWindow
  BY <1>1 DEF LimiterInv, SlidingWindow
<1> QED
  BY <1>1, WindowIsCovered, ChainImplementsLimiter, PTL

-----------------------------------------------------------------------------
(* What the answers carry.  A request that goes to p as who fits when its   *)
(* answer, if it has one, is marked for the page and bears the cookie, or   *)
(* is about to be made one.                                                 *)
Fits(v, who, p) ==
  /\ p.stage \in {"minting", "disposing", "answered"} =>
       /\ /\ "cors" \in setup /\ v.origin = "own"
          /\ p.answer.status # "systemError"
          => p.answer.cors
       /\ p.answer.cors => v.origin = "own"
  /\ p.stage = "minting" => LacksCookie(v, who) /\ p.answer.cookie = None
  /\ p.stage \in {"disposing", "answered"} =>
       /\ p.answer.cookie \in {None, who.user}
       /\ LacksCookie(v, who) /\ p.answer.status \in {"ok", "failed", "forbidden"} =>
            p.answer.cookie # None
  /\ p.stage \in {"new", "authenticating"} => who = Guest

AnswersFit == \A r \in Requests : Fits(visit[r], identity[r], place[r])

\* Wherever a middleware sends a request that may go on, it fits.
LEMMA OutwardFits ==
  ASSUME NEW v \in Visits, NEW who, v.origin # "foreign"
  PROVE  /\ \A status : Fits(v, who, LeavingCsrf(v, who, status))
         /\ \A status \in {"unauthorized", "tooMany", "unavailable"} :
              Fits(v, who, Leaving(v, status))
         /\ Fits(v, who, At("handling", "none", FALSE))
         /\ Fits(v, who, At("validating", "none", FALSE))
         /\ Fits(v, who, At("counting", "none", FALSE))
         /\ Fits(v, who, Thrown)
<1>1. v.origin = "none" \/ v.origin = "own"
  BY ChainAssumption
<1> USE <1>1 DEF Fits, Leaving, LeavingCsrf, At, Marked, Thrown
<1>2. \A status : Fits(v, who, LeavingCsrf(v, who, status))
  BY DEF LacksCookie
<1> QED
  BY <1>2

LEMMA InwardFits ==
  ASSUME NEW v \in Visits, NEW who, v.origin # "foreign"
  PROVE  Fits(v, who, IntoCsrf(v, who)) /\ Fits(v, who, IntoLimiter(v, who))
<1>1. Fits(v, who, IntoCsrf(v, who))
  BY OutwardFits DEF IntoCsrf
<1> QED
  BY <1>1, OutwardFits DEF IntoLimiter

LEMMA ArrivalFits ==
  ASSUME NEW v \in Visits
  PROVE  Fits(v, Guest, IntoOrigin(v))
<1>1. ~ LacksCookie(v, Guest)
  BY DEF LacksCookie, Guest
<1>2. v.origin \in {"none", "own", "foreign"}
  BY ChainAssumption
<1>3. Fits(v, Guest, At("disposing", "forbidden", FALSE)) \/ v.origin # "foreign"
  BY <1>1, <1>2 DEF Fits, At
<1>4. ASSUME v.origin # "foreign" PROVE Fits(v, Guest, IntoOptions(v))
  BY <1>1, <1>2, <1>4 DEF IntoOptions, Fits, At, Thrown
<1>5. ASSUME v.origin # "foreign" PROVE Fits(v, Guest, IntoMethods(v))
  BY <1>1, <1>2, <1>5 DEF IntoMethods, Fits, At, Thrown, Leaving, Marked
<1> QED
  BY <1>3, <1>4, <1>5 DEF IntoOrigin

\* A step that sends one request where it fits leaves the others fitting.
LEMMA FitStep ==
  ASSUME TypeOK, AnswersFit, NEW r \in Requests, NEW p, Goto(r, p),
         \A q \in Requests \ {r} : identity'[q] = identity[q],
         Fits(visit[r], identity'[r], p)
  PROVE  AnswersFit'
<1>1. /\ place'[r] = p /\ setup' = setup /\ visit' = visit
      /\ \A q \in Requests \ {r} : place'[q] = place[q]
  BY DEF Goto, TypeOK
<1> QED
  BY <1>1 DEF AnswersFit, Fits, LacksCookie

LEMMA AnswersStep ==
  ASSUME ChainInv, AnswersFit, [ChainNext]_vars
  PROVE  AnswersFit'
<1>0. /\ TypeOK
      /\ \A r \in Requests : /\ Passed(r) /\ visit[r] \in Visits
                             /\ Fits(visit[r], identity[r], place[r])
  BY DEF ChainInv, TypeOK, AnswersFit
<1>p. \A r \in Requests :
        place[r].stage \in {"authenticating", "counting", "validating", "handling"} =>
          visit[r].origin # "foreign"
  BY <1>0 DEF Passed, AllowedAndRouted
<1>1. ASSUME NEW r \in Requests, Arrive(r) \/ Malformed(r) PROVE AnswersFit'
  <2>1. identity[r] = Guest /\ identity' = identity
    BY <1>0, <1>1 DEF Arrive, Malformed, Stay, Is, Fits
  <2>2. Fits(visit[r], Guest, At("answered", "systemError", FALSE))
    BY DEF Fits, At
  <2> QED
    BY <1>0, <1>1, <2>1, <2>2, ArrivalFits, FitStep DEF Arrive, Malformed
<1>2. ASSUME NEW r \in Requests, NEW who, Identify(r, who) PROVE AnswersFit'
  <2>1. identity'[r] = who /\ \A q \in Requests \ {r} : identity'[q] = identity[q]
    BY <1>0, <1>2 DEF Identify, UpdateIdentity, TypeOK
  <2>2. visit[r].origin # "foreign"
    BY <1>p, <1>2 DEF Identify, Is
  <2> QED
    BY <1>0, <1>2, <2>1, <2>2, InwardFits, FitStep DEF Identify
<1>3. ASSUME NEW r \in Requests, Authenticated(r) \/ SessionFails(r)
      PROVE AnswersFit'
  BY <1>2, <1>3 DEF Authenticated, SessionFails
<1>4. ASSUME NEW r \in Requests,
             TokenRefused(r) \/ ServiceThrows(r) \/ HandlerThrows(r)
      PROVE AnswersFit'
  <2>1. identity' = identity
    BY <1>4 DEF TokenRefused, ServiceThrows, HandlerThrows, Stay
  <2>2. Fits(visit[r], identity[r], Thrown)
    BY DEF Fits, Thrown, At
  <2>3. TokenRefused(r) => visit[r].origin # "foreign"
    BY <1>p DEF TokenRefused, Is
  <2> QED
    BY <1>0, <1>4, <2>1, <2>2, <2>3, OutwardFits, FitStep
    DEF TokenRefused, ServiceThrows, HandlerThrows
<1>5. ASSUME NEW r \in Requests, Counted(r) \/ CountFails(r) PROVE AnswersFit'
  <2>1. identity' = identity /\ visit[r].origin # "foreign"
    BY <1>p, <1>5 DEF Counted, CountFails, Is
  <2> QED
    BY <1>0, <1>5, <2>1, OutwardFits, InwardFits, FitStep DEF Counted, CountFails
<1>6. ASSUME NEW r \in Requests, Validated(r) \/ HandlerReturns(r)
      PROVE AnswersFit'
  <2>1. identity' = identity /\ visit[r].origin # "foreign"
    BY <1>p, <1>6 DEF Validated, HandlerReturns, Is, Stay
  <2> QED
    BY <1>0, <1>6, <2>1, OutwardFits, FitStep DEF Validated, HandlerReturns
<1>7. ASSUME NEW r \in Requests, Minted(r) PROVE AnswersFit'
  <2> DEFINE p == [stage |-> "disposing",
                   answer |-> [place[r].answer EXCEPT !.cookie = identity[r].user]]
  <2>1. identity' = identity /\ Goto(r, p)
    BY <1>7 DEF Minted, Stay
  <2>2. place[r].stage = "minting" /\ place[r] \in Place
    BY <1>0, <1>7 DEF Minted, Is, TypeOK
  <2>3. /\ p.stage = "disposing" /\ p.answer.cookie = identity[r].user
        /\ p.answer.cors = place[r].answer.cors
        /\ p.answer.status = place[r].answer.status
    BY <2>2 DEF Place
  <2> HIDE DEF p
  <2>4. Fits(visit[r], identity[r], p)
    BY <1>0, <2>2, <2>3 DEF Fits, LacksCookie
  <2> QED
    BY <1>0, <2>1, <2>4, FitStep
<1>8. ASSUME NEW r \in Requests, Disposed(r) PROVE AnswersFit'
  <2> DEFINE p == [place[r] EXCEPT !.stage = "answered"]
  <2>1. identity' = identity /\ Goto(r, p) /\ place[r].stage = "disposing"
    BY <1>8 DEF Disposed, Stay, Is
  <2>2. p.stage = "answered" /\ p.answer = place[r].answer
    BY <1>0 DEF TypeOK, Place
  <2> HIDE DEF p
  <2>3. Fits(visit[r], identity[r], p)
    BY <1>0, <2>1, <2>2 DEF Fits
  <2> QED
    BY <1>0, <2>1, <2>3, FitStep
<1>9. ASSUME UNCHANGED chainVars PROVE AnswersFit'
  BY <1>9 DEF chainVars, AnswersFit, Fits, LacksCookie
<1>10. ASSUME NEW r \in Requests, CountRead(r) PROVE AnswersFit'
  BY <1>9, <1>10 DEF CountRead
<1>11. CASE Tick \/ UNCHANGED vars
  BY <1>9, <1>11 DEF Tick, vars
<1> QED
  BY <1>1, <1>3, <1>4, <1>5, <1>6, <1>7, <1>8, <1>10, <1>11 DEF ChainNext, Step

(* Every answer, from whichever middleware, is marked for the page it is    *)
(* for and hands out the token its user lacks.                              *)
THEOREM AnswersCarryWhatIsNeeded == ChainSpec => []AnswersAreUsable
<1>1. ChainInit => AnswersFit
  BY DEF ChainInit, AnswersFit, Fits, At
<1>2. ChainInv /\ AnswersFit /\ [ChainNext]_vars => ChainInv' /\ AnswersFit'
  BY ChainStep, AnswersStep
<1>3. AnswersFit => AnswersAreUsable
  BY DEF AnswersFit, Fits, AnswersAreUsable, ReadableByPage, CookieHanded, Is
<1> QED
  BY <1>1, <1>2, <1>3, ChainStarts, PTL DEF ChainSpec
=============================================================================
