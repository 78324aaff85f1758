-------------------------- MODULE CqrsChainProofs --------------------------
(***************************************************************************)
(* What the behaviours around a handler guarantee, for any calls, policies,*)
(* deployments and number of attempts.                                     *)
(***************************************************************************)
EXTENDS CqrsChain, WellFoundedInduction, TLAPS

-----------------------------------------------------------------------------
(* The inductive invariant.  What holds of a call c that is at k:          *)

Before == {"new", "authorizing", "validating", "lookingUp"}
Within == {"lookingUp", "working", "reading", "delaying", "storing"}

\* Its attempts and what it has committed with them.
Effects(c, k) ==
  LET q == request[c] IN
  /\ k.commits <= k.tries
  /\ k.tries > 1 => Retries(c)
  /\ q.type = "query" => k.commits = 0
  /\ k.place \in Before => k.tries = 0
  /\ k.place \in {"working", "reading"} => k.commits < k.tries
  /\ k.place = "delaying" => Retries(c) /\ k.tries < MaxRetries
  /\ ~ q.nested => k.commits <= 1 /\ (k.commits = 1 => k.answer = "ok")
  /\ k.answer = "ok" /\ q.type = "command" => k.commits >= 1
  /\ k.place # "answered" => k.answer = "none"

\* What it has passed on its way in.
Passed(c, k) ==
  /\ k.place = "validating" =>
       /\ "validation" \in setup
       /\ "policies" \in setup => Authorized(request[c])
  /\ k.place \in Within \/ k.answer = "ok" => Cleared(c)

\* What it knows of the data.
Sees(c, k, version) ==
  /\ k.saw <= version /\ k.since <= version
  /\ k.place \in {"reading", "storing"} => k.since <= k.saw
  /\ k.place # "answered" => k.from = None
  /\ request[c].type = "query" /\ k.answer = "ok" /\ k.from = None =>
       k.since <= k.saw
  /\ k.place = "storing" => Caches(c)
  /\ k.place = "lookingUp" => LooksUp(c)

\* Why it failed, if it did.
Deserves(c, k) ==
  LET q == request[c] IN
  /\ k.answer = "systemError" =>
       \/ k.left \in {"authorizing", "validating", "reading"}
       \/ c \notin open \/ q.intent \notin Registered
  /\ k.answer = "conflict" /\ Retries(c) /\ ~ k.threw => k.tries = MaxRetries
  /\ k.answer = "unauthorized" => "policies" \in setup /\ ~ Identified(q)
  /\ k.answer = "forbidden" => "policies" \in setup /\ ~ Authorized(q)
  /\ k.answer = "invalid" => "validation" \in setup /\ ~ q.valid
  /\ k.place = "rejected" => q.scope = "detached" /\ c \notin open

Fits(c, k, version) ==
  Effects(c, k) /\ Passed(c, k) /\ Sees(c, k, version) /\ Deserves(c, k)

\* What b has stored is good for a query under the same key, from then on.
Stored(b, version) ==
  /\ b \in Calls /\ call[b].place # "new"
  /\ Cleared(b) /\ call[b].since <= version

CacheSound ==
  \A key \in Keys : cache[key].by # None =>
    /\ Stored(cache[key].by, cache[key].version)
    /\ CacheKey(request[cache[key].by]) = key
    /\ cache[key].version <= db

SourceSound ==
  \A c \in Calls : call[c].from # None =>
    /\ Stored(call[c].from, call[c].saw)
    /\ CacheKey(request[call[c].from]) = CacheKey(request[c])
    /\ LooksUp(c)

ChainInv ==
  /\ TypeOK
  /\ \A c \in Calls : Fits(c, call[c], db)
  /\ \A c \in Calls :
       call[c].place = "new" => call[c].commits = 0 /\ call[c].answer = "none"
  /\ \A c \in Calls : request[c].scope = "held" => c \in open
  /\ CacheSound /\ SourceSound

-----------------------------------------------------------------------------
(* Leaving, and the ways in and out of the handler.                        *)

LEMMA LeaveFacts ==
  ASSUME NEW k \in Call, NEW result \in Answers \cup Thrown
  PROVE  /\ Leave(k, result) \in Call
         /\ Leave(k, result).place = "answered"
         /\ Leave(k, result).answer = Caught(result)
         /\ Leave(k, result).left = k.place
         /\ Leave(k, result).threw = (result \in Thrown)
         /\ Leave(k, result).from = k.from /\ Leave(k, result).since = k.since
         /\ Leave(k, result).saw = k.saw /\ Leave(k, result).tries = k.tries
         /\ Leave(k, result).commits = k.commits
<1>1. Caught(result) \in Answers
  BY DEF Caught, Answers, Thrown
<1>2. "answered" \in Places /\ (result \in Thrown) \in BOOLEAN
  BY DEF Places
<1> QED
  BY <1>1, <1>2 DEF Leave, Call

\* Moving a call to another place changes nothing else of it.
LEMMA PlaceFacts ==
  ASSUME NEW k \in Call, NEW place \in Places
  PROVE  LET j == [k EXCEPT !.place = place] IN
         /\ j \in Call /\ j.place = place
         /\ j.answer = k.answer /\ j.left = k.left /\ j.threw = k.threw
         /\ j.from = k.from /\ j.since = k.since /\ j.saw = k.saw
         /\ j.tries = k.tries /\ j.commits = k.commits
BY DEF Call

LEMMA TriesFacts ==
  ASSUME NEW k \in Call, NEW n \in 0 .. MaxRetries
  PROVE  LET j == [k EXCEPT !.tries = n] IN
         /\ j \in Call /\ j.tries = n
         /\ j.place = k.place
         /\ j.answer = k.answer /\ j.left = k.left /\ j.threw = k.threw
         /\ j.from = k.from /\ j.since = k.since /\ j.saw = k.saw
         /\ j.commits = k.commits
BY DEF Call

LEMMA CommitsFacts ==
  ASSUME NEW k \in Call
  PROVE  LET j == [k EXCEPT !.commits = k.commits + 1] IN
         /\ j \in Call /\ j.commits = k.commits + 1
         /\ j.place = k.place
         /\ j.answer = k.answer /\ j.left = k.left /\ j.threw = k.threw
         /\ j.from = k.from /\ j.since = k.since /\ j.saw = k.saw
         /\ j.tries = k.tries
<1>1. k.commits + 1 \in Nat
  BY DEF Call
<1> QED
  BY <1>1 DEF Call

\* A call on its way that has committed less than its attempts.
Underway(c, k) ==
  /\ k \in Call /\ k.answer = "none" /\ k.from = None
  /\ k.saw <= db /\ k.since <= db
  /\ k.commits <= k.tries /\ (k.tries > 1 => Retries(c))
  /\ request[c].type = "query" => k.commits = 0
  /\ ~ request[c].nested => k.commits = 0

\* Where a step may take a call that was at k.
Arrives(c, k, j) ==
  /\ j \in Call /\ Fits(c, j, db) /\ j.place # "new"
  /\ j.since = k.since /\ j.from = None

\* A call that is refused, or fails, before or in the handler.
LEMMA FailureArrives ==
  ASSUME NEW c \in Calls, NEW k, Underway(c, k),
         NEW result \in (Answers \cup Thrown) \ {"ok", "none"},
         result = "thrown" =>
           \/ k.place \in {"authorizing", "validating", "reading"}
           \/ c \notin open \/ request[c].intent \notin Registered,
         result = "conflict" /\ Retries(c) => k.tries = MaxRetries,
         result = "unauthorized" => "policies" \in setup /\ ~ Identified(request[c]),
         result = "forbidden" => "policies" \in setup /\ ~ Authorized(request[c]),
         result = "invalid" => "validation" \in setup /\ ~ request[c].valid,
         result # "systemError"
  PROVE  Arrives(c, k, Leave(k, result))
<1> DEFINE j == Leave(k, result)
<1>1. /\ k \in Call /\ j \in Call /\ j.place = "answered"
      /\ j.answer = Caught(result) /\ j.left = k.place
      /\ j.threw = (result \in Thrown)
      /\ j.from = None /\ j.since = k.since /\ j.saw = k.saw
      /\ j.tries = k.tries /\ j.commits = k.commits
  BY LeaveFacts DEF Underway
<1>2. /\ Caught(result) # "ok"
      /\ Caught(result) = "systemError" => result = "thrown"
      /\ Caught(result) = "conflict" => result \in {"conflict", "thrownConflict"}
      /\ Caught(result) = "unauthorized" => result = "unauthorized"
      /\ Caught(result) = "forbidden" => result = "forbidden"
      /\ Caught(result) = "invalid" => result = "invalid"
  BY DEF Caught, Answers, Thrown
<1>3. result = "thrownConflict" => j.threw
  BY <1>1 DEF Thrown
<1> HIDE DEF j
<1>4. /\ k.commits \in Nat /\ k.tries \in 0 .. MaxRetries
      /\ k.commits <= k.tries
  BY <1>1 DEF Underway, Call
<1>5. Effects(c, j)
  BY <1>1, <1>2, <1>4 DEF Effects, Underway, Before
<1>6. Passed(c, j)
  BY <1>1, <1>2 DEF Passed, Within
<1>7. Sees(c, j, db)
  BY <1>1, <1>2 DEF Sees, Underway
<1>8. Deserves(c, j)
  BY <1>1, <1>2, <1>3 DEF Deserves
<1> QED
  BY <1>1, <1>5, <1>6, <1>7, <1>8 DEF Arrives, Fits, j

LEMMA HandlerArrives ==
  ASSUME CqrsAssumption, NEW c \in Calls, NEW k, Underway(c, k), Cleared(c),
         k.commits < k.tries
  PROVE  Arrives(c, k, IntoHandler(c, k))
<1>1. CASE c \in open /\ request[c].intent \in Registered
  <2> DEFINE j == [k EXCEPT !.place = "working"]
  <2>1. k \in Call /\ "working" \in Places
    BY DEF Underway, Places
  <2>2. /\ j \in Call /\ j.place = "working" /\ j.answer = k.answer
        /\ j.from = k.from /\ j.since = k.since /\ j.saw = k.saw
        /\ j.tries = k.tries /\ j.commits = k.commits
    BY <2>1, PlaceFacts
  <2>3. IntoHandler(c, k) = j
    BY <1>1 DEF IntoHandler
  <2> HIDE DEF j
  <2>4. Effects(c, j)
    BY <2>2 DEF Effects, Underway, Before, Call
  <2>5. Passed(c, j) /\ Sees(c, j, db) /\ Deserves(c, j)
    BY <2>2 DEF Passed, Sees, Deserves, Underway
  <2> QED
    BY <2>2, <2>3, <2>4, <2>5 DEF Arrives, Fits, Underway
<1>2. CASE ~ (c \in open /\ request[c].intent \in Registered)
  <2>1. "thrown" \in (Answers \cup Thrown) \ {"ok", "none"}
    BY DEF Thrown
  <2> QED
    BY <1>2, <2>1, FailureArrives DEF IntoHandler
<1> QED
  BY <1>1, <1>2

\* A call before its first attempt.
Fresh0(c, k) == Underway(c, k) /\ k.tries = 0

LEMMA BusArrives ==
  ASSUME CqrsAssumption, NEW c \in Calls, NEW k, Fresh0(c, k), Cleared(c)
  PROVE  /\ Arrives(c, k, IntoHandler(c, [k EXCEPT !.tries = 1]))
         /\ Arrives(c, k, IntoBus(c, k))
<1>0. /\ MaxRetries \in Nat /\ MaxRetries # 0 /\ k \in Call /\ k.tries = 0
      /\ k.commits \in Nat /\ k.commits <= k.tries
  BY DEF CqrsAssumption, ValidRetries, Fresh0, Underway, Call
<1>1. 1 \in 0 .. MaxRetries /\ k.commits = 0
  BY <1>0
<1>2. Arrives(c, k, IntoHandler(c, [k EXCEPT !.tries = 1]))
  <2> DEFINE h == [k EXCEPT !.tries = 1]
  <2>1. /\ h \in Call /\ h.tries = 1 /\ h.answer = k.answer
        /\ h.from = k.from /\ h.since = k.since /\ h.saw = k.saw
        /\ h.commits = k.commits
    BY <1>0, <1>1, TriesFacts
  <2> HIDE DEF h
  <2>2. Underway(c, h) /\ h.commits < h.tries
    BY <1>1, <2>1 DEF Fresh0, Underway
  <2>3. Arrives(c, h, IntoHandler(c, h))
    BY <2>2, HandlerArrives
  <2>4. Arrives(c, k, IntoHandler(c, h))
    BY <2>1, <2>3 DEF Arrives
  <2> QED
    BY <2>4 DEF h
<1>3. CASE LooksUp(c)
  <2> DEFINE j == [k EXCEPT !.place = "lookingUp"]
  <2>1. "lookingUp" \in Places
    BY DEF Places
  <2>2. /\ j \in Call /\ j.place = "lookingUp" /\ j.answer = k.answer
        /\ j.from = k.from /\ j.since = k.since /\ j.saw = k.saw
        /\ j.tries = k.tries /\ j.commits = k.commits
    BY <1>0, <2>1, PlaceFacts
  <2>3. IntoBus(c, k) = j
    BY <1>3 DEF IntoBus
  <2> HIDE DEF j
  <2>4. Effects(c, j)
    BY <1>0, <1>1, <2>2 DEF Effects, Fresh0, Underway, Before
  <2>5. Passed(c, j) /\ Sees(c, j, db) /\ Deserves(c, j)
    BY <1>3, <2>2 DEF Passed, Sees, Deserves, Fresh0, Underway
  <2>6. Arrives(c, k, IntoBus(c, k))
    BY <2>2, <2>3, <2>4, <2>5 DEF Arrives, Fits, Fresh0, Underway
  <2> QED
    BY <1>2, <2>6
<1>4. CASE ~ LooksUp(c)
  BY <1>2, <1>4 DEF IntoBus
<1> QED
  BY <1>3, <1>4

LEMMA ValidationArrives ==
  ASSUME CqrsAssumption, NEW c \in Calls, NEW k, Fresh0(c, k),
         "policies" \in setup => Authorized(request[c])
  PROVE  Arrives(c, k, IntoValidation(c, k))
<1>1. CASE "validation" \in setup
  <2> DEFINE j == [k EXCEPT !.place = "validating"]
  <2>1. k \in Call /\ "validating" \in Places
    BY DEF Fresh0, Underway, Places
  <2>2. /\ j \in Call /\ j.place = "validating" /\ j.answer = k.answer
        /\ j.from = k.from /\ j.since = k.since /\ j.saw = k.saw
        /\ j.tries = k.tries /\ j.commits = k.commits
    BY <2>1, PlaceFacts
  <2>3. IntoValidation(c, k) = j
    BY <1>1 DEF IntoValidation
  <2> HIDE DEF j
  <2>4. Effects(c, j)
    BY <2>1, <2>2 DEF Effects, Fresh0, Underway, Before, Call
  <2>5. Passed(c, j) /\ Sees(c, j, db) /\ Deserves(c, j)
    BY <1>1, <2>2 DEF Passed, Within, Sees, Deserves, Fresh0, Underway
  <2> QED
    BY <2>2, <2>3, <2>4, <2>5 DEF Arrives, Fits, Fresh0, Underway
<1>2. CASE "validation" \notin setup
  BY <1>2, BusArrives DEF IntoValidation, Cleared
<1> QED
  BY <1>1, <1>2

LEMMA ChainArrives ==
  ASSUME CqrsAssumption, NEW c \in Calls, NEW k, Fresh0(c, k)
  PROVE  Arrives(c, k, IntoChain(c, k))
<1>1. CASE setup \cap {"policies", "custom"} # {}
  <2> DEFINE j == [k EXCEPT !.place = "authorizing"]
  <2>1. k \in Call /\ "authorizing" \in Places
    BY DEF Fresh0, Underway, Places
  <2>2. /\ j \in Call /\ j.place = "authorizing" /\ j.answer = k.answer
        /\ j.from = k.from /\ j.since = k.since /\ j.saw = k.saw
        /\ j.tries = k.tries /\ j.commits = k.commits
    BY <2>1, PlaceFacts
  <2>3. IntoChain(c, k) = j
    BY <1>1 DEF IntoChain
  <2> HIDE DEF j
  <2>4. Effects(c, j)
    BY <2>1, <2>2 DEF Effects, Fresh0, Underway, Before, Call
  <2>5. Passed(c, j) /\ Sees(c, j, db) /\ Deserves(c, j)
    BY <2>2 DEF Passed, Within, Sees, Deserves, Fresh0, Underway
  <2> QED
    BY <2>2, <2>3, <2>4, <2>5 DEF Arrives, Fits, Fresh0, Underway
<1>2. CASE setup \cap {"policies", "custom"} = {}
  BY <1>2, ValidationArrives DEF IntoChain
<1> QED
  BY <1>1, <1>2

\* A call that has its answer: what it asked for was done.
Done(c, k) ==
  /\ k \in Call /\ k.answer = "none"
  /\ k.saw <= db /\ k.since <= db /\ k.since <= k.saw
  /\ k.commits <= k.tries /\ (k.tries > 1 => Retries(c))
  /\ request[c].type = "query" => k.commits = 0
  /\ request[c].type = "command" => k.commits >= 1
  /\ ~ request[c].nested => k.commits <= 1
  /\ Cleared(c)

LEMMA SuccessArrives ==
  ASSUME NEW c \in Calls, NEW k, Done(c, k)
  PROVE  LET j == Leave(k, "ok") IN
         /\ j \in Call /\ Fits(c, j, db) /\ j.place = "answered"
         /\ j.since = k.since /\ j.from = k.from /\ j.saw = k.saw
<1> DEFINE j == Leave(k, "ok")
<1>1. /\ k \in Call /\ j \in Call /\ j.place = "answered"
      /\ j.answer = "ok"
      /\ j.from = k.from /\ j.since = k.since /\ j.saw = k.saw
      /\ j.tries = k.tries /\ j.commits = k.commits
  BY LeaveFacts DEF Done, Caught, Answers
<1> HIDE DEF j
<1>2. Effects(c, j)
  BY <1>1 DEF Effects, Done, Before
<1>3. Passed(c, j)
  BY <1>1 DEF Passed, Done
<1>4. Sees(c, j, db)
  BY <1>1 DEF Sees, Done, Call
<1>5. Deserves(c, j)
  BY <1>1 DEF Deserves
<1> QED
  BY <1>1, <1>2, <1>3, <1>4, <1>5 DEF Fits, j

\* Out of the handler with success, and with a failure.
LEMMA DoneArrives ==
  ASSUME NEW c \in Calls, NEW k, Done(c, k), k.from = None
  PROVE  Arrives(c, k, OutOfHandler(c, k, "ok"))
<1>1. CASE Caches(c)
  <2> DEFINE j == [k EXCEPT !.place = "storing"]
  <2>1. k \in Call /\ "storing" \in Places
    BY DEF Done, Places
  <2>2. /\ j \in Call /\ j.place = "storing" /\ j.answer = k.answer
        /\ j.from = k.from /\ j.since = k.since /\ j.saw = k.saw
        /\ j.tries = k.tries /\ j.commits = k.commits
    BY <2>1, PlaceFacts
  <2>3. OutOfHandler(c, k, "ok") = j
    BY <1>1 DEF OutOfHandler
  <2> HIDE DEF j
  <2>4. Effects(c, j)
    BY <1>1, <2>1, <2>2 DEF Effects, Done, Before, Caches, Call
  <2>5. Passed(c, j) /\ Sees(c, j, db) /\ Deserves(c, j)
    BY <1>1, <2>1, <2>2 DEF Passed, Sees, Deserves, Done, Call
  <2> QED
    BY <2>2, <2>3, <2>4, <2>5 DEF Arrives, Fits
<1>2. CASE ~ Caches(c)
  <2>1. OutOfHandler(c, k, "ok") = Leave(k, "ok")
    BY <1>2 DEF OutOfHandler
  <2> QED
    BY <2>1, SuccessArrives DEF Arrives
<1> QED
  BY <1>1, <1>2

LEMMA FailedArrives ==
  ASSUME CqrsAssumption, NEW c \in Calls, NEW k, Underway(c, k), Cleared(c),
         k.place = "reading",
         NEW result \in {"conflict", "failed", "thrown", "thrownConflict"}
  PROVE  Arrives(c, k, OutOfHandler(c, k, result))
<1>1. CASE Retries(c) /\ result = "conflict" /\ k.tries < MaxRetries
  <2> DEFINE j == [k EXCEPT !.place = "delaying"]
  <2>1. k \in Call /\ "delaying" \in Places
    BY DEF Underway, Places
  <2>2. /\ j \in Call /\ j.place = "delaying" /\ j.answer = k.answer
        /\ j.from = k.from /\ j.since = k.since /\ j.saw = k.saw
        /\ j.tries = k.tries /\ j.commits = k.commits
    BY <2>1, PlaceFacts
  <2>3. OutOfHandler(c, k, result) = j
    BY <1>1 DEF OutOfHandler
  <2> HIDE DEF j
  <2>4. Effects(c, j)
    BY <1>1, <2>1, <2>2 DEF Effects, Underway, Before
  <2>5. Passed(c, j) /\ Sees(c, j, db) /\ Deserves(c, j)
    BY <1>1, <2>1, <2>2 DEF Passed, Sees, Deserves, Underway
  <2> QED
    BY <2>2, <2>3, <2>4, <2>5 DEF Arrives, Fits, Underway
<1>2. CASE ~ (Retries(c) /\ result = "conflict" /\ k.tries < MaxRetries)
  <2>1. OutOfHandler(c, k, result) = Leave(k, result)
    BY <1>2 DEF OutOfHandler
  <2>2. MaxRetries \in Nat /\ k.tries \in 0 .. MaxRetries
    BY DEF CqrsAssumption, ValidRetries, Underway, Call
  <2>3. result = "conflict" /\ Retries(c) => k.tries = MaxRetries
    BY <1>2, <2>2
  <2>4. result \in (Answers \cup Thrown) \ {"ok", "none"}
    BY DEF Answers, Thrown
  <2>5. Arrives(c, k, Leave(k, result))
    BY <2>3, <2>4, FailureArrives
  <2> QED
    BY <2>1, <2>5
<1> QED
  BY <1>1, <1>2

-----------------------------------------------------------------------------
(* The policies.                                                           *)

\* Of the policies listed for an intent one is the last.
LEMMA LastListed ==
  ASSUME CqrsAssumption, NEW intent, Listed(intent) # {}
  PROVE  \E n \in Listed(intent) : \A k \in Listed(intent) : k <= n
<1> DEFINE Rest == {Len(Policies) - n : n \in Listed(intent)}
<1>1. Policies \in Seq([intent : DOMAIN Lower, roles : SUBSET STRING,
                       permissions : SUBSET STRING,
                       userId : Flags, tenantId : Flags])
  BY DEF CqrsAssumption
<1>2. Len(Policies) \in Nat /\ DOMAIN Policies = 1 .. Len(Policies)
  BY <1>1
<1>3. \A n \in Listed(intent) : n \in 1 .. Len(Policies)
  BY <1>2 DEF Listed
<1>4. Rest # {} /\ Rest \subseteq Nat
  BY <1>2, <1>3
<1> HIDE DEF Rest
<1>5. PICK m \in Rest : \A k \in Rest : <<k, m>> \notin OpToRel(<, Nat)
  BY <1>4, WFMin, NatLessThanWellFounded, Zenon
<1>6. \A k \in Rest : ~ (k < m)
  BY <1>4, <1>5, Zenon DEF OpToRel
<1>7. PICK n \in Listed(intent) : m = Len(Policies) - n
  BY <1>5 DEF Rest
<1>8. \A k \in Listed(intent) : k <= n
  <2> TAKE k \in Listed(intent)
  <2>1. Len(Policies) - k \in Rest
    BY DEF Rest
  <2>2. ~ (Len(Policies) - k < Len(Policies) - n)
    BY <1>6, <1>7, <2>1
  <2> QED
    BY <1>2, <1>3, <2>2
<1> QED
  BY <1>8

\* Whom the strategies let pass has what the last policy of the intent asks for;
\* "unauthorized" and "forbidden" are said of who has not what it names.
LEMMA VerdictIsPolicy ==
  ASSUME CqrsAssumption, NEW q
  PROVE  /\ PolicyVerdict(q) \in {"ok", "unauthorized", "forbidden"}
         /\ PolicyVerdict(q) = "ok" => Authorized(q)
         /\ PolicyVerdict(q) = "unauthorized" => ~ Identified(q)
         /\ PolicyVerdict(q) = "forbidden" => ~ Authorized(q)
<1> DEFINE s == Strategies
           p == PolicyFor(q.intent)
<1>0. PolicyVerdict(q) \in {"ok", "unauthorized", "forbidden"}
  BY DEF PolicyVerdict
<1>1. /\ \A n : n \in Listed(q.intent) <=>
               n \in DOMAIN Policies /\ Lower[Policies[n].intent] = Lower[q.intent]
      /\ Listed(q.intent) \subseteq Int
  <2>1. Policies \in Seq([intent : DOMAIN Lower, roles : SUBSET STRING,
                         permissions : SUBSET STRING,
                         userId : Flags, tenantId : Flags])
    BY DEF CqrsAssumption
  <2>2. DOMAIN Policies \subseteq Int
    BY <2>1
  <2> QED
    BY <2>2 DEF Listed
<1>2. /\ PolicyVerdict(q) = "ok" =>
           /\ q.who # None \/ ~ (s.roles \/ s.permissions \/ s.user \/ s.tenant)
           /\ s.roles => RolesPass(p, q.who)
           /\ s.permissions => PermissionsPass(p, q.who)
           /\ s.user => UserPasses(p, q.who)
           /\ s.tenant => TenantPasses(p, q.who)
      /\ PolicyVerdict(q) = "unauthorized" =>
           \/ q.who = None
           \/ ~ UserPasses(p, q.who) \/ ~ TenantPasses(p, q.who)
      /\ PolicyVerdict(q) = "forbidden" =>
           /\ q.who # None \/ ~ (s.roles \/ s.permissions \/ s.user \/ s.tenant)
           /\ \/ s.roles /\ ~ RolesPass(p, q.who)
              \/ s.permissions /\ ~ PermissionsPass(p, q.who)
  BY DEF PolicyVerdict, Anonymous
<1>3. ASSUME NEW n \in DOMAIN Policies
      PROVE  /\ Policies[n].roles # {} => s.roles
             /\ Policies[n].permissions # {} => s.permissions
             /\ Policies[n].userId \notin EmptyFlags => s.user
             /\ Policies[n].tenantId \notin EmptyFlags => s.tenant
  BY DEF Strategies
<1> HIDE DEF s
<1>4. CASE Listed(q.intent) = {}
  <2>1. \A n \in DOMAIN Policies : ~ IsLast(n, q)
    BY <1>1, <1>4 DEF IsLast
  <2>2. Authorized(q) /\ (Identified(q) <=> q.who # None)
    BY <2>1 DEF Authorized, Identified
  <2>3. p = NoPolicy
    BY <1>4 DEF PolicyFor
  <2>4. /\ RolesPass(p, q.who) /\ PermissionsPass(p, q.who)
        /\ UserPasses(p, q.who) /\ TenantPasses(p, q.who)
    BY <2>3 DEF NoPolicy, RolesPass, PermissionsPass, UserPasses, TenantPasses
  <2> HIDE DEF p
  <2> QED
    BY <1>0, <1>2, <2>2, <2>4
<1>5. CASE Listed(q.intent) # {}
  <2>1. PICK n \in Listed(q.intent) : \A k \in Listed(q.intent) : k <= n
    BY <1>5, LastListed
  <2>2. \A m \in Listed(q.intent) : (\A k \in Listed(q.intent) : k <= m) => m = n
    BY <1>1, <2>1
  <2>3. p = Policies[n]
    BY <1>5, <2>1, <2>2 DEF PolicyFor
  <2>4. \A m \in DOMAIN Policies : IsLast(m, q) <=> m = n
    BY <1>1, <2>1, <2>2 DEF IsLast
  <2>5. n \in DOMAIN Policies
    BY <1>1, <2>1
  <2>6. /\ p.roles # {} => s.roles
        /\ p.permissions # {} => s.permissions
        /\ p.userId \notin EmptyFlags => s.user
        /\ p.tenantId \notin EmptyFlags => s.tenant
    BY <1>3, <2>3, <2>5
  <2> HIDE DEF p
  <2>7. Authorized(q) <=>
          /\ p.roles # {} => q.who # None /\ p.roles \cap q.who.roles # {}
          /\ p.permissions # {} =>
               q.who # None /\ p.permissions \cap q.who.permissions # {}
          /\ p.userId \notin EmptyFlags => q.who # None /\ q.who.user # None
          /\ p.tenantId \notin EmptyFlags => q.who # None /\ q.who.tenant # None
    BY <2>3, <2>4, <2>5, Zenon DEF Authorized
  <2>8. Identified(q) <=>
          /\ q.who # None
          /\ p.userId # None => q.who.user # None
          /\ p.tenantId # None => q.who.tenant # None
    BY <2>3, <2>4, <2>5, Zenon DEF Identified
  <2>9. None \in EmptyFlags
    BY DEF CqrsAssumption
  <2>10. PolicyVerdict(q) = "ok" => Authorized(q)
    BY <1>2, <2>6, <2>7, <2>9
       DEF RolesPass, PermissionsPass, UserPasses, TenantPasses
  <2>11. PolicyVerdict(q) = "unauthorized" => ~ Identified(q)
    BY <1>2, <2>8 DEF UserPasses, TenantPasses
  <2>12. PolicyVerdict(q) = "forbidden" => ~ Authorized(q)
    BY <1>2, <2>7 DEF RolesPass, PermissionsPass
  <2> QED
    BY <1>0, <2>10, <2>11, <2>12
<1> QED
  BY <1>4, <1>5

-----------------------------------------------------------------------------
(* Steps.                                                                  *)

\* What a step of one call leaves of the others.
LEMMA FitsLater ==
  ASSUME setup' = setup, request' = request, open' \subseteq open,
         NEW d \in Calls, NEW k \in Call, NEW v \in Nat, NEW w \in Nat, v <= w,
         Fits(d, k, v)
  PROVE  Fits(d, k, w)'
<1>1. Effects(d, k)'
  BY DEF Fits, Effects, Retries
<1>2. Passed(d, k)'
  BY DEF Fits, Passed, Cleared
<1>3. Sees(d, k, w)'
  BY DEF Fits, Sees, LooksUp, Caches, Call
<1>4. Deserves(d, k)'
  BY DEF Fits, Deserves, Retries
<1> QED
  BY <1>1, <1>2, <1>3, <1>4 DEF Fits

LEMMA StoredStays ==
  ASSUME setup' = setup, request' = request,
         \A b \in Calls : call[b].place # "new" =>
           call'[b].place # "new" /\ call'[b].since = call[b].since,
         NEW b, NEW v, Stored(b, v)
  PROVE  Stored(b, v)'
BY DEF Stored, Cleared

\* A call moves on, and may have committed or stored something.
LEMMA MoveKeeps ==
  ASSUME ChainInv, NEW c \in Calls, NEW k \in Call, Becomes(c, k),
         k.place # "new", call[c].place # "new" => k.since = call[c].since,
         db' \in Nat, db <= db', Fits(c, k, db'),
         k.from # None =>
           /\ Stored(k.from, k.saw) /\ LooksUp(c)
           /\ CacheKey(request[k.from]) = CacheKey(request[c]),
         cache' \in [Keys -> [by : Calls \cup {None}, version : Nat]],
         \A key \in Keys :
           \/ cache'[key] = cache[key]
           \/ cache'[key].by = None
           \/ /\ cache'[key].by = c /\ key = CacheKey(request[c])
              /\ Cleared(c) /\ k.since <= cache'[key].version
              /\ cache'[key].version <= db'
  PROVE  ChainInv'
<1>0. /\ setup' = setup /\ request' = request /\ open' = open
      /\ call' = [call EXCEPT ![c] = k]
  BY DEF Becomes
<1>1. /\ call \in [Calls -> Call] /\ db \in Nat
      /\ cache \in [Keys -> [by : Calls \cup {None}, version : Nat]]
  BY DEF ChainInv, TypeOK
<1>2. /\ call' \in [Calls -> Call] /\ call'[c] = k
      /\ \A d \in Calls : d # c => call'[d] = call[d]
  BY <1>0, <1>1
<1>3. TypeOK'
  BY <1>0, <1>2 DEF ChainInv, TypeOK
<1>4. \A b \in Calls : call[b].place # "new" =>
        call'[b].place # "new" /\ call'[b].since = call[b].since
  BY <1>2
<1>5. \A b, v : Stored(b, v) => Stored(b, v)'
  BY <1>0, <1>4, StoredStays
<1>6. \A d \in Calls : Fits(d, call[d], db)'
  <2> SUFFICES ASSUME NEW d \in Calls
               PROVE  Fits(d, call[d], db)'
    OBVIOUS
  <2>1. \E x \in Call : x = call'[d]
    BY <1>2
  <2>2. PICK x \in Call : x = call'[d]
    BY <2>1
  <2>3. \E v \in Nat : v <= db' /\ Fits(d, x, v)
    BY <1>1, <1>2, <2>2 DEF ChainInv
  <2>4. PICK v \in Nat : v <= db' /\ Fits(d, x, v)
    BY <2>3
  <2>5. \E w \in Nat : w = db'
    OBVIOUS
  <2>6. PICK w \in Nat : w = db'
    BY <2>5
  <2>7. Fits(d, x, w)'
    BY <1>0, <2>4, <2>6, FitsLater
  <2> QED
    BY <2>2, <2>6, <2>7
<1>7. \A d \in Calls :
        call'[d].place = "new" => call'[d].commits = 0 /\ call'[d].answer = "none"
  BY <1>2 DEF ChainInv
<1>8. \A d \in Calls : request'[d].scope = "held" => d \in open'
  BY <1>0 DEF ChainInv
<1>9. CacheSound'
  <2> SUFFICES ASSUME NEW key \in Keys, cache'[key].by # None
               PROVE  /\ Stored(cache[key].by, cache[key].version)'
                      /\ CacheKey(request'[cache'[key].by]) = key
                      /\ cache'[key].version <= db'
    BY DEF CacheSound
  <2>1. CASE cache'[key] = cache[key]
    <3>1. /\ Stored(cache[key].by, cache[key].version)
          /\ CacheKey(request[cache[key].by]) = key
          /\ cache[key].version <= db
      BY <2>1 DEF ChainInv, CacheSound
    <3>2. cache[key].version \in Nat
      BY <1>1
    <3>3. Stored(cache[key].by, cache[key].version)'
      BY <1>5, <2>1, <3>1
    <3> QED
      BY <1>0, <1>1, <2>1, <3>1, <3>2, <3>3
  <2>2. CASE cache'[key] # cache[key]
    <3>1. /\ cache'[key].by = c /\ key = CacheKey(request[c])
          /\ Cleared(c) /\ k.since <= cache'[key].version
          /\ cache'[key].version <= db'
      BY <2>2
    <3>2. Cleared(c)'
      BY <1>0, <3>1 DEF Cleared
    <3>3. Stored(cache[key].by, cache[key].version)'
      BY <1>2, <3>1, <3>2 DEF Stored
    <3> QED
      BY <1>0, <3>1, <3>3
  <2> QED
    BY <2>1, <2>2
<1>10. SourceSound'
  <2> SUFFICES ASSUME NEW d \in Calls, call'[d].from # None
               PROVE  /\ Stored(call[d].from, call[d].saw)'
                      /\ CacheKey(request'[call'[d].from]) = CacheKey(request'[d])
                      /\ LooksUp(d)'
    BY DEF SourceSound
  <2>1. CASE d = c
    <3>1. call'[d].from = k.from /\ call'[d].saw = k.saw
      BY <1>2, <2>1
    <3>2. Stored(k.from, k.saw)'
      BY <1>5, <2>1, <3>1
    <3> QED
      BY <1>0, <2>1, <3>1, <3>2 DEF LooksUp, Caches, Stored
  <2>2. CASE d # c
    <3>1. call'[d] = call[d]
      BY <1>2, <2>2
    <3>2. /\ Stored(call[d].from, call[d].saw)
          /\ CacheKey(request[call[d].from]) = CacheKey(request[d])
          /\ LooksUp(d)
      BY <3>1 DEF ChainInv, SourceSound
    <3>3. Stored(call[d].from, call[d].saw)'
      BY <1>5, <3>1, <3>2
    <3> QED
      BY <1>0, <3>1, <3>2, <3>3 DEF LooksUp, Caches
  <2> QED
    BY <2>1, <2>2
<1> QED
  BY <1>3, <1>6, <1>7, <1>8, <1>9, <1>10 DEF ChainInv

LEMMA ArrivalKeeps ==
  ASSUME ChainInv, NEW c \in Calls, NEW j, NEW k, Arrives(c, j, k),
         Becomes(c, k), call[c].place # "new" => j.since = call[c].since,
         DataStay
  PROVE  ChainInv'
<1>1. /\ db' = db /\ cache' = cache /\ db \in Nat
      /\ cache \in [Keys -> [by : Calls \cup {None}, version : Nat]]
  BY DEF DataStay, ChainInv, TypeOK
<1>2. /\ k \in Call /\ k.place # "new" /\ Fits(c, k, db')
      /\ k.since = j.since /\ k.from = None
  BY <1>1 DEF Arrives
<1> QED
  BY <1>1, <1>2, MoveKeeps

\* A call that is neither new nor answered has had no answer.
LEMMA OnItsWay ==
  ASSUME ChainInv, NEW c \in Calls, call[c].place # "answered"
  PROVE  /\ Underway(c, call[c])
         /\ Fits(c, call[c], db)
         /\ call[c].place \in Within => Cleared(c)
         /\ call[c].place \in Before => Fresh0(c, call[c])
<1>1. call[c] \in Call /\ Fits(c, call[c], db) /\ request \in Traffics
  BY DEF ChainInv, TypeOK
<1>2. Effects(c, call[c]) /\ Sees(c, call[c], db) /\ Passed(c, call[c])
  BY <1>1 DEF Fits
<1>3. call[c].commits \in Nat
  BY <1>1 DEF Call
<1>4. ~ request[c].nested => call[c].commits = 0
  BY <1>2, <1>3 DEF Effects
<1>5. Underway(c, call[c])
  BY <1>1, <1>2, <1>4 DEF Underway, Effects, Sees
<1> QED
  BY <1>1, <1>2, <1>5 DEF Passed, Fresh0, Effects

LEMMA SendKeeps ==
  ASSUME CqrsAssumption, ChainInv, NEW c \in Calls, Send(c)
  PROVE  ChainInv'
<1> DEFINE k == [call[c] EXCEPT !.since = db]
<1>1. Fresh0(c, call[c]) /\ call[c].place = "new" /\ db \in Nat
  BY OnItsWay DEF Send, Is, Before, ChainInv, TypeOK
<1>2. /\ k \in Call /\ k.since = db /\ k.place = "new"
      /\ k.answer = call[c].answer /\ k.from = call[c].from
      /\ k.saw = call[c].saw /\ k.tries = call[c].tries
      /\ k.commits = call[c].commits
  BY <1>1 DEF Fresh0, Underway, Call
<1>3. /\ DataStay
      /\ Becomes(c, IF request[c].aborted THEN Leave(k, "aborted")
                    ELSE IF request[c].scope = "none" THEN Leave(k, "noScope")
                    ELSE IF c \notin open THEN [k EXCEPT !.place = "rejected"]
                    ELSE IntoChain(c, k))
  BY DEF Send
<1> HIDE DEF k
<1>4. Fresh0(c, k) /\ Underway(c, k)
  BY <1>1, <1>2 DEF Fresh0, Underway
<1>5. CASE request[c].aborted
  <2>1. Becomes(c, Leave(k, "aborted"))
    BY <1>3, <1>5
  <2>2. "aborted" \in (Answers \cup Thrown) \ {"ok", "none"}
    BY DEF Answers
  <2>3. Arrives(c, k, Leave(k, "aborted"))
    BY <1>4, <2>2, FailureArrives
  <2> QED
    BY <1>1, <1>3, <2>1, <2>3, ArrivalKeeps
<1>6. CASE ~ request[c].aborted /\ request[c].scope = "none"
  <2>1. Becomes(c, Leave(k, "noScope"))
    BY <1>3, <1>6
  <2>2. "noScope" \in (Answers \cup Thrown) \ {"ok", "none"}
    BY DEF Answers
  <2>3. Arrives(c, k, Leave(k, "noScope"))
    BY <1>4, <2>2, FailureArrives
  <2> QED
    BY <1>1, <1>3, <2>1, <2>3, ArrivalKeeps
<1>7. CASE ~ request[c].aborted /\ request[c].scope # "none" /\ c \notin open
  <2> DEFINE j == [k EXCEPT !.place = "rejected"]
  <2>1. Becomes(c, j)
    BY <1>3, <1>7
  <2>2. "rejected" \in Places
    BY DEF Places
  <2>3. /\ j \in Call /\ j.place = "rejected" /\ j.answer = k.answer
        /\ j.from = k.from /\ j.since = k.since /\ j.saw = k.saw
        /\ j.tries = k.tries /\ j.commits = k.commits
    BY <1>2, <2>2, PlaceFacts
  <2> HIDE DEF j
  <2>4. Effects(c, j)
    BY <1>2, <1>4, <2>3 DEF Effects, Fresh0, Underway, Before, Call
  <2>5. Passed(c, j) /\ Sees(c, j, db)
    BY <1>4, <2>3 DEF Passed, Within, Sees, Fresh0, Underway
  <2>6. request[c].scope = "detached"
    BY <1>7 DEF CqrsAssumption, ChainInv, TypeOK
  <2>7. Deserves(c, j)
    BY <1>4, <1>7, <2>3, <2>6 DEF Deserves, Underway
  <2>8. Arrives(c, k, j)
    BY <1>4, <2>3, <2>4, <2>5, <2>7 DEF Arrives, Fits, Underway
  <2> QED
    BY <1>1, <1>3, <2>1, <2>8, ArrivalKeeps
<1>8. CASE ~ request[c].aborted /\ request[c].scope # "none" /\ c \in open
  <2>1. Becomes(c, IntoChain(c, k))
    BY <1>3, <1>8
  <2>2. Arrives(c, k, IntoChain(c, k))
    BY <1>4, ChainArrives
  <2> QED
    BY <1>1, <1>3, <2>1, <2>2, ArrivalKeeps
<1> QED
  BY <1>5, <1>6, <1>7, <1>8

LEMMA AuthorizeKeeps ==
  ASSUME CqrsAssumption, ChainInv, NEW c \in Calls, Authorize(c)
  PROVE  ChainInv'
<1>1. /\ call[c].place = "authorizing" /\ Fresh0(c, call[c])
      /\ Underway(c, call[c]) /\ DataStay
  BY OnItsWay DEF Authorize, Is, Before, Fresh0
<1>2. PICK v \in AuthVerdicts(request[c]) :
        Becomes(c, IF v = "ok" THEN IntoValidation(c, call[c])
                               ELSE Leave(call[c], v))
  BY DEF Authorize
<1>3. /\ v \in {"ok", "unauthorized", "forbidden", "refused", "thrown"}
      /\ v = "ok" /\ "policies" \in setup => Authorized(request[c])
      /\ v = "unauthorized" => "policies" \in setup /\ ~ Identified(request[c])
      /\ v = "forbidden" => "policies" \in setup /\ ~ Authorized(request[c])
  BY <1>2, VerdictIsPolicy DEF AuthVerdicts
<1>4. CASE v = "ok"
  <2>1. Arrives(c, call[c], IntoValidation(c, call[c]))
    BY <1>1, <1>3, <1>4, ValidationArrives
  <2> QED
    BY <1>1, <1>2, <1>4, <2>1, ArrivalKeeps
<1>5. CASE v # "ok"
  <2>1. v \in (Answers \cup Thrown) \ {"ok", "none"}
    BY <1>3, <1>5 DEF Answers, Thrown
  <2>2. Arrives(c, call[c], Leave(call[c], v))
    BY <1>1, <1>3, <2>1, FailureArrives
  <2> QED
    BY <1>1, <1>2, <1>5, <2>2, ArrivalKeeps
<1> QED
  BY <1>4, <1>5

LEMMA ValidateKeeps ==
  ASSUME CqrsAssumption, ChainInv, NEW c \in Calls, Validate(c)
  PROVE  ChainInv'
<1>1. /\ call[c].place = "validating" /\ Fresh0(c, call[c])
      /\ Underway(c, call[c]) /\ Passed(c, call[c]) /\ DataStay
  BY OnItsWay DEF Validate, Is, Before, Fresh0, Fits
<1>2. PICK v \in {SchemaVerdict(request[c]), "thrown"} :
        Becomes(c, IF v = "ok" THEN IntoBus(c, call[c]) ELSE Leave(call[c], v))
  BY DEF Validate
<1>3. /\ v \in {"ok", "invalid", "thrown"}
      /\ v = "ok" => request[c].valid
      /\ v = "invalid" => ~ request[c].valid
  BY <1>2 DEF SchemaVerdict
<1>4. CASE v = "ok"
  <2>1. Cleared(c)
    BY <1>1, <1>3, <1>4 DEF Passed, Cleared
  <2>2. Arrives(c, call[c], IntoBus(c, call[c]))
    BY <1>1, <2>1, BusArrives
  <2> QED
    BY <1>1, <1>2, <1>4, <2>2, ArrivalKeeps
<1>5. CASE v # "ok"
  <2>1. v \in (Answers \cup Thrown) \ {"ok", "none"}
    BY <1>3, <1>5 DEF Answers, Thrown
  <2>2. v = "invalid" => "validation" \in setup
    BY <1>1 DEF Passed
  <2>3. Arrives(c, call[c], Leave(call[c], v))
    BY <1>1, <1>3, <2>1, <2>2, FailureArrives
  <2> QED
    BY <1>1, <1>2, <1>5, <2>3, ArrivalKeeps
<1> QED
  BY <1>4, <1>5

\* The cache is read: a hit is the answer, and the query that put it there its
\* source.
LEMMA LookUpKeeps ==
  ASSUME CqrsAssumption, ChainInv, NEW c \in Calls,
         LookUp(c) \/ LookUpFails(c)
  PROVE  ChainInv'
<1>1. /\ call[c].place = "lookingUp" /\ Fresh0(c, call[c])
      /\ Underway(c, call[c]) /\ Cleared(c) /\ DataStay
      /\ Effects(c, call[c])
  BY OnItsWay DEF LookUp, LookUpFails, Is, Before, Within, Fresh0, Fits
<1>2. Arrives(c, call[c], IntoHandler(c, [call[c] EXCEPT !.tries = 1]))
  BY <1>1, BusArrives
<1>3. CASE Becomes(c, IntoHandler(c, [call[c] EXCEPT !.tries = 1]))
  BY <1>1, <1>2, <1>3, ArrivalKeeps
<1>4. CASE LookUp(c) /\ Entry(c).by # None
  <2> DEFINE e == Entry(c)
             k == [call[c] EXCEPT !.from = e.by, !.saw = e.version]
             j == Leave(k, "ok")
  <2>1. Becomes(c, j)
    BY <1>4 DEF LookUp
  <2>2. CacheKey(request[c]) \in Keys
    BY DEF ChainInv, TypeOK, Keys
  <2>3. /\ e.by \in Calls /\ e.version \in Nat
        /\ Stored(e.by, e.version) /\ e.version <= db
        /\ CacheKey(request[e.by]) = CacheKey(request[c])
    BY <1>4, <2>2 DEF Entry, ChainInv, TypeOK, CacheSound
  <2>4. /\ k \in Call /\ k.place = "lookingUp" /\ k.answer = call[c].answer
        /\ k.from = e.by /\ k.since = call[c].since /\ k.saw = e.version
        /\ k.tries = 0 /\ k.commits = call[c].commits
    BY <1>1, <2>3 DEF Fresh0, Underway, Call
  <2> HIDE DEF e, k
  <2>5. /\ j \in Call /\ j.place = "answered" /\ j.answer = "ok"
        /\ j.from = e.by /\ j.since = call[c].since /\ j.saw = e.version
        /\ j.tries = 0 /\ j.commits = call[c].commits
    BY <2>4, LeaveFacts DEF Caught, Answers
  <2> HIDE DEF j
  <2>6. request[c].type = "query" /\ LooksUp(c) /\ j.commits = 0
    <3>1. call[c].commits = 0
      BY <1>1 DEF Fresh0, Underway, Call
    <3>2. LooksUp(c)
      BY <1>1 DEF ChainInv, Fits, Sees
    <3> QED
      BY <2>5, <3>1, <3>2 DEF LooksUp, Caches
  <2>7. Effects(c, j)
    BY <2>5, <2>6 DEF Effects, Before
  <2>8. Passed(c, j)
    BY <1>1, <2>5 DEF Passed
  <2>9. Sees(c, j, db)
    BY <1>1, <2>3, <2>5 DEF Sees, Underway
  <2>10. Deserves(c, j)
    BY <2>5 DEF Deserves
  <2>11. /\ db' = db /\ cache' = cache /\ db \in Nat
         /\ cache \in [Keys -> [by : Calls \cup {None}, version : Nat]]
    BY <1>1 DEF DataStay, ChainInv, TypeOK
  <2>12. Fits(c, j, db')
    BY <2>7, <2>8, <2>9, <2>10, <2>11 DEF Fits
  <2> QED
    BY <2>1, <2>3, <2>5, <2>6, <2>11, <2>12, MoveKeeps
<1> QED
  BY <1>3, <1>4 DEF LookUp, LookUpFails

LEMMA HandlerReadsKeeps ==
  ASSUME CqrsAssumption, ChainInv, NEW c \in Calls, HandlerReads(c)
  PROVE  ChainInv'
<1> DEFINE j == [call[c] EXCEPT !.place = "reading", !.saw = db]
<1>1. /\ call[c].place = "working" /\ Underway(c, call[c]) /\ Cleared(c)
      /\ Fits(c, call[c], db) /\ DataStay /\ Becomes(c, j)
  BY OnItsWay DEF HandlerReads, Is, Within
<1>2. db \in Nat /\ call[c] \in Call /\ "reading" \in Places
  BY DEF ChainInv, TypeOK, Places
<1>3. /\ j \in Call /\ j.place = "reading" /\ j.answer = call[c].answer
      /\ j.from = call[c].from /\ j.since = call[c].since /\ j.saw = db
      /\ j.tries = call[c].tries /\ j.commits = call[c].commits
  BY <1>2 DEF Call
<1> HIDE DEF j
<1>4. Effects(c, j)
  BY <1>1, <1>3 DEF Fits, Effects, Before
<1>5. Passed(c, j) /\ Sees(c, j, db) /\ Deserves(c, j)
  BY <1>1, <1>2, <1>3 DEF Passed, Sees, Deserves, Underway
<1>6. Arrives(c, call[c], j)
  BY <1>1, <1>3, <1>4, <1>5 DEF Arrives, Fits, Underway
<1> QED
  BY <1>1, <1>6, ArrivalKeeps

\* What is known of a call whose handler has read.
LEMMA AtReading ==
  ASSUME ChainInv, NEW c \in Calls, call[c].place = "reading"
  PROVE  /\ Underway(c, call[c]) /\ Cleared(c) /\ call[c].since <= call[c].saw
         /\ call[c].commits < call[c].tries
  BY OnItsWay DEF Within, Fits, Sees, Effects

LEMMA QueryAnswersKeeps ==
  ASSUME CqrsAssumption, ChainInv, NEW c \in Calls, QueryAnswers(c)
  PROVE  ChainInv'
<1>1. /\ Becomes(c, OutOfHandler(c, call[c], "ok")) /\ DataStay
      /\ request[c].type = "query" /\ call[c].place = "reading"
  BY DEF QueryAnswers, Is
<1>2. Done(c, call[c]) /\ call[c].from = None
  BY <1>1, AtReading DEF Done, Underway
<1>3. Arrives(c, call[c], OutOfHandler(c, call[c], "ok"))
  BY <1>2, DoneArrives
<1> QED
  BY <1>1, <1>3, ArrivalKeeps

LEMMA FailureKeeps ==
  ASSUME CqrsAssumption, ChainInv, NEW c \in Calls,
         Conflict(c) \/ HandlerFails(c)
  PROVE  ChainInv'
<1>1. PICK result \in {"conflict", "failed", "thrown", "thrownConflict"} :
        Becomes(c, OutOfHandler(c, call[c], result))
  BY DEF Conflict, HandlerFails
<1>2. /\ call[c].place = "reading" /\ DataStay
      /\ Underway(c, call[c]) /\ Cleared(c)
  BY AtReading DEF Conflict, HandlerFails, Is
<1>3. Arrives(c, call[c], OutOfHandler(c, call[c], result))
  BY <1>2, FailedArrives
<1> QED
  BY <1>1, <1>2, <1>3, ArrivalKeeps

LEMMA CommitKeeps ==
  ASSUME CqrsAssumption, ChainInv, NEW c \in Calls, Commit(c)
  PROVE  ChainInv'
<1> DEFINE k == [call[c] EXCEPT !.commits = call[c].commits + 1]
<1>1. /\ call[c].place = "reading" /\ request[c].type = "command"
      /\ db' = db + 1 /\ cache' = cache
      /\ Underway(c, call[c]) /\ Cleared(c)
      /\ call[c].since <= call[c].saw /\ call[c].commits < call[c].tries
  BY AtReading DEF Commit, Is
<1>2. PICK result \in {"ok", "conflict"} :
        /\ Becomes(c, OutOfHandler(c, k, result))
        /\ result = "conflict" => request[c].nested
  BY DEF Commit
<1>3. /\ db \in Nat /\ call[c] \in Call
      /\ cache \in [Keys -> [by : Calls \cup {None}, version : Nat]]
  BY DEF ChainInv, TypeOK
<1>4. call[c].commits \in Nat /\ call[c].tries \in 0 .. MaxRetries
  BY <1>3 DEF Call
<1>5. /\ k \in Call /\ k.place = "reading" /\ k.answer = call[c].answer
      /\ k.from = call[c].from /\ k.since = call[c].since
      /\ k.saw = call[c].saw /\ k.tries = call[c].tries
      /\ k.commits = call[c].commits + 1
  BY <1>1, <1>3, <1>4, CommitsFacts
<1> HIDE DEF k
<1>6. k.commits <= k.tries /\ k.commits >= 1
  BY <1>1, <1>4, <1>5
<1>7. Arrives(c, k, OutOfHandler(c, k, result))
  <2>1. CASE result = "ok"
    <3>1. ~ request[c].nested => k.commits <= 1
      BY <1>1, <1>4, <1>5 DEF Underway
    <3>2. Done(c, k) /\ k.from = None
      BY <1>1, <1>5, <1>6, <3>1 DEF Done, Underway
    <3> QED
      BY <2>1, <3>2, DoneArrives
  <2>2. CASE result = "conflict"
    <3>1. Underway(c, k)
      BY <1>1, <1>2, <1>5, <1>6, <2>2 DEF Underway
    <3> QED
      BY <1>1, <1>5, <2>2, <3>1, FailedArrives
  <2> QED
    BY <1>2, <2>1, <2>2
<1> DEFINE j == OutOfHandler(c, k, result)
<1>8. /\ j \in Call /\ Fits(c, j, db) /\ j.place # "new"
      /\ j.since = call[c].since /\ j.from = None
  BY <1>5, <1>7 DEF Arrives
<1> HIDE DEF j
<1>9. Fits(c, j, db + 1)
  BY <1>3, <1>8 DEF Fits, Sees, Call
<1> QED
  BY <1>1, <1>2, <1>3, <1>8, <1>9, MoveKeeps DEF j

LEMMA DelayOverKeeps ==
  ASSUME CqrsAssumption, ChainInv, NEW c \in Calls, DelayOver(c)
  PROVE  ChainInv'
<1> DEFINE k == [call[c] EXCEPT !.tries = call[c].tries + 1]
<1>1. /\ call[c].place = "delaying" /\ DataStay
      /\ Becomes(c, IntoHandler(c, k))
      /\ Underway(c, call[c]) /\ Cleared(c) /\ Effects(c, call[c])
  BY OnItsWay DEF DelayOver, Is, Within, Fits
<1>2. /\ Retries(c) /\ call[c].tries < MaxRetries
      /\ call[c].commits <= call[c].tries
  BY <1>1 DEF Effects
<1>3. /\ call[c] \in Call /\ call[c].tries \in 0 .. MaxRetries
      /\ call[c].commits \in Nat /\ MaxRetries \in Nat
  BY DEF ChainInv, TypeOK, Call, CqrsAssumption, ValidRetries
<1>4. call[c].tries + 1 \in 0 .. MaxRetries
  BY <1>2, <1>3
<1>5. /\ k \in Call /\ k.tries = call[c].tries + 1 /\ k.answer = call[c].answer
      /\ k.from = call[c].from /\ k.since = call[c].since
      /\ k.saw = call[c].saw /\ k.commits = call[c].commits
  BY <1>3, <1>4, TriesFacts
<1> HIDE DEF k
<1>6. k.commits < k.tries
  BY <1>2, <1>3, <1>5
<1>7. Underway(c, k)
  BY <1>1, <1>2, <1>3, <1>5, <1>6 DEF Underway
<1>8. Arrives(c, k, IntoHandler(c, k))
  BY <1>1, <1>6, <1>7, HandlerArrives
<1> QED
  BY <1>1, <1>5, <1>8, ArrivalKeeps

\* What the handler read is stored, or the cache fails; both are a success.
LEMMA StoreKeeps ==
  ASSUME CqrsAssumption, ChainInv, NEW c \in Calls, Store(c) \/ StoreFails(c)
  PROVE  ChainInv'
<1> DEFINE k == call[c]
           j == Leave(k, "ok")
<1>1. /\ k.place = "storing" /\ db' = db /\ Becomes(c, j)
      /\ Underway(c, k) /\ Cleared(c) /\ Fits(c, k, db)
  BY OnItsWay DEF Store, StoreFails, Is, Within, DataStay
<1>2. /\ k \in Call /\ db \in Nat /\ CacheKey(request[c]) \in Keys
      /\ cache \in [Keys -> [by : Calls \cup {None}, version : Nat]]
  BY DEF ChainInv, TypeOK, Keys
<1>3. k.since <= k.saw /\ request[c].type = "query" /\ k.saw <= db
  BY <1>1 DEF Fits, Sees, Caches
<1>4. Done(c, k) /\ k.from = None
  BY <1>1, <1>3 DEF Done, Underway
<1>5. /\ j \in Call /\ Fits(c, j, db) /\ j.place = "answered"
      /\ j.since = k.since /\ j.from = None
  BY <1>4, SuccessArrives
<1> HIDE DEF j
<1>6. CASE Store(c)
  <2>1. cache' = [cache EXCEPT ![CacheKey(request[c])] =
                    [by |-> c, version |-> k.saw]]
    BY <1>6 DEF Store, PutEntry
  <2>2. [by |-> c, version |-> k.saw] \in [by : Calls \cup {None}, version : Nat]
    BY <1>2 DEF Call
  <2>3. /\ cache' \in [Keys -> [by : Calls \cup {None}, version : Nat]]
        /\ \A key \in Keys :
             \/ cache'[key] = cache[key]
             \/ /\ key = CacheKey(request[c])
                /\ cache'[key].by = c /\ cache'[key].version = k.saw
    BY <1>2, <2>1, <2>2
  <2> QED
    BY <1>1, <1>2, <1>3, <1>5, <2>3, MoveKeeps
<1>7. CASE StoreFails(c)
  <2>1. cache' = cache
    BY <1>7 DEF StoreFails, DataStay
  <2> QED
    BY <1>1, <1>2, <1>5, <2>1, MoveKeeps
<1> QED
  BY <1>6, <1>7

\* A scope that ends, and an entry that expires, take nothing back.
LEMMA ScopeEndsKeeps ==
  ASSUME ChainInv, NEW c \in Calls, ScopeEnds(c)
  PROVE  ChainInv'
<1>1. /\ setup' = setup /\ request' = request /\ open' = open \ {c}
      /\ db' = db /\ cache' = cache /\ call' = call
      /\ request[c].scope = "detached"
  BY DEF ScopeEnds
<1>2. TypeOK'
  BY <1>1 DEF ChainInv, TypeOK
<1>3. \A d \in Calls : Fits(d, call[d], db)'
  <2> SUFFICES ASSUME NEW d \in Calls
               PROVE  Fits(d, call[d], db)'
    OBVIOUS
  <2>1. \E x \in Call, v \in Nat : x = call[d] /\ v = db
    BY DEF ChainInv, TypeOK
  <2>2. PICK x \in Call, v \in Nat : x = call[d] /\ v = db
    BY <2>1
  <2>3. Fits(d, x, v)
    BY <2>2 DEF ChainInv
  <2>4. Fits(d, x, v)'
    BY <1>1, <2>3, FitsLater
  <2>5. x = call'[d] /\ v = db'
    BY <1>1, <2>2
  <2> QED
    BY <2>4, <2>5
<1>4. CacheSound' /\ SourceSound'
  BY <1>1 DEF ChainInv, CacheSound, SourceSound, Stored, Cleared, LooksUp, Caches
<1>5. \A d \in Calls : request'[d].scope = "held" => d \in open'
  BY <1>1 DEF ChainInv
<1>6. \A d \in Calls :
        call'[d].place = "new" => call'[d].commits = 0 /\ call'[d].answer = "none"
  BY <1>1 DEF ChainInv
<1> QED
  BY <1>2, <1>3, <1>4, <1>5, <1>6 DEF ChainInv

LEMMA ExpireKeeps ==
  ASSUME CqrsAssumption, ChainInv, NEW e \in Keys, Expire(e)
  PROVE  ChainInv'
<1>1. /\ setup' = setup /\ request' = request /\ open' = open
      /\ db' = db /\ cache' = [cache EXCEPT ![e] = NoEntry] /\ call' = call
  BY DEF Expire
<1>2. /\ cache \in [Keys -> [by : Calls \cup {None}, version : Nat]]
      /\ NoEntry \in [by : Calls \cup {None}, version : Nat]
      /\ NoEntry.by = None
  BY DEF ChainInv, TypeOK, NoEntry
<1>3. /\ cache' \in [Keys -> [by : Calls \cup {None}, version : Nat]]
      /\ \A key \in Keys : cache'[key] = cache[key] \/ cache'[key].by = None
  BY <1>1, <1>2
<1>4. TypeOK'
  BY <1>1, <1>3 DEF ChainInv, TypeOK
<1>5. \A d \in Calls : Fits(d, call[d], db)'
  BY <1>1 DEF ChainInv, Fits, Effects, Passed, Sees, Deserves, Retries,
     Cleared, Caches, LooksUp
<1>6. CacheSound'
  BY <1>1, <1>3 DEF ChainInv, CacheSound, Stored, Cleared
<1>7. SourceSound'
  BY <1>1 DEF ChainInv, SourceSound, Stored, Cleared, LooksUp, Caches
<1>8. /\ \A d \in Calls : request'[d].scope = "held" => d \in open'
      /\ \A d \in Calls :
           call'[d].place = "new" => call'[d].commits = 0 /\ call'[d].answer = "none"
  BY <1>1 DEF ChainInv
<1> QED
  BY <1>4, <1>5, <1>6, <1>7, <1>8 DEF ChainInv

LEMMA StepKeeps ==
  ASSUME CqrsAssumption, ChainInv, [Next]_vars
  PROVE  ChainInv'
<1>1. ASSUME NEW c \in Calls, Step(c)
      PROVE  ChainInv'
  BY <1>1, SendKeeps, AuthorizeKeeps, ValidateKeeps, LookUpKeeps,
     HandlerReadsKeeps, QueryAnswersKeeps, CommitKeeps, FailureKeeps,
     DelayOverKeeps, StoreKeeps DEF Step
<1>2. ASSUME NEW c \in Calls, ScopeEnds(c)
      PROVE  ChainInv'
  BY <1>2, ScopeEndsKeeps
<1>3. ASSUME NEW k \in Keys, Expire(k)
      PROVE  ChainInv'
  BY <1>3, ExpireKeeps
<1>4. CASE UNCHANGED vars
  BY <1>4 DEF vars, ChainInv, TypeOK, Fits, Effects, Passed, Sees, Deserves,
     Retries, Cleared, Caches, LooksUp, CacheSound, SourceSound, Stored
<1> QED
  BY <1>1, <1>2, <1>3, <1>4 DEF Next

LEMMA InitHolds ==
  ASSUME CqrsAssumption, Init
  PROVE  ChainInv
<1>1. Fresh \in Call /\ NoEntry \in [by : Calls \cup {None}, version : Nat]
  BY DEF Fresh, Call, Places, Answers, NoEntry, CqrsAssumption, ValidRetries
<1>2. TypeOK
  BY <1>1 DEF Init, TypeOK
<1>3. \A c \in Calls : call[c] = Fresh
  BY DEF Init
<1>4. \A c \in Calls : Fits(c, call[c], db)
  <2> SUFFICES ASSUME NEW c \in Calls
               PROVE  Fits(c, call[c], db)
    OBVIOUS
  <2> DEFINE k == call[c]
  <2>1. /\ k.place = "new" /\ k.answer = "none" /\ k.from = None
        /\ k.since = 0 /\ k.saw = 0 /\ k.tries = 0 /\ k.commits = 0
        /\ db = 0
    BY <1>3 DEF Init, Fresh
  <2> HIDE DEF k
  <2>2. Effects(c, k)
    BY <2>1 DEF Effects
  <2>3. Passed(c, k) /\ Sees(c, k, db) /\ Deserves(c, k)
    BY <2>1 DEF Passed, Within, Sees, Deserves
  <2> QED
    BY <2>2, <2>3 DEF Fits, k
<1>5. CacheSound /\ SourceSound
  BY <1>3 DEF Init, CacheSound, SourceSound, NoEntry, Fresh
<1> QED
  BY <1>2, <1>3, <1>4, <1>5 DEF ChainInv, Init, Fresh

LEMMA ChainInvariant ==
  ASSUME CqrsAssumption
  PROVE  Spec => []ChainInv
<1>1. Init => ChainInv
  BY InitHolds
<1>2. ChainInv /\ [Next]_vars => ChainInv'
  BY StepKeeps
<1> QED
  BY <1>1, <1>2, PTL DEF Spec

-----------------------------------------------------------------------------
(* The theorems.                                                           *)

\* The state of the calls, of the cache and of the data is what it should be.
THEOREM TypeCorrect ==
  ASSUME CqrsAssumption
  PROVE  Spec => []TypeOK
<1>1. ChainInv => TypeOK
  BY DEF ChainInv
<1> QED
  BY <1>1, ChainInvariant, PTL

\* Whatever the deployment, no handler works and no success is answered, out
\* of the cache or not, for whom the last policy of the intent does not let
\* pass, or for a request its schema rejects.
THEOREM HandlersAreCleared ==
  ASSUME CqrsAssumption
  PROVE  Spec => []HandlerIsCleared
<1>1. ChainInv => HandlerIsCleared
  <2> SUFFICES ASSUME ChainInv, NEW c \in Calls PROVE Passed(c, call[c])
    BY DEF HandlerIsCleared, Passed, Within
  <2> QED
    BY DEF ChainInv, Fits
<1> QED
  BY <1>1, ChainInvariant, PTL

\* However many calls race and however often they are retried, a success was
\* committed, a failure was not, and nothing was committed twice - but by a
\* handler that sends commands of its own.
THEOREM EffectsAreBounded ==
  ASSUME CqrsAssumption
  PROVE  Spec => []EffectsBounded
<1>1. ASSUME ChainInv, NEW c \in Calls
      PROVE  LET k == call[c] IN
             /\ k.commits <= k.tries
             /\ ~ request[c].nested =>
                  /\ k.commits <= 1
                  /\ k.commits = 1 => k.answer = "ok"
             /\ k.answer = "ok" /\ request[c].type = "command" => k.commits >= 1
             /\ ~ Retries(c) => k.tries <= 1
  <2>1. Effects(c, call[c]) /\ call[c].tries \in 0 .. MaxRetries
    BY <1>1 DEF ChainInv, Fits, TypeOK, Call
  <2> QED
    BY <2>1 DEF Effects, CqrsAssumption, ValidRetries
<1>2. ChainInv => EffectsBounded
  BY <1>1 DEF EffectsBounded
<1> QED
  BY <1>2, ChainInvariant, PTL

\* An answer out of the cache is one that a query of the same name, tenant and
\* user got that was itself cleared, and is no older than that query.
THEOREM AnswersAreEarned ==
  ASSUME CqrsAssumption
  PROVE  Spec => []AnswersAreSound
<1>1. ASSUME ChainInv, NEW c \in Calls, request[c].type = "query",
             call[c].answer = "ok"
      PROVE  LET q == request[c]  k == call[c] IN
             /\ k.saw <= db
             /\ IF k.from = None THEN k.since <= k.saw
                ELSE LET q0 == request[k.from] IN
                  /\ q.read = "cached" /\ q.cached # "not"
                  /\ q0.name = q.name /\ TenantOf(q0) = TenantOf(q)
                  /\ q.cached = "user" /\ UserOf(q) # None =>
                       UserOf(q0) = UserOf(q)
                  /\ Cleared(k.from)
                  /\ call[k.from].since <= k.saw
  <2>1. Sees(c, call[c], db)
    BY <1>1 DEF ChainInv, Fits
  <2>2. CASE call[c].from = None
    BY <1>1, <2>1, <2>2 DEF Sees
  <2>3. CASE call[c].from # None
    <3> DEFINE q == request[c]
               q0 == request[call[c].from]
    <3>1. /\ Stored(call[c].from, call[c].saw)
          /\ CacheKey(q0) = CacheKey(q)
          /\ LooksUp(c)
      BY <1>1, <2>3 DEF ChainInv, SourceSound
    <3>2. q.read = "cached" /\ q.cached # "not"
      BY <3>1 DEF LooksUp, Caches
    <3> HIDE DEF q, q0
    <3>3. /\ q0.name = q.name /\ TenantOf(q0) = TenantOf(q)
          /\ q.cached = "user" /\ UserOf(q) # None => UserOf(q0) = UserOf(q)
      BY <3>1 DEF CacheKey
    <3> QED
      BY <2>1, <2>3, <3>1, <3>2, <3>3 DEF Sees, Stored, q, q0
  <2> QED
    BY <2>2, <2>3
<1>2. ChainInv => AnswersAreSound
  BY <1>1 DEF AnswersAreSound
<1> QED
  BY <1>2, ChainInvariant, PTL

\* Every failure has a cause that deserves it; the cache is never one.
THEOREM FailuresAreEarned ==
  ASSUME CqrsAssumption
  PROVE  Spec => []FailuresAreDeserved
<1>1. ChainInv => FailuresAreDeserved
  <2> SUFFICES ASSUME ChainInv, NEW c \in Calls PROVE Deserves(c, call[c])
    BY DEF FailuresAreDeserved, Deserves
  <2> QED
    BY DEF ChainInv, Fits
<1> QED
  BY <1>1, ChainInvariant, PTL
=============================================================================
