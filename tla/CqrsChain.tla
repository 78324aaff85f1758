----------------------------- MODULE CqrsChain -----------------------------
(***************************************************************************)
(* Mediator (application/cqrs/mediator.ts) and the behaviours CqrsModule   *)
(* (infrastructure/modules/cqrs.module.ts) puts around a handler:          *)
(*                                                                         *)
(*   commands: exception, logging, performance, [authorization],           *)
(*             [validation], [idempotency], [concurrency retry]            *)
(*   queries:  exception, logging, performance, [authorization],           *)
(*             [validation], [caching]                                     *)
(*                                                                         *)
(* Calls interleave where a behaviour awaits something: a strategy, the    *)
(* cache, the delay of a retry, the handler.  What runs between two awaits *)
(* is one step.  Logging rethrows and performance measures: neither        *)
(* changes an answer.  Idempotency has a module of its own.                *)
(*                                                                         *)
(* The handlers and the data they work on are the application's: data are  *)
(* a version, a command commits against the version it has read, and a     *)
(* query answers with the version it has read.                             *)
(***************************************************************************)
EXTENDS Integers, Sequences

CONSTANTS
  Calls,       \* calls of send and of query
  Traffics,    \* [call -> request] functions
  Setups,      \* the sets of features a deployment may switch on
  Policies,    \* the authorization policies, in the order they are listed
  EmptyFlags,  \* the flags of a policy that Guards.isNullOrEmpty of the shared
               \* library takes for empty: FALSE may be one of them
  Lower,       \* [intent -> intent], toLowerCase
  Registered,  \* the intents that have a handler
  MaxRetries,  \* maxRetries of the concurrency behaviour
  None         \* undefined

Features == {"policies", "custom", "validation", "concurrency", "caching"}

\* A request: "command" or "query", its intent, the identity in its context
\* (None without a context), whether its schema accepts it; how a query is to
\* be cached ("not", by "tenant" or by "user"), read ("cached", "bypass" or
\* "consistent") and under which name; whether the handler of a command sends
\* another command once it has committed; whether the signal is aborted; and
\* the scope the caller has ("none", "held" until the answer, or "detached").
Flags == BOOLEAN \cup {None}
ValidRetries(n) == n \in Nat /\ n # 0
ASSUME CqrsAssumption ==
  /\ ValidRetries(MaxRetries)
  /\ \A s \in Setups : s \subseteq Features
  /\ None \notin Calls
  /\ Policies \in Seq([intent : DOMAIN Lower, roles : SUBSET STRING,
                       permissions : SUBSET STRING,
                       userId : Flags, tenantId : Flags])
  /\ EmptyFlags \in {{None}, {None, FALSE}}
  /\ \A t \in Traffics :
       /\ DOMAIN t = Calls
       /\ \A c \in Calls : /\ t[c].type \in {"command", "query"}
                           /\ t[c].nested => t[c].type = "command"
                           /\ t[c].scope \in {"none", "held", "detached"}

VARIABLES
  setup,    \* the features of the deployment
  request,  \* what each call asks for
  open,     \* the calls whose scope is not disposed
  db,       \* the version of the data
  cache,    \* the entry of each cache key
  call      \* how far each call is

vars == <<setup, request, open, db, cache, call>>

Places == {"new", "authorizing", "validating", "lookingUp", "working",
           "reading", "delaying", "storing", "answered", "rejected"}
Answers == {"none", "ok", "aborted", "noScope", "unauthorized", "forbidden",
            "refused", "invalid", "conflict", "failed", "systemError"}
Thrown == {"thrownConflict", "thrown"}

-----------------------------------------------------------------------------
(* Authorization.                                                          *)

NoPolicy == [roles |-> {}, permissions |-> {}, userId |-> None,
             tenantId |-> None]

\* PolicyRegistry: the last policy listed for the intent, whatever its case.
Listed(intent) ==
  {n \in DOMAIN Policies : Lower[Policies[n].intent] = Lower[intent]}
PolicyFor(intent) ==
  IF Listed(intent) = {} THEN NoPolicy
  ELSE Policies[CHOOSE n \in Listed(intent) : \A k \in Listed(intent) : k <= n]

\* addAuthZ makes the strategies some policy calls for.
Strategies ==
  LET Some(Asks(_)) == \E n \in DOMAIN Policies : Asks(Policies[n])
      Roles(p) == p.roles # {}
      Permissions(p) == p.permissions # {}
      User(p) == p.userId \notin EmptyFlags
      Tenant(p) == p.tenantId \notin EmptyFlags
  IN [roles |-> Some(Roles), permissions |-> Some(Permissions),
      user |-> Some(User), tenant |-> Some(Tenant)]

\* A strategy refuses who has no context.  One of the roles will do, and one
\* of the permissions.  An identity has its user and its tenant or has not, and
\* a flag that is there demands it, even one that is false.
Anonymous(q) == q.who = None
RolesPass(p, who) == p.roles # {} => p.roles \cap who.roles # {}
PermissionsPass(p, who) ==
  p.permissions # {} => p.permissions \cap who.permissions # {}
UserPasses(p, who) == p.userId # None => who.user # None
TenantPasses(p, who) == p.tenantId # None => who.tenant # None

\* The strategies run in turn; the first refusal is the answer.
PolicyVerdict(q) ==
  LET p == PolicyFor(q.intent)  s == Strategies IN
  IF Anonymous(q) /\ (s.roles \/ s.permissions \/ s.user \/ s.tenant)
    THEN "unauthorized"
  ELSE IF \/ s.roles /\ ~ RolesPass(p, q.who)
          \/ s.permissions /\ ~ PermissionsPass(p, q.who)
    THEN "forbidden"
  ELSE IF \/ s.user /\ ~ UserPasses(p, q.who)
          \/ s.tenant /\ ~ TenantPasses(p, q.who)
    THEN "unauthorized"
  ELSE "ok"

\* A strategy of the application decides for itself, and may throw.
AuthVerdicts(q) ==
  LET v == IF "policies" \in setup THEN PolicyVerdict(q) ELSE "ok" IN
  IF v # "ok" THEN {v}
  ELSE IF "custom" \in setup THEN {"ok", "refused", "thrown"} ELSE {"ok"}

-----------------------------------------------------------------------------
(* The way in and the way out.                                             *)

Retries(c) == "concurrency" \in setup /\ request[c].type = "command"
Caches(c) ==
  /\ "caching" \in setup /\ request[c].type = "query"
  /\ request[c].cached # "not"

\* CacheKeyBuilder, by the identity of the call.
UserOf(q) == IF q.who = None THEN None ELSE q.who.user
TenantOf(q) == IF q.who = None THEN None ELSE q.who.tenant
CacheKey(q) ==
  <<TenantOf(q), IF q.cached = "user" THEN UserOf(q) ELSE None, q.name>>
Keys == {CacheKey(t[c]) : t \in Traffics, c \in Calls}

\* ExceptionPipeline: what is thrown becomes a failure.
Caught(result) ==
  CASE result = "thrownConflict" -> "conflict"
    [] result = "thrown" -> "systemError"
    [] OTHER -> result

Leave(k, result) ==
  [k EXCEPT !.place = "answered", !.answer = Caught(result),
            !.left = k.place, !.threw = result \in Thrown]

\* The container throws when the scope is closed or the intent unknown.
IntoHandler(c, k) ==
  IF c \in open /\ request[c].intent \in Registered
    THEN [k EXCEPT !.place = "working"] ELSE Leave(k, "thrown")

LooksUpConsistent(c) == Caches(c) /\ request[c].read # "bypass"
LooksUp(c) == Caches(c) /\ request[c].read = "cached"
IntoBus(c, k) ==
  IF LooksUp(c) THEN [k EXCEPT !.place = "lookingUp"]
  ELSE IntoHandler(c, [k EXCEPT !.tries = 1])

IntoValidation(c, k) ==
  IF "validation" \in setup THEN [k EXCEPT !.place = "validating"]
                            ELSE IntoBus(c, k)
CachingFirst(c, k) ==
  IF LooksUp(c) \/ setup \cap {"policies", "custom"} = {}
    THEN IntoValidation(c, k) ELSE [k EXCEPT !.place = "authorizing"]
IntoChain(c, k) ==
  IF setup \cap {"policies", "custom"} # {}
    THEN [k EXCEPT !.place = "authorizing"] ELSE IntoValidation(c, k)

\* From the handler: ConcurrencyRetryPipeline takes a conflict that is returned
\* for one of its own, QueryCachingPipeline stores what succeeded.
RetriedOnceMore(c, k, result) ==
  IF Retries(c) /\ result = "conflict" /\ k.tries <= MaxRetries
    THEN [k EXCEPT !.place = "delaying"]
  ELSE IF Caches(c) /\ result = "ok" THEN [k EXCEPT !.place = "storing"]
  ELSE Leave(k, result)
OutOfHandler(c, k, result) ==
  IF Retries(c) /\ result = "conflict" /\ k.tries < MaxRetries
    THEN [k EXCEPT !.place = "delaying"]
  ELSE IF Caches(c) /\ result = "ok" THEN [k EXCEPT !.place = "storing"]
  ELSE Leave(k, result)

-----------------------------------------------------------------------------
NoEntry == [by |-> None, version |-> 0]
Fresh == [place |-> "new", answer |-> "none", left |-> "new", threw |-> FALSE,
          from |-> None, since |-> 0, saw |-> 0, tries |-> 0,
          commits |-> 0]

Init ==
  /\ setup \in Setups
  /\ request \in Traffics
  /\ open = {c \in Calls : request[c].scope # "none"}
  /\ db = 0
  /\ cache = [k \in Keys |-> NoEntry]
  /\ call = [c \in Calls |-> Fresh]

Is(c, place) == call[c].place = place
Becomes(c, k) ==
  call' = [call EXCEPT ![c] = k] /\ UNCHANGED <<setup, request, open>>
DataStay == UNCHANGED <<db, cache>>

\* Mediator.process, up to the first await.  The pipeline is resolved outside
\* of it: a scope that is closed rejects the call.
Send(c) ==
  /\ Is(c, "new")
  /\ LET k == [call[c] EXCEPT !.since = db] IN
       Becomes(c, IF request[c].aborted THEN Leave(k, "aborted")
                  ELSE IF request[c].scope = "none" THEN Leave(k, "noScope")
                  ELSE IF c \notin open THEN [k EXCEPT !.place = "rejected"]
                  ELSE IntoChain(c, k))
  /\ DataStay

Authorize(c) ==
  /\ Is(c, "authorizing")
  /\ \E v \in AuthVerdicts(request[c]) :
       Becomes(c, IF v = "ok" THEN IntoValidation(c, call[c])
                              ELSE Leave(call[c], v))
  /\ DataStay

\* The schema decides; a strategy of the application may throw.
SchemaVerdict(q) == IF q.valid THEN "ok" ELSE "invalid"
Validate(c) ==
  /\ Is(c, "validating")
  /\ \E v \in {SchemaVerdict(request[c]), "thrown"} :
       Becomes(c, IF v = "ok" THEN IntoBus(c, call[c]) ELSE Leave(call[c], v))
  /\ DataStay

\* ICache.get and ICache.set
Entry(c) == cache[CacheKey(request[c])]
PutEntry(c, e) == cache' = [cache EXCEPT ![CacheKey(request[c])] = e]

\* The cache answers: a hit is the answer, a miss goes on to the handler.
LookUp(c) ==
  /\ Is(c, "lookingUp")
  /\ LET e == Entry(c) IN
       Becomes(c, IF e.by = None
                  THEN IntoHandler(c, [call[c] EXCEPT !.tries = 1])
                  ELSE Leave([call[c] EXCEPT !.from = e.by, !.saw = e.version],
                             "ok"))
  /\ DataStay
LookUpFails(c) ==
  /\ Is(c, "lookingUp")
  /\ Becomes(c, IntoHandler(c, [call[c] EXCEPT !.tries = 1]))
  /\ DataStay

HandlerReads(c) ==
  /\ Is(c, "working")
  /\ Becomes(c, [call[c] EXCEPT !.place = "reading", !.saw = db])
  /\ DataStay

QueryAnswers(c) ==
  /\ Is(c, "reading") /\ request[c].type = "query"
  /\ Becomes(c, OutOfHandler(c, call[c], "ok"))
  /\ DataStay

\* A command commits if nobody else has since it read; the command its handler
\* then sends may meet a conflict of its own, which the handler returns.
Commit(c) ==
  /\ Is(c, "reading") /\ request[c].type = "command" /\ db = call[c].saw
  /\ db' = db + 1
  /\ LET k == [call[c] EXCEPT !.commits = call[c].commits + 1] IN
       \E result \in {"ok"} \cup (IF request[c].nested THEN {"conflict"} ELSE {}) :
         Becomes(c, OutOfHandler(c, k, result))
  /\ UNCHANGED cache

\* The conflict is returned, or thrown.
Conflict(c) ==
  /\ Is(c, "reading") /\ request[c].type = "command" /\ db # call[c].saw
  /\ \E result \in {"conflict", "thrownConflict"} :
       Becomes(c, OutOfHandler(c, call[c], result))
  /\ DataStay

HandlerFails(c) ==
  /\ Is(c, "reading")
  /\ \E result \in {"failed", "thrown"} :
       Becomes(c, OutOfHandler(c, call[c], result))
  /\ DataStay

\* The next attempt resolves the handler anew; the signal is not looked at.
DelayOverInScope(c) ==
  /\ Is(c, "delaying") /\ c \in open
  /\ Becomes(c, IntoHandler(c, [call[c] EXCEPT !.tries = call[c].tries + 1]))
  /\ DataStay
DelayUncounted(c) ==
  Is(c, "delaying") /\ Becomes(c, IntoHandler(c, call[c])) /\ DataStay
DelayOver(c) ==
  /\ Is(c, "delaying")
  /\ Becomes(c, IntoHandler(c, [call[c] EXCEPT !.tries = call[c].tries + 1]))
  /\ DataStay

\* What the handler read is stored now, whatever was committed meanwhile.
Store(c) ==
  /\ Is(c, "storing")
  /\ PutEntry(c, [by |-> c, version |-> call[c].saw])
  /\ Becomes(c, Leave(call[c], "ok"))
  /\ UNCHANGED db
StoreFailureThrown(c) ==
  Is(c, "storing") /\ Becomes(c, Leave(call[c], "systemError")) /\ DataStay
StoreFails(c) ==
  Is(c, "storing") /\ Becomes(c, Leave(call[c], "ok")) /\ DataStay

Step(c) ==
  \/ Send(c) \/ Authorize(c) \/ Validate(c)
  \/ LookUp(c) \/ LookUpFails(c)
  \/ HandlerReads(c) \/ QueryAnswers(c) \/ Commit(c) \/ Conflict(c)
  \/ HandlerFails(c) \/ DelayOver(c)
  \/ Store(c) \/ StoreFails(c)

\* The request a detached call belongs to ends.
ScopeEnds(c) ==
  /\ request[c].scope = "detached" /\ c \in open
  /\ open' = open \ {c}
  /\ UNCHANGED <<setup, request, db, cache, call>>

Expire(k) ==
  /\ cache[k] # NoEntry
  /\ cache' = [cache EXCEPT ![k] = NoEntry]
  /\ UNCHANGED <<setup, request, open, db, call>>

Next ==
  \/ \E c \in Calls : Step(c) \/ ScopeEnds(c)
  \/ \E k \in Keys : Expire(k)

Spec == Init /\ [][Next]_vars

\* Strategies, the cache, timers and handlers answer sooner or later; whether a
\* call is ever made, a scope ends or an entry expires is left open.
FairSpec == Spec /\ \A c \in Calls : WF_vars(~ Is(c, "new") /\ Step(c))

-----------------------------------------------------------------------------
Call == [place : Places, answer : Answers, left : Places, threw : BOOLEAN,
         from : Calls \cup {None}, since : Nat, saw : Nat,
         tries : 0 .. MaxRetries, commits : Nat]

TypeOK ==
  /\ setup \in Setups
  /\ request \in Traffics
  /\ open \subseteq Calls
  /\ db \in Nat
  /\ cache \in [Keys -> [by : Calls \cup {None}, version : Nat]]
  /\ call \in [Calls -> Call]

\* Without strategies: whichever policy is the last one for the intent, the
\* identity has what it asks for.  A flag that counts as empty may demand a user
\* or a tenant, where another policy has the strategy made; it need not.
IsLast(n, q) ==
  LET Same(k) == Lower[Policies[k].intent] = Lower[q.intent]
  IN Same(n) /\ \A k \in DOMAIN Policies : Same(k) => k <= n
Authorized(q) ==
  \A n \in DOMAIN Policies : IsLast(n, q) =>
    LET p == Policies[n] IN
    /\ p.roles # {} => q.who # None /\ p.roles \cap q.who.roles # {}
    /\ p.permissions # {} =>
         q.who # None /\ p.permissions \cap q.who.permissions # {}
    /\ p.userId \notin EmptyFlags => q.who # None /\ q.who.user # None
    /\ p.tenantId \notin EmptyFlags => q.who # None /\ q.who.tenant # None
Identified(q) ==
  /\ q.who # None
  /\ \A n \in DOMAIN Policies : IsLast(n, q) =>
       /\ Policies[n].userId # None => q.who.user # None
       /\ Policies[n].tenantId # None => q.who.tenant # None

Cleared(c) ==
  /\ "policies" \in setup => Authorized(request[c])
  /\ "validation" \in setup => request[c].valid

\* No handler works for a call, and no call is answered with success, unless
\* its identity satisfies the policy of its intent and its schema accepts it:
\* an answer out of the cache included, and whoever put it there.
HandlerIsCleared ==
  \A c \in Calls :
    \/ call[c].place \in {"lookingUp", "working", "reading", "delaying", "storing"}
    \/ call[c].answer = "ok"
    => Cleared(c)

\* What a caller may conclude about the effects of a command: a success was
\* committed, a failure was not, and nothing was committed twice - unless the
\* handler sends commands of its own, whose conflicts repeat what it has
\* already committed, once per attempt and no more often than the attempts.
EffectsBounded ==
  \A c \in Calls :
    LET k == call[c] IN
    /\ k.commits <= k.tries
    /\ ~ request[c].nested =>
         /\ k.commits <= 1
         /\ k.commits = 1 => k.answer = "ok"
    /\ k.answer = "ok" /\ request[c].type = "command" => k.commits >= 1
    /\ ~ Retries(c) => k.tries <= 1

\* An answer out of the cache was given before to a query of the same name, of
\* the same tenant (and user, if there is one to cache it by) that was itself
\* cleared; what it shows is at most as old as that query.  A query that asks
\* to bypass the cache sees everything committed before it was sent.
AnswersAreSound ==
  \A c \in Calls :
    LET q == request[c]  k == call[c] IN
    q.type = "query" /\ k.answer = "ok" =>
      /\ k.saw <= db
      /\ IF k.from = None THEN k.since <= k.saw
         ELSE LET q0 == request[k.from] IN
           /\ q.read = "cached" /\ q.cached # "not"
           /\ q0.name = q.name /\ TenantOf(q0) = TenantOf(q)
           /\ q.cached = "user" /\ UserOf(q) # None => UserOf(q0) = UserOf(q)
           /\ Cleared(k.from)
           /\ call[k.from].since <= k.saw

\* A failure has a cause that deserves it: a system error comes from a strategy,
\* the handler or the want of one, and never from the cache; a conflict
\* is answered only when the attempts are used up or the handler threw it; only
\* who lacks what the policy names is unauthorized or forbidden; and only a scope
\* that is closed makes a call reject.
FailuresAreDeserved ==
  \A c \in Calls :
    LET q == request[c]  k == call[c] IN
    /\ k.answer = "systemError" =>
         \/ k.left \in {"authorizing", "validating", "reading"}
         \/ c \notin open \/ q.intent \notin Registered
    /\ k.answer = "conflict" /\ Retries(c) /\ ~ k.threw => k.tries = MaxRetries
    /\ k.answer = "unauthorized" => "policies" \in setup /\ ~ Identified(q)
    /\ k.answer = "forbidden" => "policies" \in setup /\ ~ Authorized(q)
    /\ k.answer = "invalid" => "validation" \in setup /\ ~ q.valid
    /\ k.place = "rejected" => q.scope = "detached" /\ c \notin open

\* Every call that is made is answered, or rejects.
EveryCallAnswered ==
  \A c \in Calls :
    ~ Is(c, "new") ~> (Is(c, "answered") \/ Is(c, "rejected"))
=============================================================================
