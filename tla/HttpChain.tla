----------------------------- MODULE HttpChain -----------------------------
(***************************************************************************)
(* The chain of HTTP middlewares that MiddlewareModule                     *)
(* (infrastructure/modules/middleware.module.ts) puts around a handler:    *)
(* request context, allowed origin, [options], [CORS], [method check],     *)
(* authentication, [rate limit], [CSRF cookie, CSRF].                      *)
(*                                                                         *)
(* Requests interleave where a middleware awaits something: the gate       *)
(* keeper, the cache, the check or the making of a CSRF token, the handler *)
(* and the disposal of the scope.  What runs between two awaits is one     *)
(* step.  On its way out an answer passes the middlewares it came in by.   *)
(***************************************************************************)
EXTENDS RateLimit

CONSTANTS
  Setups,   \* the sets of features a deployment may switch on
  Visits,   \* the requests a client may send
  None      \* undefined

Features == {"options", "cors", "routes", "auth", "limit", "csrf"}

\* GUEST has neither a user nor a tenant.
Guest == [user |-> None, tenant |-> None]

\* A visit: its origin, method and path, whether the route registry has them,
\* the address, whether it bears a token, the identity the authentication
\* service knows it by, and the subjects of the CSRF tokens in its header and
\* its cookie.
ASSUME ChainAssumption ==
  /\ \A s \in Setups : s \subseteq Features
  /\ \A v \in Visits : v.origin \in {"none", "own", "foreign"}

VARIABLES
  setup,     \* the features of the deployment
  visit,     \* what each request is
  identity,  \* the identity in its context
  place      \* the await it has reached, and its answer so far

chainVars == <<setup, visit, identity, place>>
vars == <<limiterVars, chainVars>>

Stages == {"new", "authenticating", "counting", "validating", "handling",
           "minting", "disposing", "answered"}
Statuses == {"none", "ok", "failed", "noContent", "unauthorized", "forbidden",
             "notAllowed", "tooMany", "unavailable", "systemError"}

-----------------------------------------------------------------------------
(* Where a request goes next.                                              *)

At(stage, status, cors) ==
  [stage |-> stage,
   answer |-> [status |-> status, cors |-> cors, cookie |-> None]]

\* CORSMiddleware marks every answer that passes it.
Marked(v) == "cors" \in setup /\ v.origin # "none"
Leaving(v, status) == At("disposing", status, Marked(v))

\* An exception leaves the chain as it is: only the request context catches it.
Thrown == At("disposing", "systemError", FALSE)

\* CsrfCookieMiddleware, on the way out: who has no token yet is made one.
LacksCookie(v, who) ==
  "csrf" \in setup /\ who.user # None /\ v.cookie = None
LeavingCsrf(v, who, status) ==
  IF LacksCookie(v, who) THEN At("minting", status, Marked(v))
                         ELSE Leaving(v, status)

\* CsrfMiddleware, up to the check of the token.
CsrfSparesGuests(v, who) ==
  IF "csrf" \notin setup \/ v.method # "POST" \/ who.user = None
    THEN At("handling", "none", FALSE)
  ELSE IF v.header # None /\ v.header = v.cookie
    THEN At("validating", "none", FALSE)
  ELSE LeavingCsrf(v, who, "forbidden")
IntoCsrf(v, who) ==
  IF "csrf" \notin setup \/ v.method # "POST"
    THEN At("handling", "none", FALSE)
  ELSE IF v.header # None /\ v.header = v.cookie /\ who.user # None
    THEN At("validating", "none", FALSE)
  ELSE LeavingCsrf(v, who, "forbidden")

\* RateLimitKeyBuilder: by user or else by address, within the tenant.
KeyFor(v, who) ==
  IF who.user = None /\ v.ip = None THEN NoKey
  ELSE <<who.tenant, IF who.user # None THEN who.user ELSE v.ip, v.path>>

Identities == {Guest} \cup {v.claims : v \in Visits}
ASSUME KeyAssumption ==
  \A v \in Visits, who \in Identities : KeyFor(v, who) \in Keys \cup {NoKey}

\* RateLimitMiddleware, up to the increment.
IntoLimiter(v, who) ==
  IF "limit" \notin setup THEN IntoCsrf(v, who)
  ELSE IF KeyFor(v, who) = NoKey THEN Leaving(v, "unavailable")
  ELSE At("counting", "none", FALSE)

\* The registry of methods is made for either of two features.
HasMethods == "routes" \in setup /\ setup \cap {"options", "cors"} # {}

\* OptionsMiddleware sets the headers of its answer itself.
IntoOptions(v) ==
  IF ~ HasMethods THEN Thrown
  ELSE At("disposing", "noContent", v.origin # "none")

\* MethodCheckMiddleware, up to the gate keeper.
MethodsBeforeCors(v) ==
  IF "routes" \in setup /\ ~ HasMethods THEN Thrown
  ELSE IF "routes" \in setup /\ ~ v.routed
    THEN At("disposing", "notAllowed", FALSE)
  ELSE At("authenticating", "none", FALSE)
IntoMethods(v) ==
  IF "routes" \in setup /\ ~ HasMethods THEN Thrown
  ELSE IF "routes" \in setup /\ ~ v.routed THEN Leaving(v, "notAllowed")
  ELSE At("authenticating", "none", FALSE)

\* AllowOriginMiddleware lets requests without an origin pass.
IntoOrigin(v) ==
  IF v.origin = "foreign" THEN At("disposing", "forbidden", FALSE)
  ELSE IF "options" \in setup /\ v.method = "OPTIONS" THEN IntoOptions(v)
  ELSE IntoMethods(v)

-----------------------------------------------------------------------------
ChainInit ==
  /\ LimiterInit
  /\ setup \in Setups
  /\ visit \in [Requests -> Visits]
  /\ identity = [r \in Requests |-> Guest]
  /\ place = [r \in Requests |-> At("new", "none", FALSE)]

Is(r, stage) == place[r].stage = stage
Goto(r, p) == place' = [place EXCEPT ![r] = p] /\ UNCHANGED <<setup, visit>>
Stay == UNCHANGED <<limiterVars, identity>>

\* RequestContextMiddleware opens the scope and runs the chain in it.
Arrive(r) == Is(r, "new") /\ Goto(r, IntoOrigin(visit[r])) /\ Stay

\* The headers cannot be read: there is no scope yet.
Malformed(r) ==
  Is(r, "new") /\ Goto(r, At("answered", "systemError", FALSE)) /\ Stay

UpdateIdentity(r, who) == identity' = [identity EXCEPT ![r] = who]
Identify(r, who) ==
  /\ Is(r, "authenticating") /\ UpdateIdentity(r, who)
  /\ Goto(r, IntoLimiter(visit[r], who))
  /\ UNCHANGED limiterVars

\* GateKeeper, or NoAuthGateKeeper; then updateIdentity.
Authenticated(r) ==
  Identify(r, IF "auth" \in setup THEN visit[r].claims ELSE Guest)
SessionFails(r) ==
  "auth" \in setup /\ ~ visit[r].token /\ Identify(r, Guest)
TokenRefused(r) ==
  /\ Is(r, "authenticating") /\ "auth" \in setup /\ visit[r].token
  /\ Goto(r, Leaving(visit[r], "unauthorized")) /\ Stay
ServiceThrows(r) ==
  /\ \/ Is(r, "authenticating") /\ "auth" \in setup
     \/ Is(r, "validating") \/ Is(r, "minting")
  /\ Goto(r, Thrown) /\ Stay

\* The cache answers the increment, or rejects it.
Counted(r) ==
  /\ Is(r, "counting")
  /\ LET k == KeyFor(visit[r], identity[r]) IN
       Increment(r, k) \/ EmptyResult(r, k) \/ WriteCount(r, k)
  /\ Goto(r, IF hit'[r].verdict = "refused" THEN Leaving(visit[r], "tooMany")
             ELSE IntoCsrf(visit[r], identity[r]))
  /\ UNCHANGED identity
CountRead(r) ==
  /\ Is(r, "counting") /\ ReadCount(r, KeyFor(visit[r], identity[r]))
  /\ UNCHANGED chainVars
CountFails(r) ==
  /\ Is(r, "counting") /\ IncrementRejects(r, KeyFor(visit[r], identity[r]))
  /\ Goto(r, Thrown) /\ UNCHANGED identity

\* CsrfTokenService.validate: the token was made for this user.
Validated(r) ==
  /\ Is(r, "validating")
  /\ Goto(r, IF visit[r].header = identity[r].user
             THEN At("handling", "none", FALSE)
             ELSE LeavingCsrf(visit[r], identity[r], "forbidden"))
  /\ Stay

\* BaseController.ok and fail
ControllerStatuses == {"ok", "failed"}
HandlerReturns(r) ==
  /\ Is(r, "handling")
  /\ \E status \in ControllerStatuses :
       Goto(r, LeavingCsrf(visit[r], identity[r], status))
  /\ Stay
HandlerThrows(r) == Is(r, "handling") /\ Goto(r, Thrown) /\ Stay

\* CsrfTokenService.generate
Minted(r) ==
  /\ Is(r, "minting")
  /\ Goto(r, [stage |-> "disposing",
              answer |-> [place[r].answer EXCEPT !.cookie = identity[r].user]])
  /\ Stay

\* The scope is disposed, whatever became of the chain.
DisposedUnlessThrown(r) ==
  /\ Is(r, "disposing") /\ place[r].answer.status # "systemError"
  /\ Goto(r, [place[r] EXCEPT !.stage = "answered"])
  /\ Stay
Disposed(r) ==
  /\ Is(r, "disposing")
  /\ Goto(r, [place[r] EXCEPT !.stage = "answered"])
  /\ Stay

Step(r) ==
  \/ Arrive(r) \/ Malformed(r)
  \/ Authenticated(r) \/ SessionFails(r) \/ TokenRefused(r) \/ ServiceThrows(r)
  \/ Counted(r) \/ CountRead(r) \/ CountFails(r)
  \/ Validated(r) \/ HandlerReturns(r) \/ HandlerThrows(r)
  \/ Minted(r) \/ Disposed(r)

Tick == LimiterTick /\ UNCHANGED chainVars

ChainNext == Tick \/ \E r \in Requests : Step(r)

ChainSpec == ChainInit /\ [][ChainNext]_vars

\* The cache, the services and the handlers answer sooner or later.
FairChainSpec ==
  ChainSpec /\ \A r \in Requests : WF_vars(place[r].stage # "new" /\ Step(r))

-----------------------------------------------------------------------------
Subjects == {None} \cup {who.user : who \in Identities}
Place == [stage : Stages,
          answer : [status : Statuses, cors : BOOLEAN, cookie : Subjects]]

TypeOK ==
  /\ LimiterTypeOK
  /\ setup \in Setups
  /\ visit \in [Requests -> Visits]
  /\ identity \in [Requests -> Identities]
  /\ place \in [Requests -> Place]

\* What a handler may rely on, however the middlewares of the deployment are
\* combined and whatever other requests do: the origin is allowed, the route
\* exists, the identity is the one the service vouches for (or a guest's, but
\* not for who presents a token), the request was let through under the key of
\* that identity, and what changes state carries the CSRF token of its user.
HandlerIsGuarded ==
  \A r \in Requests : Is(r, "handling") =>
    LET v == visit[r] IN
    /\ v.origin # "foreign"
    /\ "routes" \in setup => v.routed
    /\ identity[r] # Guest => "auth" \in setup /\ identity[r] = v.claims
    /\ "auth" \in setup /\ v.token => identity[r] = v.claims
    /\ "limit" \in setup =>
         hit[r].verdict = "admitted" /\ hit[r].key = KeyFor(v, identity[r])
    /\ "csrf" \in setup /\ v.method = "POST" =>
         /\ identity[r].user # None
         /\ v.header = identity[r].user /\ v.cookie = identity[r].user

\* What a page gets to see.  One of an allowed origin can read every answer, the
\* refusals of the inner middlewares included, unless the request failed
\* altogether; a page of another origin can read none.
ReadableByPage(r) ==
  LET v == visit[r]  a == place[r].answer IN
  /\ "cors" \in setup /\ v.origin = "own" /\ a.status # "systemError" => a.cors
  /\ a.cors => v.origin = "own"

\* A user who is refused for want of a CSRF token, or who reaches the handler
\* without one, is handed a token, and it is good for that user; nobody is
\* handed the token of somebody else.
CookieHanded(r) ==
  LET a == place[r].answer IN
  /\ a.cookie \in {None, identity[r].user}
  /\ /\ LacksCookie(visit[r], identity[r])
     /\ a.status \in {"ok", "failed", "forbidden"}
     => a.cookie # None

\* Whichever middleware an answer comes from, the ones it is wrapped in have put
\* on it what the page and the next request of the user need.
AnswersAreUsable ==
  \A r \in Requests : Is(r, "answered") => ReadableByPage(r) /\ CookieHanded(r)

\* Every request that reached the chain is answered.
EveryRequestAnswered ==
  \A r \in Requests : ~ Is(r, "new") ~> Is(r, "answered")
=============================================================================
