---------------------------- MODULE Resilience ----------------------------
(***************************************************************************)
(* Calls of a remote service through ServiceResilience                     *)
(* (infrastructure/services/resiliences/resilience.service.ts), by the     *)
(* policies CockatielResilienceFactory wraps into one another              *)
(* (infrastructure/factories/cockatiel-resilience.factory.ts): a bulkhead  *)
(* around a circuit breaker around a retry.  RemoteDataSource              *)
(* (infrastructure/datasources/remote.datasource.ts) makes the requests.   *)
(*                                                                         *)
(* The three policies are those of the cockatiel library; which errors     *)
(* they handle, their limits and their nesting are the factory's.          *)
(***************************************************************************)
EXTENDS Integers, FiniteSets

CONSTANTS
  Callers,  \* each makes one call after another
  Methods,  \* the HTTP methods they use
  Errors,   \* what the HTTP client may throw
  Configs,  \* attempts, failures (consecutiveFailures), concurrent
            \* (maxConcurrent), timeout (halfOpenTimeoutMs) of a deployment
  Defaults, \* RESILIENCE_DEFAULTS
  None      \* undefined

Idempotent == {"GET", "PUT", "DELETE", "HEAD", "OPTIONS"}

\* An error: whether its code is one of a network failure, its HTTP status and
\* the method in its request configuration, if it has them.
ASSUME ResilienceAssumption ==
  /\ IsFiniteSet(Callers) /\ None \notin Callers \cup Idempotent
  /\ \A e \in Errors : e.network \in BOOLEAN
  /\ \A f \in {"attempts", "failures", "concurrent", "timeout"} :
       Defaults[f] \in Nat /\ \A g \in Configs : g[f] \in Nat \cup {None}

VARIABLES
  config,   \* the configuration of the deployment
  breaker,  \* the circuit
  call,     \* the call of each caller
  failed    \* history: requests in a row that the service has failed while
            \* the circuit is closed, up to one more than FailedLimit

vars == <<config, breaker, call, failed>>

-----------------------------------------------------------------------------
\* checkConfigValue: zero is a value.
Checked(f) == IF config[f] # None THEN config[f] ELSE Defaults[f]
MaxAttempts == Checked("attempts")
Threshold == Checked("failures")
MaxConcurrent == Checked("concurrent")
HalfOpenTimeout == Checked("timeout")

IsTransientError(e) ==
  e.network \/ e.status = 408 \/ (500 <= e.status /\ e.status < 600)

IsTransientAndIdempotent(e) == IsTransientError(e) /\ e.method \in Idempotent

\* The errors the breaker counts.
CountsRetried(e) == IsTransientAndIdempotent(e)
Counts(e) == IsTransientError(e)

\* The calls that fail before the circuit opens: one less than the threshold
\* and those under way, each with all its attempts.
FailedLimit ==
  ((IF Threshold = 0 THEN 0 ELSE Threshold - 1) + MaxConcurrent)
    * (MaxAttempts + 1)

Places == {"idle", "waiting", "released", "sending", "delaying"}

Idle == [place |-> "idle", method |-> None, aborted |-> FALSE, probe |-> FALSE,
         waitsFor |-> None, sends |-> 0, late |-> 0]

Init ==
  /\ config \in Configs
  /\ breaker = [state |-> "closed", failures |-> 0, cooled |-> FALSE,
                probe |-> None]
  /\ call = [c \in Callers |-> Idle]
  /\ failed = 0

Is(c, place) == call[c].place = place
Active == {c \in Callers : ~ Is(c, "idle")}

-----------------------------------------------------------------------------
\* A request goes out; late counts those sent after the signal was aborted.
Sending(k) ==
  [k EXCEPT !.place = "sending", !.sends = k.sends + 1,
            !.late = k.late + (IF k.aborted THEN 1 ELSE 0)]

\* The breaker lets a call pass, refuses it, makes it the probe, or has it wait
\* for the probe there is.
IntoBreaker(c, k) ==
  \/ /\ breaker.state = "closed"
     /\ call' = [call EXCEPT ![c] = Sending(k)]
     /\ UNCHANGED breaker
  \/ /\ breaker.state = "open" /\ ~ breaker.cooled
     /\ call' = [call EXCEPT ![c] = Idle]
     /\ UNCHANGED breaker
  \/ /\ breaker.state = "open" /\ breaker.cooled
     /\ call' = [call EXCEPT ![c] = Sending([k EXCEPT !.probe = TRUE])]
     /\ breaker' = [breaker EXCEPT !.state = "halfOpen", !.probe = c]
  \/ /\ breaker.state = "halfOpen"
     /\ call' = [call EXCEPT ![c] =
                   [k EXCEPT !.place = "waiting", !.waitsFor = breaker.probe]]
     /\ UNCHANGED breaker

\* RemoteDataSource.send, through ServiceResilience.execute, up to the first
\* await.  A signal that is aborted already and a bulkhead that is full, which
\* has no queue, refuse the call and change nothing.
Send(c, m) ==
  /\ Is(c, "idle") /\ Cardinality(Active) < MaxConcurrent
  /\ IntoBreaker(c, [Idle EXCEPT !.method = m])
  /\ UNCHANGED <<config, failed>>

Abort(c) ==
  /\ ~ Is(c, "idle") /\ ~ call[c].aborted
  /\ call' = [call EXCEPT ![c].aborted = TRUE]
  /\ UNCHANGED <<config, breaker, failed>>

\* The probe a call waited for has ended.
ReEnterUnlessOpen(c) ==
  /\ Is(c, "released") /\ breaker.state # "open"
  /\ IntoBreaker(c, [call[c] EXCEPT !.waitsFor = None])
  /\ UNCHANGED <<config, failed>>
ReEnter(c) ==
  /\ Is(c, "released")
  /\ IF breaker.state = "closed" /\ call[c].aborted
       THEN call' = [call EXCEPT ![c] = Idle] /\ UNCHANGED breaker
       ELSE IntoBreaker(c, [call[c] EXCEPT !.waitsFor = None])
  /\ UNCHANGED <<config, failed>>

-----------------------------------------------------------------------------
\* The circuit opens, unless it is open; a timeout of zero is over at once.
Opened(b) ==
  IF b.state = "open" THEN b
  ELSE [b EXCEPT !.state = "open", !.cooled = (HalfOpenTimeout = 0), !.probe = None]
Closed(b) ==
  IF b.state = "halfOpen"
    THEN [b EXCEPT !.state = "closed", !.probe = None] ELSE b

\* What the end of a call does to the breaker: ConsecutiveBreaker counts the
\* failures it handles and forgets them with a success; an error that is not
\* handled ends a probe like a success, but forgets nothing.
AfterSuccess(c) ==
  LET b == [breaker EXCEPT !.failures = 0] IN
  IF call[c].probe THEN Closed(b) ELSE b
AfterFailure(c) ==
  LET n == breaker.failures + 1
      b == [breaker EXCEPT !.failures = IF n < Threshold THEN n ELSE Threshold] IN
  IF call[c].probe \/ n >= Threshold THEN Opened(b) ELSE b
AfterOther(c) == IF call[c].probe THEN Closed(breaker) ELSE breaker

EndsAlone(c) == call' = [call EXCEPT ![c] = Idle]

\* The call ends; those who wait for it, if it is a probe, go on.
Ends(c) ==
  call' = [x \in Callers |->
             IF x = c THEN Idle
             ELSE IF Is(x, "waiting") /\ call[x].waitsFor = c /\ call[c].probe
               THEN [call[x] EXCEPT !.place = "released"]
             ELSE call[x]]

Answered(c) ==
  /\ Is(c, "sending")
  /\ failed' = 0
  /\ Ends(c) /\ breaker' = AfterSuccess(c)
  /\ UNCHANGED config

MayThrow(c) == {e \in Errors : e.method \in {call[c].method, None}}

\* The retry looks at the signal after a failure, and nowhere else.
RetriesUnasked(c, e) ==
  IsTransientAndIdempotent(e) /\ call[c].sends <= MaxAttempts
RetriesOnceMore(c, e) ==
  /\ IsTransientAndIdempotent(e)
  /\ ~ call[c].aborted /\ call[c].sends <= MaxAttempts + 1
Retries(c, e) ==
  /\ IsTransientAndIdempotent(e)
  /\ ~ call[c].aborted /\ call[c].sends <= MaxAttempts

Failed(c, e) ==
  /\ Is(c, "sending") /\ e \in MayThrow(c)
  /\ IF Retries(c, e)
       THEN /\ call' = [call EXCEPT ![c].place = "delaying"]
            /\ UNCHANGED breaker
       ELSE /\ Ends(c)
            /\ breaker' = IF Counts(e) THEN AfterFailure(c) ELSE AfterOther(c)
  /\ failed' = IF breaker'.state # "closed" \/ ~ IsTransientError(e) THEN 0
               ELSE IF failed <= FailedLimit THEN failed + 1 ELSE failed
  /\ UNCHANGED config

DelayOver(c) ==
  /\ Is(c, "delaying")
  /\ call' = [call EXCEPT ![c] = Sending(call[c])]
  /\ UNCHANGED <<config, breaker, failed>>

\* halfOpenTimeoutMs have passed, if they are not zero; what a probe has released
\* ran long before.
CoolDown ==
  /\ breaker.state = "open" /\ ~ breaker.cooled
  /\ \A c \in Callers : ~ Is(c, "released")
  /\ breaker' = [breaker EXCEPT !.cooled = TRUE]
  /\ UNCHANGED <<config, call, failed>>

GoesOn(c) ==
  ReEnter(c) \/ Answered(c) \/ (\E e \in Errors : Failed(c, e)) \/ DelayOver(c)

Next ==
  \/ CoolDown
  \/ \E c \in Callers :
       \/ \E m \in Methods : Send(c, m)
       \/ Abort(c) \/ GoesOn(c)

Spec == Init /\ [][Next]_vars

\* The service answers or times out, and delays end.
FairSpec == Spec /\ \A c \in Callers : WF_vars(GoesOn(c))

-----------------------------------------------------------------------------
CallerOrNone == Callers \cup {None}
Call == [place : Places, method : Methods \cup {None},
         aborted : BOOLEAN, probe : BOOLEAN, waitsFor : CallerOrNone,
         sends : 0 .. (MaxAttempts + 1), late : Nat]
Breaker == [state : {"closed", "open", "halfOpen"}, failures : 0 .. Threshold,
            cooled : BOOLEAN, probe : CallerOrNone]

TypeOK ==
  /\ config \in Configs
  /\ breaker \in Breaker
  /\ call \in [Callers -> Call]
  /\ failed \in 0 .. (FailedLimit + 1)

\* A request that is not idempotent reaches the service once, whatever becomes
\* of it; any other at most once more than the configured attempts, and only
\* once more after its signal was aborted.
SentWithinBudget ==
  \A c \in Callers :
    /\ call[c].sends > 1 => call[c].method \in Idempotent
    /\ call[c].late <= 1

\* How many requests in a row a failing service may see before the circuit
\* opens: the threshold counts calls, each after all its attempts, and the
\* calls under way are not stopped.
FailuresBeforeOpen == failed <= FailedLimit

\* The attempts of the calls under way that the service has failed so far.
Spent(k) == IF k.place = "sending" THEN k.sends - 1 ELSE k.sends
Pending == {p \in Callers \X (1 .. MaxAttempts + 1) : p[2] <= Spent(call[p[1]])}

\* Why no more fail: each call the breaker has counted since the last success
\* failed with all its attempts, and of the others as many as are under way.
\* A breaker that a probe closed without a success still counts its threshold,
\* though nothing failed since then; the next call it counts opens it again.
CountedCalls == IF breaker.failures < Threshold THEN breaker.failures ELSE 0
FailureBudget ==
  /\ breaker.state # "closed" => failed = 0
  /\ \A c \in Callers :
       call[c].place \in {"sending", "delaying"} => call[c].sends > 0
  /\ Cardinality(Active) <= MaxConcurrent
  /\ failed <= CountedCalls * (MaxAttempts + 1) + Cardinality(Pending)

\* A circuit that is half open has a probe on its way, and whoever waits, waits
\* for a probe that is: nobody waits for an answer that was given.
WaitersHaveProbe ==
  /\ breaker.state = "halfOpen" =>
       \E c \in Callers : breaker.probe = c /\ call[c].probe
  /\ \A c \in Callers : Is(c, "waiting") =>
       \E p \in Callers : call[c].waitsFor = p /\ call[p].probe

\* Every call ends: half of a circuit and a full bulkhead keep nobody waiting,
\* unless the half-open timeout is zero, where one who comes later may be the next
\* probe, again and again, before those that the last one has released.
EveryCallSettles ==
  \A c \in Callers :
    ~ Is(c, "idle") ~> (Is(c, "idle") \/ HalfOpenTimeout = 0)
=============================================================================
