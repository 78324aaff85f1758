-------------------------- MODULE ResilienceProofs --------------------------
(***************************************************************************)
(* How often a request is sent and for whom a call may wait, for any number*)
(* of callers, any errors and any limits.                                  *)
(***************************************************************************)
EXTENDS Resilience, FiniteSetTheorems, TLAPS

-----------------------------------------------------------------------------
(* The inductive invariant.                                                *)

\* A call that is at k.
Fits(k) ==
  /\ k \in Call
  /\ k.place \in {"idle", "waiting", "released"} => k.sends = 0 /\ k.late = 0
  /\ k.place = "delaying" =>
       k.late = 0 /\ k.method \in Idempotent /\ k.sends <= MaxAttempts
  /\ ~ k.aborted => k.late = 0
  /\ k.late <= 1
  /\ k.sends > 1 => k.method \in Idempotent
  /\ k.probe => k.place \in {"sending", "delaying"}

\* The probe of a circuit that is half open is on its way, and so is the one a
\* call waits for, which may be that of an earlier half: a late failure opens
\* the circuit under its probe.
HalfHasProbe ==
  breaker.state = "halfOpen" =>
    breaker.probe \in Callers /\ call[breaker.probe].probe
WaitsForProbe(c) ==
  call[c].place = "waiting" =>
    call[c].waitsFor \in Callers /\ call[call[c].waitsFor].probe

ResilienceInv ==
  /\ TypeOK
  /\ \A c \in Callers : Fits(call[c])
  /\ HalfHasProbe
  /\ \A c \in Callers : WaitsForProbe(c)

-----------------------------------------------------------------------------
LEMMA Limits ==
  ASSUME ResilienceAssumption, config \in Configs
  PROVE  MaxAttempts \in Nat /\ Threshold \in Nat /\ MaxConcurrent \in Nat
<1>1. \A f \in {"attempts", "failures", "concurrent"} :
        Defaults[f] \in Nat /\ config[f] \in Nat \cup {None}
  BY DEF ResilienceAssumption
<1> QED
  BY <1>1 DEF MaxAttempts, Threshold, MaxConcurrent, Checked

LEMMA ProductOfNat ==
  ASSUME NEW a \in Nat, NEW b \in Nat
  PROVE  a * b \in Nat
OBVIOUS

LEMMA FailedLimitIsNat ==
  ASSUME ResilienceAssumption, config \in Configs
  PROVE  FailedLimit \in Nat
<1> DEFINE a == (IF Threshold = 0 THEN 0 ELSE Threshold - 1) + MaxConcurrent
           b == MaxAttempts + 1
<1>1. a \in Nat /\ b \in Nat
  BY Limits
<1>2. FailedLimit = a * b
  BY DEF FailedLimit
<1> HIDE DEF a, b
<1> QED
  BY <1>1, <1>2, ProductOfNat

LEMMA SendingFits ==
  ASSUME ResilienceAssumption, config \in Configs, NEW k, Fits(k),
         k.late = 0, k.sends <= MaxAttempts,
         k.sends > 0 => k.method \in Idempotent
  PROVE  /\ Fits(Sending(k)) /\ Sending(k).place = "sending"
         /\ Sending(k).probe = k.probe
<1> DEFINE j == Sending(k)
<1>1. MaxAttempts \in Nat
  BY Limits
<1>2. /\ k \in Call /\ k.sends \in 0 .. (MaxAttempts + 1) /\ k.late \in Nat
      /\ k.aborted \in BOOLEAN
  BY DEF Fits, Call
<1>3. k.sends + 1 \in 0 .. (MaxAttempts + 1)
  BY <1>1, <1>2
<1>4. k.late + (IF k.aborted THEN 1 ELSE 0) \in Nat
  BY <1>2
<1>5. /\ j.place = "sending" /\ j.probe = k.probe /\ j.method = k.method
      /\ j.sends = k.sends + 1 /\ j.aborted = k.aborted
      /\ j.late = k.late + (IF k.aborted THEN 1 ELSE 0)
      /\ j \in Call
  BY <1>2, <1>3, <1>4 DEF Sending, Call, Places
<1> HIDE DEF j
<1>6. Fits(j)
  BY <1>1, <1>2, <1>5 DEF Fits
<1> QED
  BY <1>5, <1>6 DEF j

\* One call changes, nobody's probe is lost.
LEMMA OneCallKeeps ==
  ASSUME ResilienceAssumption, ResilienceInv, NEW c \in Callers, NEW k,
         Fits(k), config' = config, call' = [call EXCEPT ![c] = k],
         breaker' \in Breaker, failed' \in 0 .. (FailedLimit + 1),
         call[c].probe => k.probe,
         breaker'.state = "halfOpen" =>
           \/ breaker' = breaker
           \/ breaker'.probe = c /\ k.probe,
         k.place = "waiting" =>
           \/ k.waitsFor = call[c].waitsFor /\ call[c].place = "waiting"
           \/ k.waitsFor \in Callers /\ k.waitsFor # c /\ call[k.waitsFor].probe
  PROVE  ResilienceInv'
<1>1. /\ call \in [Callers -> Call] /\ k \in Call
      /\ Call' = Call /\ Breaker' = Breaker /\ FailedLimit' = FailedLimit
      /\ MaxAttempts' = MaxAttempts
  BY DEF ResilienceInv, TypeOK, Fits, Call, Breaker, FailedLimit, MaxAttempts,
     Threshold, MaxConcurrent, Checked, CallerOrNone
<1>2. /\ call' \in [Callers -> Call] /\ call'[c] = k
      /\ \A d \in Callers : d # c => call'[d] = call[d]
  BY <1>1
<1>3. TypeOK'
  BY <1>1, <1>2 DEF ResilienceInv, TypeOK
<1>4. \A d \in Callers : Fits(call[d])'
  BY <1>1, <1>2 DEF ResilienceInv, Fits
<1>5. \A d \in Callers : call[d].probe => call'[d].probe
  BY <1>2
<1>6. HalfHasProbe'
  BY <1>2, <1>5 DEF ResilienceInv, HalfHasProbe
<1>7. \A d \in Callers : WaitsForProbe(d)'
  BY <1>2, <1>5 DEF ResilienceInv, WaitsForProbe
<1> QED
  BY <1>3, <1>4, <1>6, <1>7 DEF ResilienceInv

LEMMA IntoBreakerKeeps ==
  ASSUME ResilienceAssumption, ResilienceInv, NEW c \in Callers, NEW k,
         Fits(k), ~ k.probe, k.sends = 0, k.late = 0, ~ call[c].probe,
         IntoBreaker(c, k), config' = config, failed' = failed
  PROVE  ResilienceInv'
<1>1. /\ config \in Configs /\ breaker \in Breaker /\ MaxAttempts \in Nat
      /\ failed \in 0 .. (FailedLimit + 1) /\ k \in Call
  BY Limits DEF ResilienceInv, TypeOK, Fits
<1>2. Fits(Sending(k))
  BY <1>1, SendingFits
<1>3. CASE /\ breaker.state = "closed"
           /\ call' = [call EXCEPT ![c] = Sending(k)]
           /\ UNCHANGED breaker
  <2>1. Sending(k).place = "sending"
    BY <1>1, SendingFits
  <2> QED
    BY <1>1, <1>2, <1>3, <2>1, OneCallKeeps
<1>4. CASE /\ breaker.state = "open" /\ ~ breaker.cooled
           /\ call' = [call EXCEPT ![c] = Idle]
           /\ UNCHANGED breaker
  <2>1. Fits(Idle) /\ Idle.place = "idle"
    BY <1>1 DEF Idle, Fits, Call, Places, CallerOrNone
  <2> QED
    BY <1>1, <1>4, <2>1, OneCallKeeps
<1>5. CASE /\ breaker.state = "open" /\ breaker.cooled
           /\ call' = [call EXCEPT ![c] = Sending([k EXCEPT !.probe = TRUE])]
           /\ breaker' = [breaker EXCEPT !.state = "halfOpen", !.probe = c]
  <2> DEFINE j == Sending([k EXCEPT !.probe = TRUE])
  <2>1. /\ j.place = "sending" /\ j.probe = TRUE
        /\ j = [Sending(k) EXCEPT !.probe = TRUE]
    BY <1>1 DEF Sending, Call
  <2>2. Sending(k).place = "sending" /\ Sending(k) \in Call
    BY <1>1, <1>2, SendingFits DEF Fits
  <2>3. /\ j \in Call /\ j.sends = Sending(k).sends /\ j.late = Sending(k).late
        /\ j.method = Sending(k).method /\ j.aborted = Sending(k).aborted
    BY <2>1, <2>2 DEF Call
  <2> HIDE DEF j
  <2>4. Fits(j)
    BY <1>2, <2>1, <2>2, <2>3 DEF Fits
  <2>5. breaker' \in Breaker /\ breaker'.probe = c
    BY <1>1, <1>5 DEF Breaker, CallerOrNone
  <2> QED
    BY <1>1, <1>5, <2>1, <2>4, <2>5, OneCallKeeps DEF j
<1>6. CASE /\ breaker.state = "halfOpen"
           /\ call' = [call EXCEPT ![c] =
                         [k EXCEPT !.place = "waiting", !.waitsFor = breaker.probe]]
           /\ UNCHANGED breaker
  <2> DEFINE j == [k EXCEPT !.place = "waiting", !.waitsFor = breaker.probe]
  <2>1. breaker.probe \in Callers /\ call[breaker.probe].probe
    BY <1>6 DEF ResilienceInv, HalfHasProbe
  <2>2. /\ j \in Call /\ j.place = "waiting" /\ j.waitsFor = breaker.probe
        /\ j.probe = k.probe /\ j.sends = k.sends /\ j.late = k.late
        /\ j.method = k.method /\ j.aborted = k.aborted
    BY <1>1, <2>1 DEF Call, Places, CallerOrNone
  <2> HIDE DEF j
  <2>3. Fits(j)
    BY <2>2 DEF Fits
  <2>4. breaker.probe # c
    BY <2>1
  <2> QED
    BY <1>1, <1>6, <2>1, <2>2, <2>3, <2>4, OneCallKeeps DEF j
<1> QED
  BY <1>3, <1>4, <1>5, <1>6 DEF IntoBreaker

-----------------------------------------------------------------------------
(* Steps.                                                                  *)

LEMMA SendKeeps ==
  ASSUME ResilienceAssumption, ResilienceInv, NEW c \in Callers,
         NEW m \in Methods, Send(c, m)
  PROVE  ResilienceInv'
<1> DEFINE k == [Idle EXCEPT !.method = m]
<1>1. /\ IntoBreaker(c, k) /\ config' = config /\ failed' = failed
      /\ call[c].place = "idle"
  BY DEF Send, Is
<1>2. MaxAttempts \in Nat /\ Fits(call[c])
  BY Limits DEF ResilienceInv, TypeOK
<1>3. Fits(k) /\ ~ k.probe /\ k.sends = 0 /\ k.late = 0
  <2>1. /\ Idle \in Call /\ Idle.place = "idle" /\ ~ Idle.probe
        /\ Idle.sends = 0 /\ Idle.late = 0
    BY <1>2 DEF Idle, Call, Places, CallerOrNone
  <2>2. /\ k \in Call /\ k.place = Idle.place /\ k.probe = Idle.probe
        /\ k.sends = Idle.sends /\ k.late = Idle.late
    BY <2>1 DEF Call
  <2> HIDE DEF k
  <2> QED
    BY <1>2, <2>1, <2>2 DEF Fits
<1>4. ~ call[c].probe
  BY <1>1, <1>2 DEF Fits
<1> HIDE DEF k
<1> QED
  BY <1>1, <1>3, <1>4, IntoBreakerKeeps

LEMMA AbortKeeps ==
  ASSUME ResilienceAssumption, ResilienceInv, NEW c \in Callers, Abort(c)
  PROVE  ResilienceInv'
<1> DEFINE k == [call[c] EXCEPT !.aborted = TRUE]
<1>1. /\ Fits(call[c]) /\ call[c] \in Call /\ breaker \in Breaker
      /\ failed \in 0 .. (FailedLimit + 1) /\ call \in [Callers -> Call]
  BY DEF ResilienceInv, TypeOK
<1>2. /\ call' = [call EXCEPT ![c] = k] /\ config' = config
      /\ breaker' = breaker /\ failed' = failed
  BY <1>1 DEF Abort
<1>3. /\ k \in Call /\ k.aborted = TRUE /\ k.place = call[c].place
      /\ k.probe = call[c].probe /\ k.waitsFor = call[c].waitsFor
      /\ k.sends = call[c].sends /\ k.late = call[c].late
      /\ k.method = call[c].method
  BY <1>1 DEF Call
<1> HIDE DEF k
<1>4. Fits(k)
  BY <1>1, <1>3 DEF Fits
<1> QED
  BY <1>1, <1>2, <1>3, <1>4, OneCallKeeps

LEMMA ReEnterKeeps ==
  ASSUME ResilienceAssumption, ResilienceInv, NEW c \in Callers, ReEnter(c)
  PROVE  ResilienceInv'
<1> DEFINE k == [call[c] EXCEPT !.waitsFor = None]
<1>1. /\ Fits(call[c]) /\ call[c] \in Call /\ breaker \in Breaker
      /\ failed \in 0 .. (FailedLimit + 1) /\ MaxAttempts \in Nat
  BY Limits DEF ResilienceInv, TypeOK
<1>2. /\ call[c].place = "released" /\ config' = config /\ failed' = failed
      /\ \/ call' = [call EXCEPT ![c] = Idle] /\ UNCHANGED breaker
         \/ IntoBreaker(c, k)
  BY DEF ReEnter, Is
<1>3. ~ call[c].probe /\ call[c].sends = 0 /\ call[c].late = 0
  BY <1>1, <1>2 DEF Fits
<1>4. /\ k \in Call /\ k.aborted = call[c].aborted /\ k.place = call[c].place
      /\ k.probe = call[c].probe /\ k.sends = call[c].sends
      /\ k.late = call[c].late /\ k.method = call[c].method
  BY <1>1 DEF Call, CallerOrNone
<1> HIDE DEF k
<1>5. Fits(k)
  BY <1>1, <1>4 DEF Fits
<1>6. Fits(Idle) /\ Idle.place = "idle"
  BY <1>1 DEF Idle, Fits, Call, Places, CallerOrNone
<1>7. CASE IntoBreaker(c, k)
  BY <1>2, <1>3, <1>4, <1>5, <1>7, IntoBreakerKeeps
<1>8. CASE call' = [call EXCEPT ![c] = Idle] /\ UNCHANGED breaker
  BY <1>1, <1>2, <1>3, <1>6, <1>8, OneCallKeeps
<1> QED
  BY <1>2, <1>7, <1>8

LEMMA DelayOverKeeps ==
  ASSUME ResilienceAssumption, ResilienceInv, NEW c \in Callers, DelayOver(c)
  PROVE  ResilienceInv'
<1>1. /\ Fits(call[c]) /\ breaker \in Breaker /\ config \in Configs
      /\ failed \in 0 .. (FailedLimit + 1)
  BY DEF ResilienceInv, TypeOK
<1>2. /\ call[c].place = "delaying" /\ config' = config /\ failed' = failed
      /\ breaker' = breaker /\ call' = [call EXCEPT ![c] = Sending(call[c])]
  BY DEF DelayOver, Is
<1>3. /\ Fits(Sending(call[c])) /\ Sending(call[c]).place = "sending"
      /\ Sending(call[c]).probe = call[c].probe
  BY <1>1, <1>2, SendingFits DEF Fits
<1> QED
  BY <1>1, <1>2, <1>3, OneCallKeeps

\* A call ends, and with a probe the half of the circuit it belongs to.
LEMMA EndKeeps ==
  ASSUME ResilienceAssumption, ResilienceInv, NEW c \in Callers, Ends(c),
         config' = config, failed' \in 0 .. (FailedLimit + 1),
         breaker' \in Breaker,
         breaker'.state = "halfOpen" =>
           ~ call[c].probe /\ breaker.state = "halfOpen"
             /\ breaker'.probe = breaker.probe
  PROVE  ResilienceInv'
<1>1. /\ call \in [Callers -> Call] /\ MaxAttempts \in Nat
      /\ Call' = Call /\ Breaker' = Breaker /\ FailedLimit' = FailedLimit
      /\ MaxAttempts' = MaxAttempts
  BY Limits DEF ResilienceInv, TypeOK, Call, Breaker, FailedLimit, MaxAttempts,
     Threshold, MaxConcurrent, Checked, CallerOrNone
<1>2. \A d \in Callers :
        /\ d = c => call'[d] = Idle
        /\ d # c /\ call[d].place = "waiting" /\ call[d].waitsFor = c /\ call[c].probe =>
             call'[d] = [call[d] EXCEPT !.place = "released"]
        /\ d # c /\ ~ (call[d].place = "waiting" /\ call[d].waitsFor = c
                       /\ call[c].probe) => call'[d] = call[d]
  BY DEF Ends, Is
<1>3. Fits(Idle) /\ Idle.place = "idle" /\ Idle \in Call
  BY <1>1 DEF Idle, Fits, Call, Places, CallerOrNone
<1>4. \A d \in Callers :
        /\ Fits(call'[d])
        /\ d # c => call'[d].probe = call[d].probe
        /\ call'[d].place = "waiting" =>
             /\ d # c /\ call'[d] = call[d]
             /\ ~ (call[d].waitsFor = c /\ call[c].probe)
  <2> SUFFICES ASSUME NEW d \in Callers
               PROVE  /\ Fits(call'[d])
                      /\ d # c => call'[d].probe = call[d].probe
                      /\ call'[d].place = "waiting" =>
                           /\ d # c /\ call'[d] = call[d]
                           /\ ~ (call[d].waitsFor = c /\ call[c].probe)
    OBVIOUS
  <2>1. CASE d = c
    BY <1>2, <1>3, <2>1
  <2>2. CASE d # c /\ call[d].place = "waiting" /\ call[d].waitsFor = c
             /\ call[c].probe
    <3> DEFINE j == [call[d] EXCEPT !.place = "released"]
    <3>1. call[d] \in Call /\ Fits(call[d]) /\ call'[d] = j
      BY <1>1, <1>2, <2>2 DEF ResilienceInv
    <3>2. /\ j \in Call /\ j.place = "released"
          /\ j.probe = call[d].probe /\ j.sends = call[d].sends
          /\ j.late = call[d].late /\ j.method = call[d].method
          /\ j.aborted = call[d].aborted
      BY <3>1 DEF Call, Places
    <3> HIDE DEF j
    <3>3. Fits(j)
      BY <2>2, <3>1, <3>2 DEF Fits
    <3> QED
      BY <2>2, <3>1, <3>2, <3>3
  <2>3. CASE d # c /\ ~ (call[d].place = "waiting" /\ call[d].waitsFor = c
                         /\ call[c].probe)
    BY <1>2, <2>3 DEF ResilienceInv
  <2> QED
    BY <2>1, <2>2, <2>3
<1>5. call' \in [Callers -> Call]
  <2>1. \A d \in Callers : call'[d] \in Call
    BY <1>4 DEF Fits
  <2> QED
    BY <2>1 DEF Ends
<1>6. TypeOK'
  BY <1>1, <1>5 DEF ResilienceInv, TypeOK
<1>7. \A d \in Callers : Fits(call[d])'
  BY <1>1, <1>4 DEF Fits
<1>8. HalfHasProbe'
  BY <1>4 DEF ResilienceInv, HalfHasProbe
<1>9. \A d \in Callers : WaitsForProbe(d)'
  BY <1>4 DEF ResilienceInv, WaitsForProbe
<1> QED
  BY <1>6, <1>7, <1>8, <1>9 DEF ResilienceInv

LEMMA AnsweredKeeps ==
  ASSUME ResilienceAssumption, ResilienceInv, NEW c \in Callers, Answered(c)
  PROVE  ResilienceInv'
<1>1. /\ breaker \in Breaker /\ Threshold \in Nat /\ FailedLimit \in Nat
      /\ call[c] \in Call
  BY Limits, FailedLimitIsNat DEF ResilienceInv, TypeOK
<1>2. breaker' = AfterSuccess(c) /\ Ends(c) /\ config' = config /\ failed' = 0
  BY DEF Answered
<1> DEFINE b == [breaker EXCEPT !.failures = 0]
<1>3. b \in Breaker /\ b.state = breaker.state /\ b.probe = breaker.probe
  BY <1>1 DEF Breaker
<1>4. breaker' = IF call[c].probe THEN Closed(b) ELSE b
  BY <1>2 DEF AfterSuccess
<1> HIDE DEF b
<1>5. Closed(b) \in Breaker /\ Closed(b).state # "halfOpen"
  BY <1>3 DEF Closed, Breaker, CallerOrNone
<1>6. /\ breaker' \in Breaker
      /\ breaker'.state = "halfOpen" =>
           ~ call[c].probe /\ breaker.state = "halfOpen"
             /\ breaker'.probe = breaker.probe
  BY <1>3, <1>4, <1>5
<1> QED
  BY <1>1, <1>2, <1>6, EndKeeps

LEMMA FailedKeeps ==
  ASSUME ResilienceAssumption, ResilienceInv, NEW c \in Callers,
         NEW e \in Errors, Failed(c, e)
  PROVE  ResilienceInv'
<1>1. /\ breaker \in Breaker /\ Threshold \in Nat /\ FailedLimit \in Nat
      /\ call[c] \in Call /\ Fits(call[c]) /\ failed \in 0 .. (FailedLimit + 1)
      /\ MaxAttempts \in Nat
  BY Limits, FailedLimitIsNat DEF ResilienceInv, TypeOK
<1>2. failed' \in 0 .. (FailedLimit + 1)
  BY <1>1 DEF Failed
<1>3. config' = config /\ call[c].place = "sending"
  BY DEF Failed, Is
<1>4. CASE Retries(c, e)
  <2> DEFINE k == [call[c] EXCEPT !.place = "delaying"]
  <2>1. breaker' = breaker /\ call' = [call EXCEPT ![c] = k]
    BY <1>4 DEF Failed, ResilienceInv, TypeOK
  <2>2. /\ k \in Call /\ k.place = "delaying" /\ k.probe = call[c].probe
        /\ k.sends = call[c].sends /\ k.late = call[c].late
        /\ k.method = call[c].method /\ k.aborted = call[c].aborted
    BY <1>1 DEF Call, Places
  <2>3. call[c].method \in Idempotent
    BY <1>4 DEF Failed, MayThrow, Retries, IsTransientAndIdempotent,
       ResilienceAssumption
  <2>4. ~ call[c].aborted /\ call[c].sends <= MaxAttempts
    BY <1>4 DEF Retries
  <2> HIDE DEF k
  <2>5. Fits(k)
    BY <1>1, <2>2, <2>3, <2>4 DEF Fits
  <2> QED
    BY <1>1, <1>2, <1>3, <2>1, <2>2, <2>5, OneCallKeeps
<1>5. CASE ~ Retries(c, e)
  <2>1. /\ Ends(c)
        /\ breaker' = AfterFailure(c) \/ breaker' = AfterOther(c)
    BY <1>5 DEF Failed
  <2>2. /\ AfterFailure(c) \in Breaker
        /\ AfterFailure(c).state = "halfOpen" =>
             ~ call[c].probe /\ breaker.state = "halfOpen"
               /\ AfterFailure(c).probe = breaker.probe
    <3> DEFINE n == breaker.failures + 1
               b == [breaker EXCEPT !.failures =
                       IF n < Threshold THEN n ELSE Threshold]
    <3>1. /\ b \in Breaker /\ b.state = breaker.state /\ b.probe = breaker.probe
      BY <1>1 DEF Breaker
    <3>2. Opened(b) \in Breaker /\ Opened(b).state = "open"
      BY <3>1 DEF Opened, Breaker, CallerOrNone
    <3>3. AfterFailure(c) = IF call[c].probe \/ n >= Threshold
                              THEN Opened(b) ELSE b
      BY DEF AfterFailure
    <3> HIDE DEF b, n
    <3> QED
      BY <3>1, <3>2, <3>3
  <2>3. /\ AfterOther(c) \in Breaker
        /\ AfterOther(c).state = "halfOpen" =>
             ~ call[c].probe /\ breaker.state = "halfOpen"
               /\ AfterOther(c).probe = breaker.probe
    BY <1>1 DEF AfterOther, Closed, Breaker, CallerOrNone
  <2> QED
    BY <1>2, <1>3, <2>1, <2>2, <2>3, EndKeeps
<1> QED
  BY <1>4, <1>5

LEMMA CoolDownKeeps ==
  ASSUME ResilienceInv, CoolDown
  PROVE  ResilienceInv'
<1>1. /\ config' = config /\ call' = call /\ failed' = failed
      /\ breaker' = [breaker EXCEPT !.cooled = TRUE] /\ breaker \in Breaker
  BY DEF CoolDown, ResilienceInv, TypeOK
<1>2. /\ breaker' \in Breaker /\ breaker'.state = breaker.state
      /\ breaker'.probe = breaker.probe
  BY <1>1 DEF Breaker
<1>3. TypeOK'
  BY <1>1, <1>2 DEF ResilienceInv, TypeOK, Call, Breaker, FailedLimit,
     MaxAttempts, Threshold, MaxConcurrent, Checked
<1>4. \A d \in Callers : Fits(call[d])'
  BY <1>1 DEF ResilienceInv, Fits, Call, MaxAttempts, Checked
<1> QED
  BY <1>1, <1>2, <1>3, <1>4 DEF ResilienceInv, HalfHasProbe, WaitsForProbe

LEMMA StepKeeps ==
  ASSUME ResilienceAssumption, ResilienceInv, [Next]_vars
  PROVE  ResilienceInv'
<1>1. ASSUME NEW c \in Callers, GoesOn(c)
      PROVE  ResilienceInv'
  BY <1>1, ReEnterKeeps, AnsweredKeeps, FailedKeeps, DelayOverKeeps DEF GoesOn
<1>2. ASSUME NEW c \in Callers, NEW m \in Methods, Send(c, m)
      PROVE  ResilienceInv'
  BY <1>2, SendKeeps
<1>3. ASSUME NEW c \in Callers, Abort(c)
      PROVE  ResilienceInv'
  BY <1>3, AbortKeeps
<1>4. CASE UNCHANGED vars
  BY <1>4 DEF vars, ResilienceInv, TypeOK, Fits, Call, Breaker, FailedLimit,
     MaxAttempts, Threshold, MaxConcurrent, Checked, HalfHasProbe, WaitsForProbe
<1> QED
  BY <1>1, <1>2, <1>3, <1>4, CoolDownKeeps DEF Next

LEMMA ResilienceInvariant ==
  ASSUME ResilienceAssumption
  PROVE  Spec => []ResilienceInv
<1>1. Init => ResilienceInv
  <2> SUFFICES ASSUME Init PROVE ResilienceInv
    OBVIOUS
  <2>1. /\ config \in Configs /\ MaxAttempts \in Nat /\ Threshold \in Nat
        /\ FailedLimit \in Nat
    BY Limits, FailedLimitIsNat DEF Init
  <2>2. Fits(Idle) /\ Idle \in Call /\ Idle.place = "idle"
    BY <2>1 DEF Idle, Fits, Call, Places, CallerOrNone
  <2>3. breaker \in Breaker /\ breaker.state = "closed"
    BY <2>1 DEF Init, Breaker, CallerOrNone
  <2>4. TypeOK
    BY <2>1, <2>2, <2>3 DEF Init, TypeOK
  <2>5. \A c \in Callers : call[c] = Idle
    BY DEF Init
  <2> QED
    BY <2>2, <2>3, <2>4, <2>5 DEF ResilienceInv, HalfHasProbe, WaitsForProbe
<1>2. ResilienceInv /\ [Next]_vars => ResilienceInv'
  BY StepKeeps
<1> QED
  BY <1>1, <1>2, PTL DEF Spec

-----------------------------------------------------------------------------
(* The theorems.                                                           *)

\* The circuit, the calls and the counters are what they should be: no call
\* is sent more often than the attempts allow.
THEOREM TypeCorrect ==
  ASSUME ResilienceAssumption
  PROVE  Spec => []TypeOK
<1>1. ResilienceInv => TypeOK
  BY DEF ResilienceInv
<1> QED
  BY <1>1, ResilienceInvariant, PTL

\* With any limits and errors, what is not idempotent is sent once, and what
\* was aborted at most once more.
THEOREM BudgetIsKept ==
  ASSUME ResilienceAssumption
  PROVE  Spec => []SentWithinBudget
<1>1. ResilienceInv => SentWithinBudget
  BY DEF ResilienceInv, Fits, SentWithinBudget
<1> QED
  BY <1>1, ResilienceInvariant, PTL

\* With any number of callers, nobody waits for a probe that has ended, and a
\* circuit is half open only while its probe is on its way.
THEOREM NobodyWaitsInVain ==
  ASSUME ResilienceAssumption
  PROVE  Spec => []WaitersHaveProbe
<1>1. ResilienceInv => WaitersHaveProbe
  BY DEF ResilienceInv, HalfHasProbe, WaitsForProbe, WaitersHaveProbe, Is
<1> QED
  BY <1>1, ResilienceInvariant, PTL

-----------------------------------------------------------------------------
(* How many requests in a row may fail before the circuit opens.           *)

LEMMA OneMoreCall ==
  ASSUME NEW f \in Nat, NEW a \in Nat
  PROVE  (f + 1) * (a + 1) = f * (a + 1) + a + 1
OBVIOUS

LEMMA ProductGrows ==
  ASSUME NEW f \in Nat, NEW g \in Nat, NEW a \in Nat, f <= g
  PROVE  f * a <= g * a
<1>1. PICK d \in Nat : g = f + d
  BY g - f \in Nat, g = f + (g - f)
<1>2. g * a = f * a + d * a /\ d * a \in Nat /\ f * a \in Nat
  BY <1>1
<1> QED
  BY <1>2

LEMMA ProductDistributes ==
  ASSUME NEW f \in Nat, NEW g \in Nat, NEW a \in Nat
  PROVE  (f + g) * a = f * a + g * a
OBVIOUS

\* The failed attempts under way are finitely many: those of each active call,
\* which are no more than the attempts.
LEMMA PendingFacts ==
  ASSUME ResilienceAssumption, ResilienceInv
  PROVE  /\ IsFiniteSet(Active) /\ Cardinality(Active) \in Nat
         /\ IsFiniteSet(Pending) /\ Cardinality(Pending) \in Nat
         /\ Cardinality(Pending) <= Cardinality(Active) * (MaxAttempts + 1)
<1>1. MaxAttempts \in Nat /\ IsFiniteSet(Callers)
  BY Limits DEF ResilienceInv, TypeOK, ResilienceAssumption
<1>2. IsFiniteSet(Active) /\ Cardinality(Active) \in Nat
  BY <1>1, FS_Subset, FS_CardinalityType DEF Active
<1> DEFINE I == 1 .. MaxAttempts + 1
<1>3. IsFiniteSet(I) /\ Cardinality(I) = MaxAttempts + 1
  <2>1. MaxAttempts + 1 \in Int /\ 1 \in Int /\ ~ (1 > MaxAttempts + 1)
    BY <1>1
  <2>2. /\ IsFiniteSet(1 .. (MaxAttempts + 1))
        /\ Cardinality(1 .. (MaxAttempts + 1)) = (MaxAttempts + 1) - 1 + 1
    BY <2>1, FS_Interval
  <2> QED
    BY <1>1, <2>2
<1>4. Pending \subseteq Active \X I
  <2> SUFFICES ASSUME NEW p \in Pending PROVE p \in Active \X I
    OBVIOUS
  <2>1. p \in Callers \X I /\ p[2] <= Spent(call[p[1]])
    BY DEF Pending
  <2>2. p = <<p[1], p[2]>> /\ p[1] \in Callers /\ p[2] \in I
    BY <2>1
  <2>3. Fits(call[p[1]])
    BY <2>2 DEF ResilienceInv
  <2>4. ASSUME call[p[1]].place = "idle" PROVE FALSE
    <3>1. Spent(call[p[1]]) = 0
      BY <2>3, <2>4 DEF Fits, Spent
    <3> QED
      BY <2>1, <2>2, <3>1
  <2> QED
    BY <2>2, <2>4 DEF Active, Is
<1> HIDE DEF I
<1>5. /\ IsFiniteSet(Active \X I)
      /\ Cardinality(Active \X I) = Cardinality(Active) * (MaxAttempts + 1)
  BY <1>2, <1>3, FS_Product
<1>6. IsFiniteSet(Pending) /\ Cardinality(Pending) <= Cardinality(Active \X I)
  BY <1>4, <1>5, FS_Subset
<1> QED
  BY <1>2, <1>5, <1>6, FS_CardinalityType

\* The limits are those of the deployment.
LEMMA LimitsStay ==
  ASSUME config' = config
  PROVE  /\ MaxAttempts' = MaxAttempts /\ Threshold' = Threshold
         /\ MaxConcurrent' = MaxConcurrent
BY DEF MaxAttempts, Threshold, MaxConcurrent, Checked

LEMMA PendingStaysFinite ==
  ASSUME ResilienceAssumption, ResilienceInv, config' = config
  PROVE  IsFiniteSet(Pending') /\ Cardinality(Pending') \in Nat
<1>1. MaxAttempts \in Nat /\ IsFiniteSet(Callers)
  BY Limits DEF ResilienceInv, TypeOK, ResilienceAssumption
<1> DEFINE I == 1 .. MaxAttempts + 1
<1>2. Pending' \in SUBSET (Callers \X I)
  BY LimitsStay DEF Pending
<1>3. IsFiniteSet(I)
  <2>1. MaxAttempts + 1 \in Int /\ 1 \in Int
    BY <1>1
  <2> QED
    BY <2>1, FS_Interval
<1> HIDE DEF I
<1>4. IsFiniteSet(Callers \X I)
  BY <1>1, <1>3, FS_Product
<1> QED
  BY <1>2, <1>4, FS_Subset, FS_CardinalityType

\* No call becomes active unless the bulkhead has a place for it.
LEMMA ActiveShrinks ==
  ASSUME ResilienceAssumption, ResilienceInv, FailureBudget, config' = config,
         \A d \in Callers : Is(d, "idle") => Is(d, "idle")'
  PROVE  Cardinality(Active') <= MaxConcurrent
<1>1. Active' \in SUBSET Active
  BY DEF Active
<1>2. IsFiniteSet(Active) /\ Cardinality(Active) \in Nat
  BY PendingFacts
<1>3. Cardinality(Active') <= Cardinality(Active) /\ Cardinality(Active') \in Nat
  BY <1>1, <1>2, FS_Subset, FS_CardinalityType
<1>4. MaxConcurrent \in Nat
  BY Limits DEF ResilienceInv, TypeOK
<1> QED
  BY <1>2, <1>3, <1>4 DEF FailureBudget

\* Steps at which no request fails.
LEMMA NothingFails ==
  ASSUME ResilienceAssumption, ResilienceInv, FailureBudget,
         config' = config, failed' = failed,
         breaker'.failures = breaker.failures,
         breaker'.state # "closed" => breaker.state # "closed",
         \A d \in Callers :
           /\ Spent(call'[d]) = Spent(call[d])
           /\ call'[d].place \in {"sending", "delaying"} => call'[d].sends > 0,
         Cardinality(Active') <= MaxConcurrent
  PROVE  FailureBudget'
<1>1. Pending' = Pending
  BY LimitsStay DEF Pending
<1>2. CountedCalls' = CountedCalls
  BY LimitsStay DEF CountedCalls
<1> QED
  BY <1>1, <1>2, LimitsStay DEF FailureBudget

\* Steps after which none has failed since the last that did not, or since the
\* circuit opened.
LEMMA NoneFailed ==
  ASSUME ResilienceAssumption, ResilienceInv, ResilienceInv', config' = config, failed' = 0,
         \A d \in Callers :
           call'[d].place \in {"sending", "delaying"} => call'[d].sends > 0,
         Cardinality(Active') <= MaxConcurrent
  PROVE  FailureBudget'
<1>1. Cardinality(Pending') \in Nat
  BY PendingStaysFinite
<1>2. MaxAttempts' \in Nat /\ Threshold' \in Nat
  BY Limits, LimitsStay DEF ResilienceInv, TypeOK
<1>3. CountedCalls' \in Nat
  <2>1. breaker'.failures \in 0 .. Threshold'
    BY DEF ResilienceInv, TypeOK, Breaker
  <2> QED
    BY <1>2, <2>1 DEF CountedCalls
<1>4. CountedCalls' * (MaxAttempts' + 1) \in Nat
  <2>1. MaxAttempts \in Nat
    BY Limits DEF ResilienceInv, TypeOK
  <2>2. MaxAttempts' + 1 \in Nat
    BY <2>1, LimitsStay
  <2> QED
    BY <1>3, <2>2, ProductOfNat
<1> QED
  BY <1>1, <1>4, LimitsStay DEF FailureBudget

LEMMA IntoBreakerInBudget ==
  ASSUME ResilienceAssumption, ResilienceInv, FailureBudget,
         NEW c \in Callers, NEW k, k \in Call, k.sends = 0,
         call[c].place \in {"idle", "released"},
         IntoBreaker(c, k), config' = config, failed' = failed,
         Cardinality(Active') <= MaxConcurrent
  PROVE  FailureBudget'
<1>1. /\ call \in [Callers -> Call] /\ breaker \in Breaker
      /\ Spent(call[c]) = 0
  <2>1. Fits(call[c])
    BY DEF ResilienceInv
  <2> QED
    BY <2>1 DEF Fits, Spent, ResilienceInv, TypeOK
<1>2. ASSUME NEW j, call' = [call EXCEPT ![c] = j], Spent(j) = 0,
             j.place \in {"sending", "delaying"} => j.sends > 0,
             breaker'.failures = breaker.failures,
             breaker'.state # "closed" => breaker.state # "closed"
      PROVE  FailureBudget'
  <2>1. /\ call'[c] = j
        /\ \A d \in Callers : d # c => call'[d] = call[d]
    BY <1>1, <1>2
  <2>2. \A d \in Callers :
          /\ Spent(call'[d]) = Spent(call[d])
          /\ call'[d].place \in {"sending", "delaying"} => call'[d].sends > 0
    BY <1>1, <1>2, <2>1 DEF FailureBudget
  <2> QED
    BY <1>2, <2>2, NothingFails
<1>3. ASSUME NEW j \in Call, j.sends = 0
      PROVE  Spent(Sending(j)) = 0 /\ Sending(j).sends > 0
  <2>1. Sending(j).place = "sending" /\ Sending(j).sends = j.sends + 1
    BY DEF Sending, Call
  <2> QED
    BY <1>3, <2>1 DEF Spent
<1>4. Spent(Idle) = 0 /\ Idle.place = "idle"
  BY DEF Idle, Spent
<1>5. CASE /\ breaker.state = "closed"
           /\ call' = [call EXCEPT ![c] = Sending(k)]
           /\ UNCHANGED breaker
  BY <1>2, <1>3, <1>5
<1>6. CASE /\ breaker.state = "open" /\ ~ breaker.cooled
           /\ call' = [call EXCEPT ![c] = Idle]
           /\ UNCHANGED breaker
  BY <1>2, <1>4, <1>6
<1>7. CASE /\ breaker.state = "open" /\ breaker.cooled
           /\ call' = [call EXCEPT ![c] = Sending([k EXCEPT !.probe = TRUE])]
           /\ breaker' = [breaker EXCEPT !.state = "halfOpen", !.probe = c]
  <2> DEFINE j == [k EXCEPT !.probe = TRUE]
  <2>1. j \in Call /\ j.sends = 0
    BY DEF Call
  <2>2. breaker'.failures = breaker.failures
    BY <1>1, <1>7 DEF Breaker
  <2> HIDE DEF j
  <2>3. Spent(Sending(j)) = 0 /\ Sending(j).sends > 0
    BY <1>3, <2>1
  <2> QED
    BY <1>2, <1>7, <2>2, <2>3 DEF j
<1>8. CASE /\ breaker.state = "halfOpen"
           /\ call' = [call EXCEPT ![c] =
                         [k EXCEPT !.place = "waiting", !.waitsFor = breaker.probe]]
           /\ UNCHANGED breaker
  <2> DEFINE j == [k EXCEPT !.place = "waiting", !.waitsFor = breaker.probe]
  <2>1. j.place = "waiting" /\ j.sends = 0
    BY DEF Call
  <2> HIDE DEF j
  <2>2. Spent(j) = 0
    BY <2>1 DEF Spent
  <2> QED
    BY <1>2, <1>8, <2>1, <2>2 DEF j
<1> QED
  BY <1>5, <1>6, <1>7, <1>8 DEF IntoBreaker

LEMMA SendInBudget ==
  ASSUME ResilienceAssumption, ResilienceInv, FailureBudget,
         NEW c \in Callers, NEW m \in Methods, Send(c, m)
  PROVE  FailureBudget'
<1> DEFINE k == [Idle EXCEPT !.method = m]
<1>1. /\ IntoBreaker(c, k) /\ config' = config /\ failed' = failed
      /\ call[c].place = "idle" /\ Cardinality(Active) < MaxConcurrent
  BY DEF Send, Is
<1>2. MaxAttempts \in Nat /\ MaxConcurrent \in Nat
  BY Limits DEF ResilienceInv, TypeOK
<1>3. k \in Call /\ k.sends = 0
  <2>1. Idle \in Call /\ Idle.sends = 0
    BY <1>2 DEF Idle, Call, Places, CallerOrNone
  <2> QED
    BY <2>1 DEF Call
<1> HIDE DEF k
<1>4. \A d \in Callers : d # c => call'[d] = call[d]
  BY <1>1 DEF IntoBreaker, ResilienceInv, TypeOK
<1>5. Active' \in SUBSET (Active \cup {c})
  BY <1>4 DEF Active, Is
<1>6. IsFiniteSet(Active) /\ Cardinality(Active) \in Nat
  BY PendingFacts
<1>7. /\ IsFiniteSet(Active \cup {c})
      /\ Cardinality(Active \cup {c}) <= Cardinality(Active) + 1
      /\ Cardinality(Active \cup {c}) \in Nat
  <2>1. CASE c \in Active
    <3>1. Active \cup {c} = Active
      BY <2>1
    <3>2. Cardinality(Active \cup {c}) = Cardinality(Active)
          /\ IsFiniteSet(Active \cup {c})
      BY <1>6, <3>1, Zenon
    <3> QED
      BY <1>6, <3>2
  <2>2. CASE c \notin Active
    <3>1. /\ IsFiniteSet(Active \cup {c})
          /\ Cardinality(Active \cup {c}) = Cardinality(Active) + 1
      BY <1>6, <2>2, FS_AddElement
    <3> QED
      BY <1>6, <3>1
  <2> QED
    BY <2>1, <2>2
<1>8. Cardinality(Active') <= Cardinality(Active \cup {c})
      /\ Cardinality(Active') \in Nat
  BY <1>5, <1>7, FS_Subset, FS_CardinalityType
<1>9. Cardinality(Active') <= MaxConcurrent
  BY <1>1, <1>2, <1>6, <1>7, <1>8
<1> QED
  BY <1>1, <1>3, <1>9, IntoBreakerInBudget

LEMMA ReEnterInBudget ==
  ASSUME ResilienceAssumption, ResilienceInv, FailureBudget,
         NEW c \in Callers, ReEnter(c)
  PROVE  FailureBudget'
<1> DEFINE k == [call[c] EXCEPT !.waitsFor = None]
<1>1. /\ call \in [Callers -> Call] /\ call[c] \in Call
      /\ Fits(call[c]) /\ call[c].place = "released"
      /\ config' = config /\ failed' = failed
      /\ \/ call' = [call EXCEPT ![c] = Idle] /\ UNCHANGED breaker
         \/ IntoBreaker(c, k)
  BY DEF ReEnter, Is, ResilienceInv, TypeOK
<1>2. call[c].sends = 0 /\ Spent(call[c]) = 0
  BY <1>1 DEF Fits, Spent
<1>3. k \in Call /\ k.sends = 0
  BY <1>1, <1>2 DEF Call, CallerOrNone
<1> HIDE DEF k
<1>4. \A d \in Callers : d # c => call'[d] = call[d]
  BY <1>1 DEF IntoBreaker
<1>5. Cardinality(Active') <= MaxConcurrent
  BY <1>1, <1>4, ActiveShrinks DEF Is
<1>6. CASE IntoBreaker(c, k)
  BY <1>1, <1>3, <1>5, <1>6, IntoBreakerInBudget
<1>7. CASE call' = [call EXCEPT ![c] = Idle] /\ UNCHANGED breaker
  <2>1. call'[c] = Idle /\ Idle.place = "idle" /\ Spent(Idle) = 0
    BY <1>1, <1>7 DEF Idle, Spent
  <2> QED
    BY <1>1, <1>2, <1>4, <1>5, <1>7, <2>1, NothingFails DEF FailureBudget
<1> QED
  BY <1>1, <1>6, <1>7

LEMMA AbortInBudget ==
  ASSUME ResilienceAssumption, ResilienceInv, FailureBudget,
         NEW c \in Callers, Abort(c)
  PROVE  FailureBudget'
<1>1. /\ call \in [Callers -> Call] /\ call[c] \in Call
      /\ call' = [call EXCEPT ![c].aborted = TRUE]
      /\ UNCHANGED <<config, breaker, failed>>
  BY DEF Abort, ResilienceInv, TypeOK
<1>2. call'[c].place = call[c].place /\ call'[c].sends = call[c].sends
  BY <1>1 DEF Call
<1>3. \A d \in Callers :
        call'[d].place = call[d].place /\ call'[d].sends = call[d].sends
  BY <1>1, <1>2
<1>4. Cardinality(Active') <= MaxConcurrent
  BY <1>1, <1>3, ActiveShrinks DEF Is
<1> QED
  BY <1>1, <1>3, <1>4, NothingFails DEF Spent, FailureBudget

LEMMA DelayOverInBudget ==
  ASSUME ResilienceAssumption, ResilienceInv, FailureBudget,
         NEW c \in Callers, DelayOver(c)
  PROVE  FailureBudget'
<1>1. /\ call \in [Callers -> Call] /\ call[c] \in Call
      /\ call[c].place = "delaying"
      /\ call' = [call EXCEPT ![c] = Sending(call[c])]
      /\ UNCHANGED <<config, breaker, failed>>
  BY DEF DelayOver, Is, ResilienceInv, TypeOK
<1>2. /\ call'[c] = Sending(call[c])
      /\ \A d \in Callers : d # c => call'[d] = call[d]
  BY <1>1
<1>3. /\ Sending(call[c]).place = "sending"
      /\ Sending(call[c]).sends = call[c].sends + 1
      /\ call[c].sends \in Nat
  BY <1>1, Limits DEF Sending, Call, ResilienceInv, TypeOK
<1>4. Spent(call'[c]) = Spent(call[c]) /\ call'[c].sends > 0
  BY <1>1, <1>2, <1>3 DEF Spent
<1>5. Cardinality(Active') <= MaxConcurrent
  BY <1>1, <1>2, <1>3, ActiveShrinks DEF Is
<1> QED
  BY <1>1, <1>2, <1>4, <1>5, NothingFails DEF FailureBudget

\* A request fails and its call goes on: one more failed attempt is under way.
LEMMA RetryInBudget ==
  ASSUME ResilienceAssumption, ResilienceInv, ResilienceInv', FailureBudget,
         NEW c \in Callers, NEW e \in Errors, Failed(c, e), Retries(c, e)
  PROVE  FailureBudget'
<1>1. /\ call \in [Callers -> Call] /\ call[c] \in Call
      /\ call[c].place = "sending" /\ call[c].sends <= MaxAttempts
      /\ call' = [call EXCEPT ![c].place = "delaying"]
      /\ breaker' = breaker /\ config' = config
  BY DEF Failed, Retries, Is, ResilienceInv, TypeOK
<1>2. /\ call'[c].place = "delaying" /\ call'[c].sends = call[c].sends
      /\ \A d \in Callers : d # c => call'[d] = call[d]
  BY <1>1 DEF Call
<1>3. MaxAttempts \in Nat /\ call[c].sends \in Nat /\ call[c].sends > 0
  BY <1>1, Limits DEF Call, ResilienceInv, TypeOK, FailureBudget
<1>4. \A d \in Callers :
        call'[d].place \in {"sending", "delaying"} => call'[d].sends > 0
  BY <1>2, <1>3 DEF FailureBudget
<1>5. Cardinality(Active') <= MaxConcurrent
  BY <1>1, <1>2, ActiveShrinks DEF Is
<1>6. CASE breaker.state # "closed"
  <2>1. failed' = 0
    BY <1>1, <1>6 DEF Failed
  <2> QED
    BY <1>1, <1>4, <1>5, <2>1, NoneFailed
<1>7. CASE breaker.state = "closed"
  <2> DEFINE n == call[c].sends
             new == <<c, n>>
  <2>1. Spent(call[c]) = n - 1 /\ Spent(call'[c]) = n
    BY <1>1, <1>2 DEF Spent
  <2>2. n \in 1 .. MaxAttempts + 1
    BY <1>1, <1>3
  <2>3. \A d \in Callers : d # c => Spent(call'[d]) = Spent(call[d])
    BY <1>2
  <2> HIDE DEF n
  <2>4. Pending' = Pending \cup {new} /\ new \notin Pending
    <3>1. new \notin Pending
      BY <2>1, <2>2 DEF Pending
    <3>2. ASSUME NEW d \in Callers, NEW i \in 1 .. MaxAttempts + 1
          PROVE  i <= Spent(call'[d]) <=> i <= Spent(call[d]) \/ <<d, i>> = new
      <4>1. CASE d # c
        BY <2>3, <4>1
      <4>2. CASE d = c
        BY <1>3, <2>1, <2>2, <4>2
      <4> QED
        BY <4>1, <4>2
    <3>3. new \in Callers \X (1 .. MaxAttempts + 1)
      BY <2>2
    <3>4. MaxAttempts' = MaxAttempts
      BY <1>1, LimitsStay
    <3> HIDE DEF new
    <3>5. ASSUME NEW p \in Callers \X (1 .. MaxAttempts + 1)
          PROVE  p \in Pending' <=> p \in Pending \/ p = new
      <4>1. PICK d \in Callers, i \in 1 .. MaxAttempts + 1 : p = <<d, i>>
        OBVIOUS
      <4>2. p[1] = d /\ p[2] = i
        BY <4>1
      <4> QED
        BY <3>2, <3>4, <4>1, <4>2 DEF Pending
    <3>6. Pending \subseteq Callers \X (1 .. MaxAttempts + 1)
          /\ Pending' \subseteq Callers \X (1 .. MaxAttempts + 1)
      BY <3>4 DEF Pending
    <3> QED
      BY <3>1, <3>3, <3>5, <3>6
  <2> HIDE DEF new
  <2>5. Cardinality(Pending') = Cardinality(Pending) + 1
        /\ Cardinality(Pending) \in Nat
    BY <2>4, PendingFacts, FS_AddElement
  <2>6. failed \in Nat /\ failed' \in Nat /\ failed' <= failed + 1
    <3>1. failed \in Nat
      BY FailedLimitIsNat DEF ResilienceInv, TypeOK
    <3> QED
      BY <3>1 DEF Failed
  <2>7. CountedCalls' = CountedCalls
    BY <1>1, LimitsStay DEF CountedCalls
  <2>8. CountedCalls * (MaxAttempts + 1) \in Nat
    <3>1. CountedCalls \in Nat
      BY DEF CountedCalls, ResilienceInv, TypeOK, Breaker
    <3> QED
      BY <1>3, <3>1, ProductOfNat
  <2>9. failed <= CountedCalls * (MaxAttempts + 1) + Cardinality(Pending)
    BY DEF FailureBudget
  <2>10. failed' <= CountedCalls * (MaxAttempts + 1) + Cardinality(Pending')
    BY <2>5, <2>6, <2>8, <2>9
  <2> QED
    BY <1>1, <1>4, <1>5, <1>7, <2>7, <2>10, LimitsStay DEF FailureBudget
<1> QED
  BY <1>6, <1>7

\* A call ends with its last failure: of its attempts the last was not yet
\* counted, so that there are no more than it may make.
LEMMA EndInBudget ==
  ASSUME ResilienceAssumption, ResilienceInv, ResilienceInv', FailureBudget,
         NEW c \in Callers, call[c].place = "sending", Ends(c),
         config' = config, failed' \in Nat, failed' <= failed + 1,
         failed' = 0 \/ /\ breaker.state = "closed" /\ breaker'.state = "closed"
                        /\ breaker'.failures = breaker.failures + 1
                        /\ breaker'.failures < Threshold
  PROVE  FailureBudget'
<1>1. /\ call \in [Callers -> Call] /\ call[c] \in Call /\ MaxAttempts \in Nat
      /\ call[c].sends \in 0 .. MaxAttempts + 1 /\ call[c].sends > 0
  BY Limits DEF ResilienceInv, TypeOK, Call, FailureBudget
<1>2. /\ call'[c] = Idle
      /\ \A d \in Callers \ {c} :
           \/ call'[d] = call[d]
           \/ /\ call[d].place = "waiting"
              /\ call'[d] = [call[d] EXCEPT !.place = "released"]
  BY DEF Ends, Is
<1>3. ASSUME NEW d \in Callers \ {c}
      PROVE  /\ call'[d].sends = call[d].sends
             /\ \/ call'[d].place = call[d].place
                \/ call[d].place = "waiting" /\ call'[d].place = "released"
  <2>1. d \in Callers /\ call[d] \in Call
    BY <1>1
  <2>2. CASE call'[d] = call[d]
    BY <2>2
  <2>3. CASE /\ call[d].place = "waiting"
             /\ call'[d] = [call[d] EXCEPT !.place = "released"]
    BY <2>1, <2>3 DEF Call
  <2> QED
    BY <1>2, <2>2, <2>3
<1>4. Idle.place = "idle" /\ Idle.sends = 0 /\ Spent(Idle) = 0
  BY DEF Idle, Spent
<1>5. \A d \in Callers :
        /\ d # c => Spent(call'[d]) = Spent(call[d])
        /\ call'[d].place \in {"sending", "delaying"} => call'[d].sends > 0
  BY <1>2, <1>3, <1>4 DEF FailureBudget, Spent
<1>6. Cardinality(Active') <= MaxConcurrent
  <2>1. \A d \in Callers : Is(d, "idle") => Is(d, "idle")'
    BY <1>2, <1>3 DEF Is
  <2> QED
    BY <2>1, ActiveShrinks
<1>7. CASE failed' = 0
  BY <1>5, <1>6, <1>7, NoneFailed
<1>8. CASE failed' # 0
  <2>1. /\ breaker.state = "closed" /\ breaker'.state = "closed"
        /\ breaker'.failures = breaker.failures + 1
        /\ breaker'.failures < Threshold
        /\ breaker.failures \in Nat /\ Threshold \in Nat
    BY <1>8, Limits DEF ResilienceInv, TypeOK, Breaker
  <2>2. CountedCalls = breaker.failures /\ CountedCalls' = breaker.failures + 1
    BY <2>1, LimitsStay DEF CountedCalls
  <2> DEFINE own == {c} \X (1 .. MaxAttempts)
  <2>3. Pending \subseteq Pending' \cup own
    <3> SUFFICES ASSUME NEW p \in Pending, p \notin Pending' PROVE p \in own
      OBVIOUS
    <3>1. /\ p \in Callers \X (1 .. MaxAttempts + 1)
          /\ p[2] <= Spent(call[p[1]])
      BY DEF Pending
    <3>2. PICK d \in Callers, i \in 1 .. MaxAttempts + 1 : p = <<d, i>>
      BY <3>1
    <3>3. p[1] = d /\ p[2] = i
      BY <3>2
    <3>4. d = c
      BY <1>5, <3>1, <3>3, LimitsStay DEF Pending
    <3>5. Spent(call[c]) <= MaxAttempts
      BY <1>1 DEF Spent
    <3>6. Spent(call[c]) \in Int /\ i \in Int
      BY <1>1 DEF Spent
    <3>7. i \in 1 .. MaxAttempts
      BY <1>1, <3>1, <3>3, <3>4, <3>5, <3>6
    <3> QED
      BY <3>2, <3>4, <3>7
  <2>4. IsFiniteSet(own) /\ Cardinality(own) = MaxAttempts
    <3>1. IsFiniteSet({c}) /\ Cardinality({c}) = 1
      BY FS_Singleton
    <3> DEFINE J == 1 .. MaxAttempts
    <3>2. IsFiniteSet(J) /\ Cardinality(J) = MaxAttempts
      <4>1. MaxAttempts \in Int /\ 1 \in Int /\ MaxAttempts >= 0
        BY <1>1
      <4>2. /\ IsFiniteSet(J)
            /\ 1 > MaxAttempts => Cardinality(J) = 0
            /\ ~ (1 > MaxAttempts) => Cardinality(J) = MaxAttempts - 1 + 1
        BY <4>1, FS_Interval
      <4> QED
        BY <4>1, <4>2
    <3> HIDE DEF J
    <3>3. IsFiniteSet({c} \X J) /\ Cardinality({c} \X J) = 1 * MaxAttempts
      BY <3>1, <3>2, FS_Product
    <3>4. Cardinality(own) = 1 * MaxAttempts /\ IsFiniteSet(own)
      BY <3>3 DEF J
    <3> QED
      BY <1>1, <3>4
  <2> HIDE DEF own
  <2>5. /\ IsFiniteSet(Pending') /\ Cardinality(Pending') \in Nat
        /\ IsFiniteSet(Pending) /\ Cardinality(Pending) \in Nat
    BY PendingFacts, PendingStaysFinite
  <2>6. Cardinality(Pending) <= Cardinality(Pending') + MaxAttempts
    <3>1. /\ IsFiniteSet(Pending' \cup own)
          /\ Cardinality(Pending' \cup own) =
               Cardinality(Pending') + MaxAttempts - Cardinality(Pending' \cap own)
      BY <2>4, <2>5, FS_Union
    <3>2. Cardinality(Pending' \cap own) \in Nat
      BY <2>5, FS_Intersection, FS_CardinalityType
    <3>3. Cardinality(Pending) <= Cardinality(Pending' \cup own)
      BY <2>3, <3>1, FS_Subset
    <3> QED
      BY <1>1, <2>5, <3>1, <3>2, <3>3
  <2> DEFINE f == breaker.failures
  <2>7. failed <= f * (MaxAttempts + 1) + Cardinality(Pending)
    BY <2>2 DEF FailureBudget
  <2>8. /\ (f + 1) * (MaxAttempts + 1) = f * (MaxAttempts + 1) + MaxAttempts + 1
        /\ f * (MaxAttempts + 1) \in Nat
    <3>1. f \in Nat /\ MaxAttempts \in Nat /\ MaxAttempts + 1 \in Nat
      BY <1>1, <2>1
    <3> HIDE DEF f
    <3>2. (f + 1) * (MaxAttempts + 1) = f * (MaxAttempts + 1) + MaxAttempts + 1
      BY <3>1, OneMoreCall, Zenon
    <3>3. f * (MaxAttempts + 1) \in Nat
      BY <3>1, ProductOfNat, Zenon
    <3> QED
      BY <3>2, <3>3
  <2>9. failed \in Nat
    BY FailedLimitIsNat DEF ResilienceInv, TypeOK
  <2> DEFINE q == f * (MaxAttempts + 1)
             r == (f + 1) * (MaxAttempts + 1)
  <2>10. CountedCalls' * (MaxAttempts + 1) = r
    BY <2>2
  <2> HIDE DEF f, q, r
  <2>11. failed' <= r + Cardinality(Pending')
    <3>1. r = q + MaxAttempts + 1 /\ q \in Nat /\ failed <= q + Cardinality(Pending)
      BY <2>7, <2>8 DEF q, r
    <3> QED
      BY <1>1, <2>5, <2>6, <2>9, <3>1
  <2> QED
    BY <1>5, <1>6, <2>1, <2>10, <2>11, LimitsStay DEF FailureBudget
<1> QED
  BY <1>7, <1>8

LEMMA AnsweredInBudget ==
  ASSUME ResilienceAssumption, ResilienceInv, ResilienceInv', FailureBudget,
         NEW c \in Callers, Answered(c)
  PROVE  FailureBudget'
<1>1. failed \in Nat
  BY FailedLimitIsNat DEF ResilienceInv, TypeOK
<1> QED
  BY <1>1, EndInBudget DEF Answered, Is

LEMMA FailedInBudget ==
  ASSUME ResilienceAssumption, ResilienceInv, ResilienceInv', FailureBudget,
         NEW c \in Callers, NEW e \in Errors, Failed(c, e), ~ Retries(c, e)
  PROVE  FailureBudget'
<1>1. /\ failed \in Nat /\ FailedLimit \in Nat /\ breaker \in Breaker
      /\ Threshold \in Nat
  BY FailedLimitIsNat, Limits DEF ResilienceInv, TypeOK
<1>2. /\ Ends(c) /\ call[c].place = "sending" /\ config' = config
      /\ breaker' = IF Counts(e) THEN AfterFailure(c) ELSE AfterOther(c)
  BY DEF Failed, Is
<1>3. failed' \in Nat /\ failed' <= failed + 1
  BY <1>1 DEF Failed
<1>4. CASE failed' = 0
  BY <1>2, <1>3, <1>4, EndInBudget
<1>5. CASE failed' # 0
  <2>1. breaker'.state = "closed" /\ breaker' = AfterFailure(c)
    BY <1>2, <1>5 DEF Failed, Counts
  <2> DEFINE n == breaker.failures + 1
             b == [breaker EXCEPT !.failures =
                     IF n < Threshold THEN n ELSE Threshold]
  <2>2. /\ b \in Breaker /\ b.state = breaker.state
        /\ b.failures = IF n < Threshold THEN n ELSE Threshold
    BY <1>1 DEF Breaker
  <2>3. Opened(b).state = "open"
    BY <2>2 DEF Opened, Breaker
  <2>4. breaker' = IF call[c].probe \/ n >= Threshold THEN Opened(b) ELSE b
    BY <2>1 DEF AfterFailure
  <2>5. n \in Nat
    BY <1>1 DEF Breaker
  <2> HIDE DEF b
  <2>6. ~ (n >= Threshold) /\ breaker' = b
    BY <2>1, <2>3, <2>4
  <2>7. breaker.state = "closed" /\ breaker'.failures = n /\ n < Threshold
    BY <1>1, <2>1, <2>2, <2>5, <2>6
  <2> QED
    BY <1>2, <1>3, <2>1, <2>7, EndInBudget
<1> QED
  BY <1>4, <1>5

\* However many callers fail at once and however their attempts interleave: a
\* service that is down sees at most the requests of the calls that make up the
\* threshold and of those under way, before the circuit opens.
THEOREM FewFailuresBeforeOpen ==
  ASSUME ResilienceAssumption
  PROVE  Spec => []FailuresBeforeOpen
<1>1. ResilienceInv /\ Init => FailureBudget
  <2> SUFFICES ASSUME ResilienceInv, Init PROVE FailureBudget
    OBVIOUS
  <2>1. \A c \in Callers : call[c].place = "idle"
    BY DEF Init, Idle
  <2>2. Active = {} /\ MaxConcurrent \in Nat /\ MaxAttempts \in Nat
    BY <2>1, Limits DEF Active, Is, Init
  <2>3. Cardinality(Active) = 0 /\ Cardinality(Pending) \in Nat
    BY <2>2, FS_EmptySet, PendingFacts
  <2>4. CountedCalls * (MaxAttempts + 1) \in Nat
    <3>1. CountedCalls \in Nat
      BY DEF CountedCalls, ResilienceInv, TypeOK, Breaker
    <3> QED
      BY <2>2, <3>1, ProductOfNat
  <2>5. breaker.state = "closed" /\ failed = 0
    BY DEF Init
  <2> QED
    BY <2>1, <2>2, <2>3, <2>4, <2>5 DEF FailureBudget
<1>2. ResilienceInv /\ ResilienceInv' /\ FailureBudget /\ [Next]_vars
      => FailureBudget'
  <2> SUFFICES ASSUME ResilienceInv, ResilienceInv', FailureBudget, [Next]_vars
               PROVE  FailureBudget'
    OBVIOUS
  <2>1. ASSUME UNCHANGED <<config, call, failed>>,
               breaker'.failures = breaker.failures,
               breaker'.state = breaker.state
        PROVE  FailureBudget'
    <3>1. Cardinality(Active') <= MaxConcurrent
      BY <2>1, ActiveShrinks DEF Is
    <3> QED
      BY <2>1, <3>1, NothingFails DEF FailureBudget
  <2>2. CASE CoolDown
    <3>1. /\ UNCHANGED <<config, call, failed>> /\ breaker \in Breaker
          /\ breaker' = [breaker EXCEPT !.cooled = TRUE]
      BY <2>2 DEF CoolDown, ResilienceInv, TypeOK
    <3>2. breaker'.failures = breaker.failures /\ breaker'.state = breaker.state
      BY <3>1 DEF Breaker
    <3> QED
      BY <2>1, <3>1, <3>2
  <2>3. CASE UNCHANGED vars
    BY <2>1, <2>3 DEF vars
  <2>4. ASSUME NEW c \in Callers, GoesOn(c)
        PROVE  FailureBudget'
    BY <2>4, ReEnterInBudget, AnsweredInBudget, RetryInBudget, FailedInBudget,
       DelayOverInBudget DEF GoesOn
  <2> QED
    BY <2>2, <2>3, <2>4, SendInBudget, AbortInBudget DEF Next
<1>3. ResilienceInv /\ FailureBudget => FailuresBeforeOpen
  <2> SUFFICES ASSUME ResilienceInv, FailureBudget PROVE FailuresBeforeOpen
    OBVIOUS
  <2> DEFINE t == IF Threshold = 0 THEN 0 ELSE Threshold - 1
             a == MaxAttempts + 1
  <2>1. /\ t \in Nat /\ a \in Nat /\ MaxConcurrent \in Nat
        /\ breaker.failures \in Nat /\ Threshold \in Nat
    BY Limits DEF ResilienceInv, TypeOK, Breaker
  <2>2. CountedCalls \in Nat /\ CountedCalls <= t
    BY <2>1 DEF CountedCalls
  <2>3. /\ Cardinality(Active) \in Nat /\ Cardinality(Active) <= MaxConcurrent
        /\ Cardinality(Pending) \in Nat
        /\ Cardinality(Pending) <= Cardinality(Active) * a
        /\ failed <= CountedCalls * a + Cardinality(Pending)
    BY PendingFacts DEF FailureBudget
  <2>4. failed \in Nat
    BY FailedLimitIsNat DEF ResilienceInv, TypeOK
  <2>5. FailedLimit = (t + MaxConcurrent) * a
    BY DEF FailedLimit
  <2> HIDE DEF t, a
  <2>6. /\ CountedCalls * a <= t * a
        /\ Cardinality(Active) * a <= MaxConcurrent * a
        /\ (t + MaxConcurrent) * a = t * a + MaxConcurrent * a
    BY <2>1, <2>2, <2>3, ProductGrows, ProductDistributes
  <2>7. /\ CountedCalls * a \in Nat /\ t * a \in Nat
        /\ Cardinality(Active) * a \in Nat /\ MaxConcurrent * a \in Nat
    BY <2>1, <2>2, <2>3, ProductOfNat
  <2>8. failed <= t * a + MaxConcurrent * a
    <3> DEFINE u == CountedCalls * a
               v == Cardinality(Active) * a
               w == t * a
               x == MaxConcurrent * a
    <3>1. /\ u \in Nat /\ v \in Nat /\ w \in Nat /\ x \in Nat
          /\ u <= w /\ v <= x /\ Cardinality(Pending) <= v
          /\ failed <= u + Cardinality(Pending)
      BY <2>3, <2>6, <2>7
    <3> HIDE DEF u, v, w, x
    <3>2. failed <= w + x
      BY <2>3, <2>4, <3>1
    <3> QED
      BY <3>2 DEF w, x
  <2> QED
    BY <2>5, <2>6, <2>8 DEF FailuresBeforeOpen
<1> QED
  BY <1>1, <1>2, <1>3, ResilienceInvariant, PTL DEF Spec

=============================================================================
