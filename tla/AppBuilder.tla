---------------------------- MODULE AppBuilder -----------------------------
(***************************************************************************)
(* AppBuilder.build() and its retries                                      *)
(* (infrastructure/builder/app.builder.ts).                                *)
(*                                                                         *)
(* The add... methods queue modules; build() configures them one after the *)
(* other in the builder's container and hands the container to everybody   *)
(* who called it meanwhile.  When a module fails, the attempt rejects, the *)
(* container is disposed and replaced, and build() may be called again.    *)
(* Every await of the build and of the reset ends a step.                  *)
(***************************************************************************)
EXTENDS Integers, Sequences, FiniteSets

CONSTANTS
  Modules,
  Context,      \* the module the constructor queues
  Config,       \* the configuration service, registered with each container
  Priority,     \* [Modules -> Nat]
  Requires,     \* [Modules -> SUBSET Modules], queued by the module's method
  Optional,     \* [Modules -> SUBSET Modules], used if they are queued
  Callers,      \* of build()
  MaxAttempts,  \* bound on the attempts to build
  Prompt,       \* whether a reset is over before a retry gets to its modules
  None

ASSUME BuilderAssumption ==
  /\ IsFiniteSet(Modules)
  /\ Context \in Modules /\ Config \notin Modules
  /\ Priority \in [Modules -> Nat]
  /\ Requires \in [Modules -> SUBSET Modules]
  /\ Optional \in [Modules -> SUBSET Modules]
  /\ MaxAttempts \in Nat \ {0}
  /\ Prompt \in BOOLEAN
  /\ None \notin Nat

\* A method queues all that its module needs, what that needs included; and
\* it gives the module a higher priority than any of these, and than those the
\* module only uses.  The constructor's module needs nothing.
ASSUME PrioritiesAssumption ==
  /\ Requires[Context] = {}
  /\ \A m \in Modules :
       /\ \A r \in Requires[m] : Requires[r] \subseteq Requires[m]
       /\ \A n \in Requires[m] \cup Optional[m] : Priority[n] < Priority[m]

VARIABLES
  queue,       \* _modules
  promise,     \* _buildPromise: the attempt it belongs to
  attempt,     \* every attempt, by its number
  container,   \* _container
  registered,  \* what each container holds, in the order it was registered
  callers      \* where each caller of build() is, and on which attempt

vars == <<queue, promise, attempt, container, registered, callers>>

Attempts == 1 .. MaxAttempts
\* The constructor makes container 0, the reset after attempt a container a.
Containers == 0 .. MaxAttempts

Stages == {"unused", "loading", "configuring", "ok", "rejected", "resetting",
           "cleared", "failed"}

(* module: index in the queue of the one being configured; target: the     *)
(* container the attempt configures, disposes or has handed out.           *)
Attempt == [at : Stages, module : Nat \ {0}, target : Containers]

TypeOK ==
  /\ queue \in Seq(Modules)
  /\ promise \in Attempts \cup {None}
  /\ attempt \in [Attempts -> Attempt]
  /\ \A a \in Attempts : attempt[a].module <= Len(queue)
  /\ container \in Containers
  /\ registered \in [Containers -> Seq(Modules \cup {Config})]
  /\ callers \in [Callers -> [at : {"idle", "waiting", "built", "refused"},
                              on : Attempts]]

Init ==
  /\ queue = <<Context>>
  /\ promise = None
  /\ attempt = [a \in Attempts |->
                  [at |-> "unused", module |-> 1, target |-> 0]]
  /\ container = 0
  /\ registered = [c \in Containers |-> IF c = 0 THEN <<Config>> ELSE <<>>]
  /\ callers = [k \in Callers |-> [at |-> "idle", on |-> 1]]

-----------------------------------------------------------------------------
Members(q) == {q[i] : i \in 1 .. Len(q)}
At(stages) == {a \in Attempts : attempt[a].at \in stages}
Building == At({"loading", "configuring"})
Resetting == At({"resetting", "cleared"})
Current(a) == queue[attempt[a].module]

\* An attempt moves on, with its module and container or with others.
Becomes(a, stage, m, c) ==
  attempt' = [attempt EXCEPT ![a] = [at |-> stage, module |-> m, target |-> c]]
Enters(a, stage) == Becomes(a, stage, attempt[a].module, attempt[a].target)

\* The modules that m's add method queues before m itself, unless they are
\* queued already: the one of the lower priority first.
Missing(m) ==
  LET S == Requires[m] \ Members(queue)
  IN  {r \in [1 .. Cardinality(S) -> S] :
         \A i, j \in 1 .. Cardinality(S) :
           i < j => r[i] # r[j] /\ Priority[r[i]] <= Priority[r[j]]}

\* The queued-flags are the membership in the queue: both are set together,
\* and neither is ever taken back.
Add(m) ==
  /\ m \notin Members(queue)
  /\ \E r \in Missing(m) : queue' = queue \o Append(r, m)
  /\ UNCHANGED <<promise, attempt, container, registered, callers>>

\* Array.sort by priority, in place: what was queued first comes first among
\* equals.  There is exactly one such order of the queue.
Index(q, m) == CHOOSE i \in 1 .. Len(q) : q[i] = m
Before(q, m, n) ==
  \/ Priority[m] < Priority[n]
  \/ Priority[m] = Priority[n] /\ Index(q, m) < Index(q, n)
Unsorted(q) == {q}
Sorted(q) ==
  {r \in [1 .. Len(q) -> Members(q)] :
     \A i, j \in 1 .. Len(q) : i < j => Before(q, r[i], r[j])}

MayCall(k) == callers[k].at \in {"idle", "refused"}

\* build() while there is a promise, of an attempt that runs or succeeded.
Join(k) ==
  /\ MayCall(k) /\ promise # None
  /\ callers' = [callers EXCEPT ![k] = [at |-> "waiting", on |-> promise]]
  /\ UNCHANGED <<queue, promise, attempt, container, registered>>

\* build() otherwise: _executeBuild runs up to the first await.  Attempts are
\* numbered in the order they start.
Start(k, a) ==
  /\ MayCall(k) /\ promise = None
  /\ attempt[a].at = "unused"
  /\ \A b \in Attempts : b < a => attempt[b].at # "unused"
  /\ queue' \in Sorted(queue)
  /\ promise' = a
  /\ Enters(a, "loading")
  /\ callers' = [callers EXCEPT ![k] = [at |-> "waiting", on |-> a]]
  /\ UNCHANGED <<container, registered>>

\* The module's code is imported: the container it will configure is read.
Configure(a) ==
  /\ attempt[a].at = "loading"
  /\ Prompt => Resetting = {}
  /\ Becomes(a, "configuring", attempt[a].module, container)
  /\ UNCHANGED <<queue, promise, container, registered, callers>>

Enrol(a) ==
  LET c == attempt[a].target IN
  /\ Current(a) \notin Members(registered[c])
  /\ registered' = [registered EXCEPT ![c] = Append(@, Current(a))]

RegisterPastEnd(a) ==
  /\ attempt[a].at = "configuring"
  /\ Enrol(a)
  /\ IF attempt[a].module <= Len(queue)
     THEN Becomes(a, "loading", attempt[a].module + 1, attempt[a].target)
     ELSE Becomes(a, "ok", attempt[a].module, container)
  /\ UNCHANGED <<queue, promise, container, callers>>

\* The module is configured; after the last one in the queue, those added
\* meanwhile included, the builder's container of the moment is returned.
Register(a) ==
  /\ attempt[a].at = "configuring"
  /\ Enrol(a)
  /\ IF attempt[a].module < Len(queue)
     THEN Becomes(a, "loading", attempt[a].module + 1, attempt[a].target)
     ELSE Becomes(a, "ok", attempt[a].module, container)
  /\ UNCHANGED <<queue, promise, container, callers>>

\* The import or the configuration of a module fails.  What it had registered
\* by then stays; registering a token twice is one reason to fail.
ModuleFails(a) ==
  /\ \/ attempt[a].at = "loading" /\ UNCHANGED registered
     \/ attempt[a].at = "configuring" /\ (UNCHANGED registered \/ Enrol(a))
  /\ Enters(a, "rejected")
  /\ UNCHANGED <<queue, promise, container, callers>>

-----------------------------------------------------------------------------

RecoverKeepsPromise(a) ==
  /\ attempt[a].at = "rejected"
  /\ IF promise = a THEN Becomes(a, "resetting", attempt[a].module, container)
                    ELSE Enters(a, "failed")
  /\ UNCHANGED <<queue, promise, container, registered, callers>>

\* The rejection handler of build(), which runs before those of the callers:
\* the promise is dropped and the disposal of the container begins.
Recover(a) ==
  /\ attempt[a].at = "rejected"
  /\ IF promise = a
     THEN promise' = None /\ Becomes(a, "resetting", attempt[a].module, container)
     ELSE UNCHANGED promise /\ Enters(a, "failed")
  /\ UNCHANGED <<queue, container, registered, callers>>

\* The container's dispose() comes to its end, or is not the first one.
Clear(a) ==
  /\ attempt[a].at = "resetting"
  /\ Enters(a, "cleared")
  /\ registered' = [registered EXCEPT ![attempt[a].target] = <<>>]
  /\ UNCHANGED <<queue, promise, container, callers>>

RenewBare(a) ==
  /\ attempt[a].at = "cleared"
  /\ Enters(a, "failed")
  /\ container' = a
  /\ UNCHANGED <<queue, promise, registered, callers>>
Renew(a) ==
  /\ attempt[a].at = "cleared"
  /\ Enters(a, "failed")
  /\ container' = a
  /\ registered' = [registered EXCEPT ![a] = <<Config>>]
  /\ UNCHANGED <<queue, promise, callers>>

\* A caller learns what became of the attempt.
Answer(k) ==
  LET at == attempt[callers[k].on].at IN
  /\ callers[k].at = "waiting"
  /\ at \in {"ok", "resetting", "cleared", "failed"}
  /\ callers' = [callers EXCEPT ![k].at = IF at = "ok" THEN "built"
                                                       ELSE "refused"]
  /\ UNCHANGED <<queue, promise, attempt, container, registered>>

Next ==
  \/ \E m \in Modules : Add(m)
  \/ \E k \in Callers : Join(k) \/ Answer(k)
  \/ \E k \in Callers, a \in Attempts : Start(k, a)
  \/ \E a \in Attempts :
       \/ Configure(a) \/ Register(a) \/ ModuleFails(a)
       \/ Recover(a) \/ Clear(a) \/ Renew(a)

Spec == Init /\ [][Next]_vars

(* Imports, configurations and disposals settle.  Nobody has to call build. *)
Fairness ==
  /\ \A a \in Attempts :
       /\ WF_vars(Configure(a) \/ Register(a) \/ ModuleFails(a))
       /\ WF_vars(Recover(a) \/ Clear(a) \/ Renew(a))
  /\ \A k \in Callers : WF_vars(Answer(k))

FairSpec == Spec /\ Fairness

-----------------------------------------------------------------------------
Disposed == {attempt[a].target : a \in Resetting}
              \cup {attempt[a].target : a \in At({"failed"})}
Configured(a) == {queue[i] : i \in 1 .. attempt[a].module}

(* Why a retry starts over.  The promise belongs to the attempt that runs,  *)
(* has succeeded or has just been rejected; the reset of an attempt ends in *)
(* a container nobody has used; and while none is under way, the builder's  *)
(* container holds what the running attempt put there and nothing else.     *)
PromiseHeld ==
  \A a \in Attempts :
    promise = a <=>
      attempt[a].at \in {"loading", "configuring", "ok", "rejected"}

ContainersFresh ==
  /\ container # 0 => attempt[container].at = "failed"
  /\ \A a \in Attempts :
       attempt[a].target # 0 => attempt[attempt[a].target].at = "failed"
  /\ \A a \in At({"failed"}) : attempt[a].target # container

Progress ==
  /\ \A a \in Attempts :
       /\ attempt[a].at = "unused" => attempt[a].module = 1
       /\ attempt[a].at \in {"configuring", "ok"}
            => attempt[a].target = container /\ Resetting = {}
       /\ attempt[a].at = "loading" /\ attempt[a].module > 1 => Resetting = {}
       /\ attempt[a].at = "ok" =>
            registered[container] =
              <<Config>> \o SubSeq(queue, 1, attempt[a].module)
  /\ promise = None /\ Resetting = {} => registered[container] = <<Config>>

\* Concurrent calls of build() share one attempt, also across failures.
SingleFlight ==
  \A a, b \in Building : a = b /\ promise = a

\* Whoever calls build() meanwhile gets the container of the one attempt there
\* is; it holds the configuration service and every module of the queue, and no
\* reset disposes it.
BuiltIsComplete ==
  /\ SingleFlight
  /\ \A a \in At({"ok"}) :
       LET c == attempt[a].target IN
       /\ Members(registered[c]) = {Config} \cup Configured(a)
       /\ c \notin Disposed

\* A retry starts over: all the modules before the current one, and nothing
\* left of an earlier attempt, are in the container that is being built.
CleanSlate ==
  \A a \in Building :
    Resetting = {} =>
      registered[container] = <<Config>> \o SubSeq(queue, 1, attempt[a].module - 1)

\* An attempt finds its modules in an order that works, whatever the order of
\* the add calls, before an earlier attempt or during it: each module after all
\* its prerequisites, and after those it uses when they are there.
DependenciesFirst ==
  [][\A a \in Attempts :
       attempt[a].at = "unused" /\ attempt'[a].at # "unused" =>
         \A j \in 1 .. Len(queue') :
           LET before == {queue'[i] : i \in 1 .. j - 1}
               others == {queue'[i] : i \in 1 .. Len(queue')} \ before IN
           /\ Requires[queue'[j]] \subseteq before
           /\ Optional[queue'[j]] \cap others = {}]_vars

\* Why they do: no module is queued twice, and none without its prerequisites.
QueueSound ==
  /\ \A i, j \in 1 .. Len(queue) : queue[i] = queue[j] => i = j
  /\ \A m \in Members(queue) : Requires[m] \subseteq Members(queue)

BuildDiscipline == PromiseHeld /\ ContainersFresh /\ Progress /\ CleanSlate

\* Every call of build() comes back, and after a failure there is a fresh
\* container and no promise of the failure.
BuildsSettle ==
  /\ \A k \in Callers : callers[k].at = "waiting" ~> callers[k].at # "waiting"
  /\ \A a \in Attempts :
       attempt[a].at = "rejected" ~> attempt[a].at = "failed" /\ promise # a
=============================================================================
