------------------------- MODULE ServiceContainer --------------------------
(***************************************************************************)
(* ServiceContainer and its ContainerScopes                                *)
(* (infrastructure/container/service-container.ts).                        *)
(*                                                                         *)
(* A resolution runs to completion without an await, so nothing interleaves*)
(* with it: `frames` holds the factories being run, outermost first, and   *)
(* every other operation waits until it is empty.  dispose() does await,   *)
(* once per tracked instance, so the disposals of several scopes interleave*)
(* with each other and with whole resolutions.                             *)
(*                                                                         *)
(* A factory returns whatever it likes: a new instance, or one that it or  *)
(* another factory returned before.  `objects` therefore counts what the   *)
(* factories returned, one entry for each run of one, and Inst says which  *)
(* of the entries are the same instance.                                   *)
(***************************************************************************)
EXTENDS Integers, Sequences, FiniteSets

CONSTANTS
  Tokens,
  Lifetime,     \* [Tokens -> lifetime of the registration]
  Deps,         \* [Tokens -> Seq(Tokens)], what a factory resolves, in order
  Disposable,   \* the tokens whose own instances have a dispose method
  Reuses,       \* [Tokens -> SUBSET Tokens], whose instances a factory may
                \* return again, instead of making one of its own
  Late,         \* the tokens that are not registered from the start
  Scopes,       \* scopes handed out by createScope
  Root,         \* the container's own rootScope
  MaxObjects,   \* bound on the runs of factories in a behaviour
  Teardown,     \* whether the container itself may be disposed
  None

ASSUME RegistryAssumption ==
  /\ Lifetime \in [Tokens -> {"singleton", "scoped", "transient"}]
  /\ Deps \in [Tokens -> Seq(Tokens)]
  /\ Disposable \subseteq Tokens /\ Late \subseteq Tokens
  /\ Reuses \in [Tokens -> SUBSET Tokens]
  /\ Root \notin Scopes
  /\ MaxObjects \in Nat
  /\ Teardown \in BOOLEAN
  /\ None \notin Nat /\ None # "singleton"

VARIABLES
  registrations,  \* the registered tokens
  objects,        \* what the factories returned, by the number of the run
  singletons,     \* singletonInstances
  cache,          \* scopedInstances of each scope
  tracked,        \* trackedDisposables of each scope
  phase,          \* of each scope: "open" until isDisposed is set
  left,           \* how many tracked instances dispose() has still to visit
  frames,         \* the factories being run
  active,         \* activeLifetime of the resolution context
  log,            \* history: the tracked entries disposed, in order
  result          \* what the last operation returned, None if nothing

vars == <<registrations, objects, singletons, cache, tracked, phase, left,
          frames, active, log, result>>
registry == <<registrations, singletons>>

AllScopes == Scopes \cup {Root}
Ids == 1 .. MaxObjects
Instance == Ids \cup {None}

(* same: the number of the run that was the first to return this instance; *)
(* refs: what a new instance was made from; under: the lifetime in force   *)
(* when the factory ran, its own included; late: returned after the        *)
(* disposal of the container began.                                        *)
Object == [token : Tokens, scope : AllScopes, same : Ids, refs : SUBSET Ids,
           under : {"singleton", None}, late : BOOLEAN]
Frame == [token : Tokens, scope : AllScopes, next : Nat, args : SUBSET Ids,
          previous : {"singleton", None}]

TypeOK ==
  /\ registrations \subseteq Tokens
  /\ objects \in Seq(Object)
  /\ singletons \in [Tokens -> Instance]
  /\ cache \in [AllScopes -> [Tokens -> Instance]]
  /\ tracked \in [AllScopes -> Seq(Ids)]
  /\ phase \in [AllScopes -> {"unborn", "open", "closing", "closed"}]
  /\ left \in [AllScopes -> Nat]
  /\ \A s \in AllScopes : left[s] <= Len(tracked[s])
  /\ frames \in Seq(Frame)
  /\ Len(objects) + Len(frames) <= MaxObjects
  /\ active \in {"singleton", None}
  /\ log \in Seq(Ids)
  /\ result \in Instance

Nothing == [t \in Tokens |-> None]

Init ==
  /\ registrations = Tokens \ Late
  /\ objects = <<>>
  /\ singletons = Nothing
  /\ cache = [s \in AllScopes |-> Nothing]
  /\ tracked = [s \in AllScopes |-> <<>>]
  /\ phase = [s \in AllScopes |-> IF s = Root THEN "open" ELSE "unborn"]
  /\ left = [s \in AllScopes |-> 0]
  /\ frames = <<>>
  /\ active = None
  /\ log = <<>>
  /\ result = None

-----------------------------------------------------------------------------
Idle == frames = <<>>
Top == frames[Len(frames)]
Popped == SubSeq(frames, 1, Len(frames) - 1)
Made == 1 .. Len(objects)
Inst(o) == objects[o].same
BeingResolved == {frames[i].token : i \in 1 .. Len(frames)}

\* A caller asks any scope for any token; a running factory asks the scope it
\* was given for its next dependency.
Asks(s, t) ==
  IF Idle
  THEN phase[s] # "unborn"
  ELSE /\ Top.next <= Len(Deps[Top.token])
       /\ t = Deps[Top.token][Top.next]
       /\ s = Top.scope

(* Slips the properties below must notice; PROJECT.json pairs each with the*)
(* definition it would replace.                                            *)
RejectsOnceClosed(s, t) ==
  \/ phase[s] = "closed" \/ t \notin registrations \/ t \in BeingResolved
  \/ active = "singleton" /\ Lifetime[t] = "scoped"
  \/ Idle /\ s = Root /\ Lifetime[t] = "scoped"
LooksInTheRoot(s, t) ==
  CASE Lifetime[t] = "singleton" -> singletons[t]
    [] Lifetime[t] = "scoped"    -> cache[Root][t]
    [] OTHER                     -> None

\* The scope is closed, the token unknown, already being resolved, scoped but
\* needed by a singleton, or scoped but asked from the container itself.
Rejects(s, t) ==
  \/ phase[s] \in {"closing", "closed"}
  \/ t \notin registrations
  \/ t \in BeingResolved
  \/ active = "singleton" /\ Lifetime[t] = "scoped"
  \/ Idle /\ s = Root /\ Lifetime[t] = "scoped"

Existing(s, t) ==
  CASE Lifetime[t] = "singleton" -> singletons[t]
    [] Lifetime[t] = "scoped"    -> cache[s][t]
    [] OTHER                     -> None

Given(f, o) == [token |-> f.token, scope |-> f.scope, next |-> f.next + 1,
                args |-> f.args \cup {o}, previous |-> f.previous]

\* Hand an instance to the factory that asked for it, or to the caller.
Deliver(o, stack) ==
  IF stack = <<>>
  THEN frames' = <<>> /\ result' = o
  ELSE /\ frames' = [stack EXCEPT ![Len(stack)] = Given(@, o)]
       /\ UNCHANGED result

\* The lifetime in force while the factory at depth i runs.
ActiveAt(i) == IF i = Len(frames) THEN active ELSE frames[i + 1].previous

ForgetsLifetime(n) ==
  /\ frames' = IF n = 0 THEN <<>>
               ELSE [SubSeq(frames, 1, n) EXCEPT ![n].next = @ + 1]
  /\ active' = None
  /\ result' = IF n = 0 THEN None ELSE result
  /\ UNCHANGED <<registry, objects, cache, tracked, phase, left, log>>

\* An error ends the factories above depth n, each of which restores the
\* lifetime it found.  The n-th catches it and goes on without what it asked
\* for; with n = 0 nobody does and the caller gets it.
Unwind(n) ==
  /\ frames' = IF n = 0 THEN <<>>
               ELSE [SubSeq(frames, 1, n) EXCEPT ![n].next = @ + 1]
  /\ active' = ActiveAt(n)
  /\ result' = IF n = 0 THEN None ELSE result
  /\ UNCHANGED <<registry, objects, cache, tracked, phase, left, log>>

Refuse(s, t) ==
  /\ Asks(s, t) /\ Rejects(s, t)
  /\ \E n \in 0 .. Len(frames) : Unwind(n)

Reuse(s, t) ==
  /\ Asks(s, t) /\ ~ Rejects(s, t)
  /\ Existing(s, t) # None
  /\ Deliver(Existing(s, t), frames)
  /\ UNCHANGED <<registry, objects, cache, tracked, phase, left, active, log>>

\* executeWithStackIsolation, up to the call of the factory.
Enter(s, t) ==
  /\ Asks(s, t) /\ ~ Rejects(s, t)
  /\ Existing(s, t) = None
  /\ Len(objects) + Len(frames) < MaxObjects
  /\ frames' = Append(frames, [token |-> t, scope |-> s, next |-> 1,
                               args |-> {}, previous |-> active])
  /\ active' = IF Lifetime[t] = "singleton" THEN "singleton" ELSE active
  /\ UNCHANGED <<registry, objects, cache, tracked, phase, left, log, result>>

Constructing ==
  ~ Idle /\ Top.next > Len(Deps[Top.token])

\* The scope that tracks an instance, and so disposes it.
OwnerOf(t, s) == IF Lifetime[t] = "singleton" THEN Root ELSE s

\* What the factory of t may return: a new instance, or one that it or another
\* factory keeps and returned before, be it disposed or not.
Returnable(t) ==
  {Len(objects) + 1} \cup
  {Inst(o) : o \in {r \in Made : objects[r].token \in Reuses[t]}}

\* Whether the instance p that the factory of t returns has a dispose method.
HasDispose(p, t) ==
  (IF p \in Made THEN objects[p].token ELSE t) \in Disposable

TracksAgain(p, t, owner) == HasDispose(p, t)

\* trackInstance keeps what has a dispose method unless the scope tracks the
\* instance already; setScopedInstance does not look.
Tracks(p, t, owner) ==
  /\ HasDispose(p, t)
  /\ \/ Lifetime[t] = "scoped"
     \/ \A i \in 1 .. Len(tracked[owner]) : Inst(tracked[owner][i]) # p

\* The factory returns p: the instance is stored by its lifetime, tracked, and
\* handed over; the previous lifetime is restored.
Returns(p) ==
  LET t == Top.token
      s == Top.scope
      o == Len(objects) + 1
      owner == OwnerOf(t, s)
  IN
  /\ objects' = Append(objects,
                  [token |-> t, scope |-> s, same |-> p,
                   refs |-> IF p = o THEN Top.args ELSE {},
                   under |-> active,
                   late |-> phase[Root] # "open"])
  /\ singletons' = IF Lifetime[t] = "singleton"
                   THEN [singletons EXCEPT ![t] = o] ELSE singletons
  /\ cache' = IF Lifetime[t] = "scoped"
              THEN [cache EXCEPT ![s][t] = o] ELSE cache
  /\ tracked' = IF Tracks(p, t, owner)
                THEN [tracked EXCEPT ![owner] = Append(@, o)] ELSE tracked
  /\ active' = Top.previous
  /\ Deliver(o, Popped)
  /\ UNCHANGED <<registrations, phase, left, log>>

Construct == Constructing /\ \E p \in Returnable(Top.token) : Returns(p)

\* A factory may throw before, between and after what it resolves, and one of
\* those below it may catch that.
FactoryThrows ==
  ~ Idle /\ \E n \in 0 .. Len(frames) - 1 : Unwind(n)

-----------------------------------------------------------------------------
\* The operation hands no instance out.
NoAnswer == result' = None /\ UNCHANGED <<frames, active>>

Register(t) ==
  /\ Idle /\ t \in Late \ registrations
  /\ registrations' = registrations \cup {t}
  /\ NoAnswer
  /\ UNCHANGED <<objects, singletons, cache, tracked, phase, left, log>>

CreateScope(s) ==
  /\ Idle /\ phase[s] = "unborn"
  /\ phase' = [phase EXCEPT ![s] = "open"]
  /\ NoAnswer
  /\ UNCHANGED <<registry, objects, cache, tracked, left, log>>

\* One instance is disposed and its dispose() awaited.  One that rejects is
\* logged and passed over.
Visit(s, i, o) ==
  /\ phase' = [phase EXCEPT ![s] = "closing"]
  /\ left' = [left EXCEPT ![s] = i - 1]
  /\ log' = Append(log, o)

\* None is left: the scope's maps are emptied.
Close(s) ==
  /\ phase' = [phase EXCEPT ![s] = "closed"]
  /\ left' = [left EXCEPT ![s] = 0]
  /\ cache' = [cache EXCEPT ![s] = Nothing]
  /\ tracked' = [tracked EXCEPT ![s] = <<>>]
  /\ UNCHANGED log

ClearFirst(s, i) ==
  IF i > 0
  THEN /\ Visit(s, i, tracked[s][i])
       /\ tracked' = [tracked EXCEPT ![s] = <<>>] /\ UNCHANGED cache
  ELSE Close(s)
OldestFirst(s, i) ==
  IF i > 0
  THEN Visit(s, i, tracked[s][Len(tracked[s]) + 1 - i])
       /\ UNCHANGED <<cache, tracked>>
  ELSE Close(s)

\* The loop of dispose() from index i down to its next await.
DisposeFrom(s, i) ==
  IF i > 0
  THEN Visit(s, i, tracked[s][i]) /\ UNCHANGED <<cache, tracked>>
  ELSE Close(s)

NeverCloses(s) ==
  /\ Idle /\ phase[s] = "closing" /\ left[s] > 0
  /\ DisposeFrom(s, left[s])
  /\ NoAnswer
  /\ UNCHANGED <<registry, objects>>

\* A second dispose() of a scope returns at once and changes nothing.
Dispose(s) ==
  /\ Idle /\ phase[s] = "open"
  /\ s = Root => Teardown
  /\ DisposeFrom(s, Len(tracked[s]))
  /\ NoAnswer
  /\ UNCHANGED <<registry, objects>>

DisposeNext(s) ==
  /\ Idle /\ phase[s] = "closing"
  /\ DisposeFrom(s, left[s])
  /\ NoAnswer
  /\ UNCHANGED <<registry, objects>>

\* What the container's dispose() does after its root scope's: a second call,
\* for which the root scope is disposed already, gets here before the first.
ClearContainer ==
  /\ Idle /\ phase[Root] \in {"closing", "closed"}
  /\ registrations' = {}
  /\ singletons' = Nothing
  /\ NoAnswer
  /\ UNCHANGED <<objects, cache, tracked, phase, left, log>>

Next ==
  \/ \E s \in AllScopes, t \in Tokens :
       Refuse(s, t) \/ Reuse(s, t) \/ Enter(s, t)
  \/ Construct \/ FactoryThrows
  \/ \E t \in Tokens : Register(t)
  \/ \E s \in Scopes : CreateScope(s)
  \/ \E s \in AllScopes : Dispose(s) \/ DisposeNext(s)
  \/ ClearContainer

Spec == Init /\ [][Next]_vars

\* What a running resolution does next when no factory throws.
Resolving ==
  /\ ~ Idle
  /\ \/ Construct
     \/ \E s \in AllScopes, t \in Tokens :
          Refuse(s, t) \/ Reuse(s, t) \/ Enter(s, t)

\* A resolution runs to its end, and so does a dispose() that has begun: the
\* promises it awaits settle.
FairSpec ==
  /\ Spec
  /\ WF_vars(Resolving \/ FactoryThrows)
  /\ \A s \in AllScopes : SF_vars(DisposeNext(s))

-----------------------------------------------------------------------------
LifetimeOf(o) == Lifetime[objects[o].token]
Pinned(o) == objects[o].under = "singleton"
OwnerScope(o) == OwnerOf(objects[o].token, objects[o].scope)
Logged == {log[i] : i \in 1 .. Len(log)}
DisposedBefore(o, p) ==
  \E i \in 1 .. Len(log) : log[i] = o /\ p \notin {log[j] : j \in 1 .. i}

\* No singleton depends on a scoped instance, directly or through any chain of
\* transients: what the container resolves for a factory that runs for a
\* singleton was itself returned to one, and is not scoped, whatever errors the
\* factories met and caught on the way.
CaptiveFree ==
  \A o \in Made : LifetimeOf(o) = "singleton" \/ Pinned(o) =>
    \A d \in objects[o].refs : LifetimeOf(d) # "scoped" /\ Pinned(d)

\* What a factory that runs for a singleton has been given so far.
Uncaptive(ids) ==
  \A d \in ids : LifetimeOf(d) # "scoped" /\ Pinned(d)

FrameDiscipline(i) ==
  /\ frames[i].args \subseteq Made
  /\ ActiveAt(i) = IF Lifetime[frames[i].token] = "singleton"
                   THEN "singleton" ELSE frames[i].previous
  /\ frames[i].previous = "singleton" => Lifetime[frames[i].token] # "scoped"
  /\ ActiveAt(i) = "singleton" => Uncaptive(frames[i].args)

\* The instances the container and its scopes hold on to.
EntriesMade ==
  /\ \A t \in Tokens : singletons[t] # None =>
       /\ singletons[t] \in Made
       /\ objects[singletons[t]].token = t
       /\ Pinned(singletons[t])
  /\ \A s \in AllScopes, t \in Tokens :
       cache[s][t] # None => cache[s][t] \in Made

\* Why no captive dependency slips through: the lifetime in force is passed
\* down through transients and comes back on the way up, so a factory below a
\* singleton was never given a scoped instance, nor one that holds one.
StackDiscipline ==
  /\ IF Idle THEN active = None ELSE frames[1].previous = None
  /\ \A i \in 1 .. Len(frames) : FrameDiscipline(i)
  /\ EntriesMade
  /\ \A o \in Made : objects[o].refs \subseteq Made

Disposing(s) == phase[s] \in {"closing", "closed"}

\* Why there is one instance of each: a factory runs only for what its scope
\* does not have, never twice at a time, and in a scope that stays open while it
\* runs; all the factories of a resolution run for the same scope.
ResolutionDiscipline ==
  \A i \in 1 .. Len(frames) :
    LET f == frames[i] IN
    /\ phase[f.scope] = "open" /\ Existing(f.scope, f.token) = None
    /\ \A j \in 1 .. Len(frames) :
         /\ frames[j].scope = f.scope
         /\ frames[j].token = f.token => i = j
    /\ \A d \in f.args :
         LifetimeOf(d) = "scoped" => objects[d].scope = f.scope

\* What is kept under a token, and in a scope, was made for it.
EntriesOwned ==
  /\ \A t \in Tokens :
       singletons[t] # None => Lifetime[t] = "singleton"
  /\ \A s \in AllScopes, t \in Tokens :
       LET o == cache[s][t] IN
       o # None => /\ objects[o].token = t /\ objects[o].scope = s
                   /\ Lifetime[t] = "scoped"

\* An instance is kept as long as anything can ask for it.
InstancesKept ==
  \A o \in Made :
    LET t == objects[o].token
        s == objects[o].scope
    IN
    /\ Lifetime[t] = "singleton" =>
         singletons[t] = o \/ (Disposing(Root) /\ registrations = {} /\ Idle)
    /\ Lifetime[t] = "scoped" => cache[s][t] = o \/ phase[s] = "closed"

\* The instance returned by the run o has a dispose method.
CanDispose(o) == objects[Inst(o)].token \in Disposable

\* A scope tracks what it owns in the order of construction; its disposal has
\* been down to the index `left`, and what came to it since then is late.
TrackedInOrder(s) ==
  \A i \in 1 .. Len(tracked[s]) :
    LET o == tracked[s][i] IN
    /\ o \in Made /\ OwnerScope(o) = s
    /\ \A j \in 1 .. Len(tracked[s]) : i < j => o < tracked[s][j]
    /\ IF Disposing(s) /\ i > left[s]
         THEN o \in Logged \/ objects[o].late
         ELSE o \notin Logged

\* Only a scoped factory puts an instance on a list that has it already.
TrackedAgain(s) ==
  \A i, j \in 1 .. Len(tracked[s]) :
    i < j /\ Inst(tracked[s][i]) = Inst(tracked[s][j]) =>
      LifetimeOf(tracked[s][j]) = "scoped"

\* What can be disposed is tracked until its scope is closed: by the run that
\* returned it, or by an earlier one that returned the same instance.
TrackedUntilClosed ==
  \A o \in Made :
    LET s == OwnerScope(o) IN
    CanDispose(o) /\ phase[s] # "closed" =>
      \E i \in 1 .. Len(tracked[s]) :
        tracked[s][i] <= o /\ Inst(tracked[s][i]) = Inst(o)

\* An instance is as old as the first run that returned it, and only that one
\* made it from something.
InstancesFirst ==
  \A o \in Made :
    /\ Inst(o) \in Made /\ Inst(o) <= o
    /\ objects[o].refs # {} => Inst(o) = o
    /\ \A d \in objects[o].refs : d < o

\* From the first late run on, all are.
LateFromThenOn ==
  \A o \in Made : objects[o].late =>
    phase[Root] # "open" /\ \A p \in Made : o < p => objects[p].late

\* Only what a disposal has reached is disposed, and it stays on its list until
\* the scope is closed.
DisposedInPlace ==
  \A o \in Logged :
    LET s == OwnerScope(o) IN
    /\ o \in Made /\ Disposing(s)
    /\ phase[s] # "closed" =>
         \E i \in 1 .. Len(tracked[s]) : tracked[s][i] = o

DisposalDiscipline ==
  /\ \A s \in AllScopes : TrackedInOrder(s) /\ TrackedAgain(s)
  /\ TrackedUntilClosed
  /\ DisposedInPlace
  /\ InstancesFirst
  /\ LateFromThenOn

\* The scope that would dispose the last answer has not disposed the instance,
\* by this or by any other run that returned it.
AnswerIsAlive ==
  result # None =>
    \A e \in Logged :
      Inst(e) = Inst(result) => OwnerScope(e) # OwnerScope(result)

\* A scope never answers with an instance it has itself disposed, under
\* whichever token and from whichever run of a factory, however its
\* resolutions interleave with its own disposal and those of other scopes,
\* until the container itself is disposed.  What another scope disposed it may
\* hand out, when factories share it across scopes.
NoDisposedAnswer ==
  [][result' # result /\ phase[Root] = "open" => AnswerIsAlive']_vars

\* What a scope disposes is disposed before anything of the same scope that it
\* depends on, unless the disposal of the container had begun when it was
\* made.  (A scoped factory that returns such a dependency again, later, has it
\* disposed at that later place, too.)
DependentsFirst ==
  \A o, e \in Made :
    /\ \E d \in objects[o].refs : Inst(d) = Inst(e)
    /\ OwnerScope(o) = OwnerScope(e) /\ e < o
    /\ CanDispose(o) /\ ~ objects[o].late
    /\ e \in Logged
    => DisposedBefore(o, e)

\* However often and by whomever dispose() is called, and however often an
\* instance was resolved: within a scope an instance is disposed once, unless
\* the factory of a scoped service is one of several that returned it; and once
\* the disposal of a scope is over, every disposable instance that was returned
\* for it has been disposed by it, unless that was after the disposal of the
\* container began.
ReleasedOnce ==
  /\ \A i, j \in 1 .. Len(log) :
       /\ i # j /\ Inst(log[i]) = Inst(log[j])
       /\ OwnerScope(log[i]) = OwnerScope(log[j])
       => /\ log[i] # log[j]
          /\ "scoped" \in {LifetimeOf(log[i]), LifetimeOf(log[j])}
  /\ \A o \in Made :
       /\ phase[OwnerScope(o)] = "closed"
       /\ CanDispose(o) /\ ~ objects[o].late
       => \E e \in Logged :
            Inst(e) = Inst(o) /\ OwnerScope(e) = OwnerScope(o)

SameOwner(o, p) ==
  \/ LifetimeOf(o) = "singleton"
  \/ LifetimeOf(o) = "scoped" /\ objects[o].scope = objects[p].scope

\* The factory of a singleton returns once, and that of a scoped service once in
\* a scope, even when factories throw halfway, catch the errors of others, or
\* another scope is the first to ask; and what is made in a scope is given no
\* scoped instance of another scope.
OneInstanceEach ==
  \A o \in Made :
    /\ \A p \in Made :
         objects[o].token = objects[p].token /\ SameOwner(o, p) => o = p
    /\ \A d \in objects[o].refs :
         LifetimeOf(d) = "scoped" => objects[d].scope = objects[o].scope

\* A singleton that can still be resolved has no disposed dependency: the
\* transients it was given live as long as it does.
SingletonDepsAlive ==
  \A t \in Tokens : singletons[t] # None /\ phase[Root] = "open" =>
    \A d \in objects[singletons[t]].refs, e \in Logged : Inst(d) # Inst(e)

\* A disposal that began comes to its end, and a second one cannot revive it.
DisposalEnds == \A s \in AllScopes : phase[s] = "closing" ~> phase[s] = "closed"
=============================================================================
