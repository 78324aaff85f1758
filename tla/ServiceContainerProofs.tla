----------------------- MODULE ServiceContainerProofs -----------------------
(***************************************************************************)
(* What the container guarantees for any registry, any dependency graph    *)
(* and any number of scopes.                                               *)
(***************************************************************************)
EXTENDS ServiceContainer, SequenceTheorems, TLAPS

\* A sequence of one element is not the empty one.
LEMMA OneIsSome == ASSUME NEW q, Len(q) = 1 PROVE q # <<>>
  OBVIOUS

\* The container's own scope is one of the scopes.
LEMMA RootIsScope == Root \in AllScopes
BY DEF AllScopes

(* The top of a non-empty stack of factories, and what is left without it. *)
LEMMA StackFacts ==
  ASSUME TypeOK, ~ Idle
  PROVE  /\ Len(frames) \in Nat \ {0}
         /\ Top \in Frame /\ Top = frames[Len(frames)]
         /\ Popped \in Seq(Frame)
         /\ Len(Popped) = Len(frames) - 1
         /\ \A i \in 1 .. Len(frames) - 1 : Popped[i] = frames[i]
<1>1. frames \in Seq(Frame) /\ frames # <<>>
  BY DEF TypeOK, Idle
<1>2. Len(frames) \in Nat \ {0}
  BY <1>1
<1>3. frames[Len(frames)] \in Frame
  BY <1>1, <1>2
<1>4. /\ Popped \in Seq(Frame) /\ Len(Popped) = Len(frames) - 1
      /\ \A i \in 1 .. Len(frames) - 1 : Popped[i] = frames[i]
  <2>1. \A i \in 1 .. Len(frames) - 1 : frames[i] \in Frame
    BY <1>1, <1>2
  <2> DEFINE n == Len(frames) - 1
  <2>2. n \in Int /\ 1 \in Int /\ n >= 0
    BY <1>2
  <2>3. /\ SubSeq(frames, 1, n) \in Seq(Frame)
        /\ Len(SubSeq(frames, 1, n)) = IF 1 <= n THEN n - 1 + 1 ELSE 0
        /\ \A i \in 1 .. n - 1 + 1 : SubSeq(frames, 1, n)[i] = frames[1 + i - 1]
    BY <2>1, <2>2, SubSeqProperties
  <2> HIDE DEF n
  <2>4. n - 1 + 1 = n /\ \A i \in 1 .. n : 1 + i - 1 = i
    BY <2>2
  <2>5. Len(SubSeq(frames, 1, n)) = n
    BY <2>2, <2>3
  <2>6. \A i \in 1 .. n : SubSeq(frames, 1, n)[i] = frames[i]
    BY <2>3, <2>4
  <2> QED
    BY <2>3, <2>5, <2>6 DEF Popped, n
<1> QED
  BY <1>2, <1>3, <1>4 DEF Top

\* A factory that is given an instance differs only in what it has and asks next.
LEMMA GivenFacts ==
  ASSUME NEW f \in Frame, NEW o \in Ids
  PROVE  /\ Given(f, o) \in Frame
         /\ Given(f, o).token = f.token /\ Given(f, o).previous = f.previous
         /\ Given(f, o).scope = f.scope /\ Given(f, o).args = f.args \cup {o}
<1>1. /\ f.args \cup {o} \in SUBSET Ids
      /\ f.next + 1 \in Nat
      /\ f.token \in Tokens /\ f.scope \in AllScopes
      /\ f.previous \in {"singleton", None}
  BY DEF Frame
<1> QED
  BY <1>1 DEF Given, Frame

(* An error leaves the factories up to the one that catches it as they     *)
(* were, with the lifetime in force that this one ran under.               *)
LEMMA UnwindFacts ==
  ASSUME TypeOK, NEW n \in 0 .. Len(frames), Unwind(n)
  PROVE  /\ frames' \in Seq(Frame) /\ Len(frames') = n
         /\ \A i \in 1 .. n : /\ frames'[i].token = frames[i].token
                              /\ frames'[i].scope = frames[i].scope
                              /\ frames'[i].args = frames[i].args
                              /\ frames'[i].previous = frames[i].previous
         /\ active' = ActiveAt(n) /\ active' \in {"singleton", None}
         /\ result' \in Instance
         /\ UNCHANGED <<registry, objects, cache, tracked, phase, left, log>>
<1>1. /\ frames \in Seq(Frame) /\ n \in Nat /\ n <= Len(frames)
      /\ \A i \in 1 .. Len(frames) : frames[i] \in Frame
  BY DEF TypeOK
<1>2. active' \in {"singleton", None}
  <2>1. CASE n = Len(frames)
    BY <2>1 DEF Unwind, ActiveAt, TypeOK
  <2>2. CASE n # Len(frames)
    <3>1. frames[n + 1] \in Frame
      BY <1>1, <2>2
    <3> QED
      BY <2>2, <3>1 DEF Unwind, ActiveAt, Frame
  <2> QED
    BY <2>1, <2>2
<1>3. /\ frames' \in Seq(Frame) /\ Len(frames') = n
      /\ \A i \in 1 .. n : /\ frames'[i].token = frames[i].token
                           /\ frames'[i].scope = frames[i].scope
                           /\ frames'[i].args = frames[i].args
                           /\ frames'[i].previous = frames[i].previous
  <2>1. CASE n = 0
    BY <2>1 DEF Unwind
  <2>2. CASE n # 0
    <3> DEFINE kept == SubSeq(frames, 1, n)
    <3>1. /\ kept \in Seq(Frame) /\ Len(kept) = n
          /\ \A i \in 1 .. n : kept[i] = frames[i]
      BY <1>1, <2>2
    <3> HIDE DEF kept
    <3>2. n \in 1 .. n /\ kept[n] \in Frame /\ kept[n].next + 1 \in Nat
      BY <1>1, <2>2, <3>1 DEF Frame
    <3> DEFINE g == [kept[n] EXCEPT !.next = @ + 1]
    <3>3. /\ g \in Frame /\ g.token = kept[n].token /\ g.scope = kept[n].scope
          /\ g.args = kept[n].args /\ g.previous = kept[n].previous
      BY <3>2 DEF Frame
    <3>4. frames' = [kept EXCEPT ![n] = g]
      BY <2>2, <3>1, <3>2 DEF Unwind, kept
    <3> HIDE DEF g
    <3>5. /\ frames' \in Seq(Frame) /\ Len(frames') = n
          /\ \A i \in 1 .. n : frames'[i] = IF i = n THEN g ELSE kept[i]
      BY <3>1, <3>2, <3>3, <3>4, ExceptSeq
    <3> QED
      BY <3>1, <3>3, <3>5
  <2> QED
    BY <2>1, <2>2
<1>4. result' \in Instance
  BY DEF Unwind, TypeOK, Instance
<1> QED
  BY <1>2, <1>3, <1>4 DEF Unwind

\* A factory returns one of the instances it may return, and has its number.
LEMMA ConstructReturns ==
  ASSUME TypeOK, Construct
  PROVE  /\ ~ Idle
         /\ Len(objects) \in Nat /\ Len(objects) + 1 \in Ids
         /\ \E p \in Ids : p \in Returnable(Top.token) /\ Returns(p)
<1>1. ~ Idle /\ Len(frames) \in Nat \ {0}
  BY StackFacts DEF Construct, Constructing
<1>2. objects \in Seq(Object) /\ Len(objects) \in Nat
  BY DEF TypeOK
<1>3. Len(objects) + 1 \in Ids
  BY <1>1, <1>2, RegistryAssumption DEF TypeOK, Ids
<1>4. ASSUME NEW o \in Made PROVE Inst(o) \in Ids
  <2>1. objects[o] \in Object
    BY <1>2 DEF Made
  <2> QED
    BY <2>1 DEF Inst, Object
<1>5. Returnable(Top.token) \subseteq Ids
  BY <1>3, <1>4 DEF Returnable
<1> QED
  BY <1>1, <1>2, <1>3, <1>5 DEF Construct

(* Handing an instance over keeps the stack a stack of frames.             *)
LEMMA DeliverType ==
  ASSUME NEW o \in Ids, NEW stack \in Seq(Frame), TypeOK, Deliver(o, stack)
  PROVE  frames' \in Seq(Frame) /\ Len(frames') = Len(stack)
         /\ result' \in Instance
<1>1. CASE stack = <<>>
  BY <1>1 DEF Deliver, Instance
<1>2. CASE stack # <<>>
  <2>1. Len(stack) \in 1 .. Len(stack) /\ stack[Len(stack)] \in Frame
    BY <1>2
  <2>2. Given(stack[Len(stack)], o) \in Frame
    BY <2>1, GivenFacts
  <2>3. frames' = [stack EXCEPT ![Len(stack)] = Given(stack[Len(stack)], o)]
        /\ result' = result
    BY <1>2 DEF Deliver
  <2>4. frames' \in Seq(Frame) /\ Len(frames') = Len(stack)
    BY <2>1, <2>2, <2>3, ExceptSeq
  <2> QED
    BY <2>3, <2>4 DEF TypeOK
<1> QED
  BY <1>1, <1>2

\* Every variable keeps its type: resolutions, disposals and the unwinding of
\* errors leave the container's maps and the stack of factories well formed.
THEOREM TypeCorrect == Spec => []TypeOK
<1> USE RegistryAssumption, RootIsScope
<1>1. Init => TypeOK
  BY DEF Init, TypeOK, Nothing, Instance
<1>2. TypeOK /\ [Next]_vars => TypeOK'
  <2> SUFFICES ASSUME TypeOK, [Next]_vars PROVE TypeOK'
    OBVIOUS
  <2>1. ASSUME NEW n \in 0 .. Len(frames), Unwind(n) PROVE TypeOK'
    BY <2>1, UnwindFacts DEF TypeOK, registry
  <2>2. ASSUME NEW s \in AllScopes, NEW t \in Tokens, Reuse(s, t) PROVE TypeOK'
    <3>1. Existing(s, t) \in Ids
      BY <2>2 DEF Reuse, Existing, TypeOK, Instance
    <3>2. Deliver(Existing(s, t), frames)
      BY <2>2 DEF Reuse
    <3>3. frames' \in Seq(Frame) /\ Len(frames') = Len(frames)
          /\ result' \in Instance
      BY <3>1, <3>2, DeliverType DEF TypeOK
    <3> QED
      BY <2>2, <3>3 DEF TypeOK, Reuse, registry
  <2>3. ASSUME NEW s \in AllScopes, NEW t \in Tokens, Enter(s, t) PROVE TypeOK'
    <3> DEFINE f == [token |-> t, scope |-> s, next |-> 1, args |-> {},
                     previous |-> active]
    <3>1. f \in Frame
      BY DEF TypeOK, Frame
    <3>2. frames' \in Seq(Frame) /\ Len(frames') = Len(frames) + 1
      BY <2>3, <3>1 DEF Enter, TypeOK
    <3>3. active' \in {"singleton", None}
      BY <2>3 DEF Enter, TypeOK
    <3> QED
      BY <2>3, <3>2, <3>3 DEF Enter, TypeOK, registry
  <2>4. ASSUME Construct PROVE TypeOK'
    <3> DEFINE t == Top.token
               s == Top.scope
               o == Len(objects) + 1
               owner == OwnerOf(t, s)
    <3>p. PICK p \in Ids : Returns(p)
      BY <2>4, ConstructReturns
    <3> DEFINE made == [token |-> t, scope |-> s, same |-> p,
                        refs |-> IF p = o THEN Top.args ELSE {},
                        under |-> active,
                        late |-> phase[Root] # "open"]
    <3>1. ~ Idle
      BY <2>4, ConstructReturns
    <3>2. /\ Top \in Frame /\ Popped \in Seq(Frame)
          /\ Len(Popped) = Len(frames) - 1 /\ Len(frames) \in Nat \ {0}
      BY <3>1, StackFacts
    <3>3. /\ t \in Tokens /\ s \in AllScopes /\ owner \in AllScopes
          /\ Top.args \in SUBSET Ids /\ Top.previous \in {"singleton", None}
      BY <3>2 DEF Frame, OwnerOf
    <3>4. o \in Ids
      BY <3>2 DEF TypeOK, Ids
    <3>5. made \in Object
      BY <3>3 DEF Object, TypeOK
    <3>6. objects' = Append(objects, made)
      BY <3>p DEF Returns
    <3>7. objects' \in Seq(Object) /\ Len(objects') = Len(objects) + 1
      BY <3>5, <3>6 DEF TypeOK
    <3>8. frames' \in Seq(Frame) /\ Len(frames') = Len(frames) - 1
          /\ result' \in Instance
      <4>1. Deliver(o, Popped)
        BY <3>p DEF Returns
      <4> QED
        BY <3>2, <3>4, <4>1, DeliverType
    <3>9. singletons' \in [Tokens -> Instance]
      BY <3>p, <3>3, <3>4 DEF Returns, TypeOK, Instance
    <3>10. cache' \in [AllScopes -> [Tokens -> Instance]]
      <4>1. CASE Lifetime[t] = "scoped"
        <5>1. cache' = [cache EXCEPT ![s][t] = o]
          BY <3>p, <4>1 DEF Returns
        <5> QED
          BY <3>3, <3>4, <5>1 DEF TypeOK, Instance
      <4>2. CASE Lifetime[t] # "scoped"
        BY <3>p, <4>2 DEF Returns, TypeOK
      <4> QED
        BY <4>1, <4>2
    <3>11. /\ tracked' \in [AllScopes -> Seq(Ids)]
           /\ \A q \in AllScopes : left[q] <= Len(tracked'[q])
      <4>1. CASE Tracks(p, t, owner)
        <5>1. tracked' = [tracked EXCEPT ![owner] = Append(tracked[owner], o)]
          BY <3>p, <4>1 DEF Returns
        <5>2. /\ tracked[owner] \in Seq(Ids)
              /\ Append(tracked[owner], o) \in Seq(Ids)
              /\ Len(Append(tracked[owner], o)) = Len(tracked[owner]) + 1
              /\ Len(tracked[owner]) \in Nat
          BY <3>3, <3>4 DEF TypeOK
        <5> HIDE DEF owner, o
        <5> QED
          BY <3>3, <5>1, <5>2 DEF TypeOK
      <4>2. CASE ~ Tracks(p, t, owner)
        BY <3>p, <4>2 DEF Returns, TypeOK
      <4> QED
        BY <4>1, <4>2
    <3>12. Len(objects') + Len(frames') <= MaxObjects
      BY <3>2, <3>7, <3>8 DEF TypeOK
    <3>13. /\ UNCHANGED <<registrations, phase, left, log>>
           /\ active' = Top.previous
      BY <3>p DEF Returns
    <3> HIDE DEF t, s, o, owner, made
    <3> QED
      BY <3>3, <3>7, <3>8, <3>9, <3>10, <3>11, <3>12, <3>13 DEF TypeOK
  <2>5. ASSUME NEW t \in Tokens, Register(t) PROVE TypeOK'
    BY <2>5 DEF TypeOK, Register, NoAnswer, Instance
  <2>6. ASSUME NEW s \in Scopes, CreateScope(s) PROVE TypeOK'
    BY <2>6 DEF TypeOK, CreateScope, registry, NoAnswer, Instance
  <2>7. ASSUME NEW s \in AllScopes, NEW i \in 0 .. Len(tracked[s]),
               DisposeFrom(s, i), NoAnswer, UNCHANGED <<registry, objects>>
        PROVE TypeOK'
    <3>1. CASE i > 0
      <4>1. tracked[s] \in Seq(Ids) /\ i \in 1 .. Len(tracked[s])
        BY <3>1 DEF TypeOK
      <4>2. tracked[s][i] \in Ids
        BY <4>1, ElementOfSeq
      <4>3. /\ phase' = [phase EXCEPT ![s] = "closing"]
            /\ left' = [left EXCEPT ![s] = i - 1]
            /\ log' = Append(log, tracked[s][i])
            /\ UNCHANGED <<cache, tracked>>
        BY <2>7, <3>1 DEF DisposeFrom, Visit, Close
      <4>4. log' \in Seq(Ids)
        BY <4>2, <4>3 DEF TypeOK
      <4>5. phase' \in [AllScopes -> {"unborn", "open", "closing", "closed"}]
        BY <4>3 DEF TypeOK
      <4>6. i - 1 \in Nat /\ i - 1 <= Len(tracked[s])
        BY <3>1
      <4>7. left' \in [AllScopes -> Nat]
            /\ \A q \in AllScopes : left'[q] <= Len(tracked[q])
        BY <4>3, <4>6 DEF TypeOK
      <4> QED
        BY <2>7, <4>3, <4>4, <4>5, <4>7 DEF TypeOK, registry, NoAnswer,
           Instance
    <3>2. CASE ~ (i > 0)
      <4>1. /\ phase' = [phase EXCEPT ![s] = "closed"]
            /\ left' = [left EXCEPT ![s] = 0]
            /\ cache' = [cache EXCEPT ![s] = Nothing]
            /\ tracked' = [tracked EXCEPT ![s] = <<>>]
            /\ UNCHANGED log
        BY <2>7, <3>2 DEF DisposeFrom, Visit, Close
      <4>2. /\ phase' \in [AllScopes -> {"unborn", "open", "closing", "closed"}]
            /\ left' \in [AllScopes -> Nat]
        BY <4>1 DEF TypeOK
      <4>3. Nothing \in [Tokens -> Instance]
        BY DEF Nothing, Instance
      <4>4. cache' \in [AllScopes -> [Tokens -> Instance]]
        BY <4>1, <4>3 DEF TypeOK
      <4>5. tracked' \in [AllScopes -> Seq(Ids)]
        BY <4>1 DEF TypeOK
      <4>6. \A q \in AllScopes : left'[q] <= Len(tracked'[q])
        BY <4>1 DEF TypeOK
      <4> QED
        BY <2>7, <4>1, <4>2, <4>4, <4>5, <4>6 DEF TypeOK, registry,
           NoAnswer, Instance
    <3> QED
      BY <3>1, <3>2
  <2>8. ASSUME NEW s \in AllScopes, Dispose(s) \/ DisposeNext(s) PROVE TypeOK'
    <3>1. Len(tracked[s]) \in 0 .. Len(tracked[s])
          /\ left[s] \in 0 .. Len(tracked[s])
      BY DEF TypeOK
    <3> QED
      BY <2>7, <2>8, <3>1 DEF Dispose, DisposeNext
  <2>9. CASE ClearContainer
    BY <2>9 DEF TypeOK, ClearContainer, NoAnswer, Nothing, Instance
  <2>10. CASE UNCHANGED vars
    BY <2>10 DEF TypeOK, vars, registry, NoAnswer
  <2> QED
    BY <2>1, <2>2, <2>3, <2>4, <2>5, <2>6, <2>8, <2>9, <2>10
    DEF Next, Refuse, FactoryThrows
<1> QED
  BY <1>1, <1>2, PTL DEF Spec

-----------------------------------------------------------------------------
(* Handing an instance over adds it to what the top factory was given and  *)
(* changes nothing else of the stack.                                      *)
LEMMA DeliverEffect ==
  ASSUME NEW o \in Ids, NEW stack \in Seq(Frame), Deliver(o, stack)
  PROVE  /\ Len(frames') = Len(stack)
         /\ \A i \in 1 .. Len(stack) :
              /\ frames'[i].token = stack[i].token
              /\ frames'[i].previous = stack[i].previous
              /\ frames'[i].scope = stack[i].scope
              /\ i # Len(stack) => frames'[i].args = stack[i].args
              /\ i = Len(stack) => frames'[i].args = stack[i].args \cup {o}
<1>1. CASE stack = <<>>
  BY <1>1 DEF Deliver
<1>2. CASE stack # <<>>
  <2>1. Len(stack) \in 1 .. Len(stack) /\ stack[Len(stack)] \in Frame
    BY <1>2
  <2> DEFINE g == Given(stack[Len(stack)], o)
  <2>2. /\ g \in Frame /\ g.token = stack[Len(stack)].token
        /\ g.previous = stack[Len(stack)].previous
        /\ g.scope = stack[Len(stack)].scope
        /\ g.args = stack[Len(stack)].args \cup {o}
    BY <2>1, GivenFacts
  <2>3. frames' = [stack EXCEPT ![Len(stack)] = g]
    BY <1>2 DEF Deliver
  <2> HIDE DEF g
  <2>4. /\ Len(frames') = Len(stack)
        /\ \A i \in 1 .. Len(stack) :
             frames'[i] = IF i = Len(stack) THEN g ELSE stack[i]
    BY <2>1, <2>2, <2>3, ExceptSeq
  <2> QED
    BY <2>2, <2>4
<1> QED
  BY <1>1, <1>2

(* A stack whose frames were given what suits them stays so when the top   *)
(* one is given an instance that suits the lifetime in force.              *)
LEMMA DeliverKeepsDiscipline ==
  ASSUME NEW o \in Ids, NEW stack \in Seq(Frame), Deliver(o, stack),
         o \in Made',
         active' = "singleton" => /\ Lifetime[objects'[o].token] # "scoped"
                                  /\ objects'[o].under = "singleton",
         \A i \in 1 .. Len(stack) :
           LET a == IF i = Len(stack) THEN active' ELSE stack[i + 1].previous
           IN  /\ stack[i].args \subseteq Made'
               /\ a = IF Lifetime[stack[i].token] = "singleton"
                      THEN "singleton" ELSE stack[i].previous
               /\ stack[i].previous = "singleton" =>
                    Lifetime[stack[i].token] # "scoped"
               /\ a = "singleton" =>
                    \A d \in stack[i].args :
                      /\ Lifetime[objects'[d].token] # "scoped"
                      /\ objects'[d].under = "singleton"
  PROVE  \A i \in 1 .. Len(frames') : FrameDiscipline(i)'
<1> SUFFICES ASSUME NEW i \in 1 .. Len(frames') PROVE FrameDiscipline(i)'
  OBVIOUS
<1>1. Len(frames') = Len(stack) /\ Len(stack) \in Nat /\ i \in 1 .. Len(stack)
  BY DeliverEffect
<1>2. /\ frames'[i].token = stack[i].token
      /\ frames'[i].previous = stack[i].previous
      /\ i # Len(stack) => frames'[i].args = stack[i].args
      /\ i = Len(stack) => frames'[i].args = stack[i].args \cup {o}
  BY <1>1, DeliverEffect
<1>3. ActiveAt(i)' = IF i = Len(stack) THEN active' ELSE stack[i + 1].previous
  <2>1. CASE i = Len(stack)
    BY <1>1, <2>1 DEF ActiveAt
  <2>2. CASE i # Len(stack)
    <3>1. i + 1 \in 1 .. Len(stack)
      BY <1>1, <2>2
    <3>2. frames'[i + 1].previous = stack[i + 1].previous
      BY <3>1, DeliverEffect
    <3> QED
      BY <1>1, <2>2, <3>2 DEF ActiveAt
  <2> QED
    BY <2>1, <2>2
<1>4. frames'[i].args \subseteq Made'
  BY <1>1, <1>2
<1>5. ActiveAt(i)' = "singleton" => Uncaptive(frames[i].args)'
  BY <1>1, <1>2, <1>3 DEF Uncaptive, Pinned, LifetimeOf
<1> QED
  BY <1>1, <1>2, <1>3, <1>4, <1>5 DEF FrameDiscipline

(* The lifetime in force is that of the stack of factories, and what each  *)
(* was given suits it.                                                     *)
LEMMA StackCorrect == Spec => [](StackDiscipline /\ CaptiveFree)
<1> DEFINE Inv == StackDiscipline /\ CaptiveFree
<1> USE RegistryAssumption, RootIsScope
<1>1. Init => Inv
  BY DEF Init, StackDiscipline, EntriesMade, Pinned, CaptiveFree, Made, Idle, Nothing
<1>2. TypeOK /\ TypeOK' /\ Inv /\ [Next]_vars => Inv'
  <2> SUFFICES ASSUME TypeOK, TypeOK', Inv, [Next]_vars PROVE Inv'
    OBVIOUS
  \* Steps that construct nothing and leave the stack alone.
  <2>1. ASSUME UNCHANGED <<objects, frames, active>>,
               UNCHANGED singletons \/ singletons' = Nothing,
               \A s \in AllScopes : cache'[s] = cache[s] \/ cache'[s] = Nothing
        PROVE Inv'
    <3>1. CaptiveFree'
      BY <2>1 DEF CaptiveFree, Pinned, Made, LifetimeOf
    <3>2. EntriesMade'
      <4>1. Made' = Made /\ objects' = objects
        BY <2>1 DEF Made
      <4>2. ASSUME NEW t \in Tokens, singletons'[t] # None
            PROVE  /\ singletons'[t] \in Made' /\ objects'[singletons'[t]].token = t
                   /\ objects'[singletons'[t]].under = "singleton"
        <5>1. singletons'[t] = singletons[t]
          BY <2>1, <4>2 DEF Nothing
        <5> QED
          BY <4>1, <4>2, <5>1 DEF StackDiscipline, EntriesMade, Pinned
      <4>3. ASSUME NEW s \in AllScopes, NEW t \in Tokens, cache'[s][t] # None
            PROVE  cache'[s][t] \in Made'
        <5>1. cache'[s][t] = cache[s][t]
          BY <2>1, <4>3 DEF Nothing
        <5> QED
          BY <4>1, <4>3, <5>1 DEF StackDiscipline, EntriesMade
      <4> QED
        BY <4>2, <4>3 DEF EntriesMade, Pinned
    <3>3. \A o \in Made' : objects'[o].refs \subseteq Made'
      BY <2>1 DEF StackDiscipline, Made
    <3>4. ASSUME NEW i \in 1 .. Len(frames) PROVE FrameDiscipline(i)'
      BY <2>1 DEF StackDiscipline, FrameDiscipline, Uncaptive, Made,
         Pinned, LifetimeOf, ActiveAt
    <3> QED
      BY <2>1, <3>1, <3>2, <3>3, <3>4 DEF StackDiscipline, Idle
  <2>2. ASSUME NEW n \in 0 .. Len(frames), Unwind(n) PROVE Inv'
    <3>1. /\ frames' \in Seq(Frame) /\ Len(frames') = n /\ n \in Nat
          /\ Len(frames) \in Nat /\ n <= Len(frames)
          /\ \A i \in 1 .. n : /\ frames'[i].token = frames[i].token
                               /\ frames'[i].args = frames[i].args
                               /\ frames'[i].previous = frames[i].previous
          /\ active' = ActiveAt(n)
          /\ UNCHANGED <<objects, singletons, cache>>
      BY <2>2, UnwindFacts DEF TypeOK, registry
    <3>2. ASSUME NEW i \in 1 .. n PROVE FrameDiscipline(i)'
      <4>1. FrameDiscipline(i) /\ i \in 1 .. Len(frames)
        BY <3>1 DEF StackDiscipline
      <4>2. ActiveAt(i)' = ActiveAt(i)
        <5>1. CASE i = n
          BY <3>1, <5>1 DEF ActiveAt
        <5>2. CASE i # n
          <6>1. i + 1 \in 1 .. n /\ i # Len(frames)
            BY <3>1, <5>2
          <6> QED
            BY <3>1, <5>2, <6>1 DEF ActiveAt
        <5> QED
          BY <5>1, <5>2
      <4> QED
        BY <3>1, <4>1, <4>2 DEF FrameDiscipline, Uncaptive, Pinned, LifetimeOf, Made
    <3>3. IF Idle' THEN active' = None ELSE frames'[1].previous = None
      <4>1. CASE n = 0
        <5>1. active' = None
          <6>1. CASE Idle
            BY <3>1, <4>1, <6>1 DEF ActiveAt, StackDiscipline, Idle
          <6>2. CASE ~ Idle
            BY <3>1, <4>1, <6>2 DEF ActiveAt, StackDiscipline, Idle
          <6> QED
            BY <6>1, <6>2
        <5> QED
          BY <3>1, <4>1, <5>1 DEF Idle
      <4>2. CASE n # 0
        <5>1. 1 \in 1 .. n /\ frames # <<>> /\ frames' # <<>>
          BY <3>1, <4>2
        <5> QED
          BY <3>1, <5>1 DEF StackDiscipline, Idle
      <4> QED
        BY <4>1, <4>2
    <3>4. CaptiveFree' /\ EntriesMade'
          /\ \A p \in Made' : objects'[p].refs \subseteq Made'
      BY <3>1 DEF StackDiscipline, CaptiveFree, EntriesMade, Pinned, Made, LifetimeOf
    <3> QED
      BY <3>1, <3>2, <3>3, <3>4 DEF StackDiscipline
  <2>3. ASSUME NEW s \in AllScopes, NEW t \in Tokens, Reuse(s, t) PROVE Inv'
    <3> DEFINE o == Existing(s, t)
    <3>1. /\ o # None /\ Deliver(o, frames) /\ ~ Rejects(s, t) /\ Asks(s, t)
          /\ UNCHANGED <<objects, singletons, cache, active>>
      BY <2>3 DEF Reuse, registry
    <3>2. o \in Ids /\ o \in Made
      BY <3>1 DEF Existing, TypeOK, Instance, StackDiscipline, EntriesMade, Pinned
    <3>3. active = "singleton" => LifetimeOf(o) # "scoped" /\ objects[o].under = "singleton"
      BY <3>1 DEF Existing, Rejects, StackDiscipline, EntriesMade, Pinned, LifetimeOf
    <3>4. frames \in Seq(Frame)
      BY DEF TypeOK
    <3> HIDE DEF o
    <3>5. \A i \in 1 .. Len(frames') : FrameDiscipline(i)'
      <4>1. ASSUME NEW i \in 1 .. Len(frames)
            PROVE  LET a == IF i = Len(frames) THEN active'
                                               ELSE frames[i + 1].previous
                   IN  /\ frames[i].args \subseteq Made'
                       /\ a = IF Lifetime[frames[i].token] = "singleton"
                              THEN "singleton" ELSE frames[i].previous
                       /\ frames[i].previous = "singleton" =>
                            Lifetime[frames[i].token] # "scoped"
                       /\ a = "singleton" =>
                            \A d \in frames[i].args :
                              /\ Lifetime[objects'[d].token] # "scoped"
                              /\ objects'[d].under = "singleton"
        BY <3>1 DEF StackDiscipline, FrameDiscipline, ActiveAt, Uncaptive,
           Pinned, LifetimeOf, Made
      <4> QED
        BY <3>1, <3>2, <3>3, <3>4, <4>1, DeliverKeepsDiscipline
        DEF Made, Pinned, LifetimeOf
    <3>6. IF Idle' THEN active' = None ELSE frames'[1].previous = None
      <4>1. CASE frames = <<>>
        BY <3>1, <4>1 DEF StackDiscipline, Idle, Deliver
      <4>2. CASE frames # <<>>
        <5>1. 1 \in 1 .. Len(frames) /\ Len(frames') = Len(frames)
          BY <3>1, <3>2, <3>4, <4>2, DeliverEffect
        <5>2. frames'[1].previous = frames[1].previous /\ frames' # <<>>
          BY <3>1, <3>2, <3>4, <5>1, DeliverEffect
        <5> QED
          BY <4>2, <5>2 DEF StackDiscipline, Idle
      <4> QED
        BY <4>1, <4>2
    <3>7. CaptiveFree' /\ EntriesMade'
          /\ \A p \in Made' : objects'[p].refs \subseteq Made'
      BY <3>1 DEF StackDiscipline, CaptiveFree, EntriesMade, Pinned, Made, LifetimeOf
    <3> QED
      BY <3>5, <3>6, <3>7 DEF StackDiscipline
  <2>4. ASSUME NEW s \in AllScopes, NEW t \in Tokens, Enter(s, t) PROVE Inv'
    <3> DEFINE f == [token |-> t, scope |-> s, next |-> 1, args |-> {},
                     previous |-> active]
               n == Len(frames)
    <3>1. /\ frames' = Append(frames, f)
          /\ active' = IF Lifetime[t] = "singleton" THEN "singleton" ELSE active
          /\ UNCHANGED <<objects, singletons, cache>>
          /\ ~ (active = "singleton" /\ Lifetime[t] = "scoped")
      BY <2>4 DEF Enter, registry, Rejects
    <3>2. /\ n \in Nat /\ Len(frames') = n + 1
          /\ \A i \in 1 .. n : frames'[i] = frames[i]
          /\ frames'[n + 1] = f
      BY <3>1 DEF TypeOK
    <3>a. /\ frames'[n + 1].token = t /\ frames'[n + 1].args = {}
          /\ frames'[n + 1].previous = active
      BY <3>2
    <3> HIDE DEF f, n
    <3>3. ASSUME NEW i, i = n + 1 PROVE FrameDiscipline(i)'
      <4>1. ActiveAt(i)' = active'
        BY <3>2, <3>3 DEF ActiveAt
      <4>2. /\ frames'[i].token = t /\ frames'[i].args = {}
            /\ frames'[i].previous = active
        BY <3>a, <3>3
      <4> QED
        BY <3>1, <4>1, <4>2 DEF FrameDiscipline, Uncaptive, TypeOK
    <3>4. ASSUME NEW i \in 1 .. n PROVE FrameDiscipline(i)'
      <4>1. FrameDiscipline(i)
        BY DEF StackDiscipline, n
      <4>2. ActiveAt(i)' = ActiveAt(i)
        <5>1. CASE i = n
          BY <3>2, <3>a, <5>1 DEF ActiveAt, n
        <5>2. CASE i # n
          <6>1. i + 1 \in 1 .. n /\ i # n + 1
            BY <3>2, <5>2
          <6> QED
            BY <3>2, <5>2, <6>1 DEF ActiveAt, n
        <5> QED
          BY <5>1, <5>2
      <4>3. frames'[i] = frames[i]
        BY <3>2
      <4> QED
        BY <3>1, <4>1, <4>2, <4>3 DEF FrameDiscipline, Uncaptive, Pinned, LifetimeOf, Made
    <3>5. \A i \in 1 .. Len(frames') : FrameDiscipline(i)'
      <4>1. \A i \in 1 .. Len(frames') : i \in 1 .. n \/ i = n + 1
        BY <3>2
      <4> QED
        BY <3>3, <3>4, <4>1
    <3>6. IF Idle' THEN active' = None ELSE frames'[1].previous = None
      <4>1. CASE n = 0
        <5>1. Idle
          BY <4>1 DEF Idle, TypeOK, n
        <5>2. active = None /\ 1 = n + 1
          BY <4>1, <5>1 DEF StackDiscipline
        <5>3. ~ Idle'
          <6>a. Len(frames') = 1
            BY <3>2, <4>1
          <6> QED
            BY <6>a, OneIsSome DEF Idle
        <5>4. frames'[1].previous = None
          BY <3>a, <5>2
        <5> QED
          BY <5>3, <5>4
      <4>2. CASE n # 0
        <5>1. 1 \in 1 .. n /\ ~ Idle
          BY <3>2, <4>2 DEF Idle, n
        <5> QED
          BY <3>2, <5>1 DEF StackDiscipline, Idle, n
      <4> QED
        BY <4>1, <4>2
    <3>7. CaptiveFree' /\ EntriesMade'
          /\ \A p \in Made' : objects'[p].refs \subseteq Made'
      BY <3>1 DEF StackDiscipline, CaptiveFree, EntriesMade, Pinned, Made, LifetimeOf
    <3> QED
      BY <3>5, <3>6, <3>7 DEF StackDiscipline
  <2>5. ASSUME Construct PROVE Inv'
    <3> DEFINE t == Top.token
               s == Top.scope
               n == Len(frames)
               o == Len(objects) + 1
    <3>p. PICK q \in Ids : Returns(q)
      BY <2>5, ConstructReturns
    <3> DEFINE made == [token |-> t, scope |-> s, same |-> q,
                        refs |-> IF q = o THEN Top.args ELSE {},
                        under |-> active,
                        late |-> phase[Root] # "open"]
    <3>1. ~ Idle
      BY <2>5, ConstructReturns
    <3>2. /\ n \in Nat \ {0} /\ Top \in Frame /\ Top = frames[n]
          /\ Popped \in Seq(Frame) /\ Len(Popped) = n - 1
          /\ \A i \in 1 .. n - 1 : Popped[i] = frames[i]
      BY <3>1, StackFacts
    <3>3. /\ objects' = Append(objects, made)
          /\ active' = Top.previous
          /\ Deliver(o, Popped)
      BY <3>p DEF Returns
    <3>4. /\ singletons' = IF Lifetime[t] = "singleton"
                          THEN [singletons EXCEPT ![t] = o] ELSE singletons
          /\ cache' = IF Lifetime[t] = "scoped"
                     THEN [cache EXCEPT ![s][t] = o] ELSE cache
      BY <3>p DEF Returns
    <3>5. FrameDiscipline(n)
      BY <3>2 DEF StackDiscipline
    <3>6. /\ Top.args \subseteq Made
          /\ active = IF Lifetime[t] = "singleton" THEN "singleton"
                                                  ELSE Top.previous
          /\ Top.previous = "singleton" => Lifetime[t] # "scoped"
          /\ active = "singleton" => Uncaptive(Top.args)
      BY <3>2, <3>5 DEF FrameDiscipline, ActiveAt
    <3>7. /\ o \in Ids /\ Made' = Made \cup {o} /\ o \notin Made
          /\ objects'[o] = made
          /\ \A p \in Made : objects'[p] = objects[p]
      <4>1. objects \in Seq(Object) /\ Len(objects) \in Nat
        BY DEF TypeOK
      <4>2. /\ Len(objects') = o /\ objects'[o] = made
            /\ \A p \in 1 .. Len(objects) : objects'[p] = objects[p]
        BY <3>3, <4>1
      <4>3. o \in Ids
        BY <3>2, <4>1 DEF TypeOK, Ids
      <4> QED
        BY <4>1, <4>2, <4>3 DEF Made
    <3>8. t \in Tokens /\ s \in AllScopes
      <4>1. Top \in Frame
        BY <3>2
      <4> QED
        BY <4>1 DEF Frame
    <3>9. /\ objects'[o].token = t /\ objects'[o].refs \subseteq Top.args
          /\ objects'[o].under = active
      BY <3>7
    <3> HIDE DEF t, s, o, n, made
    <3>10. CaptiveFree'
      BY <3>6, <3>7, <3>9 DEF CaptiveFree, Uncaptive, Pinned, LifetimeOf,
         StackDiscipline
    <3>11. \A p \in Made' : objects'[p].refs \subseteq Made'
      BY <3>6, <3>7, <3>9 DEF StackDiscipline
    <3>12. EntriesMade'
      <4>1. ASSUME NEW u \in Tokens, singletons'[u] # None
            PROVE  /\ singletons'[u] \in Made'
                   /\ objects'[singletons'[u]].token = u
                   /\ objects'[singletons'[u]].under = "singleton"
        BY <3>4, <3>6, <3>7, <3>9, <4>1 DEF TypeOK, StackDiscipline, EntriesMade, Pinned
      <4>2. ASSUME NEW r \in AllScopes, NEW u \in Tokens, cache'[r][u] # None
            PROVE  cache'[r][u] \in Made'
        <5>1. cache'[r][u] = cache[r][u] \/ cache'[r][u] = o
          BY <3>4, <3>8 DEF TypeOK
        <5> QED
          BY <3>7, <4>2, <5>1 DEF StackDiscipline, EntriesMade, Pinned
      <4> QED
        BY <4>1, <4>2 DEF EntriesMade, Pinned
    <3>13. \A i \in 1 .. Len(frames') : FrameDiscipline(i)'
      <4>1. ASSUME NEW i \in 1 .. Len(Popped)
            PROVE  LET a == IF i = Len(Popped) THEN active'
                                               ELSE Popped[i + 1].previous
                   IN  /\ Popped[i].args \subseteq Made'
                       /\ a = IF Lifetime[Popped[i].token] = "singleton"
                              THEN "singleton" ELSE Popped[i].previous
                       /\ Popped[i].previous = "singleton" =>
                            Lifetime[Popped[i].token] # "scoped"
                       /\ a = "singleton" =>
                            \A d \in Popped[i].args :
                              /\ Lifetime[objects'[d].token] # "scoped"
                              /\ objects'[d].under = "singleton"
        <5>1. i \in 1 .. n /\ i # n /\ Popped[i] = frames[i]
          BY <3>2
        <5>2. FrameDiscipline(i)
          BY <5>1 DEF StackDiscipline, n
        <5>3. ActiveAt(i) = IF i = Len(Popped) THEN active'
                                               ELSE Popped[i + 1].previous
          <6>1. CASE i = Len(Popped)
            BY <3>2, <3>3, <5>1, <6>1 DEF ActiveAt, n
          <6>2. CASE i # Len(Popped)
            <7>1. i + 1 \in 1 .. n - 1 /\ Popped[i + 1] = frames[i + 1]
              BY <3>2, <6>2
            <7> QED
              BY <5>1, <6>2, <7>1 DEF ActiveAt, n
          <6> QED
            BY <6>1, <6>2
        <5> QED
          BY <3>7, <5>1, <5>2, <5>3 DEF FrameDiscipline, Uncaptive, Pinned, LifetimeOf
      <4>2. active' = "singleton" => /\ Lifetime[objects'[o].token] # "scoped"
                                     /\ objects'[o].under = "singleton"
        BY <3>3, <3>6, <3>9
      <4>3. o \in Made'
        BY <3>7
      <4> QED
        BY <3>2, <3>3, <3>7, <4>1, <4>2, <4>3, DeliverKeepsDiscipline
    <3>14. IF Idle' THEN active' = None ELSE frames'[1].previous = None
      <4>1. frames[1].previous = None
        BY <3>1 DEF StackDiscipline
      <4>2. CASE n = 1
        <5>1. Popped = <<>>
          BY <3>2, <4>2
        <5> QED
          BY <3>2, <3>3, <4>1, <4>2, <5>1 DEF Deliver, Idle
      <4>3. CASE n # 1
        <5>1. 1 \in 1 .. Len(Popped) /\ Popped[1] = frames[1]
          BY <3>2, <4>3
        <5>2. Len(frames') = Len(Popped) /\ frames'[1].previous = Popped[1].previous
          BY <3>2, <3>3, <3>7, <5>1, DeliverEffect
        <5>3. ~ Idle'
          BY <5>1, <5>2 DEF Idle
        <5> QED
          BY <4>1, <5>1, <5>2, <5>3
      <4> QED
        BY <4>2, <4>3
    <3> QED
      BY <3>10, <3>11, <3>12, <3>13, <3>14 DEF StackDiscipline
  <2>6. ASSUME NEW t \in Tokens, Register(t) PROVE Inv'
    BY <2>1, <2>6 DEF Register, NoAnswer
  <2>7. ASSUME NEW s \in Scopes, CreateScope(s) PROVE Inv'
    BY <2>1, <2>7 DEF CreateScope, registry, NoAnswer
  <2>8. ASSUME NEW s \in AllScopes, Dispose(s) \/ DisposeNext(s) PROVE Inv'
    <3>1. UNCHANGED cache \/ cache' = [cache EXCEPT ![s] = Nothing]
      BY <2>8 DEF Dispose, DisposeNext, DisposeFrom, Visit, Close
    <3>2. \A q \in AllScopes : cache'[q] = cache[q] \/ cache'[q] = Nothing
      BY <3>1 DEF TypeOK
    <3>3. UNCHANGED <<objects, frames, active, singletons>>
      BY <2>8 DEF Dispose, DisposeNext, registry, NoAnswer
    <3> QED
      BY <2>1, <3>2, <3>3
  <2>9. CASE ClearContainer
    BY <2>1, <2>9 DEF ClearContainer, NoAnswer
  <2>10. CASE UNCHANGED vars
    BY <2>1, <2>10 DEF vars, registry, NoAnswer
  <2> QED
    BY <2>2, <2>3, <2>4, <2>5, <2>6, <2>7, <2>8, <2>9, <2>10
    DEF Next, Refuse, FactoryThrows
<1> QED
  BY <1>1, <1>2, TypeCorrect, PTL DEF Spec

(* No chain of transients smuggles a scoped instance into a singleton: the *)
(* captive check of internalResolveInternal is complete, although it only  *)
(* looks at the lifetime in force and not at the whole stack.              *)
THEOREM NoCaptiveDependencies == Spec => []CaptiveFree
BY StackCorrect, PTL

-----------------------------------------------------------------------------
(* What Construct does: the top factory is popped, what it returns takes   *)
(* the next number and goes to the factory that asked for it.              *)
LEMMA ConstructEffect ==
  ASSUME TypeOK, Construct, NEW p \in Ids, Returns(p)
  PROVE  /\ Len(frames) \in Nat \ {0}
         /\ Top = frames[Len(frames)]
         /\ Top.token \in Tokens /\ Top.scope \in AllScopes
         /\ Len(objects) \in Nat
         /\ Len(objects) + 1 \in Ids
         /\ Made' = Made \cup {Len(objects) + 1}
         /\ objects'[Len(objects) + 1].token = Top.token
         /\ objects'[Len(objects) + 1].scope = Top.scope
         /\ objects'[Len(objects) + 1].same = p
         /\ objects'[Len(objects) + 1].refs =
              IF p = Len(objects) + 1 THEN Top.args ELSE {}
         /\ objects'[Len(objects) + 1].late = (phase[Root] # "open")
         /\ \A r \in Made : objects'[r] = objects[r]
         /\ Len(frames') = Len(frames) - 1
         /\ \A i \in 1 .. Len(frames') :
              /\ frames'[i].token = frames[i].token
              /\ frames'[i].scope = frames[i].scope
              /\ \A d \in frames'[i].args :
                   d \in frames[i].args \/ d = Len(objects) + 1
<1> DEFINE n == Len(frames)
           o == Len(objects) + 1
           made == [token |-> Top.token, scope |-> Top.scope, same |-> p,
                    refs |-> IF p = o THEN Top.args ELSE {},
                    under |-> active, late |-> phase[Root] # "open"]
<1>1. /\ n \in Nat \ {0} /\ Top \in Frame /\ Top = frames[n]
      /\ Popped \in Seq(Frame) /\ Len(Popped) = n - 1
      /\ \A i \in 1 .. n - 1 : Popped[i] = frames[i]
  BY StackFacts DEF Construct, Constructing
<1>2. objects' = Append(objects, made) /\ Deliver(o, Popped)
  BY DEF Returns
<1>3. objects \in Seq(Object) /\ Len(objects) \in Nat
  BY DEF TypeOK
<1>4. /\ Len(objects') = o /\ objects'[o] = made
      /\ \A r \in 1 .. Len(objects) : objects'[r] = objects[r]
  BY <1>2, <1>3
<1>5. o \in Ids
  BY <1>1, <1>3, RegistryAssumption DEF TypeOK, Ids, n, o
<1>6. /\ objects'[o].token = Top.token /\ objects'[o].scope = Top.scope
      /\ objects'[o].same = p
      /\ objects'[o].refs = IF p = o THEN Top.args ELSE {}
      /\ objects'[o].late = (phase[Root] # "open")
  BY <1>4
<1>7. Made' = Made \cup {o} /\ \A r \in Made : objects'[r] = objects[r]
  BY <1>3, <1>4 DEF Made
<1>8. Top.token \in Tokens /\ Top.scope \in AllScopes
  BY <1>1 DEF Frame
<1> HIDE DEF o, made, n
<1>9. /\ Len(frames') = n - 1
      /\ \A i \in 1 .. n - 1 :
           /\ frames'[i].token = frames[i].token
           /\ frames'[i].scope = frames[i].scope
           /\ frames'[i].args \in {frames[i].args, frames[i].args \cup {o}}
  BY <1>1, <1>2, <1>5, DeliverEffect
<1> QED
  BY <1>1, <1>3, <1>5, <1>6, <1>7, <1>8, <1>9 DEF n, o

-----------------------------------------------------------------------------
\* What is made in a scope refers to no scoped instance of another scope.
RefsOwned ==
  \A o \in Made : \A d \in objects[o].refs :
    LifetimeOf(d) = "scoped" => objects[d].scope = objects[o].scope

\* What a scope answers with was made, and if it is scoped, in that scope.
LEMMA ExistingOwned ==
  ASSUME TypeOK, EntriesMade, EntriesOwned,
         NEW s \in AllScopes, NEW t \in Tokens, Existing(s, t) # None
  PROVE  /\ Existing(s, t) \in Ids /\ Existing(s, t) \in Made
         /\ objects[Existing(s, t)].token = t
         /\ Lifetime[t] = "scoped" => objects[Existing(s, t)].scope = s
BY DEF Existing, TypeOK, Instance, EntriesMade, EntriesOwned

\* The factories of one resolution run in one open scope, each for something
\* that scope does not have yet, and they are given what belongs to it: whether
\* the resolution ends with an answer or with an error.
LEMMA ResolutionCorrect ==
  Spec => [](ResolutionDiscipline /\ EntriesOwned /\ RefsOwned)
<1> DEFINE Inv == ResolutionDiscipline /\ EntriesOwned /\ RefsOwned
<1> USE RegistryAssumption, RootIsScope
<1>1. Init => Inv
  BY DEF Init, ResolutionDiscipline, EntriesOwned, RefsOwned, Made, Nothing
<1>2. (TypeOK /\ TypeOK') /\ (StackDiscipline /\ StackDiscipline') /\ Inv
        /\ [Next]_vars
      => Inv'
  <2> SUFFICES ASSUME TypeOK, TypeOK', StackDiscipline, StackDiscipline', Inv,
                      [Next]_vars
               PROVE  Inv'
    OBVIOUS
  <2>t. frames \in Seq(Frame) /\ Len(frames) \in Nat
    BY DEF TypeOK
  \* Steps that construct nothing and end with no factory running.
  <2>1. ASSUME UNCHANGED objects, frames' = <<>>,
               UNCHANGED singletons \/ singletons' = Nothing,
               \A s \in AllScopes : cache'[s] = cache[s] \/ cache'[s] = Nothing
        PROVE  Inv'
    <3>1. ResolutionDiscipline'
      BY <2>1 DEF ResolutionDiscipline
    <3>2. EntriesOwned'
      <4>1. ASSUME NEW t \in Tokens, singletons'[t] # None
            PROVE  Lifetime[t] = "singleton"
        <5>1. singletons'[t] = singletons[t]
          BY <2>1, <4>1 DEF Nothing
        <5> QED
          BY <4>1, <5>1 DEF EntriesOwned
      <4>2. ASSUME NEW s \in AllScopes, NEW t \in Tokens, cache'[s][t] # None
            PROVE  /\ objects'[cache'[s][t]].token = t
                   /\ objects'[cache'[s][t]].scope = s
                   /\ Lifetime[t] = "scoped"
        <5>1. cache'[s][t] = cache[s][t]
          BY <2>1, <4>2 DEF Nothing
        <5> QED
          BY <2>1, <4>2, <5>1 DEF EntriesOwned
      <4> QED
        BY <4>1, <4>2 DEF EntriesOwned
    <3>3. RefsOwned'
      BY <2>1 DEF RefsOwned, Made, LifetimeOf
    <3> QED
      BY <3>1, <3>2, <3>3
  <2>2. ASSUME NEW n \in 0 .. Len(frames), Unwind(n) PROVE Inv'
    <3>n. n \in Nat /\ 1 .. n \subseteq 1 .. Len(frames)
      BY <2>t
    <3>1. /\ Len(frames') = n
          /\ \A i \in 1 .. n : /\ frames'[i].token = frames[i].token
                               /\ frames'[i].scope = frames[i].scope
                               /\ frames'[i].args = frames[i].args
          /\ UNCHANGED <<registry, objects, cache, phase>>
      BY <2>2, UnwindFacts
    <3>u. UNCHANGED singletons
      BY <3>1 DEF registry
    <3>2. ResolutionDiscipline'
      BY <3>n, <3>1, <3>u DEF ResolutionDiscipline, Existing, LifetimeOf
    <3>3. EntriesOwned' /\ RefsOwned'
      BY <3>1, <3>u DEF EntriesOwned, RefsOwned, Made, LifetimeOf
    <3> QED
      BY <3>2, <3>3
  <2>3. ASSUME NEW s \in AllScopes, NEW t \in Tokens, Reuse(s, t) PROVE Inv'
    <3> DEFINE o == Existing(s, t)
    <3>1. /\ o # None /\ Deliver(o, frames) /\ Asks(s, t)
          /\ UNCHANGED <<objects, singletons, cache, phase>>
      BY <2>3 DEF Reuse, registry
    <3>2. /\ o \in Ids /\ o \in Made /\ objects[o].token = t
          /\ Lifetime[t] = "scoped" => objects[o].scope = s
      BY <3>1, ExistingOwned DEF StackDiscipline
    <3> HIDE DEF o
    <3>3. /\ Len(frames') = Len(frames)
          /\ \A i \in 1 .. Len(frames) :
               /\ frames'[i].token = frames[i].token
               /\ frames'[i].scope = frames[i].scope
               /\ i # Len(frames) => frames'[i].args = frames[i].args
               /\ i = Len(frames) => frames'[i].args = frames[i].args \cup {o}
      BY <2>t, <3>1, <3>2, DeliverEffect
    <3>4. Len(frames) # 0 => frames[Len(frames)].scope = s
      BY <2>t, <3>1 DEF Asks, Idle, Top
    <3>5. ASSUME NEW i \in 1 .. Len(frames), NEW d \in frames'[i].args,
                 LifetimeOf(d) = "scoped"
          PROVE  objects[d].scope = frames[i].scope
      <4>1. CASE d \in frames[i].args
        BY <3>5, <4>1 DEF ResolutionDiscipline
      <4>2. CASE d \notin frames[i].args
        <5>1. d = o /\ i = Len(frames)
          BY <3>3, <4>2
        <5> QED
          BY <3>2, <3>4, <3>5, <5>1 DEF LifetimeOf
      <4> QED
        BY <4>1, <4>2
    <3>6. ResolutionDiscipline'
      <4>1. ASSUME NEW i \in 1 .. Len(frames)
            PROVE  /\ phase'[frames'[i].scope] = "open"
                   /\ Existing(frames[i].scope, frames[i].token)' = None
                   /\ \A j \in 1 .. Len(frames) :
                        /\ frames'[j].scope = frames'[i].scope
                        /\ frames'[j].token = frames'[i].token => i = j
        <5>1. /\ phase[frames[i].scope] = "open"
              /\ Existing(frames[i].scope, frames[i].token) = None
              /\ \A j \in 1 .. Len(frames) :
                   /\ frames[j].scope = frames[i].scope
                   /\ frames[j].token = frames[i].token => i = j
          BY DEF ResolutionDiscipline
        <5>2. Existing(frames[i].scope, frames[i].token)' = None
          BY <3>1, <3>3, <5>1 DEF Existing
        <5> QED
          BY <3>1, <3>3, <5>1, <5>2
      <4>2. ASSUME NEW i \in 1 .. Len(frames), NEW d \in frames'[i].args,
                   Lifetime[objects'[d].token] = "scoped"
            PROVE  objects'[d].scope = frames'[i].scope
        <5>1. LifetimeOf(d) = "scoped"
          BY <3>1, <4>2 DEF LifetimeOf
        <5> QED
          BY <3>1, <3>3, <3>5, <5>1
      <4> QED
        BY <3>3, <4>1, <4>2 DEF ResolutionDiscipline, LifetimeOf
    <3>7. EntriesOwned' /\ RefsOwned'
      BY <3>1 DEF EntriesOwned, RefsOwned, Made, LifetimeOf
    <3> QED
      BY <3>6, <3>7
  <2>4. ASSUME NEW s \in AllScopes, NEW t \in Tokens, Enter(s, t) PROVE Inv'
    <3> DEFINE f == [token |-> t, scope |-> s, next |-> 1, args |-> {},
                     previous |-> active]
               n == Len(frames)
    <3>1. /\ frames' = Append(frames, f) /\ Asks(s, t) /\ ~ Rejects(s, t)
          /\ Existing(s, t) = None
          /\ UNCHANGED <<objects, singletons, cache, phase>>
      BY <2>4 DEF Enter, registry
    <3>2. /\ Len(frames') = n + 1 /\ n \in Nat
          /\ \A i \in 1 .. n : frames'[i] = frames[i]
          /\ frames'[n + 1] = f
      BY <2>t, <3>1
    <3>3. /\ frames'[n + 1].token = t /\ frames'[n + 1].scope = s
          /\ frames'[n + 1].args = {}
      BY <3>2
    <3> HIDE DEF f
    <3>4. phase[s] = "open" /\ (n # 0 => frames[n].scope = s)
      <4>1. CASE Idle
        BY <3>1, <4>1 DEF Asks, Rejects, Idle, TypeOK
      <4>2. CASE ~ Idle
        <5>1. n \in 1 .. n /\ s = frames[n].scope
          BY <2>t, <3>1, <4>2 DEF Asks, Idle, Top
        <5> QED
          BY <5>1 DEF ResolutionDiscipline
      <4> QED
        BY <4>1, <4>2
    <3>5. \A i \in 1 .. n : frames[i].token # t /\ frames[i].scope = s
      <4>1. \A i \in 1 .. n : frames[i].token # t
        BY <3>1 DEF Rejects, BeingResolved
      <4>2. \A i \in 1 .. n : frames[i].scope = frames[n].scope
        BY <3>2 DEF ResolutionDiscipline
      <4> QED
        BY <3>2, <3>4, <4>1, <4>2
    <3>6. \A i \in 1 .. n + 1 : i \in 1 .. n \/ i = n + 1
      BY <3>2
    <3>7. ASSUME NEW i \in 1 .. n + 1
          PROVE  /\ frames'[i].scope = s
                 /\ Existing(s, frames'[i].token) = None
                 /\ \A j \in 1 .. n + 1 :
                      frames'[j].token = frames'[i].token => i = j
                 /\ \A d \in frames'[i].args :
                      LifetimeOf(d) = "scoped" => objects[d].scope = s
      <4>1. CASE i = n + 1
        BY <3>1, <3>2, <3>3, <3>5, <3>6, <4>1
      <4>2. CASE i \in 1 .. n
        <5>1. /\ frames'[i] = frames[i] /\ frames[i].scope = s
              /\ frames[i].token # t
          BY <3>2, <3>5, <4>2
        <5>2. /\ Existing(s, frames[i].token) = None
              /\ \A j \in 1 .. n : frames[j].token = frames[i].token => i = j
              /\ \A d \in frames[i].args :
                   LifetimeOf(d) = "scoped" => objects[d].scope = s
          BY <4>2, <5>1 DEF ResolutionDiscipline
        <5> QED
          BY <3>2, <3>3, <3>6, <5>1, <5>2
      <4> QED
        BY <3>6, <4>1, <4>2
    <3>8. ResolutionDiscipline'
      BY <3>1, <3>2, <3>4, <3>7 DEF ResolutionDiscipline, Existing, LifetimeOf
    <3>9. EntriesOwned' /\ RefsOwned'
      BY <3>1 DEF EntriesOwned, RefsOwned, Made, LifetimeOf
    <3> QED
      BY <3>8, <3>9
  <2>5. ASSUME Construct PROVE Inv'
    <3> DEFINE t == Top.token
               s == Top.scope
               n == Len(frames)
               o == Len(objects) + 1
    <3>p. PICK m \in Ids : Returns(m)
      BY <2>5, ConstructReturns
    <3>1. /\ singletons' = IF Lifetime[t] = "singleton"
                           THEN [singletons EXCEPT ![t] = o] ELSE singletons
          /\ cache' = IF Lifetime[t] = "scoped"
                      THEN [cache EXCEPT ![s][t] = o] ELSE cache
          /\ UNCHANGED phase
      BY <3>p DEF Returns
    <3>2. /\ n \in Nat \ {0} /\ n \in 1 .. n /\ Top = frames[n]
          /\ t \in Tokens /\ s \in AllScopes
          /\ o \in Ids /\ o \notin Made /\ Made' = Made \cup {o}
          /\ objects'[o].token = t /\ objects'[o].scope = s
          /\ objects'[o].refs \subseteq Top.args
          /\ \A p \in Made : objects'[p] = objects[p]
          /\ Len(frames') = n - 1
          /\ \A i \in 1 .. n - 1 :
               /\ frames'[i].token = frames[i].token
               /\ frames'[i].scope = frames[i].scope
               /\ \A d \in frames'[i].args : d \in frames[i].args \/ d = o
      BY <2>5, <3>p, ConstructEffect DEF Made
    <3> HIDE DEF t, s, n, o
    <3>3. /\ phase[s] = "open" /\ Top.args \subseteq Made
          /\ \A d \in Top.args :
               LifetimeOf(d) = "scoped" => objects[d].scope = s
          /\ \A i \in 1 .. n : frames[i].scope = s
          /\ \A i \in 1 .. n - 1 : frames[i].token # t
      <4>1. FrameDiscipline(n)
        BY <3>2 DEF StackDiscipline, n
      <4>2. Top.args \subseteq Made
        BY <3>2, <4>1 DEF FrameDiscipline
      <4> QED
        BY <3>2, <4>2 DEF ResolutionDiscipline, n, s, t
    <3>4. EntriesOwned'
      <4>1. ASSUME NEW u \in Tokens, singletons'[u] # None
            PROVE  Lifetime[u] = "singleton"
        BY <3>1, <3>2, <4>1 DEF TypeOK, EntriesOwned
      <4>2. ASSUME NEW q \in AllScopes, NEW u \in Tokens, cache'[q][u] # None
            PROVE  /\ objects'[cache'[q][u]].token = u
                   /\ objects'[cache'[q][u]].scope = q
                   /\ Lifetime[u] = "scoped"
        <5>1. CASE Lifetime[t] = "scoped" /\ q = s /\ u = t
          BY <3>1, <3>2, <5>1 DEF TypeOK
        <5>2. CASE ~ (Lifetime[t] = "scoped" /\ q = s /\ u = t)
          <6>1. cache'[q][u] = cache[q][u]
            BY <3>1, <3>2, <5>2 DEF TypeOK
          <6>2. cache[q][u] \in Made
            BY <4>2, <6>1 DEF StackDiscipline, EntriesMade
          <6>3. /\ objects[cache[q][u]].token = u
                /\ objects[cache[q][u]].scope = q
                /\ Lifetime[u] = "scoped"
            BY <4>2, <6>1 DEF EntriesOwned
          <6>4. objects'[cache[q][u]] = objects[cache[q][u]]
            BY <3>2, <6>2
          <6> QED
            BY <6>1, <6>3, <6>4
        <5> QED
          BY <5>1, <5>2
      <4> QED
        BY <4>1, <4>2 DEF EntriesOwned
    <3>5. RefsOwned'
      <4>1. ASSUME NEW p \in Made, NEW d \in objects'[p].refs,
                   Lifetime[objects'[d].token] = "scoped"
            PROVE  objects'[d].scope = objects'[p].scope
        <5>1. objects'[p] = objects[p] /\ d \in Made /\ objects'[d] = objects[d]
          BY <3>2, <4>1 DEF StackDiscipline
        <5> QED
          BY <4>1, <5>1 DEF RefsOwned, LifetimeOf
      <4>2. ASSUME NEW d \in objects'[o].refs,
                   Lifetime[objects'[d].token] = "scoped"
            PROVE  objects'[d].scope = objects'[o].scope
        <5>1. d \in Top.args /\ objects'[d] = objects[d]
          BY <3>2, <3>3, <4>2
        <5> QED
          BY <3>2, <3>3, <4>2, <5>1 DEF LifetimeOf
      <4> QED
        BY <3>2, <4>1, <4>2 DEF RefsOwned, LifetimeOf
    <3>6. ASSUME NEW i \in 1 .. n - 1
          PROVE  /\ phase'[frames'[i].scope] = "open"
                 /\ Existing(frames[i].scope, frames[i].token)' = None
                 /\ \A j \in 1 .. n - 1 :
                      /\ frames'[j].scope = frames'[i].scope
                      /\ frames'[j].token = frames'[i].token => i = j
                 /\ \A d \in frames'[i].args :
                      Lifetime[objects'[d].token] = "scoped" =>
                        objects'[d].scope = frames'[i].scope
      <4> DEFINE u == frames[i].token
      <4>a. 1 .. n - 1 \subseteq 1 .. n
        BY <3>2
      <4>b. i \in 1 .. n /\ frames[i].scope = s /\ u # t
        BY <4>a, <3>3
      <4>1. /\ i \in 1 .. n /\ u # t /\ frames[i].scope = s
            /\ frames'[i].scope = s /\ frames'[i].token = u
        BY <3>2, <4>b
      <4>2. /\ Existing(s, u) = None
            /\ \A j \in 1 .. n : frames[j].token = u => i = j
            /\ \A d \in frames[i].args :
                 LifetimeOf(d) = "scoped" => objects[d].scope = s
        BY <4>1 DEF ResolutionDiscipline, n
      <4>3. frames[i].args \subseteq Made
        BY <4>1 DEF StackDiscipline, FrameDiscipline, n
      <4>4. u \in Tokens
        <5>1. frames[i] \in Frame
          BY <2>t, <4>1 DEF n
        <5> QED
          BY <5>1 DEF Frame
      <4> HIDE DEF u
      <4>5. singletons'[u] = singletons[u] /\ cache'[s][u] = cache[s][u]
        BY <3>1, <3>2, <4>1, <4>4 DEF TypeOK
      <4>6. Existing(frames[i].scope, frames[i].token)' = None
        BY <4>1, <4>2, <4>5 DEF Existing
      <4>7. \A d \in frames'[i].args :
              Lifetime[objects'[d].token] = "scoped" => objects'[d].scope = s
        BY <3>2, <4>2, <4>3 DEF LifetimeOf
      <4>8. ASSUME NEW j \in 1 .. n - 1
            PROVE  /\ frames'[j].scope = s
                   /\ frames'[j].token = u => i = j
        <5>1. /\ j \in 1 .. n /\ frames'[j].token = frames[j].token
              /\ frames'[j].scope = frames[j].scope
          BY <3>2, <4>a
        <5> QED
          BY <3>3, <4>2, <5>1
      <4> QED
        BY <3>1, <3>3, <4>1, <4>6, <4>7, <4>8
    <3>7. ResolutionDiscipline'
      BY <3>2, <3>6 DEF ResolutionDiscipline, LifetimeOf
    <3> QED
      BY <3>4, <3>5, <3>7
  <2>6. ASSUME NEW t \in Tokens, Register(t) PROVE Inv'
    BY <2>1, <2>6 DEF Register, NoAnswer, Idle
  <2>7. ASSUME NEW s \in Scopes, CreateScope(s) PROVE Inv'
    BY <2>1, <2>7 DEF CreateScope, registry, NoAnswer, Idle
  <2>8. ASSUME NEW s \in AllScopes, Dispose(s) \/ DisposeNext(s) PROVE Inv'
    <3>1. UNCHANGED cache \/ cache' = [cache EXCEPT ![s] = Nothing]
      BY <2>8 DEF Dispose, DisposeNext, DisposeFrom, Visit, Close
    <3>2. \A q \in AllScopes : cache'[q] = cache[q] \/ cache'[q] = Nothing
      BY <3>1 DEF TypeOK
    <3>3. UNCHANGED <<objects, singletons>> /\ frames' = <<>>
      BY <2>8 DEF Dispose, DisposeNext, registry, NoAnswer, Idle
    <3> QED
      BY <2>1, <3>2, <3>3
  <2>9. CASE ClearContainer
    BY <2>1, <2>9 DEF ClearContainer, NoAnswer, Idle
  <2>10. CASE UNCHANGED vars
    BY <2>10 DEF vars, registry, NoAnswer, ResolutionDiscipline, EntriesOwned,
       RefsOwned, Made, LifetimeOf, Existing
  <2> QED
    BY <2>2, <2>3, <2>4, <2>5, <2>6, <2>7, <2>8, <2>9, <2>10
    DEF Next, Refuse, FactoryThrows
<1> QED
  BY <1>1, <1>2, TypeCorrect, StackCorrect, PTL DEF Spec

-----------------------------------------------------------------------------
\* No two instances stand for one singleton, or for one token of one scope.
NoneTwice ==
  \A o, p \in Made :
    objects[o].token = objects[p].token /\ SameOwner(o, p) => o = p

\* Steps that construct nothing, keep what is kept as it is, and end no scope
\* keep one instance of each.
LEMMA KeptAsIs ==
  ASSUME InstancesKept, NoneTwice,
         UNCHANGED <<objects, singletons, cache>>,
         \A s \in AllScopes : phase[s] = "closed" => phase'[s] = "closed",
         \A o \in Made : objects[o].scope \in AllScopes,
         Disposing(Root) /\ registrations = {} /\ Idle =>
           (Disposing(Root) /\ registrations = {} /\ Idle)'
  PROVE  InstancesKept' /\ NoneTwice'
<1>1. Made' = Made
  BY DEF Made
<1>2. InstancesKept'
  BY <1>1 DEF InstancesKept
<1>3. NoneTwice'
  BY <1>1 DEF NoneTwice, SameOwner, LifetimeOf
<1> QED
  BY <1>2, <1>3

(* However the factories fail and whichever scope asks first, that of a    *)
(* singleton returns once, and that of a scoped service once in a scope,   *)
(* for which nothing is made that holds a scoped instance of another: as   *)
(* long as nothing is registered in a container whose disposal has begun,  *)
(* which forgets its singletons and would construct the new ones again.    *)
THEOREM OneOfEach ==
  ASSUME ~ Teardown \/ Late = {}
  PROVE  Spec => []OneInstanceEach
<1> DEFINE Kept == InstancesKept /\ NoneTwice
                   /\ (Late = {} \/ phase[Root] = "open")
<1> USE RegistryAssumption, RootIsScope
<1>1. Init => Kept
  BY DEF Init, InstancesKept, NoneTwice, Made
<1>2. (TypeOK /\ TypeOK') /\ StackDiscipline
        /\ (ResolutionDiscipline /\ EntriesOwned) /\ Kept /\ [Next]_vars
      => Kept'
  <2> SUFFICES ASSUME TypeOK, TypeOK', StackDiscipline, ResolutionDiscipline,
                      EntriesOwned, Kept, [Next]_vars
               PROVE  Kept'
    OBVIOUS
  <2>a. \A o \in Made : objects[o] \in Object
    BY DEF TypeOK, Made
  <2>b. \A o \in Made : objects[o].scope \in AllScopes
                        /\ objects[o].token \in Tokens
    BY <2>a DEF Object
  <2>1. ASSUME UNCHANGED <<objects, singletons, cache, phase, registrations>>,
               Idle /\ registrations = {} => Idle'
        PROVE  Kept'
    BY <2>1, <2>b, KeptAsIs DEF Disposing
  <2>2. ASSUME NEW n \in 0 .. Len(frames), Unwind(n) PROVE Kept'
    <3>1. Idle => n = 0
      BY DEF Idle
    <3> QED
      BY <2>1, <2>2, <3>1 DEF Unwind, registry, Idle
  <2>3. ASSUME NEW s \in AllScopes, NEW t \in Tokens, Reuse(s, t) PROVE Kept'
    BY <2>1, <2>3 DEF Reuse, registry, Deliver, Idle
  <2>4. ASSUME NEW s \in AllScopes, NEW t \in Tokens, Enter(s, t) PROVE Kept'
    BY <2>1, <2>4 DEF Enter, registry, Rejects
  <2>5. ASSUME Construct PROVE Kept'
    <3> DEFINE t == Top.token
               s == Top.scope
               n == Len(frames)
               o == Len(objects) + 1
    <3>p. PICK m \in Ids : Returns(m)
      BY <2>5, ConstructReturns
    <3>1. /\ singletons' = IF Lifetime[t] = "singleton"
                           THEN [singletons EXCEPT ![t] = o] ELSE singletons
          /\ cache' = IF Lifetime[t] = "scoped"
                      THEN [cache EXCEPT ![s][t] = o] ELSE cache
          /\ UNCHANGED <<phase, registrations>> /\ ~ Idle
      BY <2>5, <3>p DEF Construct, Constructing, Returns
    <3>2. /\ n \in 1 .. n /\ Top = frames[n]
          /\ t \in Tokens /\ s \in AllScopes
          /\ o \notin Made /\ Made' = Made \cup {o}
          /\ objects'[o].token = t /\ objects'[o].scope = s
          /\ \A p \in Made : objects'[p] = objects[p]
      BY <2>5, <3>p, ConstructEffect DEF Made
    <3>3. phase[s] = "open" /\ Existing(s, t) = None
      BY <3>2 DEF ResolutionDiscipline
    <3>n. o # None
      BY <2>5, <3>p, ConstructEffect DEF Ids
    <3> HIDE DEF t, s, n, o
    \* None was there: its scope, or the container, would have had it.
    <3>4. ASSUME NEW p \in Made, objects[p].token = t,
                 \/ Lifetime[t] = "singleton"
                 \/ Lifetime[t] = "scoped" /\ objects[p].scope = s
          PROVE  FALSE
      <4>1. p # None
        BY DEF Made, TypeOK
      <4> QED
        BY <3>1, <3>3, <3>4, <4>1 DEF InstancesKept, Existing
    <3>5. NoneTwice'
      <4>1. ASSUME NEW p \in Made', NEW q \in Made',
                   objects'[p].token = objects'[q].token,
                   \/ Lifetime[objects'[p].token] = "singleton"
                   \/ /\ Lifetime[objects'[p].token] = "scoped"
                      /\ objects'[p].scope = objects'[q].scope
            PROVE  p = q
        <5>1. CASE p \in Made /\ q \in Made
          <6>1. objects'[p] = objects[p] /\ objects'[q] = objects[q]
            BY <3>2, <5>1
          <6>2. objects[p].token = objects[q].token /\ SameOwner(p, q)
            BY <4>1, <6>1 DEF SameOwner, LifetimeOf
          <6> QED
            BY <5>1, <6>2 DEF NoneTwice
        <5>2. CASE p = o /\ q \in Made
          BY <3>2, <3>4, <4>1, <5>2
        <5>3. CASE p \in Made /\ q = o
          BY <3>2, <3>4, <4>1, <5>3
        <5> QED
          BY <3>2, <5>1, <5>2, <5>3
      <4> QED
        BY <4>1 DEF NoneTwice, SameOwner, LifetimeOf
    <3>6. InstancesKept'
      <4>1. ASSUME NEW p \in Made
            PROVE  /\ Lifetime[objects'[p].token] = "singleton" =>
                        singletons'[objects'[p].token] = p
                   /\ Lifetime[objects'[p].token] = "scoped" =>
                        \/ cache'[objects'[p].scope][objects'[p].token] = p
                        \/ phase'[objects'[p].scope] = "closed"
        <5> DEFINE u == objects[p].token
                   q == objects[p].scope
        <5>1. objects'[p].token = u /\ objects'[p].scope = q
              /\ u \in Tokens /\ q \in AllScopes
          BY <2>b, <3>2
        <5>2. /\ Lifetime[u] = "singleton" => singletons[u] = p
              /\ Lifetime[u] = "scoped" =>
                   cache[q][u] = p \/ phase[q] = "closed"
          BY <3>1 DEF InstancesKept
        <5>3. /\ Lifetime[u] = "singleton" => u # t
              /\ Lifetime[u] = "scoped" => u # t \/ q # s
          BY <3>4
        <5> HIDE DEF u, q
        <5>4. Lifetime[u] = "singleton" => singletons'[u] = p
          BY <3>1, <3>2, <5>1, <5>2, <5>3 DEF TypeOK
        <5>5. Lifetime[u] = "scoped" =>
                cache'[q][u] = p \/ phase'[q] = "closed"
          BY <3>1, <3>2, <5>1, <5>2, <5>3 DEF TypeOK
        <5> QED
          BY <5>1, <5>4, <5>5
      <4>2. /\ Lifetime[t] = "singleton" => singletons'[t] = o
            /\ Lifetime[t] = "scoped" => cache'[s][t] = o
        BY <3>1, <3>2 DEF TypeOK
      <4> QED
        BY <3>2, <4>1, <4>2 DEF InstancesKept
    <3> QED
      BY <3>1, <3>5, <3>6
  <2>6. ASSUME NEW t \in Tokens, Register(t) PROVE Kept'
    <3>1. /\ UNCHANGED <<objects, singletons, cache, phase>>
          /\ phase[Root] = "open"
      BY <2>6 DEF Register
    <3> QED
      BY <2>b, <3>1, KeptAsIs DEF Disposing
  <2>7. ASSUME NEW s \in Scopes, CreateScope(s) PROVE Kept'
    <3>1. /\ UNCHANGED <<objects, singletons, cache, registrations, frames>>
          /\ phase[s] = "unborn" /\ s # Root
          /\ phase' = [phase EXCEPT ![s] = "open"]
      BY <2>7 DEF CreateScope, registry, NoAnswer
    <3>2. /\ phase'[Root] = phase[Root]
          /\ \A q \in AllScopes : phase[q] = "closed" => phase'[q] = "closed"
      BY <3>1 DEF TypeOK
    <3> QED
      BY <2>b, <3>1, <3>2, KeptAsIs DEF Disposing, Idle
  <2>8. ASSUME NEW s \in AllScopes, Dispose(s) \/ DisposeNext(s) PROVE Kept'
    <3>1. PICK i : DisposeFrom(s, i)
      BY <2>8 DEF Dispose, DisposeNext
    <3>2. /\ UNCHANGED <<objects, singletons, registrations, frames>>
          /\ \/ phase[s] = "open" /\ (s = Root => Teardown)
             \/ phase[s] = "closing"
      BY <2>8 DEF Dispose, DisposeNext, registry, NoAnswer
    <3>3. Late = {} \/ s # Root
      BY <3>2
    <3>4. CASE i > 0
      <4>1. phase' = [phase EXCEPT ![s] = "closing"] /\ UNCHANGED cache
        BY <3>1, <3>4 DEF DisposeFrom, Visit
      <4>2. /\ s # Root => phase'[Root] = phase[Root]
            /\ phase'[Root] \in {phase[Root], "closing"}
            /\ \A q \in AllScopes : phase[q] = "closed" => phase'[q] = "closed"
        BY <3>2, <4>1 DEF TypeOK
      <4> QED
        BY <2>b, <3>2, <3>3, <4>1, <4>2, KeptAsIs DEF Disposing, Idle
    <3>5. CASE ~ (i > 0)
      <4>1. /\ phase' = [phase EXCEPT ![s] = "closed"]
            /\ cache' = [cache EXCEPT ![s] = Nothing]
        BY <3>1, <3>5 DEF DisposeFrom, Close
      <4>2. /\ s # Root => phase'[Root] = phase[Root]
            /\ phase'[Root] \in {phase[Root], "closed"}
            /\ phase'[s] = "closed"
            /\ \A q \in AllScopes \ {s} :
                 phase'[q] = phase[q] /\ cache'[q] = cache[q]
        BY <4>1 DEF TypeOK
      <4>3. Made' = Made
        BY <3>2 DEF Made
      <4>4. NoneTwice'
        BY <3>2, <4>3 DEF NoneTwice, SameOwner, LifetimeOf
      <4>5. InstancesKept'
        <5>1. ASSUME NEW o \in Made
              PROVE  /\ LifetimeOf(o) = "singleton" =>
                          \/ singletons[objects[o].token] = o
                          \/ Disposing(Root) /\ registrations = {} /\ Idle
                     /\ LifetimeOf(o) = "scoped" =>
                          \/ cache[objects[o].scope][objects[o].token] = o
                          \/ phase[objects[o].scope] = "closed"
          BY DEF InstancesKept, LifetimeOf
        <5>2. Disposing(Root) => Disposing(Root)'
          BY <4>2, RootIsScope DEF Disposing
        <5>3. UNCHANGED <<singletons, objects, registrations, Idle>>
          BY <2>8, <3>2 DEF Dispose, DisposeNext, registry, Idle
        <5>4. \A q \in AllScopes :
                \/ phase'[q] = "closed"
                \/ phase'[q] = phase[q] /\ cache'[q] = cache[q]
          BY <4>2
        <5> QED
          BY <2>b, <4>3, <5>1, <5>2, <5>3, <5>4 DEF InstancesKept, LifetimeOf
      <4> QED
        BY <3>3, <4>2, <4>4, <4>5
    <3> QED
      BY <3>4, <3>5
  <2>9. CASE ClearContainer
    <3>1. /\ registrations' = {} /\ Idle' /\ Disposing(Root)'
          /\ UNCHANGED <<objects, cache, phase>>
      BY <2>9 DEF ClearContainer, NoAnswer, Idle, Disposing
    <3>2. Made' = Made
      BY <3>1 DEF Made
    <3>3. NoneTwice'
      BY <3>1, <3>2 DEF NoneTwice, SameOwner, LifetimeOf
    <3>4. InstancesKept'
      BY <3>1, <3>2 DEF InstancesKept
    <3> QED
      BY <3>1, <3>3, <3>4
  <2>10. CASE UNCHANGED vars
    BY <2>1, <2>10 DEF vars, registry, NoAnswer, Idle
  <2> QED
    BY <2>2, <2>3, <2>4, <2>5, <2>6, <2>7, <2>8, <2>9, <2>10
    DEF Next, Refuse, FactoryThrows
<1>3. Kept /\ RefsOwned => OneInstanceEach
  BY DEF OneInstanceEach, NoneTwice, RefsOwned
<1> QED
  BY <1>1, <1>2, <1>3, TypeCorrect, StackCorrect, ResolutionCorrect, PTL DEF Spec

-----------------------------------------------------------------------------
\* What a scope owns: the owner of an instance, and who that is.
LEMMA OwnerIsScope ==
  ASSUME TypeOK, NEW o \in Made
  PROVE  /\ objects[o] \in Object /\ OwnerScope(o) \in AllScopes
         /\ objects[o].token \in Tokens /\ objects[o].scope \in AllScopes
<1>1. objects[o] \in Object
  BY DEF TypeOK, Made
<1> QED
  BY <1>1, RootIsScope DEF Object, OwnerScope, OwnerOf

\* One more entry in the log: what came before it stays before it.
LEMMA LogGrows ==
  ASSUME TypeOK, NEW x \in Ids, log' = Append(log, x)
  PROVE  /\ Logged' = Logged \cup {x}
         /\ Len(log) \in Nat /\ Len(log') = Len(log) + 1
         /\ log'[Len(log) + 1] = x
         /\ \A i \in 1 .. Len(log) : log'[i] = log[i]
<1>1. log \in Seq(Ids)
  BY DEF TypeOK
<1>2. /\ Len(log) \in Nat /\ Len(log') = Len(log) + 1
      /\ log'[Len(log) + 1] = x
      /\ \A i \in 1 .. Len(log) : log'[i] = log[i]
  BY <1>1
<1>3. 1 .. Len(log') = (1 .. Len(log)) \cup {Len(log) + 1}
  BY <1>2
<1>4. Logged' = Logged \cup {x}
  BY <1>2, <1>3 DEF Logged
<1> QED
  BY <1>2, <1>4

\* What was disposed before something else still was once more is disposed.
LEMMA StillBefore ==
  ASSUME TypeOK, NEW x \in Ids, log' = Append(log, x),
         NEW o, NEW p, DisposedBefore(o, p)
  PROVE  DisposedBefore(o, p)'
<1>1. PICK i \in 1 .. Len(log) :
        log[i] = o /\ p \notin {log[j] : j \in 1 .. i}
  BY DEF DisposedBefore
<1>2. /\ i \in 1 .. Len(log') /\ 1 .. i \subseteq 1 .. Len(log)
      /\ \A j \in 1 .. Len(log) : log'[j] = log[j]
  BY <1>1, LogGrows
<1>3. log'[i] = o /\ p \notin {log'[j] : j \in 1 .. i}
  BY <1>1, <1>2
<1> QED
  BY <1>2, <1>3 DEF DisposedBefore

\* What is in the log was disposed before what enters it now.
LEMMA BeforeTheLast ==
  ASSUME TypeOK, NEW x \in Ids, log' = Append(log, x), x \notin Logged,
         NEW o \in Logged
  PROVE  DisposedBefore(o, x)'
<1>1. PICK i \in 1 .. Len(log) : log[i] = o
  BY DEF Logged
<1>2. /\ i \in 1 .. Len(log') /\ 1 .. i \subseteq 1 .. Len(log)
      /\ \A j \in 1 .. Len(log) : log'[j] = log[j]
  BY <1>1, LogGrows
<1>3. x \notin {log'[j] : j \in 1 .. i}
  BY <1>2 DEF Logged
<1> QED
  BY <1>1, <1>2, <1>3 DEF DisposedBefore

\* The owner of an instance after a step, which run first returned it, and
\* whether it can be disposed.
OwnerAfter(o) == OwnerOf(objects'[o].token, objects'[o].scope)
InstAfter(o) == objects'[o].same
CanDisposeAfter(o) == objects'[objects'[o].same].token \in Disposable

DisposalInv == DisposalDiscipline /\ ReleasedOnce /\ DependentsFirst

\* What the discipline says, part by part.
LEMMA DisposalParts ==
  ASSUME DisposalInv
  PROVE  /\ \A s \in AllScopes : TrackedInOrder(s) /\ TrackedAgain(s)
         /\ TrackedUntilClosed /\ DisposedInPlace
         /\ InstancesFirst /\ LateFromThenOn
         /\ ReleasedOnce /\ DependentsFirst
BY DEF DisposalInv, DisposalDiscipline

\* Steps that make, track and dispose nothing, and end no scope.
LEMMA DisposalAsIs ==
  ASSUME TypeOK, DisposalInv, UNCHANGED <<objects, tracked, left, log>>,
         phase'[Root] = phase[Root],
         \A s \in AllScopes : \/ phase'[s] = phase[s]
                              \/ phase[s] = "unborn" /\ phase'[s] = "open"
  PROVE  DisposalInv'
<1>1. /\ Made' = Made /\ Logged' = Logged
      /\ \A s \in AllScopes : Disposing(s)' <=> Disposing(s)
      /\ \A s \in AllScopes : phase'[s] = "closed" <=> phase[s] = "closed"
  BY DEF Made, Logged, Disposing
<1>2. \A o \in Made : OwnerScope(o) \in AllScopes
  BY OwnerIsScope
<1>3. ASSUME NEW s \in AllScopes PROVE TrackedInOrder(s)' /\ TrackedAgain(s)'
  <2>1. TrackedInOrder(s) /\ TrackedAgain(s)
    BY DisposalParts
  <2>2. TrackedInOrder(s)'
    BY <1>1, <2>1 DEF TrackedInOrder, OwnerScope
  <2>3. TrackedAgain(s)'
    BY <2>1 DEF TrackedAgain, Inst, LifetimeOf
  <2> QED
    BY <2>2, <2>3
<1>4. TrackedUntilClosed'
  BY <1>1, <1>2, DisposalParts
  DEF TrackedUntilClosed, OwnerScope, Inst, CanDispose
<1>5. InstancesFirst' /\ LateFromThenOn'
  BY <1>1, DisposalParts DEF InstancesFirst, LateFromThenOn, Inst
<1>6. DisposedInPlace'
  BY <1>1, <1>2, DisposalParts DEF DisposedInPlace, OwnerScope
<1>7. ReleasedOnce'
  BY <1>1, <1>2, DisposalParts
  DEF ReleasedOnce, OwnerScope, Inst, CanDispose, LifetimeOf
<1>8. DependentsFirst'
  BY <1>1, DisposalParts
  DEF DependentsFirst, DisposedBefore, OwnerScope, Inst, CanDispose
<1> QED
  BY <1>3, <1>4, <1>5, <1>6, <1>7, <1>8 DEF DisposalInv, DisposalDiscipline

\* What a factory returns goes to the end of what its scope tracks, unless it is
\* there already, and was not disposed as such; in a container whose disposal
\* has begun it is late.
LEMMA ConstructKeepsDisposal ==
  ASSUME TypeOK, StackDiscipline, ResolutionDiscipline, DisposalInv, Construct
  PROVE  DisposalInv'
<1> DEFINE n == Len(frames)
<1>o. PICK o : o = Len(objects) + 1
  OBVIOUS
<1>t. PICK t, s : t = Top.token /\ s = Top.scope
  OBVIOUS
<1>w. PICK owner : owner = OwnerOf(t, s)
  OBVIOUS
<1>p. PICK p \in Ids : p \in Returnable(t) /\ Returns(p)
  BY <1>t, ConstructReturns
<1>k. PICK kept : kept = Tracks(p, t, owner)
  OBVIOUS
<1>1. /\ tracked' = IF kept
                    THEN [tracked EXCEPT ![owner] = Append(@, o)] ELSE tracked
      /\ UNCHANGED <<phase, left, log>>
  BY <1>o, <1>t, <1>w, <1>p, <1>k DEF Returns
<1>2. /\ n \in 1 .. n /\ Top = frames[n]
      /\ t \in Tokens /\ s \in AllScopes
      /\ o \in Ids /\ o \notin Made /\ Made' = Made \cup {o}
      /\ objects'[o].token = t /\ objects'[o].scope = s
      /\ objects'[o].same = p
      /\ objects'[o].refs = IF p = o THEN Top.args ELSE {}
      /\ objects'[o].late = (phase[Root] # "open")
      /\ \A r \in Made : objects'[r] = objects[r]
      /\ \A r \in Made : r \in Nat /\ r < o
  BY <1>o, <1>t, <1>p, ConstructEffect DEF Made
<1>3. phase[s] = "open" /\ Top.args \subseteq Made
  BY <1>2, <1>t DEF ResolutionDiscipline, StackDiscipline, FrameDiscipline
<1>4. owner \in AllScopes
  BY <1>2, <1>w, RootIsScope DEF OwnerOf
<1>5. Disposing(owner) => objects'[o].late
  BY <1>2, <1>3, <1>w DEF OwnerOf, Disposing
<1>a. p \in Made \cup {o}
  <2>1. \A r \in Made : Inst(r) \in Made
    BY DisposalParts DEF InstancesFirst
  <2> QED
    BY <1>o, <1>p, <2>1 DEF Returnable
<1>6. /\ OwnerAfter(o) = owner /\ InstAfter(o) = p
      /\ CanDisposeAfter(o) <=> HasDispose(p, t)
      /\ Logged' = Logged
      /\ \A q \in AllScopes : Disposing(q)' = Disposing(q)
  BY <1>1, <1>2, <1>a, <1>w
  DEF OwnerAfter, InstAfter, CanDisposeAfter, HasDispose, Logged, Disposing
<1>b. ASSUME NEW r \in Made
      PROVE  /\ OwnerAfter(r) = OwnerScope(r) /\ InstAfter(r) = Inst(r)
             /\ CanDisposeAfter(r) <=> CanDispose(r)
             /\ Lifetime[objects'[r].token] = LifetimeOf(r)
  <2>1. Inst(r) \in Made /\ objects'[r] = objects[r]
    BY <1>2, DisposalParts DEF InstancesFirst
  <2>2. objects'[Inst(r)] = objects[Inst(r)]
    BY <1>2, <2>1
  <2> QED
    BY <2>1, <2>2 DEF OwnerAfter, OwnerScope, InstAfter, Inst, CanDisposeAfter,
       CanDispose, LifetimeOf
<1>7. \A r \in Logged : r \in Made
  BY DisposalParts DEF DisposedInPlace
<1> HIDE DEF n
\* What each scope tracks now.
<1>8. ASSUME NEW q \in AllScopes
      PROVE  /\ Len(tracked[q]) \in Nat
             /\ \A i \in 1 .. Len(tracked[q]) : tracked'[q][i] = tracked[q][i]
             /\ \/ Len(tracked'[q]) = Len(tracked[q])
                \/ /\ q = owner /\ kept
                   /\ Len(tracked'[q]) = Len(tracked[q]) + 1
                   /\ tracked'[q][Len(tracked[q]) + 1] = o
             /\ q = owner /\ kept => Len(tracked'[q]) = Len(tracked[q]) + 1
  <2>1. tracked[q] \in Seq(Ids) /\ Len(tracked[q]) \in Nat
    BY DEF TypeOK
  <2>2. CASE q = owner /\ kept
    <3>1. tracked'[q] = Append(tracked[q], o)
      BY <1>1, <1>4, <2>2 DEF TypeOK
    <3> QED
      BY <1>2, <2>1, <2>2, <3>1
  <2>3. CASE ~ (q = owner /\ kept)
    <3>1. tracked'[q] = tracked[q]
      BY <1>1, <2>3 DEF TypeOK
    <3> QED
      BY <2>1, <2>3, <3>1
  <2> QED
    BY <2>2, <2>3
<1>c. ASSUME NEW q \in AllScopes, NEW i \in 1 .. Len(tracked[q])
      PROVE  /\ i \in 1 .. Len(tracked'[q]) /\ tracked'[q][i] = tracked[q][i]
             /\ tracked[q][i] \in Made
  <2>1. TrackedInOrder(q)
    BY DisposalParts
  <2> QED
    BY <1>8, <2>1 DEF TrackedInOrder
<1>9. ASSUME NEW q \in AllScopes PROVE TrackedInOrder(q)'
  <2> DEFINE m == Len(tracked[q])
  <2>1. TrackedInOrder(q) /\ m \in Nat /\ left[q] \in Nat /\ left[q] <= m
    BY <1>8, DisposalParts DEF TypeOK
  <2>2. /\ Len(tracked'[q]) \in {m, m + 1}
        /\ \A i \in 1 .. m : tracked'[q][i] = tracked[q][i]
        /\ (Len(tracked'[q]) = m + 1 => q = owner /\ tracked'[q][m + 1] = o)
    BY <1>8, <2>1
  <2> HIDE DEF m
  <2>3. ASSUME NEW i \in 1 .. m
        PROVE  /\ tracked'[q][i] \in Made
               /\ OwnerAfter(tracked[q][i]) = q
               /\ \A j \in 1 .. Len(tracked'[q]) :
                    i < j => tracked'[q][i] < tracked'[q][j]
               /\ IF Disposing(q) /\ i > left[q]
                    THEN \/ tracked'[q][i] \in Logged
                         \/ objects'[tracked[q][i]].late
                    ELSE tracked'[q][i] \notin Logged
    <3>x. PICK x : x = tracked[q][i]
      OBVIOUS
    <3>1. /\ x \in Made /\ OwnerScope(x) = q
          /\ \A j \in 1 .. m : i < j => x < tracked[q][j]
          /\ IF Disposing(q) /\ i > left[q]
               THEN x \in Logged \/ objects[x].late ELSE x \notin Logged
      BY <2>1, <3>x DEF TrackedInOrder, m
    <3>2. x < o
      BY <1>2, <3>1
    <3>3. tracked'[q][i] = x
      BY <2>2, <3>x
    <3>4. OwnerAfter(x) = q /\ objects'[x] = objects[x]
      BY <1>2, <1>b, <3>1
    <3>5. ASSUME NEW j \in 1 .. Len(tracked'[q]), i < j
          PROVE  x < tracked'[q][j]
      <4>1. CASE j \in 1 .. m
        BY <2>2, <3>1, <3>5, <4>1
      <4>2. CASE j \notin 1 .. m
        <5>1. j = m + 1 /\ Len(tracked'[q]) = m + 1
          BY <2>1, <2>2, <4>2
        <5> QED
          BY <2>2, <3>2, <5>1
      <4> QED
        BY <4>1, <4>2
    <3> QED
      BY <3>1, <3>3, <3>4, <3>5, <3>x
  <2>4. ASSUME Len(tracked'[q]) = m + 1
        PROVE  /\ tracked'[q][m + 1] = o /\ OwnerAfter(o) = q
               /\ IF Disposing(q) /\ m + 1 > left[q]
                    THEN objects'[o].late ELSE o \notin Logged
    <3>1. q = owner /\ tracked'[q][m + 1] = o
      BY <2>2, <2>4
    <3>2. Disposing(q) => objects'[o].late
      BY <1>5, <3>1
    <3>3. o \notin Logged
      BY <1>2, <1>7
    <3> QED
      BY <1>6, <3>1, <3>2, <3>3, Zenon
  <2>5. ASSUME NEW i \in 1 .. Len(tracked'[q]), i \notin 1 .. m
        PROVE  i = m + 1 /\ Len(tracked'[q]) = m + 1
    BY <2>1, <2>2, <2>5
  <2>6. ASSUME NEW i \in 1 .. Len(tracked'[q])
        PROVE  LET y == tracked'[q][i] IN
               /\ y \in Made' /\ OwnerAfter(y) = q
               /\ \A j \in 1 .. Len(tracked'[q]) : i < j => y < tracked'[q][j]
               /\ IF Disposing(q)' /\ i > left'[q]
                    THEN y \in Logged' \/ objects'[y].late
                    ELSE y \notin Logged'
    <3>1. CASE i \in 1 .. m
      BY <1>1, <1>2, <1>6, <2>2, <2>3, <3>1
    <3>2. CASE i \notin 1 .. m
      <4>1. i = m + 1 /\ Len(tracked'[q]) = m + 1
        BY <2>5, <3>2
      <4>2. ~ \E j \in 1 .. Len(tracked'[q]) : i < j
        BY <2>1, <4>1
      <4> QED
        BY <1>1, <1>2, <1>6, <2>4, <4>1, <4>2
    <3> QED
      BY <3>1, <3>2
  <2> QED
    BY <2>6 DEF TrackedInOrder, OwnerAfter, OwnerScope
<1>d. ASSUME NEW q \in AllScopes PROVE TrackedAgain(q)'
  <2> DEFINE m == Len(tracked[q])
  <2>1. ASSUME NEW i \in 1 .. Len(tracked'[q]), NEW j \in 1 .. Len(tracked'[q]),
               i < j, InstAfter(tracked'[q][i]) = InstAfter(tracked'[q][j])
        PROVE  Lifetime[objects'[tracked'[q][j]].token] = "scoped"
    <3>1. i \in 1 .. m
      BY <1>8, <2>1
    <3>2. /\ tracked'[q][i] = tracked[q][i]
          /\ InstAfter(tracked'[q][i]) = Inst(tracked[q][i])
      BY <1>b, <1>c, <3>1
    <3>3. CASE j \in 1 .. m
      <4>1. /\ tracked'[q][j] = tracked[q][j] /\ tracked[q][j] \in Made
            /\ InstAfter(tracked[q][j]) = Inst(tracked[q][j])
            /\ Lifetime[objects'[tracked[q][j]].token] = LifetimeOf(tracked[q][j])
        BY <1>b, <1>c, <3>3
      <4>2. TrackedAgain(q)
        BY DisposalParts
      <4> QED
        BY <2>1, <3>1, <3>2, <3>3, <4>1, <4>2 DEF TrackedAgain
    <3>4. CASE j \notin 1 .. m
      <4>1. q = owner /\ kept /\ tracked'[q][j] = o
        <5>1. j = m + 1 /\ Len(tracked'[q]) # m
          BY <1>8, <2>1, <3>4
        <5> QED
          BY <1>8, <5>1
      <4>2. Inst(tracked[owner][i]) = p /\ i \in 1 .. Len(tracked[owner])
        BY <1>6, <2>1, <3>1, <3>2, <4>1
      <4>3. Lifetime[t] = "scoped"
        BY <1>k, <4>1, <4>2 DEF Tracks
      <4> QED
        BY <1>2, <4>1, <4>3
    <3> QED
      BY <3>3, <3>4
  <2> QED
    BY <2>1 DEF TrackedAgain, InstAfter, Inst, LifetimeOf
<1>10. TrackedUntilClosed'
  <2>1. ASSUME NEW r \in Made, CanDispose(r), phase[OwnerScope(r)] # "closed"
        PROVE  \E i \in 1 .. Len(tracked'[OwnerScope(r)]) :
                 /\ tracked'[OwnerScope(r)][i] <= r
                 /\ InstAfter(tracked'[OwnerScope(r)][i]) = Inst(r)
    <3>1. PICK i \in 1 .. Len(tracked[OwnerScope(r)]) :
                 /\ tracked[OwnerScope(r)][i] <= r
                 /\ Inst(tracked[OwnerScope(r)][i]) = Inst(r)
      BY <2>1, DisposalParts DEF TrackedUntilClosed
    <3>2. OwnerScope(r) \in AllScopes
      BY OwnerIsScope
    <3>3. /\ i \in 1 .. Len(tracked'[OwnerScope(r)])
          /\ tracked'[OwnerScope(r)][i] = tracked[OwnerScope(r)][i]
          /\ tracked[OwnerScope(r)][i] \in Made
      BY <1>c, <3>2
    <3>4. InstAfter(tracked[OwnerScope(r)][i]) = Inst(tracked[OwnerScope(r)][i])
      BY <1>b, <3>3
    <3> QED
      BY <3>1, <3>3, <3>4
  <2>2. ASSUME HasDispose(p, t)
        PROVE  \E i \in 1 .. Len(tracked'[owner]) :
                 /\ tracked'[owner][i] <= o
                 /\ InstAfter(tracked'[owner][i]) = p
    <3>1. CASE kept
      <4>1. /\ Len(tracked[owner]) + 1 \in 1 .. Len(tracked'[owner])
            /\ tracked'[owner][Len(tracked[owner]) + 1] = o
        BY <1>4, <1>8, <3>1
      <4>2. o <= o
        BY <1>2 DEF Ids
      <4> QED
        BY <1>6, <4>1, <4>2
    <3>2. CASE ~ kept
      <4>1. PICK i \in 1 .. Len(tracked[owner]) : Inst(tracked[owner][i]) = p
        BY <1>k, <2>2, <3>2 DEF Tracks
      <4>2. /\ i \in 1 .. Len(tracked'[owner])
            /\ tracked'[owner][i] = tracked[owner][i]
            /\ tracked[owner][i] \in Made
        BY <1>4, <1>c
      <4>3. /\ InstAfter(tracked[owner][i]) = Inst(tracked[owner][i])
            /\ tracked[owner][i] <= o
        <5>1. tracked[owner][i] \in Nat /\ tracked[owner][i] < o /\ o \in Nat
          BY <1>2, <4>2 DEF Ids
        <5> QED
          BY <1>b, <4>2, <5>1
      <4> QED
        BY <4>1, <4>2, <4>3
    <3> QED
      BY <3>1, <3>2
  <2>3. ASSUME NEW r \in Made', CanDisposeAfter(r),
               phase'[OwnerAfter(r)] # "closed"
        PROVE  \E i \in 1 .. Len(tracked'[OwnerAfter(r)]) :
                 /\ tracked'[OwnerAfter(r)][i] <= r
                 /\ InstAfter(tracked'[OwnerAfter(r)][i]) = InstAfter(r)
    <3>1. CASE r \in Made
      <4>1. /\ OwnerAfter(r) = OwnerScope(r) /\ InstAfter(r) = Inst(r)
            /\ CanDispose(r) /\ phase[OwnerScope(r)] # "closed"
        BY <1>1, <1>b, <2>3, <3>1
      <4> QED
        BY <2>1, <3>1, <4>1
    <3>2. CASE r = o
      <4>1. HasDispose(p, t) /\ OwnerAfter(r) = owner /\ InstAfter(r) = p
        BY <1>6, <2>3, <3>2
      <4> QED
        BY <2>2, <3>2, <4>1
    <3> QED
      BY <1>2, <3>1, <3>2
  <2> QED
    BY <2>3 DEF TrackedUntilClosed, OwnerAfter, OwnerScope, InstAfter, Inst,
       CanDisposeAfter, CanDispose
<1>11. DisposedInPlace'
  <2>1. ASSUME NEW r \in Logged
        PROVE  /\ r \in Made /\ OwnerAfter(r) = OwnerScope(r)
               /\ phase'[OwnerAfter(r)] \in {"closing", "closed"}
               /\ phase'[OwnerAfter(r)] # "closed" =>
                    \E i \in 1 .. Len(tracked'[OwnerAfter(r)]) :
                      tracked'[OwnerAfter(r)][i] = r
    <3>1. /\ r \in Made /\ Disposing(OwnerScope(r))
          /\ phase[OwnerScope(r)] # "closed" =>
               \E i \in 1 .. Len(tracked[OwnerScope(r)]) :
                 tracked[OwnerScope(r)][i] = r
      BY DisposalParts DEF DisposedInPlace
    <3>2. OwnerAfter(r) = OwnerScope(r) /\ OwnerScope(r) \in AllScopes
      BY <1>b, <3>1, OwnerIsScope
    <3> QED
      BY <1>1, <1>c, <3>1, <3>2 DEF Disposing
  <2> QED
    BY <1>2, <1>6, <2>1 DEF DisposedInPlace, Disposing, OwnerAfter, OwnerScope
<1>12. InstancesFirst'
  <2>1. ASSUME NEW r \in Made
        PROVE  /\ InstAfter(r) \in Made /\ InstAfter(r) <= r
               /\ objects'[r].refs # {} => InstAfter(r) = r
               /\ \A d \in objects'[r].refs : d < r
    BY <1>2, <1>b, DisposalParts DEF InstancesFirst
  <2>2. /\ p \in Made' /\ p <= o
        /\ objects'[o].refs # {} => p = o
        /\ \A d \in objects'[o].refs : d < o
    <3>1. p <= o
      BY <1>2, <1>a DEF Ids
    <3> QED
      BY <1>2, <1>3, <1>a, <3>1
  <2>3. ASSUME NEW r \in Made'
        PROVE  /\ InstAfter(r) \in Made' /\ InstAfter(r) <= r
               /\ objects'[r].refs # {} => InstAfter(r) = r
               /\ \A d \in objects'[r].refs : d < r
    <3>1. CASE r \in Made
      BY <1>2, <2>1, <3>1
    <3>2. CASE r = o
      BY <1>6, <2>2, <3>2
    <3> QED
      BY <1>2, <3>1, <3>2
  <2> QED
    BY <2>3 DEF InstancesFirst, InstAfter, Inst
<1>e. LateFromThenOn'
  <2>1. ASSUME NEW r \in Made, objects[r].late
        PROVE  /\ phase[Root] # "open" /\ \A q \in Made : r < q => objects[q].late
    BY <2>1, DisposalParts DEF LateFromThenOn
  <2>2. ASSUME NEW r \in Made', objects'[r].late
        PROVE  /\ phase'[Root] # "open"
               /\ \A q \in Made' : r < q => objects'[q].late
    <3>1. CASE r \in Made
      BY <1>1, <1>2, <2>1, <2>2, <3>1
    <3>2. CASE r = o
      <4>1. \A q \in Made' : ~ (o < q)
        BY <1>2 DEF Ids
      <4> QED
        BY <1>1, <1>2, <2>2, <3>2, <4>1
    <3> QED
      BY <1>2, <3>1, <3>2
  <2> QED
    BY <2>2 DEF LateFromThenOn
<1>13. ReleasedOnce'
  <2>1. ASSUME NEW i \in 1 .. Len(log), NEW j \in 1 .. Len(log), i # j,
               InstAfter(log[i]) = InstAfter(log[j]),
               OwnerAfter(log[i]) = OwnerAfter(log[j])
        PROVE  /\ log[i] # log[j]
               /\ "scoped" \in {Lifetime[objects'[log[i]].token],
                                Lifetime[objects'[log[j]].token]}
    <3>1. log[i] \in Made /\ log[j] \in Made
      BY <1>7 DEF Logged
    <3>2. /\ Inst(log[i]) = Inst(log[j])
          /\ OwnerScope(log[i]) = OwnerScope(log[j])
          /\ Lifetime[objects'[log[i]].token] = LifetimeOf(log[i])
          /\ Lifetime[objects'[log[j]].token] = LifetimeOf(log[j])
      BY <1>b, <2>1, <3>1
    <3> QED
      BY <2>1, <3>2, DisposalParts DEF ReleasedOnce
  <2>2. ASSUME NEW r \in Made', phase'[OwnerAfter(r)] = "closed",
               CanDisposeAfter(r), ~ objects'[r].late
        PROVE  \E e \in Logged : /\ InstAfter(e) = InstAfter(r)
                                 /\ OwnerAfter(e) = OwnerAfter(r)
    <3>1. CASE r \in Made
      <4>1. /\ phase[OwnerScope(r)] = "closed" /\ CanDispose(r)
            /\ ~ objects[r].late
            /\ OwnerAfter(r) = OwnerScope(r) /\ InstAfter(r) = Inst(r)
        BY <1>1, <1>2, <1>b, <2>2, <3>1
      <4>2. PICK e \in Logged :
              Inst(e) = Inst(r) /\ OwnerScope(e) = OwnerScope(r)
        BY <3>1, <4>1, DisposalParts DEF ReleasedOnce
      <4>3. OwnerAfter(e) = OwnerScope(e) /\ InstAfter(e) = Inst(e)
        BY <1>7, <1>b
      <4> QED
        BY <4>1, <4>2, <4>3
    <3>2. CASE r = o
      BY <1>1, <1>5, <1>6, <2>2, <3>2 DEF Disposing
    <3> QED
      BY <1>2, <3>1, <3>2
  <2> QED
    BY <1>1, <1>6, <2>1, <2>2 DEF ReleasedOnce, OwnerAfter, OwnerScope,
       InstAfter, Inst, CanDisposeAfter, CanDispose, LifetimeOf
<1>14. DependentsFirst'
  <2>1. ASSUME NEW r \in Made', NEW e \in Made', NEW d \in objects'[r].refs,
               InstAfter(d) = InstAfter(e), OwnerAfter(r) = OwnerAfter(e),
               e < r, CanDisposeAfter(r), ~ objects'[r].late, e \in Logged
        PROVE  DisposedBefore(r, e)
    <3>1. /\ e \in Made /\ OwnerAfter(e) = OwnerScope(e)
          /\ InstAfter(e) = Inst(e) /\ Disposing(OwnerScope(e))
      BY <1>7, <1>b, <2>1, DisposalParts DEF DisposedInPlace
    <3>2. CASE r \in Made
      <4>1. /\ d \in objects[r].refs /\ d \in Made
            /\ OwnerAfter(r) = OwnerScope(r) /\ CanDispose(r)
            /\ ~ objects[r].late
        BY <1>2, <1>b, <2>1, <3>2 DEF StackDiscipline
      <4>2. InstAfter(d) = Inst(d)
        BY <1>b, <4>1
      <4> QED
        BY <2>1, <3>1, <3>2, <4>1, <4>2, DisposalParts DEF DependentsFirst
    <3>3. CASE r = o
      BY <1>5, <1>6, <2>1, <3>1, <3>3
    <3> QED
      BY <1>2, <3>2, <3>3
  <2>2. \A r, e \in Made' : DisposedBefore(r, e)' <=> DisposedBefore(r, e)
    BY <1>1 DEF DisposedBefore
  <2> QED
    BY <1>6, <2>1, <2>2 DEF DependentsFirst, OwnerAfter, OwnerScope, InstAfter,
       Inst, CanDisposeAfter, CanDispose
<1> QED
  BY <1>9, <1>d, <1>10, <1>11, <1>12, <1>e, <1>13, <1>14
  DEF DisposalInv, DisposalDiscipline

\* A disposal visits what its scope owns from the last constructed to the
\* first, each once, and is over when it has been down to all of it.
LEMMA DisposeKeepsDisposal ==
  ASSUME TypeOK, DisposalInv, UNCHANGED objects,
         NEW s \in AllScopes, NEW i \in Nat, DisposeFrom(s, i),
         \/ phase[s] \in {"unborn", "open"} /\ i = Len(tracked[s])
         \/ phase[s] = "closing" /\ i = left[s]
  PROVE  DisposalInv'
<1>1. /\ Made' = Made
      /\ \A o \in Made : /\ OwnerAfter(o) = OwnerScope(o)
                         /\ OwnerScope(o) \in AllScopes
                         /\ objects'[o] = objects[o]
  BY OwnerIsScope DEF Made, OwnerAfter, OwnerScope
<1>2. /\ \A q \in AllScopes : TrackedInOrder(q) /\ TrackedAgain(q)
      /\ \A o \in Logged : o \in Made /\ Disposing(OwnerScope(o))
  BY DisposalParts DEF DisposedInPlace
<1>a. InstancesFirst'
  BY <1>1, DisposalParts DEF InstancesFirst, Inst
<1>3. /\ tracked[s] \in Seq(Ids) /\ Len(tracked[s]) \in Nat
      /\ left[s] \in Nat /\ left[s] <= Len(tracked[s])
      /\ i <= Len(tracked[s])
  BY DEF TypeOK
\* What can be disposed is tracked at i or below, if it is neither in the log
\* nor late.
<1>4. \A k \in 1 .. Len(tracked[s]) :
        \/ k <= i
        \/ tracked[s][k] \in Logged \/ objects[tracked[s][k]].late
  <2>1. TrackedInOrder(s)
    BY <1>2
  <2> QED
    BY <1>3, <2>1 DEF TrackedInOrder, Disposing
<1>5. \A k \in 1 .. i : tracked[s][k] \notin Logged
  <2>1. TrackedInOrder(s)
    BY <1>2
  <2> QED
    BY <1>3, <2>1 DEF TrackedInOrder, Disposing
<1>c. phase[s] # "closed"
  OBVIOUS
<1>6. ASSUME NEW o \in Made, OwnerScope(o) = s, CanDispose(o)
      PROVE  \E k \in 1 .. Len(tracked[s]) :
               /\ tracked[s][k] \in Made /\ tracked[s][k] <= o
               /\ Inst(tracked[s][k]) = Inst(o)
  <2>1. PICK k \in 1 .. Len(tracked[s]) :
          tracked[s][k] <= o /\ Inst(tracked[s][k]) = Inst(o)
    BY <1>6, <1>c, DisposalParts DEF TrackedUntilClosed
  <2>2. tracked[s][k] \in Made
    BY <1>2 DEF TrackedInOrder
  <2> QED
    BY <2>1, <2>2
\* The run that made an instance is the one that is tracked.
<1>d. ASSUME NEW o \in Made, OwnerScope(o) = s, CanDispose(o), Inst(o) = o
      PROVE  \E k \in 1 .. Len(tracked[s]) : tracked[s][k] = o
  <2>1. PICK k \in 1 .. Len(tracked[s]) :
          /\ tracked[s][k] \in Made /\ tracked[s][k] <= o
          /\ Inst(tracked[s][k]) = Inst(o)
    BY <1>6, <1>d
  <2>2. Inst(tracked[s][k]) <= tracked[s][k]
    BY <2>1, DisposalParts DEF InstancesFirst
  <2>3. tracked[s][k] = o
    BY <1>d, <2>1, <2>2 DEF Made
  <2> QED
    BY <2>3
\* Nothing on the list is late if something that came after it is not.
<1>e. ASSUME NEW o \in Made, ~ objects[o].late, NEW k \in 1 .. Len(tracked[s]),
             tracked[s][k] \in Made, tracked[s][k] <= o
      PROVE  ~ objects[tracked[s][k]].late
  <2>1. tracked[s][k] = o \/ tracked[s][k] < o
    BY <1>e DEF Made
  <2> QED
    BY <1>e, <2>1, DisposalParts DEF LateFromThenOn
<1>7. CASE i > 0
  <2>x. PICK x : x = tracked[s][i]
    OBVIOUS
  <2>1. /\ phase' = [phase EXCEPT ![s] = "closing"]
        /\ left' = [left EXCEPT ![s] = i - 1]
        /\ log' = Append(log, x)
        /\ tracked' = tracked
    BY <1>7, <2>x DEF DisposeFrom, Visit
  <2>2. i \in 1 .. Len(tracked[s]) /\ x \in Ids /\ x \notin Logged
    BY <1>3, <1>5, <1>7, <2>x
  <2>3. /\ Logged' = Logged \cup {x} /\ Len(log) \in Nat
        /\ Len(log') = Len(log) + 1 /\ log'[Len(log) + 1] = x
        /\ \A k \in 1 .. Len(log) : log'[k] = log[k]
    BY <2>1, <2>2, LogGrows
  <2>4. /\ phase'[s] = "closing" /\ left'[s] = i - 1
        /\ \A q \in AllScopes \ {s} :
             phase'[q] = phase[q] /\ left'[q] = left[q]
    BY <2>1 DEF TypeOK
  <2>5. /\ x \in Made /\ OwnerScope(x) = s
        /\ \A k \in 1 .. Len(tracked[s]) : i < k => x < tracked[s][k]
    BY <1>2, <2>2, <2>x DEF TrackedInOrder
  <2>6. ASSUME NEW q \in AllScopes, NEW k \in 1 .. Len(tracked[q])
        PROVE  IF Disposing(q)' /\ k > left'[q]
                 THEN tracked[q][k] \in Logged' \/ objects[tracked[q][k]].late
                 ELSE tracked[q][k] \notin Logged'
    <3>y. PICK y : y = tracked[q][k]
      OBVIOUS
    <3>1. /\ y \in Made /\ OwnerScope(y) = q
          /\ IF Disposing(q) /\ k > left[q]
               THEN y \in Logged \/ objects[y].late ELSE y \notin Logged
          /\ \A j \in 1 .. Len(tracked[q]) : k < j => y < tracked[q][j]
      BY <1>2, <3>y DEF TrackedInOrder
    <3>2. CASE q # s
      <4>1. y # x /\ (Disposing(q)' <=> Disposing(q)) /\ left'[q] = left[q]
        BY <2>4, <2>5, <3>1, <3>2 DEF Disposing
      <4>2. y \in Logged' <=> y \in Logged
        BY <2>3, <4>1
      <4> QED
        BY <3>1, <3>y, <4>1, <4>2, Zenon
    <3>3. CASE q = s
      <4>1. Disposing(s)'
        BY <2>4 DEF Disposing
      <4>2. CASE k > i - 1
        <5>1. CASE k = i
          BY <2>3, <2>4, <3>3, <4>1, <4>2, <5>1, <2>x
        <5>2. CASE k # i
          <6>1. ~ (k <= i)
            BY <4>2, <5>2
          <6>2. y \in Logged \/ objects[y].late
            BY <1>4, <3>3, <3>y, <6>1
          <6>3. k > left'[q] /\ Disposing(q)'
            BY <2>4, <3>3, <4>1, <4>2
          <6> QED
            BY <2>3, <3>y, <6>2, <6>3, Zenon
        <5> QED
          BY <5>1, <5>2
      <4>3. CASE ~ (k > i - 1)
        <5>1. k \in 1 .. i /\ k < i
          BY <4>3
        <5>2. y < x
          BY <2>2, <2>x, <3>1, <3>3, <5>1
        <5>3. y # x /\ y \notin Logged
          <6>1. y \in Nat
            BY <3>1 DEF Made
          <6> QED
            BY <1>5, <3>3, <3>y, <5>1, <5>2, <6>1
        <5>4. ~ (k > left'[q])
          BY <2>4, <3>3, <4>3
        <5> QED
          BY <2>3, <3>y, <5>3, <5>4, Zenon
      <4> QED
        BY <4>2, <4>3
    <3> QED
      BY <3>2, <3>3
  <2>7. ASSUME NEW q \in AllScopes PROVE TrackedInOrder(q)'
    <3>1. TrackedInOrder(q)
      BY <1>2
    <3>2. ASSUME NEW k \in 1 .. Len(tracked'[q])
          PROVE  /\ tracked'[q][k] \in Made'
                 /\ OwnerAfter(tracked'[q][k]) = q
                 /\ \A j \in 1 .. Len(tracked'[q]) :
                      k < j => tracked'[q][k] < tracked'[q][j]
                 /\ IF Disposing(q)' /\ k > left'[q]
                      THEN \/ tracked'[q][k] \in Logged'
                           \/ objects'[tracked'[q][k]].late
                      ELSE tracked'[q][k] \notin Logged'
      <4>1. /\ tracked[q][k] \in Made
            /\ OwnerScope(tracked[q][k]) = q
            /\ \A j \in 1 .. Len(tracked[q]) : k < j => tracked[q][k] < tracked[q][j]
        BY <2>1, <3>1 DEF TrackedInOrder
      <4> QED
        BY <1>1, <2>1, <2>6, <4>1
    <3> QED
      BY <3>2 DEF TrackedInOrder, OwnerAfter, OwnerScope
  <2>a. TrackedAgain(s)' /\ \A q \in AllScopes : TrackedAgain(q)'
    BY <1>2, <2>1 DEF TrackedAgain, Inst, LifetimeOf
  <2>8. TrackedUntilClosed'
    <3>1. ASSUME NEW o \in Made, CanDispose(o), phase'[OwnerScope(o)] # "closed"
          PROVE  \E k \in 1 .. Len(tracked[OwnerScope(o)]) :
                   /\ tracked[OwnerScope(o)][k] <= o
                   /\ Inst(tracked[OwnerScope(o)][k]) = Inst(o)
      <4>1. CASE OwnerScope(o) = s
        BY <1>6, <3>1, <4>1
      <4>2. CASE OwnerScope(o) # s
        BY <1>1, <2>4, <3>1, <4>2, DisposalParts DEF TrackedUntilClosed
      <4> QED
        BY <4>1, <4>2
    <3> QED
      BY <1>1, <2>1, <3>1 DEF TrackedUntilClosed, OwnerScope, CanDispose, Inst
  <2>9. DisposedInPlace'
    <3>1. ASSUME NEW o \in Logged'
          PROVE  /\ o \in Made
                 /\ phase'[OwnerScope(o)] \in {"closing", "closed"}
                 /\ phase'[OwnerScope(o)] # "closed" =>
                      \E k \in 1 .. Len(tracked[OwnerScope(o)]) :
                        tracked[OwnerScope(o)][k] = o
      <4>1. CASE o = x
        BY <2>2, <2>4, <2>5, <2>x, <4>1
      <4>2. CASE o # x
        <5>1. /\ o \in Made /\ Disposing(OwnerScope(o))
              /\ phase[OwnerScope(o)] # "closed" =>
                   \E k \in 1 .. Len(tracked[OwnerScope(o)]) :
                     tracked[OwnerScope(o)][k] = o
          BY <2>3, <4>2, DisposalParts DEF DisposedInPlace
        <5> QED
          BY <1>1, <1>c, <2>4, <5>1 DEF Disposing
      <4> QED
        BY <4>1, <4>2
    <3> QED
      BY <1>1, <2>1, <3>1 DEF DisposedInPlace, Disposing, OwnerAfter, OwnerScope
  \* What its scope disposed of the instance before was further up on the list.
  <2>b. ASSUME NEW e \in Logged, Inst(e) = Inst(x), OwnerScope(e) = s
        PROVE  "scoped" \in {LifetimeOf(e), LifetimeOf(x)}
    <3>1. PICK k \in 1 .. Len(tracked[s]) : tracked[s][k] = e
      BY <1>c, <2>b, DisposalParts DEF DisposedInPlace
    <3>2. k # i
      BY <2>2, <2>b, <2>x, <3>1
    <3>3. CASE k < i
      BY <1>2, <2>2, <2>b, <2>x, <3>1, <3>3 DEF TrackedAgain
    <3>4. CASE i < k
      BY <1>2, <2>2, <2>b, <2>x, <3>1, <3>4 DEF TrackedAgain
    <3> QED
      BY <3>2, <3>3, <3>4, <2>2
  <2>10. ReleasedOnce'
    <3>1. ASSUME NEW k \in 1 .. Len(log'), NEW j \in 1 .. Len(log'), k # j,
                 Inst(log'[k]) = Inst(log'[j]),
                 OwnerScope(log'[k]) = OwnerScope(log'[j])
          PROVE  /\ log'[k] # log'[j]
                 /\ "scoped" \in {LifetimeOf(log'[k]), LifetimeOf(log'[j])}
      <4>1. \A m \in 1 .. Len(log') :
              \/ m \in 1 .. Len(log) /\ log'[m] = log[m] /\ log[m] \in Logged
              \/ m = Len(log) + 1 /\ log'[m] = x
        BY <2>3 DEF Logged
      <4>2. CASE k \in 1 .. Len(log) /\ j \in 1 .. Len(log)
        <5>1. log'[k] = log[k] /\ log'[j] = log[j]
          BY <2>3, <4>2
        <5> QED
          BY <3>1, <4>2, <5>1, DisposalParts DEF ReleasedOnce
      <4>3. CASE k = Len(log) + 1
        <5>1. log'[k] = x /\ log'[j] \in Logged
          BY <2>3, <3>1, <4>1, <4>3
        <5> QED
          BY <2>2, <2>5, <2>b, <3>1, <5>1
      <4>4. CASE j = Len(log) + 1
        <5>1. log'[j] = x /\ log'[k] \in Logged
          BY <2>3, <3>1, <4>1, <4>4
        <5> QED
          BY <2>2, <2>5, <2>b, <3>1, <5>1
      <4> QED
        BY <4>1, <4>2, <4>3, <4>4
    <3>2. ASSUME NEW o \in Made, phase'[OwnerScope(o)] = "closed",
                 CanDispose(o), ~ objects[o].late
          PROVE  \E e \in Logged' :
                   Inst(e) = Inst(o) /\ OwnerScope(e) = OwnerScope(o)
      <4>1. OwnerScope(o) # s
        BY <2>4, <3>2
      <4>2. phase[OwnerScope(o)] = "closed"
        BY <1>1, <2>4, <3>2, <4>1
      <4>3. PICK e \in Logged :
              Inst(e) = Inst(o) /\ OwnerScope(e) = OwnerScope(o)
        BY <3>2, <4>2, DisposalParts DEF ReleasedOnce
      <4> QED
        BY <2>3, <4>3
    <3> QED
      BY <1>1, <3>1, <3>2
      DEF ReleasedOnce, OwnerScope, Inst, CanDispose, LifetimeOf
  <2>11. DependentsFirst'
    <3>1. ASSUME NEW o \in Made, NEW d \in Made, NEW f \in objects[o].refs,
                 Inst(f) = Inst(d), OwnerScope(o) = OwnerScope(d), d < o,
                 CanDispose(o), ~ objects[o].late, d \in Logged'
          PROVE  DisposedBefore(o, d)'
      <4>1. CASE d \in Logged
        <5>1. DisposedBefore(o, d)
          BY <3>1, <4>1, DisposalParts DEF DependentsFirst
        <5> QED
          BY <2>1, <2>2, <5>1, StillBefore
      <4>2. CASE d \notin Logged
        <5>1. d = x /\ OwnerScope(o) = s /\ x < o
          BY <2>3, <2>5, <3>1, <4>2
        <5>2. PICK k \in 1 .. Len(tracked[s]) : tracked[s][k] = o
          <6>1. Inst(o) = o
            BY <3>1, DisposalParts DEF InstancesFirst
          <6> QED
            BY <1>d, <3>1, <5>1, <6>1
        <5>3. ~ (k <= i)
          <6>1. ASSUME k < i PROVE o < x
            BY <1>2, <2>2, <2>x, <5>2, <6>1 DEF TrackedInOrder
          <6>2. k = i => o = x
            BY <2>x, <5>2
          <6>3. o \in Nat /\ x \in Nat
            BY <2>5 DEF Made
          <6> QED
            BY <5>1, <6>1, <6>2, <6>3
        <5>4. o \in Logged
          BY <1>4, <3>1, <5>2, <5>3
        <5> QED
          BY <2>1, <2>2, <5>1, <5>4, BeforeTheLast
      <4> QED
        BY <4>1, <4>2
    <3> QED
      BY <1>1, <3>1 DEF DependentsFirst, OwnerScope, Inst, CanDispose
  <2>12. LateFromThenOn'
    <3>1. phase[Root] # "open" => phase'[Root] # "open"
      BY <2>1, RootIsScope DEF TypeOK
    <3> QED
      BY <1>1, <3>1, DisposalParts DEF LateFromThenOn
  <2> QED
    BY <1>a, <2>7, <2>a, <2>8, <2>9, <2>10, <2>11, <2>12
    DEF DisposalInv, DisposalDiscipline
<1>8. CASE ~ (i > 0)
  <2>1. /\ phase' = [phase EXCEPT ![s] = "closed"]
        /\ left' = [left EXCEPT ![s] = 0]
        /\ tracked' = [tracked EXCEPT ![s] = <<>>]
        /\ UNCHANGED log
    BY <1>8 DEF DisposeFrom, Close
  <2>2. /\ phase'[s] = "closed" /\ tracked'[s] = <<>>
        /\ \A q \in AllScopes \ {s} : /\ phase'[q] = phase[q]
                                      /\ left'[q] = left[q]
                                      /\ tracked'[q] = tracked[q]
    BY <2>1 DEF TypeOK
  <2>3. Logged' = Logged
    BY <2>1 DEF Logged
  <2>4. ASSUME NEW q \in AllScopes PROVE TrackedInOrder(q)'
    <3>1. CASE q = s
      BY <2>2, <3>1 DEF TrackedInOrder
    <3>2. CASE q # s
      <4>1. TrackedInOrder(q)
        BY <1>2
      <4>2. /\ tracked'[q] = tracked[q] /\ left'[q] = left[q]
            /\ (Disposing(q)' <=> Disposing(q))
        BY <2>2, <3>2 DEF Disposing
      <4>3. \A k \in 1 .. Len(tracked[q]) :
              LET y == tracked[q][k] IN
              /\ y \in Made' /\ OwnerAfter(y) = q
              /\ objects'[y].late = objects[y].late
        BY <1>1, <4>1 DEF TrackedInOrder
      <4> QED
        BY <2>3, <4>1, <4>2, <4>3 DEF TrackedInOrder, OwnerAfter, OwnerScope
    <3> QED
      BY <3>1, <3>2
  <2>a. ASSUME NEW q \in AllScopes PROVE TrackedAgain(q)'
    <3>1. CASE q = s
      BY <2>2, <3>1 DEF TrackedAgain
    <3>2. CASE q # s
      <4>1. TrackedAgain(q) /\ tracked'[q] = tracked[q]
        BY <1>2, <2>2, <3>2
      <4> QED
        BY <4>1 DEF TrackedAgain, Inst, LifetimeOf
    <3> QED
      BY <3>1, <3>2
  <2>5. TrackedUntilClosed'
    <3>1. ASSUME NEW o \in Made, CanDispose(o), phase'[OwnerScope(o)] # "closed"
          PROVE  \E k \in 1 .. Len(tracked'[OwnerScope(o)]) :
                   /\ tracked'[OwnerScope(o)][k] <= o
                   /\ Inst(tracked'[OwnerScope(o)][k]) = Inst(o)
      <4>1. OwnerScope(o) \in AllScopes \ {s}
        BY <1>1, <2>2, <3>1
      <4> QED
        BY <2>2, <3>1, <4>1, DisposalParts DEF TrackedUntilClosed
    <3> QED
      BY <1>1, <3>1 DEF TrackedUntilClosed, OwnerScope, CanDispose, Inst
  <2>6. DisposedInPlace'
    <3>1. ASSUME NEW o \in Logged
          PROVE  /\ o \in Made
                 /\ phase'[OwnerScope(o)] \in {"closing", "closed"}
                 /\ phase'[OwnerScope(o)] # "closed" =>
                      \E k \in 1 .. Len(tracked'[OwnerScope(o)]) :
                        tracked'[OwnerScope(o)][k] = o
      <4>1. /\ o \in Made /\ Disposing(OwnerScope(o))
            /\ phase[OwnerScope(o)] # "closed" =>
                 \E k \in 1 .. Len(tracked[OwnerScope(o)]) :
                   tracked[OwnerScope(o)][k] = o
        BY DisposalParts DEF DisposedInPlace
      <4> QED
        BY <1>1, <2>2, <4>1 DEF Disposing
    <3> QED
      BY <1>1, <2>3, <3>1 DEF DisposedInPlace, Disposing, OwnerAfter, OwnerScope
  <2>7. ReleasedOnce'
    <3>1. ASSUME NEW o \in Made, phase'[OwnerScope(o)] = "closed",
                 CanDispose(o), ~ objects[o].late
          PROVE  \E e \in Logged :
                   Inst(e) = Inst(o) /\ OwnerScope(e) = OwnerScope(o)
      <4>1. CASE OwnerScope(o) = s
        <5>1. PICK k \in 1 .. Len(tracked[s]) :
                /\ tracked[s][k] \in Made /\ tracked[s][k] <= o
                /\ Inst(tracked[s][k]) = Inst(o)
          BY <1>6, <3>1, <4>1
        <5>2. ~ (k <= i) /\ ~ objects[tracked[s][k]].late
          BY <1>8, <1>e, <3>1, <5>1
        <5>3. tracked[s][k] \in Logged /\ OwnerScope(tracked[s][k]) = s
          BY <1>2, <1>4, <5>2 DEF TrackedInOrder
        <5> QED
          BY <4>1, <5>1, <5>3
      <4>2. CASE OwnerScope(o) # s
        BY <1>1, <2>2, <3>1, <4>2, DisposalParts DEF ReleasedOnce
      <4> QED
        BY <4>1, <4>2
    <3> QED
      BY <1>1, <2>1, <2>3, <3>1, DisposalParts
      DEF ReleasedOnce, OwnerScope, Inst, CanDispose, LifetimeOf
  <2>8. DependentsFirst'
    <3>1. \A o, d \in Made : DisposedBefore(o, d)' <=> DisposedBefore(o, d)
      BY <2>1 DEF DisposedBefore
    <3> QED
      BY <1>1, <2>3, <3>1, DisposalParts
      DEF DependentsFirst, OwnerScope, Inst, CanDispose
  <2>9. LateFromThenOn'
    <3>1. phase[Root] # "open" => phase'[Root] # "open"
      BY <2>1, RootIsScope DEF TypeOK
    <3> QED
      BY <1>1, <3>1, DisposalParts DEF LateFromThenOn
  <2> QED
    BY <1>a, <2>4, <2>a, <2>5, <2>6, <2>7, <2>8, <2>9
    DEF DisposalInv, DisposalDiscipline
<1> QED
  BY <1>7, <1>8

\* Every disposal, and every resolution between two of its steps, keeps what
\* the disposals rely on.
LEMMA DisposalCorrect == Spec => []DisposalInv
<1> USE RegistryAssumption, RootIsScope
<1>1. Init => DisposalInv
  <2> SUFFICES ASSUME Init PROVE DisposalInv
    OBVIOUS
  <2>1. /\ Made = {} /\ Logged = {} /\ log = <<>>
        /\ \A s \in AllScopes : tracked[s] = <<>>
    BY DEF Init, Made, Logged
  <2> QED
    BY <2>1 DEF DisposalInv, DisposalDiscipline, TrackedInOrder, TrackedAgain,
       TrackedUntilClosed, DisposedInPlace, InstancesFirst, LateFromThenOn,
       ReleasedOnce, DependentsFirst
<1>2. TypeOK /\ StackDiscipline /\ ResolutionDiscipline /\ DisposalInv
        /\ [Next]_vars
      => DisposalInv'
  <2> SUFFICES ASSUME TypeOK, StackDiscipline, ResolutionDiscipline,
                      DisposalInv, [Next]_vars
               PROVE  DisposalInv'
    OBVIOUS
  <2>1. ASSUME UNCHANGED <<objects, tracked, left, log, phase>>
        PROVE  DisposalInv'
    BY <2>1, DisposalAsIs
  <2>2. ASSUME NEW s \in AllScopes, NEW t \in Tokens,
               Refuse(s, t) \/ Reuse(s, t) \/ Enter(s, t)
        PROVE  DisposalInv'
    BY <2>1, <2>2 DEF Refuse, Unwind, Reuse, Enter
  <2>3. CASE FactoryThrows
    BY <2>1, <2>3 DEF FactoryThrows, Unwind
  <2>4. CASE Construct
    BY <2>4, ConstructKeepsDisposal
  <2>5. ASSUME NEW t \in Tokens, Register(t) PROVE DisposalInv'
    BY <2>1, <2>5 DEF Register
  <2>6. ASSUME NEW s \in Scopes, CreateScope(s) PROVE DisposalInv'
    <3>1. /\ UNCHANGED <<objects, tracked, left, log>>
          /\ phase[s] = "unborn" /\ phase' = [phase EXCEPT ![s] = "open"]
      BY <2>6 DEF CreateScope
    <3>2. /\ phase'[Root] = phase[Root]
          /\ \A q \in AllScopes : \/ phase'[q] = phase[q]
                                  \/ phase[q] = "unborn" /\ phase'[q] = "open"
      BY <3>1 DEF TypeOK
    <3> QED
      BY <3>1, <3>2, DisposalAsIs
  <2>7. ASSUME NEW s \in AllScopes, Dispose(s) \/ DisposeNext(s)
        PROVE  DisposalInv'
    <3>1. Len(tracked[s]) \in Nat /\ left[s] \in Nat
      BY DEF TypeOK
    <3> QED
      BY <2>7, <3>1, DisposeKeepsDisposal DEF Dispose, DisposeNext, registry
  <2>8. CASE ClearContainer
    BY <2>1, <2>8 DEF ClearContainer
  <2>9. CASE UNCHANGED vars
    BY <2>1, <2>9 DEF vars
  <2> QED
    BY <2>2, <2>3, <2>4, <2>5, <2>6, <2>7, <2>8, <2>9 DEF Next
<1> QED
  BY <1>1, <1>2, TypeCorrect, StackCorrect, ResolutionCorrect, PTL DEF Spec

(* However the disposals of the scopes, and those of a container, interleave*)
(* with each other and with resolutions: an instance is disposed before    *)
(* what it depends on in its scope.  Only one constructed by another scope *)
(* while the container is being disposed comes too late for that.          *)
THEOREM DependentsDisposedFirst == Spec => []DependentsFirst
BY DisposalCorrect, PTL DEF DisposalInv

(* Within a scope an instance is disposed twice only if the factory of a   *)
(* scoped service is among those that returned it, and the end of a        *)
(* disposal leaves nothing of its scope behind that could be disposed:     *)
(* dispose() may be called again at any moment, factories may return one   *)
(* instance many times, and what a dispose() method throws is passed over. *)
THEOREM EverythingReleasedOnce == Spec => []ReleasedOnce
BY DisposalCorrect, PTL DEF DisposalInv

(* As long as the container itself is not disposed, no scope hands out an  *)
(* instance that it has disposed: what it keeps goes when it closes, what  *)
(* the root scope keeps is not disposed, and no factory runs in a scope    *)
(* that is being disposed.                                                 *)
THEOREM AnswersNotDisposed == Spec => NoDisposedAnswer
<1> USE RegistryAssumption, RootIsScope
<1>1. TypeOK /\ StackDiscipline /\ ResolutionDiscipline /\ EntriesOwned
        /\ DisposalInv /\ [Next]_vars
      => [result' # result /\ phase[Root] = "open" => AnswerIsAlive']_vars
  <2> SUFFICES ASSUME TypeOK, StackDiscipline, ResolutionDiscipline,
                      EntriesOwned, DisposalInv, Next,
                      result' # result, phase[Root] = "open"
               PROVE  AnswerIsAlive'
    OBVIOUS
  <2>1. \A e \in Logged : e \in Made /\ Disposing(OwnerScope(e))
    BY DisposalParts DEF DisposedInPlace
  <2>2. ASSUME result' = None PROVE AnswerIsAlive'
    BY <2>2 DEF AnswerIsAlive
  <2>3. ASSUME NEW n \in 0 .. Len(frames), Unwind(n) PROVE AnswerIsAlive'
    BY <2>2, <2>3 DEF Unwind
  <2>4. ASSUME NEW s \in AllScopes, NEW t \in Tokens, Reuse(s, t)
        PROVE  AnswerIsAlive'
    <3>o. PICK o : o = Existing(s, t)
      OBVIOUS
    <3>1. /\ ~ Rejects(s, t) /\ o # None /\ result' = o
          /\ Logged' = Logged /\ objects' = objects
      BY <2>4, <3>o DEF Reuse, Deliver, Logged
    <3>2. objects[o].token = t /\ (Lifetime[t] = "scoped" => objects[o].scope = s)
      BY <3>1, <3>o, ExistingOwned DEF StackDiscipline
    <3>3. Lifetime[t] \in {"singleton", "scoped"}
      BY <3>1, <3>o DEF Existing
    <3>4. OwnerScope(o) \in {Root, s}
      BY <3>2, <3>3 DEF OwnerScope, OwnerOf
    <3>5. ~ Disposing(Root) /\ ~ Disposing(s)
      BY <3>1 DEF Rejects, Disposing
    <3>6. \A e \in Logged : OwnerScope(e) # OwnerScope(o)
      BY <2>1, <3>4, <3>5
    <3> QED
      BY <3>1, <3>6 DEF AnswerIsAlive, OwnerScope, Inst
  <2>5. ASSUME Construct PROVE AnswerIsAlive'
    <3>1. PICK p \in Ids : Returns(p)
      BY <2>5, ConstructReturns
    <3>o. PICK o : o = Len(objects) + 1
      OBVIOUS
    <3>2. /\ Top = frames[Len(frames)] /\ Len(frames) \in 1 .. Len(frames)
          /\ objects'[o].token = Top.token /\ objects'[o].scope = Top.scope
          /\ \A r \in Made : objects'[r] = objects[r]
      BY <2>5, <3>1, <3>o, ConstructEffect
    <3>3. Logged' = Logged /\ Deliver(o, Popped)
      BY <3>1, <3>o DEF Returns, Logged
    <3>4. result' = o
      BY <3>3 DEF Deliver
    <3>5. phase[Top.scope] = "open"
      BY <3>2 DEF ResolutionDiscipline
    <3>6. OwnerAfter(o) \in {Root, Top.scope}
      BY <3>2 DEF OwnerAfter, OwnerOf
    <3>7. \A e \in Logged : OwnerAfter(e) = OwnerScope(e)
      BY <2>1, <3>2 DEF OwnerAfter, OwnerScope
    <3>8. \A e \in Logged : OwnerAfter(e) # OwnerAfter(o)
      BY <2>1, <3>5, <3>6, <3>7 DEF Disposing
    <3> QED
      BY <3>3, <3>4, <3>8 DEF AnswerIsAlive, OwnerAfter, OwnerScope
  <2>6. ASSUME NEW s \in AllScopes, NEW t \in Tokens, Enter(s, t)
        PROVE  AnswerIsAlive'
    BY <2>6 DEF Enter
  <2>7. NoAnswer => AnswerIsAlive'
    BY <2>2 DEF NoAnswer
  <2> QED
    BY <2>3, <2>4, <2>5, <2>6, <2>7 DEF Next, Refuse, FactoryThrows, Register,
       CreateScope, Dispose, DisposeNext, ClearContainer
<1> QED
  BY <1>1, TypeCorrect, StackCorrect, ResolutionCorrect, DisposalCorrect, PTL
  DEF Spec, NoDisposedAnswer

=============================================================================
