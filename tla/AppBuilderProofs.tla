------------------------- MODULE AppBuilderProofs -------------------------
(***************************************************************************)
(* A build that succeeds hands out a complete container, however many      *)
(* attempts failed before it, when a reset is over before the retry gets   *)
(* to its modules (Prompt).                                                *)
(***************************************************************************)
EXTENDS AppBuilder, FiniteSetTheorems, SequenceTheorems, TLAPS

\* The prefix of a sequence that ends with its element m, taken apart.
LEMMA PrefixSplit ==
  ASSUME NEW S, NEW q \in Seq(S), NEW m \in 1 .. Len(q)
  PROVE  SubSeq(q, 1, m) = Append(SubSeq(q, 1, m - 1), q[m])
  OBVIOUS

\* What is appended to a sequence does not change its prefixes.
LEMMA PrefixKept ==
  ASSUME NEW S, NEW q \in Seq(S), NEW r \in Seq(S), NEW m \in 0 .. Len(q)
  PROVE  SubSeq(q \o r, 1, m) = SubSeq(q, 1, m)
  OBVIOUS

LEMMA PrefixesKept ==
  ASSUME NEW S, NEW q \in Seq(S), NEW r \in Seq(S), NEW m \in Nat \ {0}, m <= Len(q)
  PROVE  /\ SubSeq(q \o r, 1, m) = SubSeq(q, 1, m)
         /\ SubSeq(q \o r, 1, m - 1) = SubSeq(q, 1, m - 1)
<1>1. m \in 0 .. Len(q) /\ m - 1 \in 0 .. Len(q)
  OBVIOUS
<1> QED
  BY <1>1, PrefixKept

\* Adding a module appends a sequence of modules to the queue.
LEMMA AddExtends ==
  ASSUME TypeOK, NEW m \in Modules, Add(m)
  PROVE  \E r \in Seq(Modules) : queue' = queue \o r
<1> DEFINE S == Requires[m] \ Members(queue)
<1>1. S \in SUBSET Modules /\ Cardinality(S) \in Nat
  BY BuilderAssumption, FS_Subset, FS_CardinalityType
<1>2. PICK r \in Missing(m) : queue' = queue \o Append(r, m)
  BY DEF Add
<1>3. r \in Seq(Modules)
  <2>1. r \in [1 .. Cardinality(S) -> S]
    BY <1>2 DEF Missing
  <2> HIDE DEF S
  <2>2. r \in [1 .. Cardinality(S) -> Modules]
    BY <1>1, <2>1
  <2> QED
    BY <1>1, <2>2
<1>4. Append(r, m) \in Seq(Modules)
  BY <1>3
<1> QED
  BY <1>2, <1>4

\* Sorting the queue keeps its length and its modules' type.
LEMMA SortType ==
  ASSUME NEW q \in Seq(Modules), NEW r \in Sorted(q)
  PROVE  r \in Seq(Modules) /\ Len(r) = Len(q)
<1>1. Members(q) \subseteq Modules
  BY DEF Members
<1> QED
  BY <1>1 DEF Sorted

\* What an attempt's step makes of the attempts.
LEMMA BecomesFacts ==
  ASSUME TypeOK, NEW a \in Attempts, NEW stage \in Stages,
         NEW m \in Nat \ {0}, NEW c \in Containers, m <= Len(queue),
         Becomes(a, stage, m, c)
  PROVE  /\ attempt' \in [Attempts -> Attempt]
         /\ \A b \in Attempts : attempt'[b].module <= Len(queue)
         /\ \A b \in Attempts \ {a} : attempt'[b] = attempt[b]
         /\ attempt'[a].at = stage /\ attempt'[a].module = m
         /\ attempt'[a].target = c
  BY DEF Becomes, TypeOK, Attempt

\* The same for a step that leaves the attempt its module and its container.
LEMMA EntersFacts ==
  ASSUME TypeOK, NEW a \in Attempts, NEW stage \in Stages, Enters(a, stage)
  PROVE  /\ attempt' \in [Attempts -> Attempt]
         /\ \A b \in Attempts : attempt'[b].module <= Len(queue)
         /\ \A b \in Attempts \ {a} : attempt'[b] = attempt[b]
         /\ attempt'[a].at = stage
         /\ attempt'[a].module = attempt[a].module
         /\ attempt'[a].target = attempt[a].target
<1>1. /\ attempt[a].module \in Nat \ {0} /\ attempt[a].target \in Containers
      /\ attempt[a].module <= Len(queue)
  BY DEF TypeOK, Attempt
<1> QED
  BY <1>1, BecomesFacts DEF Enters

\* Every variable keeps its type.
THEOREM TypeCorrect == Spec => []TypeOK
<1> USE BuilderAssumption
<1>1. Init => TypeOK
  <2> SUFFICES ASSUME Init PROVE TypeOK
    OBVIOUS
  <2>1. attempt \in [Attempts -> Attempt] /\ container \in Containers
    BY DEF Init, Containers, Attempt, Stages
  <2>2. registered \in [Containers -> Seq(Modules \cup {Config})]
    <3>1. <<>> \in Seq(Modules \cup {Config})
          /\ <<Config>> \in Seq(Modules \cup {Config})
      OBVIOUS
    <3> QED
      BY <3>1 DEF Init
  <2>3. callers \in [Callers -> [at : {"idle", "waiting", "built", "refused"},
                               on : Attempts]]
    BY DEF Init, Attempts
  <2>4. queue \in Seq(Modules) /\ \A a \in Attempts : attempt[a].module <= Len(queue)
    BY DEF Init
  <2> QED
    BY <2>1, <2>2, <2>3, <2>4 DEF Init, TypeOK
<1>2. ASSUME TypeOK, [Next]_vars PROVE TypeOK'
  <2>1. ASSUME NEW m \in Modules, Add(m) PROVE TypeOK'
    <3>1. PICK r \in Seq(Modules) : queue' = queue \o r
      BY <1>2, <2>1, AddExtends
    <3>2. queue' \in Seq(Modules) /\ Len(queue') >= Len(queue)
      BY <1>2, <3>1 DEF TypeOK
    <3>3. \A a \in Attempts : attempt[a].module <= Len(queue')
      BY <1>2, <3>2 DEF TypeOK, Attempt
    <3> QED
      BY <1>2, <2>1, <3>2, <3>3 DEF Add, TypeOK
  <2>2. ASSUME NEW k \in Callers, Join(k) PROVE TypeOK'
    <3>1. promise \in Attempts
      BY <1>2, <2>2 DEF Join, TypeOK
    <3> QED
      BY <1>2, <2>2, <3>1 DEF Join, TypeOK
  <2>3. ASSUME NEW k \in Callers, NEW a \in Attempts, Start(k, a) PROVE TypeOK'
    <3>1. queue' \in Seq(Modules) /\ Len(queue') = Len(queue)
      BY <1>2, <2>3, SortType DEF TypeOK, Start
    <3>2. /\ attempt' \in [Attempts -> Attempt]
          /\ \A b \in Attempts : attempt'[b].module <= Len(queue)
      BY <1>2, <2>3, EntersFacts DEF Start, Stages
    <3> QED
      BY <1>2, <2>3, <3>1, <3>2 DEF TypeOK, Start
  <2>4. ASSUME NEW k \in Callers, Answer(k) PROVE TypeOK'
    BY <1>2, <2>4 DEF Answer, TypeOK
  <2>5. ASSUME NEW a \in Attempts,
               Configure(a) \/ ModuleFails(a) \/ Register(a)
        PROVE TypeOK'
    <3>1. attempt[a] \in Attempt
      BY <1>2 DEF TypeOK
    <3>2. /\ attempt' \in [Attempts -> Attempt]
          /\ \A b \in Attempts : attempt'[b].module <= Len(queue)
      <4>1. /\ attempt[a].module \in Nat \ {0} /\ attempt[a].module <= Len(queue)
            /\ attempt[a].target \in Containers /\ container \in Containers
            /\ attempt[a].module < Len(queue) =>
                 /\ attempt[a].module + 1 \in Nat \ {0}
                 /\ attempt[a].module + 1 <= Len(queue)
        BY <1>2, <3>1 DEF TypeOK, Attempt
      <4>2. CASE Configure(a)
        BY <1>2, <4>1, <4>2, BecomesFacts DEF Configure, Stages
      <4>3. CASE ModuleFails(a)
        BY <1>2, <4>3, EntersFacts DEF ModuleFails, Stages
      <4>4. CASE Register(a)
        BY <1>2, <4>1, <4>4, BecomesFacts DEF Register, Stages
      <4> QED
        BY <2>5, <4>2, <4>3, <4>4
    <3>3. ASSUME Enrol(a), attempt[a].at = "configuring"
          PROVE  registered' \in [Containers -> Seq(Modules \cup {Config})]
      <4> DEFINE c == attempt[a].target
      <4>1. c \in Containers /\ registered[c] \in Seq(Modules \cup {Config})
        BY <1>2, <3>1 DEF TypeOK, Attempt
      <4>2. Current(a) \in Modules
        BY <1>2, <3>1 DEF TypeOK, Attempt, Current
      <4> QED
        BY <1>2, <3>3, <4>1, <4>2 DEF Enrol, TypeOK
    <3> QED
      BY <1>2, <2>5, <3>2, <3>3 DEF Configure, ModuleFails, Register, TypeOK
  <2>6. ASSUME NEW a \in Attempts, Recover(a) \/ Clear(a) \/ Renew(a)
        PROVE TypeOK'
    <3>1. /\ attempt[a].module \in Nat \ {0} /\ attempt[a].module <= Len(queue)
          /\ container \in Containers
      BY <1>2 DEF TypeOK, Attempt
    <3>2. /\ attempt' \in [Attempts -> Attempt]
          /\ \A b \in Attempts : attempt'[b].module <= Len(queue)
      BY <1>2, <2>6, <3>1, BecomesFacts, EntersFacts
      DEF Recover, Clear, Renew, Stages
    <3>3. a \in Containers /\ <<>> \in Seq(Modules \cup {Config})
          /\ <<Config>> \in Seq(Modules \cup {Config})
      BY DEF Attempts, Containers
    <3>4. registered' \in [Containers -> Seq(Modules \cup {Config})]
      BY <1>2, <2>6, <3>3 DEF Recover, Clear, Renew, TypeOK
    <3>5. UNCHANGED <<queue, callers>>
          /\ promise' \in {promise, None} /\ container' \in {container, a}
      BY <2>6 DEF Recover, Clear, Renew
    <3> QED
      BY <1>2, <3>2, <3>3, <3>4, <3>5 DEF TypeOK
  <2>7. CASE UNCHANGED vars
    BY <1>2, <2>7 DEF vars, TypeOK
  <2> QED
    BY <1>2, <2>1, <2>2, <2>3, <2>4, <2>5, <2>6, <2>7 DEF Next
<1> QED
  BY <1>1, <1>2, PTL DEF Spec

-----------------------------------------------------------------------------
\* What callers rely on follows from the discipline: one attempt holds the
\* promise, and its container is complete and not among the disposed ones.
LEMMA DisciplineImplies ==
  ASSUME TypeOK, BuildDiscipline
  PROVE  BuiltIsComplete
<1>1. SingleFlight
  BY DEF BuildDiscipline, PromiseHeld, SingleFlight, Building, At
<1>2. ASSUME NEW a \in At({"ok"})
      PROVE  LET c == attempt[a].target IN
             /\ Members(registered[c]) = {Config} \cup Configured(a)
             /\ c \notin Disposed
  <2> DEFINE m == attempt[a].module
             done == SubSeq(queue, 1, m)
  <2>1. /\ a \in Attempts /\ attempt[a].target = container /\ Resetting = {}
        /\ registered[container] = <<Config>> \o done
    BY <1>2 DEF BuildDiscipline, Progress, At
  <2>2. m \in 1 .. Len(queue) /\ queue \in Seq(Modules)
    BY <2>1 DEF TypeOK, Attempt
  <2>3. /\ done \in Seq(Modules) /\ Len(done) = m
        /\ \A i \in 1 .. m : done[i] = queue[i]
    BY <2>2
  <2>4. /\ Len(<<Config>> \o done) = m + 1
        /\ (<<Config>> \o done)[1] = Config
        /\ \A i \in 1 .. m : (<<Config>> \o done)[i + 1] = queue[i]
    BY <2>2, <2>3
  <2> HIDE DEF done
  <2>5. Members(<<Config>> \o done) = {Config} \cup Configured(a)
    <3> DEFINE s == <<Config>> \o done
    <3>1. Len(s) = m + 1 /\ s[1] = Config /\ \A i \in 1 .. m : s[i + 1] = queue[i]
      BY <2>4
    <3> HIDE DEF s
    <3>2. \A i \in 1 .. m + 1 : i = 1 \/ (i - 1 \in 1 .. m /\ i = (i - 1) + 1)
      BY <2>2
    <3>3. Members(s) \subseteq {Config} \cup Configured(a)
      <4> SUFFICES ASSUME NEW i \in 1 .. m + 1
                   PROVE  s[i] \in {Config} \cup Configured(a)
        BY <3>1 DEF Members
      <4>1. i - 1 \in 1 .. m => s[i] = queue[i - 1]
        BY <3>1, <3>2
      <4> QED
        BY <3>1, <3>2, <4>1 DEF Configured
    <3>4. \A i \in 1 .. m : i + 1 \in 1 .. m + 1
      BY <2>2
    <3>5. 1 \in 1 .. m + 1
      BY <2>2
    <3>6. {Config} \cup Configured(a) \subseteq Members(s)
      BY <3>1, <3>4, <3>5 DEF Members, Configured
    <3> QED
      BY <3>3, <3>6 DEF s
  <2>6. container \notin Disposed
    BY <2>1 DEF BuildDiscipline, ContainersFresh, Disposed
  <2> QED
    BY <2>1, <2>5, <2>6
<1> QED
  BY <1>1, <1>2 DEF BuiltIsComplete

\* Containers are numbered after the attempts whose resets made them.
LEMMA ContainerNumbers ==
  ASSUME TypeOK
  PROVE  /\ 0 \notin Attempts
         /\ container \in Attempts \cup {0}
         /\ \A b \in Attempts : attempt[b].target \in Attempts \cup {0}
<1>1. \A b \in Attempts : attempt[b].target \in Containers
  BY DEF TypeOK, Attempt
<1>2. 0 \notin Attempts /\ Containers = Attempts \cup {0}
  BY BuilderAssumption DEF Attempts, Containers
<1> QED
  BY <1>1, <1>2 DEF TypeOK

\* Only the end of a reset brings in a new container.
LEMMA FreshKept ==
  ASSUME TypeOK, ContainersFresh, NEW a \in Attempts,
         attempt[a].at # "failed", attempt'[a].at # "failed",
         \A b \in Attempts \ {a} : attempt'[b] = attempt[b],
         attempt'[a].target \in {attempt[a].target, container},
         container' = container
  PROVE  ContainersFresh'
<1>1. container # 0 => container \in Attempts \ {a}
  BY ContainerNumbers DEF ContainersFresh
<1>2. \A b \in Attempts : attempt[b].target # 0 =>
        attempt[b].target \in Attempts \ {a}
  BY ContainerNumbers DEF ContainersFresh
<1>3. \A b \in Attempts : attempt'[b].target # 0 =>
        /\ attempt'[b].target \in Attempts \ {a}
        /\ attempt[attempt'[b].target].at = "failed"
  BY <1>1, <1>2 DEF ContainersFresh
<1>4. \A b \in At({"failed"})' : b # a /\ b \in At({"failed"})
  BY DEF At
<1>5. container' # 0 => attempt'[container'].at = "failed"
  BY <1>1 DEF ContainersFresh
<1>6. \A b \in Attempts : attempt'[b].target # 0 =>
        attempt'[attempt'[b].target].at = "failed"
  BY <1>3
<1>7. \A b \in At({"failed"})' : attempt'[b].target # container'
  <2> SUFFICES ASSUME NEW b \in At({"failed"})'
               PROVE  attempt'[b].target # container'
    OBVIOUS
  <2>1. b \in Attempts \ {a} /\ b \in At({"failed"})
    BY <1>4 DEF At
  <2>2. attempt'[b].target = attempt[b].target
    BY <2>1
  <2>3. attempt[b].target # container
    BY <2>1 DEF ContainersFresh
  <2> QED
    BY <2>2, <2>3
<1> QED
  BY <1>5, <1>6, <1>7 DEF ContainersFresh

\* A retry starts over, and what build() hands out is complete: for every
\* registry of modules and every number of attempts, when resets are prompt.
THEOREM RetriesStartOver ==
  ASSUME Prompt PROVE Spec => []BuildDiscipline
<1> USE BuilderAssumption
<1>1. Init => BuildDiscipline
  <2> SUFFICES ASSUME Init PROVE BuildDiscipline
    OBVIOUS
  <2>1. \A a \in Attempts : attempt[a].at = "unused" /\ attempt[a].module = 1
                             /\ attempt[a].target = 0
    BY DEF Init
  <2>2. Building = {} /\ At({"failed"}) = {}
    BY <2>1 DEF Building, At
  <2>3. registered[container] = <<Config>> /\ promise \notin Attempts
    BY DEF Init, Attempts, Containers
  <2> QED
    BY <2>1, <2>2, <2>3 DEF Init, BuildDiscipline, PromiseHeld,
       ContainersFresh, Progress, CleanSlate
<1>2. ASSUME TypeOK, TypeOK', BuildDiscipline, [Next]_vars
      PROVE  BuildDiscipline'
  <2> USE <1>2
  <2>a. /\ PromiseHeld /\ ContainersFresh /\ Progress /\ CleanSlate
    BY DEF BuildDiscipline
  <2>1. ASSUME NEW m \in Modules, Add(m) PROVE BuildDiscipline'
    <3>1. PICK r \in Seq(Modules) : queue' = queue \o r
      BY <2>1, AddExtends
    <3>2. UNCHANGED <<promise, attempt, container, registered>>
      BY <2>1 DEF Add
    <3>3. \A a \in Attempts :
            LET n == attempt[a].module IN
            /\ SubSeq(queue', 1, n) = SubSeq(queue, 1, n)
            /\ SubSeq(queue', 1, n - 1) = SubSeq(queue, 1, n - 1)
      <4> SUFFICES ASSUME NEW a \in Attempts
                   PROVE  LET n == attempt[a].module IN
                          /\ SubSeq(queue', 1, n) = SubSeq(queue, 1, n)
                          /\ SubSeq(queue', 1, n - 1) = SubSeq(queue, 1, n - 1)
        OBVIOUS
      <4> DEFINE n == attempt[a].module
      <4>1. n \in Nat \ {0} /\ n <= Len(queue) /\ queue \in Seq(Modules)
            /\ r \in Seq(Modules)
        BY DEF TypeOK, Attempt
      <4> HIDE DEF n
      <4>2. /\ SubSeq(queue \o r, 1, n) = SubSeq(queue, 1, n)
            /\ SubSeq(queue \o r, 1, n - 1) = SubSeq(queue, 1, n - 1)
        BY <4>1, PrefixesKept
      <4> QED
        BY <3>1, <4>2 DEF n
    <3>4. PromiseHeld' /\ ContainersFresh'
      BY <2>a, <3>2 DEF PromiseHeld, ContainersFresh, At
    <3>5. Progress' /\ CleanSlate'
      BY <2>a, <3>2, <3>3 DEF Progress, CleanSlate, Building, Resetting, At
    <3> QED
      BY <3>4, <3>5 DEF BuildDiscipline
  <2>2. ASSUME NEW k \in Callers, Join(k) \/ Answer(k) PROVE BuildDiscipline'
    BY <2>2 DEF Join, Answer, BuildDiscipline, PromiseHeld, ContainersFresh,
       Progress, CleanSlate, Building, Resetting, At
  <2>3. ASSUME NEW k \in Callers, NEW a \in Attempts, Start(k, a)
        PROVE BuildDiscipline'
    <3>1. /\ promise = None /\ promise' = a /\ attempt[a].at = "unused"
          /\ UNCHANGED <<container, registered>>
          /\ \A b \in Attempts \ {a} : attempt'[b] = attempt[b]
          /\ attempt'[a].at = "loading"
          /\ attempt'[a].module = attempt[a].module
          /\ attempt'[a].target = attempt[a].target
      BY <2>3, EntersFacts DEF Start, Stages
    <3>2. /\ attempt[a].module = 1
          /\ \A b \in Attempts :
               attempt[b].at \notin {"loading", "configuring", "ok", "rejected"}
      BY <2>a, <3>1 DEF PromiseHeld, Progress, Attempts
    <3>3. Resetting' = Resetting
      BY <3>1 DEF Resetting, At
    <3>4. SubSeq(queue', 1, 0) = <<>>
      BY DEF TypeOK
    <3>5. PromiseHeld'
      BY <3>1, <3>2 DEF PromiseHeld
    <3>6. ContainersFresh'
      BY <2>a, <3>1, FreshKept
    <3>7. Progress'
      BY <2>a, <3>1, <3>2, <3>3 DEF Progress, Attempts
    <3>8. CleanSlate'
      <4> SUFFICES ASSUME NEW b \in Building', Resetting = {}
                   PROVE  registered[container] =
                     <<Config>> \o SubSeq(queue', 1, attempt'[b].module - 1)
        BY <3>1, <3>3 DEF CleanSlate
      <4>1. b = a
        BY <3>1, <3>2 DEF Building, At
      <4>2. attempt'[b].module - 1 = 0
        BY <3>1, <3>2, <4>1
      <4>3. registered[container] = <<Config>>
        BY <2>a, <3>1 DEF Progress
      <4>4. <<Config>> \o <<>> = <<Config>>
        OBVIOUS
      <4> QED
        BY <3>4, <4>2, <4>3, <4>4
    <3> QED
      BY <3>5, <3>6, <3>7, <3>8 DEF BuildDiscipline
  <2>4. ASSUME NEW a \in Attempts, Configure(a) PROVE BuildDiscipline'
    <3>1. /\ attempt[a].at = "loading" /\ Resetting = {}
          /\ UNCHANGED <<queue, promise, container, registered>>
          /\ \A b \in Attempts \ {a} : attempt'[b] = attempt[b]
          /\ attempt'[a].at = "configuring"
          /\ attempt'[a].module = attempt[a].module
          /\ attempt'[a].target = container
      <4>1. /\ attempt[a].module \in Nat \ {0} /\ attempt[a].module <= Len(queue)
            /\ container \in Containers
        BY DEF TypeOK, Attempt
      <4> QED
        BY <2>4, <4>1, BecomesFacts DEF Configure, Stages
    <3>2. Resetting' = {}
      BY <3>1 DEF Resetting, At
    <3>3. PromiseHeld'
      BY <2>a, <3>1 DEF PromiseHeld
    <3>4. ContainersFresh'
      BY <2>a, <3>1, FreshKept
    <3>5. Progress'
      BY <2>a, <3>1, <3>2 DEF Progress
    <3>6. CleanSlate'
      <4> SUFFICES ASSUME NEW b \in Building'
                   PROVE  registered[container] =
                     <<Config>> \o SubSeq(queue, 1, attempt'[b].module - 1)
        BY <3>1 DEF CleanSlate
      <4>1. b \in Building /\ attempt'[b].module = attempt[b].module
        BY <3>1 DEF Building, At
      <4> QED
        BY <2>a, <3>1, <4>1 DEF CleanSlate
    <3> QED
      BY <3>3, <3>4, <3>5, <3>6 DEF BuildDiscipline
  <2>5. ASSUME NEW a \in Attempts, Register(a) PROVE BuildDiscipline'
    <3> DEFINE m == attempt[a].module
    <3>1. /\ attempt[a].at = "configuring" /\ Enrol(a)
          /\ UNCHANGED <<queue, promise, container>>
          /\ promise = a
          /\ attempt[a].target = container /\ Resetting = {}
      BY <2>5, <2>a DEF Register, PromiseHeld, Progress
    <3>2. m \in 1 .. Len(queue) /\ queue \in Seq(Modules) /\ container \in Containers
      BY DEF TypeOK, Attempt
    <3>3. /\ \A b \in Attempts \ {a} : attempt'[b] = attempt[b]
          /\ attempt'[a].target = container
          /\ \/ /\ attempt'[a].at = "loading" /\ attempt'[a].module = m + 1
             \/ /\ attempt'[a].at = "ok" /\ attempt'[a].module = m
      <4>1. CASE m < Len(queue)
        <5>1. m + 1 \in Nat \ {0} /\ m + 1 <= Len(queue)
          BY <3>2, <4>1
        <5> QED
          BY <2>5, <3>1, <3>2, <4>1, <5>1, BecomesFacts DEF Register, Stages
      <4>2. CASE ~ (m < Len(queue))
        <5>1. Becomes(a, "ok", attempt[a].module, container)
          BY <2>5, <4>2 DEF Register
        <5>2. attempt[a].module \in Nat \ {0} /\ attempt[a].module <= Len(queue)
          BY <3>2
        <5>3. "ok" \in Stages
          BY DEF Stages
        <5> QED
          BY <3>2, <5>1, <5>2, <5>3, BecomesFacts
      <4> QED
        BY <4>1, <4>2
    <3>4. Resetting' = {}
      BY <3>1, <3>3 DEF Resetting, At
    <3>5. registered'[container] = <<Config>> \o SubSeq(queue, 1, m)
      <4> DEFINE before == SubSeq(queue, 1, m - 1)
      <4>1. registered[container] = <<Config>> \o before
        BY <2>a, <3>1 DEF CleanSlate, Building, At
      <4>2. registered'[container] = Append(registered[container], queue[m])
        BY <3>1, <3>2 DEF Enrol, Current, TypeOK
      <4>3. before \in Seq(Modules) /\ queue[m] \in Modules
        BY <3>2
      <4>4. SubSeq(queue, 1, m) = Append(before, queue[m])
        BY <3>2, PrefixSplit
      <4> HIDE DEF before
      <4>5. Append(<<Config>> \o before, queue[m]) = <<Config>> \o Append(before, queue[m])
        BY <4>3
      <4> QED
        BY <4>1, <4>2, <4>4, <4>5
    <3>6. PromiseHeld'
      BY <2>a, <3>1, <3>3 DEF PromiseHeld
    <3>7. ContainersFresh'
      BY <2>a, <3>1, <3>3, FreshKept
    <3>8. Progress'
      <4>1. \A b \in Attempts \ {a} :
              attempt'[b].at \notin {"configuring", "ok", "loading"}
        BY <2>a, <3>1, <3>3 DEF PromiseHeld
      <4>2. promise' # None
        BY <3>1 DEF Attempts
      <4>3. \A b \in Attempts \ {a} :
              attempt'[b].at = "unused" => attempt'[b].module = 1
        BY <2>a, <3>3 DEF Progress
      <4> QED
        BY <3>1, <3>3, <3>4, <3>5, <4>1, <4>2, <4>3 DEF Progress
    <3>9. CleanSlate'
      <4> SUFFICES ASSUME NEW b \in Building'
                   PROVE  registered'[container] =
                     <<Config>> \o SubSeq(queue, 1, attempt'[b].module - 1)
        BY <3>1 DEF CleanSlate
      <4>1. b = a
        BY <2>a, <3>1, <3>3 DEF Building, At, PromiseHeld
      <4>2. attempt'[a].module = m + 1
        BY <3>3, <4>1 DEF Building, At
      <4>3. attempt'[b].module - 1 = m
        BY <3>2, <4>1, <4>2
      <4> QED
        BY <3>5, <4>3
    <3> QED
      BY <3>6, <3>7, <3>8, <3>9 DEF BuildDiscipline
  <2>6. ASSUME NEW a \in Attempts, ModuleFails(a) PROVE BuildDiscipline'
    <3>1. /\ attempt[a].at \in {"loading", "configuring"} /\ promise = a
          /\ UNCHANGED <<queue, promise, container>>
          /\ \A b \in Attempts \ {a} : attempt'[b] = attempt[b]
          /\ attempt'[a].at = "rejected"
          /\ attempt'[a].module = attempt[a].module
          /\ attempt'[a].target = attempt[a].target
      BY <2>6, <2>a, EntersFacts DEF ModuleFails, Stages, PromiseHeld
    <3>2. PromiseHeld'
      BY <2>a, <3>1 DEF PromiseHeld
    <3>3. ContainersFresh'
      BY <2>a, <3>1, FreshKept
    <3>4. Resetting' = Resetting
      BY <3>1 DEF Resetting, At
    <3>5. \A b \in Attempts :
            attempt'[b].at \notin {"loading", "configuring", "ok"}
      BY <2>a, <3>1 DEF PromiseHeld
    <3>6. promise' # None
      BY <3>1 DEF Attempts
    <3>7. Progress' /\ CleanSlate'
      BY <2>a, <3>1, <3>4, <3>5, <3>6 DEF Progress, CleanSlate, Building, At
    <3> QED
      BY <3>2, <3>3, <3>7 DEF BuildDiscipline
  <2>7. ASSUME NEW a \in Attempts, Recover(a) PROVE BuildDiscipline'
    <3>1. attempt[a].at = "rejected" /\ promise = a
      BY <2>7, <2>a DEF Recover, PromiseHeld
    <3>2. /\ promise' = None /\ UNCHANGED <<queue, container, registered>>
          /\ \A b \in Attempts \ {a} : attempt'[b] = attempt[b]
          /\ attempt'[a].at = "resetting"
          /\ attempt'[a].module = attempt[a].module
          /\ attempt'[a].target = container
      <4>1. /\ attempt[a].module \in Nat \ {0} /\ attempt[a].module <= Len(queue)
            /\ container \in Containers
        BY DEF TypeOK, Attempt
      <4> QED
        BY <2>7, <3>1, <4>1, BecomesFacts DEF Recover, Stages
    <3>3. \A b \in Attempts :
            attempt'[b].at \notin {"loading", "configuring", "ok", "rejected"}
      BY <2>a, <3>1, <3>2 DEF PromiseHeld
    <3>4. a \in Resetting'
      BY <3>2 DEF Resetting, At
    <3>5. PromiseHeld'
      BY <3>2, <3>3 DEF PromiseHeld, Attempts
    <3>6. ContainersFresh'
      BY <2>a, <3>1, <3>2, FreshKept
    <3>7. Progress' /\ CleanSlate'
      BY <2>a, <3>2, <3>3, <3>4 DEF Progress, CleanSlate, Building, At
    <3> QED
      BY <3>5, <3>6, <3>7 DEF BuildDiscipline
  <2>8. ASSUME NEW a \in Attempts, Clear(a) PROVE BuildDiscipline'
    <3>1. /\ attempt[a].at = "resetting"
          /\ UNCHANGED <<queue, promise, container>>
          /\ \A b \in Attempts \ {a} : attempt'[b] = attempt[b]
          /\ attempt'[a].at = "cleared"
          /\ attempt'[a].module = attempt[a].module
          /\ attempt'[a].target = attempt[a].target
      BY <2>8, EntersFacts DEF Clear, Stages
    <3>2. a \in Resetting /\ a \in Resetting'
      BY <3>1 DEF Resetting, At
    <3>3. PromiseHeld'
      BY <2>a, <3>1 DEF PromiseHeld
    <3>4. ContainersFresh'
      BY <2>a, <3>1, FreshKept
    <3>5. Progress' /\ CleanSlate'
      BY <2>a, <3>1, <3>2 DEF Progress, CleanSlate
    <3> QED
      BY <3>3, <3>4, <3>5 DEF BuildDiscipline
  <2>9. ASSUME NEW a \in Attempts, Renew(a) PROVE BuildDiscipline'
    <3>1. /\ attempt[a].at = "cleared"
          /\ UNCHANGED <<queue, promise>>
          /\ container' = a
          /\ \A b \in Attempts \ {a} : attempt'[b] = attempt[b]
          /\ attempt'[a].at = "failed"
          /\ attempt'[a].module = attempt[a].module
          /\ attempt'[a].target = attempt[a].target
      BY <2>9, EntersFacts DEF Renew, Stages
    <3>2. registered'[a] = <<Config>>
      BY <2>9 DEF Renew, TypeOK, Attempts, Containers
    <3>3. a \in Resetting /\ a # 0
      BY <3>1 DEF Resetting, At, Attempts
    <3>4. PromiseHeld'
      BY <2>a, <3>1 DEF PromiseHeld
    <3>5. \A b \in Attempts : attempt[b].target # a
      BY <2>a, <3>1, <3>3 DEF ContainersFresh
    <3>6. ContainersFresh'
      <4>1. \A b \in Attempts :
              /\ attempt'[b].target = attempt[b].target
              /\ attempt[b].at = "failed" => attempt'[b].at = "failed"
        BY <3>1
      <4>2. \A b \in Attempts : attempt[b].target # 0 =>
              /\ attempt[b].target \in Attempts
              /\ attempt[attempt[b].target].at = "failed"
        BY <2>a, ContainerNumbers DEF ContainersFresh
      <4>3. \A b \in Attempts : attempt'[b].target # 0 =>
              attempt'[attempt'[b].target].at = "failed"
        BY <4>1, <4>2
      <4>4. attempt'[container'].at = "failed"
        BY <3>1
      <4>5. \A b \in At({"failed"})' : attempt'[b].target # container'
        BY <3>1, <3>5, <4>1 DEF At
      <4> QED
        BY <4>3, <4>4, <4>5 DEF ContainersFresh
    <3>7. \A b \in Attempts :
            /\ attempt[b].at \notin {"configuring", "ok"}
            /\ attempt[b].at = "loading" => attempt[b].module = 1
      <4>1. \A b \in Attempts : attempt[b].module \in Nat \ {0}
        BY DEF TypeOK, Attempt
      <4>2. \A b \in Attempts :
              /\ attempt[b].at \notin {"configuring", "ok"}
              /\ attempt[b].at = "loading" => ~ (attempt[b].module > 1)
        BY <2>a, <3>3 DEF Progress
      <4> QED
        BY <4>1, <4>2
    <3>8. Progress'
      BY <2>a, <3>1, <3>2, <3>7 DEF Progress
    <3>9. CleanSlate'
      <4> SUFFICES ASSUME NEW b \in Building'
                   PROVE  <<Config>> =
                     <<Config>> \o SubSeq(queue, 1, attempt'[b].module - 1)
        BY <3>1, <3>2 DEF CleanSlate
      <4>1. attempt'[b].module - 1 = 0
        BY <3>1, <3>7 DEF Building, At
      <4>2. SubSeq(queue, 1, 0) = <<>> /\ <<Config>> \o <<>> = <<Config>>
        BY DEF TypeOK
      <4> QED
        BY <4>1, <4>2
    <3> QED
      BY <3>4, <3>6, <3>8, <3>9 DEF BuildDiscipline
  <2>10. CASE UNCHANGED vars
    BY <2>10 DEF vars, BuildDiscipline, PromiseHeld, ContainersFresh, Progress,
       CleanSlate, Building, Resetting, At
  <2> QED
    BY <2>1, <2>2, <2>3, <2>4, <2>5, <2>6, <2>7, <2>8, <2>9, <2>10 DEF Next
<1> QED
  BY <1>1, <1>2, TypeCorrect, PTL DEF Spec

\* A retry starts over in a container that holds nothing of an earlier attempt.
THEOREM SlatesAreClean == ASSUME Prompt PROVE Spec => []CleanSlate
<1>1. BuildDiscipline => CleanSlate
  BY DEF BuildDiscipline
<1> QED
  BY <1>1, RetriesStartOver, PTL

\* Concurrent calls of build() share one attempt, and the container they are
\* given is complete and never disposed by a reset.
THEOREM BuildsAreComplete ==
  ASSUME Prompt PROVE Spec => []BuiltIsComplete
BY TypeCorrect, RetriesStartOver, DisciplineImplies, PTL

-----------------------------------------------------------------------------
(* The order of the modules.                                               *)

\* A sequence without repetitions of as many members as a set has has them all.
NoRepeats(s, n) == \A i, j \in 1 .. n : s[i] = s[j] => i = j
Covers(s, n, S) == \A x \in S : \E i \in 1 .. n : s[i] = x

LEMMA AllListed ==
  ASSUME NEW S, IsFiniteSet(S), NEW n, n = Cardinality(S), NEW r \in [1 .. n -> S],
         NoRepeats(r, n)
  PROVE  Covers(r, n, S)
<1>1. n \in Nat
  BY FS_CardinalityType
<1>2. IsFiniteSet(1 .. n) /\ Cardinality(1 .. n) = n
  <2>1. IsFiniteSet(1 .. n) /\ Cardinality(1 .. n) = IF 1 > n THEN 0 ELSE n - 1 + 1
    <3>1. 1 \in Int /\ n \in Int
      BY <1>1
    <3> QED
      BY <3>1, FS_Interval, Zenon
  <2> QED
    BY <1>1, <2>1
<1>3. r \in Injection(1 .. n, S)
  BY DEF Injection, IsInjective, NoRepeats
<1>4. r \in Surjection(1 .. n, S)
  BY <1>2, <1>3, FS_Injection
<1> QED
  BY <1>4 DEF Surjection, Covers

\* A sequence without repetitions is as long as it has members.
LEMMA MembersCounted ==
  ASSUME NEW S, NEW q \in Seq(S), \A i, j \in 1 .. Len(q) : q[i] = q[j] => i = j
  PROVE  IsFiniteSet(Members(q)) /\ Cardinality(Members(q)) = Len(q)
<1> DEFINE n == Len(q)
<1>1. n \in Nat /\ DOMAIN q = 1 .. n /\ q = [i \in 1 .. n |-> q[i]]
  OBVIOUS
<1>2. q \in [1 .. n -> Members(q)]
  BY <1>1 DEF Members
<1> HIDE DEF n
<1>3. q \in Bijection(1 .. n, Members(q))
  BY <1>1, <1>2 DEF Bijection, Injection, Surjection, IsInjective, Members, n
<1>4. ExistsBijection(1 .. n, Members(q))
  BY <1>3 DEF ExistsBijection
<1>5. IsFiniteSet(Members(q))
  BY <1>1, <1>4, FS_NatBijection
<1> QED
  BY <1>1, <1>4, <1>5, FS_CountingElements DEF n

\* Sorting keeps the modules, and puts none before one of a lower priority.
LEMMA SortedFacts ==
  ASSUME NEW q \in Seq(Modules), \A i, j \in 1 .. Len(q) : q[i] = q[j] => i = j,
         NEW r \in Sorted(q)
  PROVE  /\ r \in Seq(Modules) /\ Len(r) = Len(q) /\ Members(r) = Members(q)
         /\ \A i, j \in 1 .. Len(r) : r[i] = r[j] => i = j
         /\ \A i, j \in 1 .. Len(r) : i < j => Priority[r[i]] <= Priority[r[j]]
<1> DEFINE n == Len(q)
<1>1. r \in Seq(Modules) /\ Len(r) = n /\ n \in Nat
  BY SortType
<1>2. /\ r \in [1 .. n -> Members(q)]
      /\ \A i, j \in 1 .. n : i < j => Before(q, r[i], r[j])
  BY DEF Sorted
<1>3. IsFiniteSet(Members(q)) /\ Cardinality(Members(q)) = n
  BY MembersCounted
<1>4. \A m \in Members(q) : m \in Modules /\ Priority[m] \in Nat
  BY BuilderAssumption DEF Members
<1>5. ASSUME NEW m \in Members(q) PROVE ~ Before(q, m, m)
  <2>1. \E i \in 1 .. n : q[i] = m
    BY DEF Members
  <2>2. Index(q, m) \in 1 .. n
    BY <2>1 DEF Index
  <2>3. ~ (Priority[m] < Priority[m]) /\ ~ (Index(q, m) < Index(q, m))
    BY <1>1, <1>4, <2>2
  <2> QED
    BY <2>3 DEF Before
<1> HIDE DEF n
<1>6. ASSUME NEW i \in 1 .. n, NEW j \in 1 .. n, r[i] = r[j] PROVE i = j
  <2>1. r[i] \in Members(q)
    BY <1>2
  <2>2. ~ (i < j) /\ ~ (j < i)
    BY <1>2, <1>5, <1>6, <2>1
  <2> QED
    BY <1>1, <2>2
<1>7. \A m \in Members(q) : \E i \in 1 .. n : r[i] = m
  <2> DEFINE S == Members(q)
  <2>1. /\ IsFiniteSet(S) /\ n = Cardinality(S) /\ r \in [1 .. n -> S]
        /\ NoRepeats(r, n)
    BY <1>2, <1>3, <1>6 DEF NoRepeats
  <2> HIDE DEF S
  <2>2. Covers(r, n, S)
    BY <2>1, AllListed
  <2> QED
    BY <2>2 DEF Covers, S
<1>8. Members(r) = Members(q)
  BY <1>1, <1>2, <1>7 DEF Members
<1>9. ASSUME NEW i \in 1 .. n, NEW j \in 1 .. n, i < j
      PROVE  Priority[r[i]] <= Priority[r[j]]
  <2>1. Priority[r[i]] \in Nat /\ Priority[r[j]] \in Nat
    BY <1>2, <1>4
  <2>2. Before(q, r[i], r[j])
    BY <1>2, <1>9
  <2> QED
    BY <2>1, <2>2 DEF Before
<1> QED
  BY <1>1, <1>6, <1>8, <1>9 DEF n

\* A method queues what its module needs and is not queued yet.
LEMMA AddSound ==
  ASSUME TypeOK, QueueSound, NEW m \in Modules, Add(m)
  PROVE  QueueSound'
<1> DEFINE S == Requires[m] \ Members(queue)
           n == Len(queue)
           c == Cardinality(S)
<1>1. PICK r \in Missing(m) : queue' = queue \o Append(r, m)
  BY DEF Add
<1>2. m \notin Members(queue)
  BY DEF Add
<1>3. /\ S \subseteq Modules /\ m \notin S /\ IsFiniteSet(S) /\ c \in Nat
      /\ S \subseteq Requires[m] /\ Requires[m] \subseteq S \cup Members(queue)
      /\ S \cap Members(queue) = {}
  <2>1. Requires[m] \subseteq Modules
    BY BuilderAssumption
  <2>2. m \notin Requires[m]
    <3>1. Priority[m] \in Nat /\ \A x \in Requires[m] : Priority[x] < Priority[m]
      BY BuilderAssumption, PrioritiesAssumption
    <3>2. ~ (Priority[m] < Priority[m])
      BY <3>1
    <3> QED
      BY <3>1, <3>2
  <2>3. S \in SUBSET Modules
    BY <2>1
  <2>4. IsFiniteSet(S)
    BY <2>3, BuilderAssumption, FS_Subset
  <2> QED
    BY <2>1, <2>2, <2>4, FS_CardinalityType
<1>4. /\ r \in [1 .. c -> S]
      /\ \A i, j \in 1 .. c : i < j => r[i] # r[j]
  BY <1>1 DEF Missing
<1> HIDE DEF S
<1>5. \A i, j \in 1 .. c : r[i] = r[j] => i = j
  BY <1>3, <1>4
<1>6. \A x \in S : \E i \in 1 .. c : r[i] = x
  <2>1. IsFiniteSet(S) /\ c = Cardinality(S) /\ r \in [1 .. c -> S] /\ NoRepeats(r, c)
    BY <1>3, <1>4, <1>5 DEF NoRepeats
  <2> HIDE DEF c
  <2>2. Covers(r, c, S)
    BY <2>1, AllListed
  <2> QED
    BY <2>2 DEF Covers
<1>7. queue \in Seq(Modules) /\ n \in Nat
  BY DEF TypeOK
<1> HIDE DEF c, n
<1>8. /\ queue' \in Seq(Modules) /\ Len(queue') = n + c + 1
      /\ \A i \in 1 .. n : queue'[i] = queue[i]
      /\ \A i \in 1 .. c : queue'[n + i] = r[i]
      /\ queue'[n + c + 1] = m
  <2>1. r \in [1 .. c -> Modules]
    BY <1>3, <1>4
  <2>2. r \in Seq(Modules) /\ Len(r) = c
    BY <1>3, <2>1
  <2>3. Append(r, m) \in Seq(Modules) /\ Len(Append(r, m)) = c + 1
        /\ (\A i \in 1 .. c : Append(r, m)[i] = r[i]) /\ Append(r, m)[c + 1] = m
    BY <1>3, <2>2
  <2> DEFINE t == Append(r, m)
  <2> HIDE DEF t
  <2>4. /\ queue \o t \in Seq(Modules) /\ Len(queue \o t) = n + Len(t)
        /\ \A i \in 1 .. n : (queue \o t)[i] = queue[i]
        /\ \A i \in 1 .. Len(t) : (queue \o t)[n + i] = t[i]
    BY <1>7, <2>3 DEF n, t
  <2>5. \A i \in 1 .. c : i \in 1 .. c + 1
    BY <1>3
  <2>6. c + 1 \in 1 .. c + 1 /\ n + (c + 1) = n + c + 1
    BY <1>3, <1>7
  <2> QED
    BY <1>1, <2>3, <2>4, <2>5, <2>6 DEF t
<1> DEFINE N == n + c + 1
<1>9. \A k \in 1 .. N : \/ k \in 1 .. n
                        \/ k - n \in 1 .. c /\ k = n + (k - n)
                        \/ k = n + c + 1
  BY <1>3, <1>7
<1>10. /\ \A i \in 1 .. n : queue[i] \in Members(queue) /\ i \in 1 .. N
       /\ \A i \in 1 .. c : n + i \in 1 .. N /\ r[i] \in S
       /\ n + c + 1 \in 1 .. N
  BY <1>3, <1>4, <1>7 DEF Members, n
<1>11. Members(queue') = Members(queue) \cup S \cup {m}
  <2>1. Members(queue') = {queue'[k] : k \in 1 .. N}
    BY <1>8 DEF Members
  <2>2. Members(queue) = {queue[i] : i \in 1 .. n}
    BY DEF Members, n
  <2>3. \A k \in 1 .. N : queue'[k] \in Members(queue) \cup S \cup {m}
    BY <1>8, <1>9, <1>10
  <2>4. \A x \in Members(queue) \cup S \cup {m} : \E k \in 1 .. N : queue'[k] = x
    <3>1. \A x \in Members(queue) : \E i \in 1 .. n : queue[i] = x
      BY <2>2
    <3> QED
      BY <1>6, <1>8, <1>10, <3>1
  <2> QED
    BY <2>1, <2>3, <2>4
<1>12. \A x \in Members(queue') : Requires[x] \subseteq Members(queue')
  <2>1. \A x \in Members(queue) : Requires[x] \subseteq Members(queue)
    BY DEF QueueSound
  <2>2. \A x \in S : Requires[x] \subseteq Requires[m]
    BY <1>3, PrioritiesAssumption
  <2> QED
    BY <1>3, <1>11, <2>1, <2>2
<1>13. ASSUME NEW k \in 1 .. N, NEW l \in 1 .. N, queue'[k] = queue'[l]
       PROVE  k = l
  <2>1. \A i, j \in 1 .. n : queue[i] = queue[j] => i = j
    BY DEF QueueSound, n
  <2>2. CASE k \in 1 .. n
    <3>1. queue'[k] = queue[k] /\ queue'[k] \in Members(queue)
      BY <1>8, <1>10, <2>2
    <3>2. l \in 1 .. n
      <4>1. queue'[l] \notin S /\ queue'[l] # m
        BY <1>2, <1>3, <1>13, <3>1
      <4>2. l - n \in 1 .. c /\ l = n + (l - n) => queue'[l] \in S
        BY <1>8, <1>10
      <4> QED
        BY <1>8, <1>9, <4>1, <4>2
    <3>3. queue'[l] = queue[l]
      BY <1>8, <3>2
    <3> QED
      BY <1>13, <2>1, <2>2, <3>1, <3>2, <3>3
  <2>3. CASE k - n \in 1 .. c /\ k = n + (k - n)
    <3>1. queue'[k] = r[k - n] /\ queue'[k] \in S
      BY <1>8, <1>10, <2>3
    <3>2. l - n \in 1 .. c /\ l = n + (l - n)
      BY <1>3, <1>8, <1>9, <1>10, <1>13, <3>1
    <3>3. queue'[l] = r[l - n]
      BY <1>8, <3>2
    <3>4. k - n = l - n
      BY <1>5, <1>13, <2>3, <3>1, <3>2, <3>3
    <3> QED
      BY <2>3, <3>2, <3>4
  <2>4. CASE k = n + c + 1
    BY <1>2, <1>3, <1>8, <1>9, <1>10, <1>13, <2>4
  <2> QED
    BY <1>9, <2>2, <2>3, <2>4
<1> QED
  BY <1>8, <1>12, <1>13 DEF QueueSound

LEMMA QueueIsSound == Spec => []QueueSound
<1>1. Init => QueueSound
  <2> SUFFICES ASSUME Init PROVE QueueSound
    OBVIOUS
  <2>1. queue = <<Context>> /\ Len(queue) = 1 /\ queue[1] = Context
    BY DEF Init
  <2>2. Members(queue) = {Context}
    BY <2>1 DEF Members
  <2> QED
    BY <2>1, <2>2, PrioritiesAssumption DEF QueueSound
<1>2. ASSUME TypeOK, QueueSound, [Next]_vars PROVE QueueSound'
  <2>1. ASSUME NEW m \in Modules, Add(m) PROVE QueueSound'
    BY <1>2, <2>1, AddSound
  <2>2. ASSUME NEW k \in Callers, NEW a \in Attempts, Start(k, a) PROVE QueueSound'
    <3>1. queue \in Seq(Modules) /\ queue' \in Sorted(queue)
      BY <1>2, <2>2 DEF TypeOK, Start
    <3>2. \A i, j \in 1 .. Len(queue) : queue[i] = queue[j] => i = j
      BY <1>2 DEF QueueSound
    <3>3. /\ Members(queue') = Members(queue)
          /\ \A i, j \in 1 .. Len(queue') : queue'[i] = queue'[j] => i = j
      BY <3>1, <3>2, SortedFacts
    <3> QED
      BY <1>2, <3>3 DEF QueueSound
  <2>3. ASSUME UNCHANGED queue PROVE QueueSound'
    BY <1>2, <2>3 DEF QueueSound, Members
  <2>4. ASSUME NEW k \in Callers, Join(k) \/ Answer(k) PROVE UNCHANGED queue
    BY <2>4 DEF Join, Answer
  <2>5. ASSUME NEW a \in Attempts,
               \/ Configure(a) \/ Register(a) \/ ModuleFails(a)
               \/ Recover(a) \/ Clear(a) \/ Renew(a)
        PROVE UNCHANGED queue
    BY <2>5 DEF Configure, Register, ModuleFails, Recover, Clear, Renew
  <2>6. CASE UNCHANGED vars
    BY <2>3, <2>6 DEF vars
  <2> QED
    BY <1>2, <2>1, <2>2, <2>3, <2>4, <2>5, <2>6 DEF Next
<1> QED
  BY <1>1, <1>2, TypeCorrect, PTL DEF Spec

\* The modules that an attempt to build goes through (_executeBuild) are in an
\* order that works, for every table of priorities and prerequisites, and every
\* order of the calls that queued them.
THEOREM ModulesInOrder == Spec => DependenciesFirst
<1> DEFINE Ordered(q) ==
             \A j \in 1 .. Len(q) :
               LET before == {q[i] : i \in 1 .. j - 1}
                   others == {q[i] : i \in 1 .. Len(q)} \ before IN
               /\ Requires[q[j]] \subseteq before
               /\ Optional[q[j]] \cap others = {}
           Unused(a) == attempt[a].at = "unused"
           Ready == \A a \in Attempts : Unused(a) /\ attempt'[a].at # "unused" =>
                      Ordered(queue')
<1>1. ASSUME TypeOK, QueueSound, NEW k \in Callers, NEW a \in Attempts, Start(k, a)
      PROVE  Ordered(queue')
  <2> DEFINE q == queue'
             n == Len(q)
  <2>1. queue \in Seq(Modules) /\ q \in Sorted(queue)
    BY <1>1 DEF TypeOK, Start
  <2>2. \A i, j \in 1 .. Len(queue) : queue[i] = queue[j] => i = j
    BY <1>1 DEF QueueSound
  <2>3. /\ q \in Seq(Modules) /\ Members(q) = Members(queue)
        /\ \A i, j \in 1 .. n : i < j => Priority[q[i]] <= Priority[q[j]]
    BY <2>1, <2>2, SortedFacts
  <2>4. \A m \in Members(q) : Requires[m] \subseteq Members(q)
    BY <1>1, <2>3 DEF QueueSound
  <2>5. Members(q) = {q[i] : i \in 1 .. n}
    BY DEF Members
  <2>6. n \in Nat /\ \A j \in 1 .. n : q[j] \in Modules /\ Priority[q[j]] \in Nat
    BY <2>3, BuilderAssumption
  <2> HIDE DEF q, n
  <2>7. ASSUME NEW i \in 1 .. n, NEW j \in 1 .. n,
               q[i] \in Requires[q[j]] \cup Optional[q[j]]
        PROVE  i \in 1 .. j - 1
    <3>1. Priority[q[i]] < Priority[q[j]]
      BY <2>6, <2>7, PrioritiesAssumption
    <3>2. i # j /\ ~ (j < i)
      BY <2>3, <2>6, <3>1
    <3> QED
      BY <2>6, <3>2
  <2>8. ASSUME NEW j \in 1 .. n
        PROVE  LET before == {q[i] : i \in 1 .. j - 1}
                   others == {q[i] : i \in 1 .. n} \ before IN
               /\ Requires[q[j]] \subseteq before
               /\ Optional[q[j]] \cap others = {}
    <3>1. \A x \in Requires[q[j]] : \E i \in 1 .. n : q[i] = x
      BY <2>4, <2>5
    <3> QED
      BY <2>7, <3>1
  <2> QED
    BY <2>8 DEF q, n
<1>2. ASSUME TypeOK, QueueSound, [Next]_vars PROVE Ready
  <2> SUFFICES ASSUME NEW a \in Attempts, Unused(a), attempt'[a].at # "unused"
               PROVE  Ordered(queue')
    OBVIOUS
  <2> HIDE DEF Ordered
  <2>1. CASE \E k \in Callers, b \in Attempts : Start(k, b)
    BY <1>1, <1>2, <2>1
  <2>2. ASSUME NEW b \in Attempts,
               \/ Configure(b) \/ Register(b) \/ ModuleFails(b)
               \/ Recover(b) \/ Clear(b) \/ Renew(b)
        PROVE FALSE
    <3>1. ~ Unused(b) /\ attempt \in [Attempts -> Attempt]
      BY <1>2, <2>2 DEF TypeOK, Configure, Register, ModuleFails, Recover, Clear, Renew
    <3>2. \E s, t, c : Becomes(b, s, t, c)
      BY <2>2 DEF Configure, Register, ModuleFails, Recover, Clear, Renew, Enters
    <3>3. \A x \in Attempts \ {b} : attempt'[x] = attempt[x]
      BY <3>1, <3>2 DEF Becomes
    <3> QED
      BY <3>1, <3>3
  <2>3. ASSUME UNCHANGED attempt PROVE FALSE
    BY <2>3
  <2>4. ASSUME NEW m \in Modules, Add(m) PROVE FALSE
    BY <2>3, <2>4 DEF Add
  <2>5. ASSUME NEW k \in Callers, Join(k) \/ Answer(k) PROVE FALSE
    BY <2>3, <2>5 DEF Join, Answer
  <2>6. CASE UNCHANGED vars
    BY <2>3, <2>6 DEF vars
  <2> QED
    BY <1>2, <2>1, <2>2, <2>4, <2>5, <2>6 DEF Next
<1> QED
  BY <1>2, TypeCorrect, QueueIsSound, PTL DEF Spec, DependenciesFirst

-----------------------------------------------------------------------------
\* Concurrent calls of build() share one attempt, across failures too, and even
\* when a reset is not over before a retry gets to its modules: the promise is
\* dropped before anything is awaited.
THEOREM BuildsAreShared == Spec => []SingleFlight
<1>1. Init => PromiseHeld
  BY BuilderAssumption DEF Init, PromiseHeld, Attempts
<1>2. ASSUME TypeOK, PromiseHeld, [Next]_vars PROVE PromiseHeld'
  <2>1. ASSUME NEW k \in Callers, NEW a \in Attempts, Start(k, a) PROVE PromiseHeld'
    <3>1. /\ promise = None /\ promise' = a
          /\ \A b \in Attempts \ {a} : attempt'[b] = attempt[b]
          /\ attempt'[a].at = "loading"
      BY <1>2, <2>1, EntersFacts DEF Start, Stages
    <3> QED
      BY <1>2, <3>1, BuilderAssumption DEF PromiseHeld, Attempts
  <2>2. ASSUME NEW a \in Attempts, Configure(a) \/ Register(a) \/ ModuleFails(a)
        PROVE PromiseHeld'
    <3>1. attempt[a].module \in Nat \ {0} /\ container \in Containers
          /\ attempt[a].target \in Containers
      BY <1>2 DEF TypeOK, Attempt
    <3>2. /\ attempt[a].at \in {"loading", "configuring"} /\ UNCHANGED promise
          /\ \A b \in Attempts \ {a} : attempt'[b] = attempt[b]
          /\ attempt'[a].at \in {"loading", "configuring", "ok", "rejected"}
      BY <1>2, <2>2, <3>1
      DEF Configure, Register, ModuleFails, Enters, Becomes, TypeOK
    <3> QED
      BY <1>2, <3>2 DEF PromiseHeld
  <2>3. ASSUME NEW a \in Attempts, Recover(a) PROVE PromiseHeld'
    <3>1. attempt[a].at = "rejected" /\ promise = a
      BY <1>2, <2>3 DEF Recover, PromiseHeld
    <3>2. /\ promise' = None
          /\ \A b \in Attempts \ {a} : attempt'[b] = attempt[b]
          /\ attempt'[a].at = "resetting"
      BY <1>2, <2>3, <3>1 DEF Recover, Becomes, TypeOK
    <3> QED
      BY <1>2, <3>1, <3>2, BuilderAssumption DEF PromiseHeld, Attempts
  <2>4. ASSUME NEW a \in Attempts, Clear(a) \/ Renew(a) PROVE PromiseHeld'
    <3>1. /\ attempt[a].at \in {"resetting", "cleared"} /\ UNCHANGED promise
          /\ \A b \in Attempts \ {a} : attempt'[b] = attempt[b]
          /\ attempt'[a].at \in {"cleared", "failed"}
      BY <1>2, <2>4 DEF Clear, Renew, Enters, Becomes, TypeOK
    <3> QED
      BY <1>2, <3>1 DEF PromiseHeld
  <2>5. ASSUME UNCHANGED <<promise, attempt>> PROVE PromiseHeld'
    BY <1>2, <2>5 DEF PromiseHeld
  <2>6. ASSUME NEW k \in Callers, Join(k) \/ Answer(k) PROVE PromiseHeld'
    BY <2>5, <2>6 DEF Join, Answer
  <2>7. ASSUME NEW m \in Modules, Add(m) PROVE PromiseHeld'
    BY <2>5, <2>7 DEF Add
  <2>8. CASE UNCHANGED vars
    BY <2>5, <2>8 DEF vars
  <2> QED
    BY <1>2, <2>1, <2>2, <2>3, <2>4, <2>6, <2>7, <2>8 DEF Next
<1>3. PromiseHeld => SingleFlight
  BY DEF PromiseHeld, SingleFlight, Building, At
<1> QED
  BY <1>1, <1>2, <1>3, TypeCorrect, PTL DEF Spec

=============================================================================
