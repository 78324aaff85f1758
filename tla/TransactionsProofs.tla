------------------------ MODULE TransactionsProofs ------------------------
(***************************************************************************)
(* Whatever the runs of a request do, its state never names a transaction  *)
(* whose callback has ended; and runs that are awaited one after the other *)
(* are atomic.                                                             *)
(***************************************************************************)
EXTENDS Transactions, TLAPS

USE TransactionAssumption

\* What an action that only moves one run on does to the runs.
LEMMA GotoFacts ==
  ASSUME TypeOK, NEW r \in Runs, NEW from, NEW to, Goto(r, from, to)
  PROVE  /\ run[r] = from /\ run'[r] = to
         /\ \A s \in Runs \ {r} : run'[s] = run[s]
  BY DEF Goto, TypeOK

\* Every variable keeps its type.
THEOREM TypeCorrect == Spec => []TypeOK
<1>1. Init => TypeOK
  BY DEF Init, TypeOK, TxOrNone
<1>2. ASSUME TypeOK, [Next]_vars PROVE TypeOK'
  <2> USE <1>2 DEF TypeOK, TxOrNone, Unsettled
  <2>1. ASSUME NEW q \in Requests,
               BeginRequest(q) \/ EndRequest(q) \/ DisposeEnds(q)
        PROVE  TypeOK'
    <3>1. CASE BeginRequest(q)
      BY <3>1 DEF BeginRequest
    <3>2. CASE EndRequest(q)
      BY <3>2 DEF EndRequest
    <3>3. CASE DisposeEnds(q)
      BY <3>3 DEF DisposeEnds, SetState
    <3> QED
      BY <2>1, <3>1, <3>2, <3>3
  <2>2. ASSUME NEW r \in Runs,
               \/ RunInTransaction(r) \/ Refused(r) \/ EnterCallback(r)
               \/ CallbackReturns(r) \/ CallbackThrows(r)
               \/ Commit(r) \/ Rollback(r)
        PROVE  TypeOK'
    <3>1. run' \in [Runs -> Unsettled \cup {"idle", "refused", "committed",
                                            "rolledback"}]
      BY <2>2 DEF RunInTransaction, Refused, EnterCallback, CallbackReturns,
         CallbackThrows, Commit, Rollback, Goto
    <3>2. state' \in [Requests -> TxOrNone] /\ UNCHANGED <<scope, killed, writes>>
      BY <2>2 DEF RunInTransaction, Refused, EnterCallback, CallbackReturns,
         CallbackThrows, Commit, Rollback, SetState
    <3> QED
      BY <3>1, <3>2
  <2>3. ASSUME NEW r \in Runs, Write(r) PROVE TypeOK'
    BY <2>3 DEF Write, Route
  <2>4. CASE UNCHANGED vars
    BY <2>4 DEF vars
  <2> QED
    BY <2>1, <2>2, <2>3, <2>4 DEF Next
<1> QED
  BY <1>1, <1>2, PTL DEF Spec

-----------------------------------------------------------------------------
\* The transaction in force in a scope is the one of a running callback of
\* that scope's request.
OwnRunningState ==
  \A q \in Requests : state[q] # NoRun =>
    RequestOf[state[q]] = q /\ run[state[q]] = "active"

\* Every state belongs to its own request, whatever overlaps.
LEMMA StatesAreOwn == Spec => []OwnRunningState
<1> DEFINE Inv == OwnRunningState
<1>1. Init => Inv
  BY DEF Init, OwnRunningState
<1>2. ASSUME TypeOK, Inv, [Next]_vars PROVE Inv'
  <2> USE <1>2
  <2>1. \A q \in Requests : state[q] \in Runs \cup {NoRun}
    BY DEF TypeOK, TxOrNone
  <2>2. ASSUME NEW q \in Requests,
               BeginRequest(q) \/ EndRequest(q) \/ DisposeEnds(q)
        PROVE  Inv'
    <3>1. /\ UNCHANGED <<run, writes>>
          /\ \A p \in Requests : state'[p] \in {state[p], NoRun}
      BY <2>2 DEF BeginRequest, EndRequest, DisposeEnds, SetState, TypeOK
    <3> QED
      BY <3>1 DEF OwnRunningState
  <2>3. ASSUME NEW r \in Runs,
               RunInTransaction(r) \/ Refused(r) \/ Commit(r) \/ Rollback(r)
        PROVE  Inv'
    <3>1. UNCHANGED <<state, writes>> /\ run[r] # "active"
          /\ \A s \in Runs \ {r} : run'[s] = run[s]
      BY <2>3, GotoFacts DEF RunInTransaction, Refused, Commit, Rollback
    <3> QED
      BY <2>1, <3>1 DEF OwnRunningState
  <2>4. ASSUME NEW r \in Runs, EnterCallback(r) PROVE Inv'
    <3>1. /\ UNCHANGED writes /\ run'[r] = "active"
          /\ \A s \in Runs \ {r} : run'[s] = run[s]
          /\ state'[RequestOf[r]] = r
          /\ \A q \in Requests \ {RequestOf[r]} : state'[q] = state[q]
      BY <2>4, GotoFacts DEF EnterCallback, SetState, TypeOK
    <3> QED
      BY <2>1, <3>1 DEF OwnRunningState
  <2>5. ASSUME NEW r \in Runs, CallbackReturns(r) \/ CallbackThrows(r)
        PROVE  Inv'
    <3>1. /\ UNCHANGED writes
          /\ \A s \in Runs \ {r} : run'[s] = run[s]
          /\ state'[RequestOf[r]] = NoRun
          /\ \A q \in Requests \ {RequestOf[r]} : state'[q] = state[q]
      BY <2>5, GotoFacts DEF CallbackReturns, CallbackThrows, SetState, TypeOK
    <3> QED
      BY <2>1, <3>1 DEF OwnRunningState
  <2>6. ASSUME NEW r \in Runs, Write(r) PROVE Inv'
    BY <2>6 DEF Write, Route, OwnRunningState
  <2>7. CASE UNCHANGED vars
    BY <2>7 DEF vars, OwnRunningState
  <2> QED
    BY <2>2, <2>3, <2>4, <2>5, <2>6, <2>7 DEF Next
<1> QED
  BY <1>1, <1>2, TypeCorrect, PTL DEF Spec

\* The state of a scope never names a transaction whose callback has ended,
\* with any overlap of runs, requests and disposals.
THEOREM StatesNameRunning == Spec => []StateNamesRunning
<1>1. OwnRunningState => StateNamesRunning
  BY DEF OwnRunningState, StateNamesRunning
<1> QED
  BY <1>1, StatesAreOwn, PTL

-----------------------------------------------------------------------------
\* A step of another request's scope leaves the careful requests alone.
LEMMA KeptForCareful ==
  ASSUME OneAtATime, UNCHANGED <<run, writes>>,
         \A p \in Careful : scope'[p] = scope[p] /\ state'[p] = state[p],
         \A r \in killed' : RequestOf[r] \notin Careful
  PROVE  OneAtATime'
BY DEF OneAtATime

\* When a request awaits each run before it goes on, a run leaves all of what
\* its callback wrote, or nothing of it, whatever other requests do.
THEOREM RunsAreAtomic == Spec => []AllOrNothing
<1> USE TransactionAssumption DEF Careful
<1>1. Init => OneAtATime
  BY DEF Init, OneAtATime, Unsettled
<1>2. ASSUME TypeOK, OwnRunningState, OneAtATime, [Next]_vars
      PROVE  OneAtATime'
  <2> USE <1>2
  <2>1. \A q \in Requests : state[q] \in Runs \cup {NoRun}
    BY DEF TypeOK, TxOrNone
  <2>2. ASSUME NEW q \in Requests, BeginRequest(q) PROVE OneAtATime'
    BY <2>2 DEF BeginRequest, OneAtATime, TypeOK
  <2>3. ASSUME NEW q \in Requests, EndRequest(q) PROVE OneAtATime'
    <3>1. /\ UNCHANGED <<state, run, writes>>
          /\ \A p \in Requests \ {q} : scope'[p] = scope[p]
          /\ \/ killed' = killed
             \/ state[q] # NoRun /\ killed' = killed \cup {state[q]}
      BY <2>3 DEF EndRequest, TypeOK
    <3>2. CASE q \in Careful
      <4>1. \A r \in Runs : RequestOf[r] = q => run[r] \notin Unsettled
        BY <2>3, <3>2 DEF EndRequest, Pending
      <4>2. state[q] = NoRun
        BY <2>1, <3>2, <4>1 DEF OneAtATime, Unsettled
      <4> QED
        BY <3>1, <4>1, <4>2 DEF OneAtATime
    <3>3. CASE q \notin Careful
      <4>1. state[q] # NoRun => RequestOf[state[q]] \notin Careful
        BY <3>3 DEF OwnRunningState
      <4>2. \A r \in killed' : RequestOf[r] \notin Careful
        BY <3>1, <4>1 DEF OneAtATime
      <4>3. \A p \in Careful : scope'[p] = scope[p]
        BY <3>1, <3>3
      <4> QED
        BY <3>1, <4>2, <4>3, KeptForCareful
    <3> QED
      BY <3>2, <3>3
  <2>4. ASSUME NEW q \in Requests, DisposeEnds(q) PROVE OneAtATime'
    <3>1. /\ UNCHANGED <<run, killed, writes>> /\ state'[q] = NoRun
          /\ \A p \in Requests \ {q} : scope'[p] = scope[p] /\ state'[p] = state[p]
      BY <2>4 DEF DisposeEnds, SetState, TypeOK
    <3>2. q \in Careful =>
            \A r \in Runs : RequestOf[r] = q => run[r] \notin Unsettled
      BY <2>4 DEF DisposeEnds, OneAtATime
    <3>3. CASE q \in Careful
      <4>1. state[q] = NoRun
        BY <2>1, <3>2, <3>3 DEF OneAtATime, Unsettled
      <4>2. state' = state
        BY <2>4, <4>1 DEF DisposeEnds, SetState, TypeOK
      <4> QED
        BY <3>1, <3>2, <3>3, <4>2 DEF OneAtATime
    <3>4. CASE q \notin Careful
      <4>1. /\ \A p \in Careful : scope'[p] = scope[p] /\ state'[p] = state[p]
            /\ \A r \in killed' : RequestOf[r] \notin Careful
        BY <3>1, <3>4 DEF OneAtATime
      <4> QED
        BY <3>1, <4>1, KeptForCareful
    <3> QED
      BY <3>3, <3>4
  <2>5. ASSUME NEW r \in Runs, RunInTransaction(r) PROVE OneAtATime'
    <3>1. /\ run[r] = "idle" /\ run'[r] = "starting"
          /\ \A s \in Runs \ {r} : run'[s] = run[s]
          /\ UNCHANGED <<scope, state, killed, writes>>
      BY <2>5, GotoFacts DEF RunInTransaction
    <3>2. RequestOf[r] \in Careful =>
            /\ scope[RequestOf[r]] = "open"
            /\ \A s \in Runs :
                 RequestOf[s] = RequestOf[r] => run[s] \notin Unsettled
      BY <2>5 DEF RunInTransaction, MayRun, Pending
    <3> QED
      BY <3>1, <3>2 DEF OneAtATime, Unsettled
  <2>6. ASSUME NEW r \in Runs, Refused(r) \/ Commit(r) \/ Rollback(r)
        PROVE  OneAtATime'
    <3>1. /\ run[r] # "active" /\ run'[r] \notin Unsettled
          /\ \A s \in Runs \ {r} : run'[s] = run[s]
          /\ UNCHANGED <<scope, state, killed, writes>>
      BY <2>6, GotoFacts DEF Refused, Commit, Rollback, Unsettled
    <3> QED
      BY <3>1 DEF OneAtATime, Unsettled
  <2>7. ASSUME NEW r \in Runs, EnterCallback(r) PROVE OneAtATime'
    <3>1. /\ run[r] = "starting" /\ run'[r] = "active"
          /\ \A s \in Runs \ {r} : run'[s] = run[s]
          /\ state'[RequestOf[r]] = r
          /\ \A q \in Requests \ {RequestOf[r]} : state'[q] = state[q]
          /\ UNCHANGED <<scope, killed, writes>>
      BY <2>7, GotoFacts DEF EnterCallback, SetState, TypeOK
    <3>2. RequestOf[r] \in Careful =>
            \A s \in Runs \ {r} :
              RequestOf[s] = RequestOf[r] => run[s] \notin Unsettled
      BY <3>1 DEF OneAtATime, Unsettled
    <3> QED
      BY <3>1, <3>2 DEF OneAtATime, Unsettled
  <2>8. ASSUME NEW r \in Runs, CallbackReturns(r) \/ CallbackThrows(r)
        PROVE  OneAtATime'
    <3>1. /\ run[r] = "active" /\ run'[r] \in {"returning", "throwing"}
          /\ \A s \in Runs \ {r} : run'[s] = run[s]
          /\ state'[RequestOf[r]] = NoRun
          /\ \A q \in Requests \ {RequestOf[r]} : state'[q] = state[q]
          /\ UNCHANGED <<scope, killed, writes>>
      BY <2>8, GotoFacts DEF CallbackReturns, CallbackThrows, SetState, TypeOK
    <3>2. RequestOf[r] \in Careful =>
            \A s \in Runs \ {r} :
              RequestOf[s] = RequestOf[r] => run[s] \notin Unsettled
      BY <3>1 DEF OneAtATime, Unsettled
    <3> QED
      BY <3>1, <3>2 DEF OneAtATime, Unsettled
  <2>9. ASSUME NEW r \in Runs, Write(r) PROVE OneAtATime'
    <3> DEFINE into == Route(RequestOf[r])
    <3>1. /\ writes' = writes \cup {[by |-> r, into |-> into]}
          /\ UNCHANGED <<scope, state, run, killed>>
      BY <2>9 DEF Write
    <3>2. RequestOf[r] \in Careful => into = r
      BY <2>9 DEF Write, Route, OneAtATime
    <3> HIDE DEF into
    <3>3. \A w \in writes' : RequestOf[w.by] \in Careful => w.into = w.by
      BY <3>1, <3>2 DEF OneAtATime
    <3> HIDE DEF Careful
    <3> QED
      BY <3>1, <3>3 DEF OneAtATime
  <2>10. CASE UNCHANGED vars
    BY <2>10 DEF vars, OneAtATime
  <2> QED
    BY <2>2, <2>3, <2>4, <2>5, <2>6, <2>7, <2>8, <2>9, <2>10 DEF Next
<1>3. TypeOK /\ OneAtATime => AllOrNothing
  BY DEF TypeOK, OneAtATime, AllOrNothing, Durable
<1> QED
  BY <1>1, <1>2, <1>3, TypeCorrect, StatesAreOwn, PTL DEF Spec
=============================================================================
