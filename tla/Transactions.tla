--------------------------- MODULE Transactions ---------------------------
(***************************************************************************)
(* Transactions of the unit of work within request scopes                  *)
(* (infrastructure/transaction/unit-of-work.ts, transaction-state.ts,      *)
(* modules/db.module.ts, context/request-context.ts).                      *)
(*                                                                         *)
(* A request runs in a scope of its own.  The scope holds one transaction  *)
(* state, which the unit of work sets and clears and the DB context reads  *)
(* on every access.  A run is one call of runInTransaction; the transaction*)
(* the database opens for it bears its name.                               *)
(***************************************************************************)
EXTENDS Integers, FiniteSets

CONSTANTS
  Requests,
  Runs,        \* calls of runInTransaction
  RequestOf,   \* [Runs -> Requests], the request whose scope a run belongs to
  Overlapping, \* the requests whose runs may be nested or concurrent
  Detached,    \* the requests that may end before their runs have settled
  NoRun

ASSUME TransactionAssumption ==
  /\ RequestOf \in [Runs -> Requests]
  /\ Overlapping \subseteq Requests /\ Detached \subseteq Requests
  /\ NoRun \notin Runs

VARIABLES
  scope,   \* the scope of each request
  state,   \* TransactionState of each scope: the transaction in force
  run,     \* how far each run is
  killed,  \* the transactions rolled back by the disposal of their scope
  writes   \* the writes made in callbacks: by which run, in which transaction

vars == <<scope, state, run, killed, writes>>

TxOrNone == Runs \cup {NoRun}
Unsettled == {"starting", "active", "returning", "throwing"}

\* A careful request awaits each of its runs before it goes on.
Careful == Requests \ (Overlapping \cup Detached)

\* A write into NoRun went to the client itself, outside any transaction.
TypeOK ==
  /\ scope \in [Requests -> {"unborn", "open", "disposing", "closed"}]
  /\ state \in [Requests -> TxOrNone]
  /\ run \in [Runs -> Unsettled \cup {"idle", "refused", "committed",
                                      "rolledback"}]
  /\ killed \subseteq Runs
  /\ writes \subseteq [by : Runs, into : TxOrNone]

Init ==
  /\ scope = [q \in Requests |-> "unborn"]
  /\ state = [q \in Requests |-> NoRun]
  /\ run = [r \in Runs |-> "idle"]
  /\ killed = {}
  /\ writes = {}

-----------------------------------------------------------------------------
Goto(r, from, to) == run[r] = from /\ run' = [run EXCEPT ![r] = to]
SetState(q, t) == state' = [state EXCEPT ![q] = t]
Pending(q) == {r \in Runs : RequestOf[r] = q /\ run[r] \in Unsettled}

\* runAsync creates the scope and calls the request's function in it.
BeginRequest(q) ==
  /\ scope[q] = "unborn"
  /\ scope' = [scope EXCEPT ![q] = "open"]
  /\ UNCHANGED <<state, run, killed, writes>>

\* A caller that holds the unit of work of an ended request may still use it.
MayRun(r) ==
  /\ scope[RequestOf[r]] # "unborn"
  /\ RequestOf[r] \in Detached \/ scope[RequestOf[r]] = "open"
  /\ RequestOf[r] \in Overlapping \/ Pending(RequestOf[r]) = {}

RunInTransaction(r) ==
  /\ MayRun(r) /\ Goto(r, "idle", "starting")
  /\ UNCHANGED <<scope, state, killed, writes>>

\* The signal is aborted, or the database opens no transaction.
Refused(r) ==
  /\ \/ MayRun(r) /\ Goto(r, "idle", "refused")
     \/ Goto(r, "starting", "refused")
  /\ UNCHANGED <<scope, state, killed, writes>>

\* The database calls back with the transaction it has opened.
EnterCallback(r) ==
  /\ Goto(r, "starting", "active")
  /\ SetState(RequestOf[r], r)
  /\ UNCHANGED <<scope, killed, writes>>

\* Where the DB context proxy of a scope sends what it is asked.
RouteToClient(q) == NoRun
Route(q) == state[q]

\* A statement in the callback.  One on a transaction that has been rolled
\* back is rejected by the driver.
Write(r) ==
  LET into == Route(RequestOf[r]) IN
  /\ run[r] = "active"
  /\ into \notin killed
  /\ writes' = writes \cup {[by |-> r, into |-> into]}
  /\ UNCHANGED <<scope, state, run, killed>>

\* The callback settles; the finally block clears the state in either case.
CallbackReturns(r) ==
  /\ Goto(r, "active", "returning")
  /\ SetState(RequestOf[r], NoRun)
  /\ UNCHANGED <<scope, killed, writes>>
ThrowKeepsState(r) ==
  /\ Goto(r, "active", "throwing")
  /\ UNCHANGED <<scope, state, killed, writes>>
CallbackThrows(r) ==
  /\ Goto(r, "active", "throwing")
  /\ SetState(RequestOf[r], NoRun)
  /\ UNCHANGED <<scope, killed, writes>>

\* The database ends the transaction; a commit may fail, and does when the
\* transaction has been rolled back already.
Commit(r) ==
  /\ r \notin killed
  /\ Goto(r, "returning", "committed")
  /\ UNCHANGED <<scope, state, killed, writes>>
Rollback(r) ==
  /\ Goto(r, "throwing", "rolledback") \/ Goto(r, "returning", "rolledback")
  /\ UNCHANGED <<scope, state, killed, writes>>

\* The request's function has settled and its scope is disposed.  The unit of
\* work asks for the rollback of the transaction in force; one that cannot be
\* rolled back, or fails to, is left alone.
EndRequest(q) ==
  /\ scope[q] = "open"
  /\ q \in Detached \/ Pending(q) = {}
  /\ IF state[q] = NoRun
     THEN scope' = [scope EXCEPT ![q] = "closed"] /\ UNCHANGED killed
     ELSE /\ scope' = [scope EXCEPT ![q] = "disposing"]
          /\ killed' \in {killed, killed \cup {state[q]}}
  /\ UNCHANGED <<state, run, writes>>

\* The rollback has settled; the finally block clears the state.
DisposeEnds(q) ==
  /\ scope[q] = "disposing"
  /\ scope' = [scope EXCEPT ![q] = "closed"]
  /\ SetState(q, NoRun)
  /\ UNCHANGED <<run, killed, writes>>

Next ==
  \/ \E q \in Requests : BeginRequest(q) \/ EndRequest(q) \/ DisposeEnds(q)
  \/ \E r \in Runs :
       \/ RunInTransaction(r) \/ Refused(r) \/ EnterCallback(r) \/ Write(r)
       \/ CallbackReturns(r) \/ CallbackThrows(r)
       \/ Commit(r) \/ Rollback(r)

Spec == Init /\ [][Next]_vars

-----------------------------------------------------------------------------
Durable(w) == w.into = NoRun \/ run[w.into] = "committed"

\* A run of a careful request that failed has left nothing in the database, and
\* one that succeeded has left everything its callback wrote, whatever the
\* other requests do with their units of work.
AllOrNothing ==
  \A w \in writes : RequestOf[w.by] \in Careful =>
    /\ run[w.by] = "committed" => Durable(w)
    /\ run[w.by] = "rolledback" => ~ Durable(w)

\* However the runs of a scope and its disposal overlap, throw or are refused,
\* its state never names a transaction whose callback has ended: what a later
\* run or a late caller writes does not go where it is rolled back or rejected.
StateNamesRunning ==
  \A q \in Requests : state[q] # NoRun => run[state[q]] = "active"

\* Why the runs of a careful request are atomic: its state names exactly the
\* run whose callback is running, and nobody disposes the scope meanwhile.
OneAtATime ==
  /\ \A r, s \in Runs :
       /\ RequestOf[r] \in Careful /\ RequestOf[r] = RequestOf[s]
       /\ run[r] \in Unsettled /\ run[s] \in Unsettled
       => r = s
  /\ \A r \in Runs : RequestOf[r] \in Careful =>
       /\ state[RequestOf[r]] = r <=> run[r] = "active"
       /\ run[r] \in Unsettled => scope[RequestOf[r]] = "open"
  /\ \A q \in Careful :
       state[q] # NoRun => RequestOf[state[q]] = q /\ scope[q] = "open"
  /\ \A r \in killed : RequestOf[r] \notin Careful
  /\ \A w \in writes : RequestOf[w.by] \in Careful => w.into = w.by
=============================================================================
