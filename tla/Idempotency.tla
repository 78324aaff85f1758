---------------------------- MODULE Idempotency ----------------------------
(***************************************************************************)
(* Concurrent command invocations going through IdempotencyPipeline.handle *)
(* (application/cqrs/pipelines/idempotency.pipeline.ts) against the        *)
(* IdempotencyStore (infrastructure/idempotency/idempotency-store.ts) that *)
(* all instances of the application share through the cache.               *)
(*                                                                         *)
(* A call is one invocation of handle().  Every awaited store operation is *)
(* one step, so another call, a crash or the passing of time can come      *)
(* between any two of them.  A cache entry carries the time it has left to *)
(* live; Tick ages all entries, which is what Redis' EX option does.       *)
(***************************************************************************)
EXTENDS Integers

CONSTANTS
  Calls,          \* invocations of the pipeline
  Requests,       \* values of the store key: contextual key of network.requestId
  RequestOf,      \* [Calls -> Requests], the request a call is dispatched in
  LockTTL,        \* lockTtlSeconds, in ticks
  ProcessedTTL,   \* processedTtlSeconds, in ticks
  Faults,         \* which adversities the environment may produce
  NoCall          \* the owner of an absent entry

(* "slow": next() may outlast the lock; "gap": time may pass between the   *)
(* processed check and the acquisition; "store": a store call may reject;  *)
(* "crash": the process of a call may die.                                 *)
FaultKinds == {"slow", "gap", "store", "crash"}

ASSUME CallsAssumption ==
  /\ RequestOf \in [Calls -> Requests]
  /\ NoCall \notin Calls
  /\ Faults \subseteq FaultKinds

\* The constructor refuses a TTL that is not a positive integer.
ASSUME TtlAssumption ==
  /\ LockTTL \in Nat \ {0}
  /\ ProcessedTTL \in Nat \ {0}

VARIABLES
  pc,         \* the awaited operation each call is at
  reply,      \* what handle() returned to the caller of each call
  lock,       \* the lock entry of each request
  processed,  \* the processed entry of each request; its payload is named by
              \* the call that produced it
  committed   \* history: the calls whose next() resolved to an ok result

vars == <<pc, reply, lock, processed, committed>>

Owner == Calls \cup {NoCall}
Entry == [by: Owner, ttl: Nat]
NoEntry == [by |-> NoCall, ttl |-> 0]
Live(e) == e.ttl > 0

Steps == {"idle", "check", "fetch", "acquire", "next", "mark", "release",
          "cleanup", "done", "crashed"}
Reply == [kind: {"none", "ok", "conflict", "failed", "threw"}, from: Owner]
NoReply == [kind |-> "none", from |-> NoCall]
Ok(c) == [kind |-> "ok", from |-> c]
Answer(kind) == [kind |-> kind, from |-> NoCall]

\* From a successful acquireLock until the call has stored or released.
InFlight(c) == pc[c] \in {"next", "mark", "release", "cleanup"}
\* The command's handler, and the behaviours inside this one, are running.
Executing(c) == pc[c] = "next"
Running(c) == pc[c] \notin {"idle", "done", "crashed"}

TypeOK ==
  /\ pc \in [Calls -> Steps]
  /\ reply \in [Calls -> Reply]
  /\ lock \in [Requests -> Entry]
  /\ processed \in [Requests -> Entry]
  /\ committed \subseteq Calls

Init ==
  /\ pc = [c \in Calls |-> "idle"]
  /\ reply = [c \in Calls |-> NoReply]
  /\ lock = [k \in Requests |-> NoEntry]
  /\ processed = [k \in Requests |-> NoEntry]
  /\ committed = {}

-----------------------------------------------------------------------------
Goto(c, from, to) == pc[c] = from /\ pc' = [pc EXCEPT ![c] = to]
Finish(c, from, r) == Goto(c, from, "done") /\ reply' = [reply EXCEPT ![c] = r]

\* IIdempotencyStore.acquireLock through setIfAbsent, and releaseLock through
\* remove, which deletes the entry whoever wrote it.
SetLock(c) ==
  lock' = [lock EXCEPT ![RequestOf[c]] = [by |-> c, ttl |-> LockTTL]]
RemoveLock(c) == lock' = [lock EXCEPT ![RequestOf[c]] = NoEntry]
SetProcessed(c) ==
  processed' = [processed EXCEPT ![RequestOf[c]] =
                                   [by |-> c, ttl |-> ProcessedTTL]]

(* Slips the properties below must notice; PROJECT.json pairs each with the*)
(* definition it would replace.                                            *)
PayloadUnchecked(c) ==
  /\ Finish(c, "fetch", Ok(processed[RequestOf[c]].by))
  /\ UNCHANGED <<lock, processed, committed>>
PayloadAwaited(c) == Live(processed[RequestOf[c]]) /\ PayloadUnchecked(c)
FailureStored(c) ==
  /\ Goto(c, "next", "mark")
  /\ UNCHANGED <<reply, lock, processed, committed>>
MarkAndUnlock(c) ==
  /\ Finish(c, "mark", Ok(c))
  /\ SetProcessed(c) /\ RemoveLock(c)
  /\ UNCHANGED committed
AgedPastZero(e) == [e EXCEPT !.ttl = @ - 1]
NeverAged(e) == e

\* handle() is entered outside a request: there is no network context.
NoContext(c) ==
  /\ Finish(c, "idle", Answer("conflict"))
  /\ UNCHANGED <<lock, processed, committed>>

Begin(c) ==
  /\ Goto(c, "idle", "check")
  /\ UNCHANGED <<reply, lock, processed, committed>>

HasBeenProcessed(c) ==
  /\ Goto(c, "check", IF Live(processed[RequestOf[c]]) THEN "fetch"
                                                       ELSE "acquire")
  /\ UNCHANGED <<reply, lock, processed, committed>>

\* The entry may have expired since the check: the call is then refused.
GetPayload(c) ==
  LET e == processed[RequestOf[c]] IN
  /\ Finish(c, "fetch", IF Live(e) THEN Ok(e.by) ELSE Answer("conflict"))
  /\ UNCHANGED <<lock, processed, committed>>

AcquireLock(c) ==
  /\ ~ Live(lock[RequestOf[c]])
  /\ Goto(c, "acquire", "next")
  /\ SetLock(c)
  /\ UNCHANGED <<reply, processed, committed>>

LockRefused(c) ==
  /\ Live(lock[RequestOf[c]])
  /\ Finish(c, "acquire", Answer("conflict"))
  /\ UNCHANGED <<lock, processed, committed>>

NextOk(c) ==
  /\ Goto(c, "next", "mark")
  /\ committed' = committed \cup {c}
  /\ UNCHANGED <<reply, lock, processed>>

NextFails(c) ==
  /\ Goto(c, "next", "release")
  /\ UNCHANGED <<reply, lock, processed, committed>>

NextThrows(c) ==
  /\ Goto(c, "next", "cleanup")
  /\ UNCHANGED <<reply, lock, processed, committed>>

\* The lock of a processed command is left to expire.
MarkAsProcessed(c) ==
  /\ Finish(c, "mark", Ok(c))
  /\ SetProcessed(c)
  /\ UNCHANGED <<lock, committed>>

ReleaseLock(c) ==
  /\ Finish(c, "release", Answer("failed"))
  /\ RemoveLock(c)
  /\ UNCHANGED <<processed, committed>>

\* The catch block: release, then rethrow.
Cleanup(c) ==
  /\ Finish(c, "cleanup", Answer("threw"))
  /\ RemoveLock(c)
  /\ UNCHANGED <<processed, committed>>

-----------------------------------------------------------------------------
(* A store operation rejects.  A write that rejects may have been applied: *)
(* the answer of the cache was lost.                                       *)

RejectedRead(c) ==
  /\ \E at \in {"check", "fetch"} : Goto(c, at, "cleanup")
  /\ UNCHANGED <<reply, lock, processed, committed>>

RejectedAcquire(c) ==
  /\ Goto(c, "acquire", "cleanup")
  /\ \/ UNCHANGED lock
     \/ ~ Live(lock[RequestOf[c]]) /\ SetLock(c)
  /\ UNCHANGED <<reply, processed, committed>>

RejectedMark(c) ==
  /\ Goto(c, "mark", "cleanup")
  /\ UNCHANGED processed \/ SetProcessed(c)
  /\ UNCHANGED <<reply, lock, committed>>

\* releaseLock of a failed result is inside the try block.
RejectedRelease(c) ==
  /\ Goto(c, "release", "cleanup")
  /\ UNCHANGED lock \/ RemoveLock(c)
  /\ UNCHANGED <<reply, processed, committed>>

RejectedCleanup(c) ==
  /\ Finish(c, "cleanup", Answer("threw"))
  /\ UNCHANGED lock \/ RemoveLock(c)
  /\ UNCHANGED <<processed, committed>>

StoreRejects(c) ==
  /\ "store" \in Faults
  /\ \/ RejectedRead(c) \/ RejectedAcquire(c) \/ RejectedMark(c)
     \/ RejectedRelease(c) \/ RejectedCleanup(c)

Crash(c) ==
  /\ "crash" \in Faults
  /\ Running(c)
  /\ pc' = [pc EXCEPT ![c] = "crashed"]
  /\ UNCHANGED <<reply, lock, processed, committed>>

\* One unit of time: every entry ages, and one at the end of its life is gone.
Aged(e) == IF e.ttl > 1 THEN [e EXCEPT !.ttl = @ - 1] ELSE NoEntry

Tick ==
  /\ "slow" \notin Faults =>
       \A c \in Calls :
         InFlight(c) /\ lock[RequestOf[c]].by = c => lock[RequestOf[c]].ttl > 1
  /\ "gap" \notin Faults => \A c \in Calls : pc[c] # "acquire"
  /\ lock' = [k \in Requests |-> Aged(lock[k])]
  /\ processed' = [k \in Requests |-> Aged(processed[k])]
  /\ UNCHANGED <<pc, reply, committed>>

-----------------------------------------------------------------------------
\* What the code of a running call does next when nothing goes wrong.
Proceed(c) ==
  \/ HasBeenProcessed(c) \/ GetPayload(c)
  \/ AcquireLock(c) \/ LockRefused(c)
  \/ NextOk(c) \/ NextFails(c) \/ NextThrows(c)
  \/ MarkAsProcessed(c) \/ ReleaseLock(c) \/ Cleanup(c)

Next ==
  \/ \E c \in Calls :
       NoContext(c) \/ Begin(c) \/ Proceed(c) \/ StoreRejects(c) \/ Crash(c)
  \/ Tick

Spec == Init /\ [][Next]_vars

(* Promises are eventually settled, the handler's included, and time       *)
(* passes.  Nothing makes a call start, a store reject or a process crash. *)
Fairness == WF_vars(Tick) /\ \A c \in Calls : WF_vars(Proceed(c))

FairSpec == Spec /\ Fairness

-----------------------------------------------------------------------------
(* The slot of a request, as the ledger sees it: a stored result hides an  *)
(* expiring lock, and a lock nobody is behind any more counts for nothing. *)
SlotOf(k) ==
  IF Live(processed[k])
  THEN [state |-> "stored", by |-> processed[k].by]
  ELSE IF Live(lock[k]) /\ InFlight(lock[k].by)
       THEN [state |-> "running", by |-> lock[k].by]
       ELSE [state |-> "empty", by |-> NoCall]

Ledger == INSTANCE CommandLedger WITH
            slot <- [k \in Requests |-> SlotOf(k)], answer <- reply

\* With no lock overrun and no rejecting store, the pipeline and the store
\* together behave as the ledger: one command runs per request at a time, and
\* the others get the stored result or a refusal.
ImplementsLedger == Ledger!Spec

\* The reason the promises above hold when no store call rejects and nothing
\* overruns: a call in flight owns a live lock and has no stored result to
\* overtake, and a result stored since a call's check is still behind its lock.
LockDiscipline ==
  \A c \in Calls :
    /\ InFlight(c) =>
         /\ lock[RequestOf[c]].by = c
         /\ Live(lock[RequestOf[c]])
         /\ ~ Live(processed[RequestOf[c]])
    /\ pc[c] = "acquire" /\ Live(processed[RequestOf[c]]) =>
         Live(lock[RequestOf[c]])

\* Where an entry comes from: a lock belongs to a call of its request, stored
\* results and marks to commands of that request that succeeded, and only a
\* finished call has been answered.
Provenance ==
  /\ \A k \in Requests :
       Live(lock[k]) => lock[k].by \in Calls /\ RequestOf[lock[k].by] = k
  /\ \A k \in Requests :
       Live(processed[k]) =>
         /\ processed[k].by \in committed
         /\ RequestOf[processed[k].by] = k
  /\ \A c \in Calls : pc[c] = "mark" => c \in committed
  /\ \A c \in Calls : reply[c] = NoReply \/ pc[c] = "done"

\* Two commands of one request are never executed at the same time.  The
\* lock alone ensures it, across every interleaving of check and acquisition.
ExclusiveExecution ==
  \A c, d \in Calls :
    Executing(c) /\ Executing(d) /\ RequestOf[c] = RequestOf[d] => c = d

\* While the result of a request is stored, its command is not executed again,
\* although a call may have read "not processed" before the result was stored.
NoReprocessing ==
  \A c \in Calls : Executing(c) => ~ Live(processed[RequestOf[c]])

\* An ok reply carries the payload of a command of the same request whose
\* handler did succeed, whatever expired, rejected or crashed in between.
ReplayCommitted ==
  \A c \in Calls :
    reply[c].kind = "ok" =>
      /\ reply[c].from \in committed
      /\ RequestOf[reply[c].from] = RequestOf[c]

\* A call that came back without success does not leave its own lock behind,
\* which would refuse the client's retry until the lock expires.  The release
\* of the catch block may itself be rejected, and then it does.
FailureUnlocks ==
  \A c \in Calls :
    \/ reply[c].kind \in {"conflict", "failed"}
    \/ reply[c].kind = "threw" /\ "store" \notin Faults
    => lock[RequestOf[c]].by # c

\* No lock is left behind: neither by a call that came back without success,
\* nor for good by a process that died, so a retry of the client can go through.
LocksAreGivenUp ==
  /\ []FailureUnlocks
  /\ \A c \in Calls :
       pc[c] = "crashed" /\ lock[RequestOf[c]].by = c
         ~> lock[RequestOf[c]].by # c

\* Every call that started is answered unless its process dies.
EveryCallAnswers ==
  \A c \in Calls : pc[c] = "check" ~> pc[c] \in {"done", "crashed"}
=============================================================================
