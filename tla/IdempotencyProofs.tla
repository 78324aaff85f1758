------------------------- MODULE IdempotencyProofs -------------------------
(***************************************************************************)
(* What Idempotency guarantees for any set of calls, requests and TTLs.    *)
(***************************************************************************)
EXTENDS Idempotency, TLAPS

(* The steps a running call takes against the store, its faults included.  *)
(* Each of them either leaves an entry alone, writes the call's own entry  *)
(* or removes the entry of the call's request.                             *)
LEMMA EntryFacts ==
  /\ NoEntry \in Entry
  /\ ~ Live(NoEntry)
  /\ \A c \in Calls : /\ [by |-> c, ttl |-> LockTTL] \in Entry
                      /\ [by |-> c, ttl |-> ProcessedTTL] \in Entry
                      /\ Live([by |-> c, ttl |-> LockTTL])
                      /\ Live([by |-> c, ttl |-> ProcessedTTL])
  /\ \A e \in Entry : /\ Aged(e) \in Entry
                      /\ Live(Aged(e)) => Live(e) /\ Aged(e).by = e.by
                      /\ e.ttl > 1 => Live(Aged(e))
BY TtlAssumption DEF NoEntry, Entry, Owner, Live, Aged

\* What the pipeline answers is a reply.
LEMMA ReplyFacts ==
  /\ NoReply \in Reply
  /\ \A c \in Owner : Ok(c) \in Reply
  /\ \A kind \in {"conflict", "failed", "threw"} : Answer(kind) \in Reply
BY DEF NoReply, Reply, Ok, Answer, Owner

(* Every variable keeps its type: whatever rejects, expires or crashes,    *)
(* the pipeline stays within its states and the store within its entries.  *)
THEOREM TypeCorrect == Spec => []TypeOK
<1>1. Init => TypeOK
  BY EntryFacts, ReplyFacts DEF Init, TypeOK, Steps
<1>2. TypeOK /\ [Next]_vars => TypeOK'
  <2> SUFFICES ASSUME TypeOK, [Next]_vars PROVE TypeOK'
    OBVIOUS
  <2> USE CallsAssumption, EntryFacts, ReplyFacts
  \* The two ways to write an entry and the one to remove it.
  <2>a. ASSUME NEW c \in Calls, SetLock(c) \/ RemoveLock(c) \/ UNCHANGED lock
        PROVE lock' \in [Requests -> Entry]
    <3>1. CASE SetLock(c)
      BY <3>1 DEF TypeOK, SetLock
    <3>2. CASE RemoveLock(c) \/ UNCHANGED lock
      BY <3>2 DEF TypeOK, RemoveLock
    <3> QED
      BY <2>a, <3>1, <3>2
  <2>b. ASSUME NEW c \in Calls, SetProcessed(c) \/ UNCHANGED processed
        PROVE processed' \in [Requests -> Entry]
    <3>1. CASE SetProcessed(c)
      BY <3>1 DEF TypeOK, SetProcessed
    <3> QED
      BY <2>b, <3>1 DEF TypeOK
  <2>1. ASSUME NEW c \in Calls, NoContext(c) \/ Begin(c) PROVE TypeOK'
    BY <2>1 DEF TypeOK, NoContext, Begin, Goto, Finish, Steps
  <2>2. ASSUME NEW c \in Calls, HasBeenProcessed(c) \/ GetPayload(c) PROVE TypeOK'
    <3>1. processed[RequestOf[c]].by \in Owner
      BY DEF TypeOK, Entry
    <3> QED
      BY <2>2, <3>1 DEF TypeOK, HasBeenProcessed, GetPayload, Goto, Finish, Steps
  <2>3. ASSUME NEW c \in Calls, AcquireLock(c) \/ LockRefused(c) PROVE TypeOK'
    BY <2>3, <2>a DEF TypeOK, AcquireLock, LockRefused, Goto, Finish, Steps
  <2>4. ASSUME NEW c \in Calls, NextOk(c) \/ NextFails(c) \/ NextThrows(c)
        PROVE TypeOK'
    BY <2>4 DEF TypeOK, NextOk, NextFails, NextThrows, Goto, Steps
  <2>5. ASSUME NEW c \in Calls, MarkAsProcessed(c) PROVE TypeOK'
    BY <2>5 DEF TypeOK, MarkAsProcessed, SetProcessed, Finish, Goto, Steps, Owner
  <2>6. ASSUME NEW c \in Calls, ReleaseLock(c) \/ Cleanup(c) PROVE TypeOK'
    BY <2>6 DEF TypeOK, ReleaseLock, Cleanup, RemoveLock, Finish, Goto, Steps
  <2>7. ASSUME NEW c \in Calls, StoreRejects(c) PROVE TypeOK'
    <3>1. CASE RejectedRead(c)
      BY <3>1 DEF TypeOK, RejectedRead, Goto, Steps
    <3>2. CASE RejectedAcquire(c)
      BY <3>2, <2>a DEF TypeOK, RejectedAcquire, Goto, Steps
    <3>3. CASE RejectedMark(c)
      BY <3>3, <2>b DEF TypeOK, RejectedMark, Goto, Steps
    <3>4. CASE RejectedRelease(c)
      BY <3>4 DEF TypeOK, RejectedRelease, RemoveLock, Goto, Steps
    <3>5. CASE RejectedCleanup(c)
      BY <3>5 DEF TypeOK, RejectedCleanup, RemoveLock, Finish, Goto, Steps
    <3> QED
      BY <2>7, <3>1, <3>2, <3>3, <3>4, <3>5 DEF StoreRejects
  <2>8. ASSUME NEW c \in Calls, Crash(c) PROVE TypeOK'
    BY <2>8 DEF TypeOK, Crash, Steps
  <2>9. CASE Tick
    BY <2>9 DEF TypeOK, Tick
  <2>10. CASE UNCHANGED vars
    BY <2>10 DEF TypeOK, vars
  <2> QED
    BY <2>1, <2>2, <2>3, <2>4, <2>5, <2>6, <2>7, <2>8, <2>9, <2>10
    DEF Next, Proceed
<1> QED
  BY <1>1, <1>2, PTL DEF Spec

-----------------------------------------------------------------------------
(* Where entries and replies come from, whatever the faults.               *)
LEMMA ProvenanceHolds == Spec => [](Provenance /\ ReplayCommitted)
<1> DEFINE Inv == Provenance /\ ReplayCommitted
<1>1. Init => Inv
  BY CallsAssumption DEF Init, Provenance, ReplayCommitted, NoEntry, NoReply, Live
<1>2. TypeOK /\ TypeOK' /\ Inv /\ [Next]_vars => Inv'
  <2> SUFFICES ASSUME TypeOK, TypeOK', Inv, [Next]_vars PROVE Inv'
    OBVIOUS
  <2> USE CallsAssumption DEF Provenance, ReplayCommitted
  <2>0. ASSUME NEW c \in Calls, SetLock(c) \/ RemoveLock(c) \/ UNCHANGED lock
        PROVE \A k \in Requests :
                Live(lock'[k]) => /\ lock'[k].by \in Calls
                                  /\ RequestOf[lock'[k].by] = k
    <3>1. CASE SetLock(c)
      BY <3>1 DEF TypeOK, SetLock
    <3>2. CASE RemoveLock(c)
      BY <3>2, EntryFacts DEF TypeOK, RemoveLock
    <3> QED
      BY <2>0, <3>1, <3>2
  <2>1. ASSUME NEW c \in Calls, NoContext(c) \/ Begin(c) PROVE Inv'
    BY <2>1 DEF TypeOK, NoContext, Begin, Goto, Finish, Answer
  <2>2. ASSUME NEW c \in Calls, HasBeenProcessed(c) PROVE Inv'
    BY <2>2 DEF TypeOK, HasBeenProcessed, Goto
  <2>3. ASSUME NEW c \in Calls, GetPayload(c) PROVE Inv'
    BY <2>3 DEF TypeOK, GetPayload, Goto, Finish, Answer, Ok
  <2>4. ASSUME NEW c \in Calls, AcquireLock(c) \/ LockRefused(c) PROVE Inv'
    <3>1. CASE AcquireLock(c)
      <4>1. SetLock(c)
        BY <3>1 DEF AcquireLock
      <4> QED
        BY <3>1, <4>1, <2>0 DEF TypeOK, AcquireLock, Goto
    <3>2. CASE LockRefused(c)
      BY <3>2 DEF TypeOK, LockRefused, Goto, Finish, Answer
    <3> QED
      BY <2>4, <3>1, <3>2
  <2>5. ASSUME NEW c \in Calls, NextOk(c) \/ NextFails(c) \/ NextThrows(c)
        PROVE Inv'
    BY <2>5 DEF TypeOK, NextOk, NextFails, NextThrows, Goto
  <2>6. ASSUME NEW c \in Calls, SetProcessed(c), pc[c] = "mark",
               UNCHANGED committed
        PROVE \A k \in Requests :
                Live(processed'[k]) =>
                  /\ processed'[k].by \in committed'
                  /\ RequestOf[processed'[k].by] = k
    BY <2>6 DEF TypeOK, SetProcessed, Live
  <2>7. ASSUME NEW c \in Calls, MarkAsProcessed(c) PROVE Inv'
    <3>1. SetProcessed(c) /\ pc[c] = "mark" /\ UNCHANGED committed
      BY <2>7 DEF MarkAsProcessed, Finish, Goto
    <3> QED
      BY <2>7, <2>6, <3>1 DEF TypeOK, MarkAsProcessed, Finish, Goto, Ok
  <2>8. ASSUME NEW c \in Calls, ReleaseLock(c) \/ Cleanup(c) PROVE Inv'
    BY <2>8, <2>0 DEF TypeOK, ReleaseLock, Cleanup, Finish, Goto, Answer
  <2>9. ASSUME NEW c \in Calls, StoreRejects(c) PROVE Inv'
    <3>1. CASE RejectedRead(c)
      BY <3>1 DEF TypeOK, RejectedRead, Goto
    <3>2. CASE RejectedAcquire(c) \/ RejectedRelease(c)
      <4>1. SetLock(c) \/ RemoveLock(c) \/ UNCHANGED lock
        BY <3>2 DEF RejectedAcquire, RejectedRelease
      <4> QED
        BY <3>2, <4>1, <2>0 DEF TypeOK, RejectedAcquire, RejectedRelease, Goto
    <3>3. CASE RejectedMark(c)
      <4>1. pc[c] = "mark" /\ UNCHANGED committed
        BY <3>3 DEF RejectedMark, Goto
      <4>2. \A k \in Requests :
              Live(processed'[k]) =>
                /\ processed'[k].by \in committed'
                /\ RequestOf[processed'[k].by] = k
        BY <3>3, <4>1, <2>6 DEF RejectedMark
      <4> QED
        BY <3>3, <4>2 DEF TypeOK, RejectedMark, Goto
    <3>4. CASE RejectedCleanup(c)
      BY <3>4, <2>0 DEF TypeOK, RejectedCleanup, Finish, Goto, Answer
    <3> QED
      BY <2>9, <3>1, <3>2, <3>3, <3>4 DEF StoreRejects
  <2>10. ASSUME NEW c \in Calls, Crash(c) PROVE Inv'
    BY <2>10 DEF TypeOK, Crash, Running
  <2>11. CASE Tick
    BY <2>11, EntryFacts DEF TypeOK, Tick
  <2>12. CASE UNCHANGED vars
    BY <2>12 DEF vars
  <2> QED
    BY <2>1, <2>2, <2>3, <2>4, <2>5, <2>7, <2>8, <2>9, <2>10, <2>11, <2>12
    DEF Next, Proceed
<1> QED
  BY <1>1, <1>2, TypeCorrect, PTL DEF Spec

(* Every ok reply is the payload of a command of the same request whose    *)
(* handler succeeded (idempotency.pipeline.ts, handle).  It needs no        *)
(* assumption on the faults: only a call that went through next() writes a *)
(* processed entry, and it writes it under its own request.                *)
THEOREM ReplaysAreCommitted == Spec => []ReplayCommitted
BY ProvenanceHolds, PTL

-----------------------------------------------------------------------------
(* The fault model of the two theorems below: processes may die, but no    *)
(* store call rejects, next() returns before its lock expires and a call   *)
(* acquires at the instant it checked.                                     *)
CrashesOnly == Faults \subseteq {"crash"}

(* A call in flight owns a live lock and no stored result precedes it.     *)
THEOREM LocksAreDisciplined ==
  ASSUME CrashesOnly PROVE Spec => []LockDiscipline
<1>1. Init => LockDiscipline
  BY DEF Init, LockDiscipline, InFlight
<1>2. TypeOK /\ TypeOK' /\ LockDiscipline /\ [Next]_vars => LockDiscipline'
  <2> SUFFICES ASSUME TypeOK, TypeOK', LockDiscipline, [Next]_vars
               PROVE LockDiscipline'
    OBVIOUS
  <2> USE CallsAssumption DEF LockDiscipline, InFlight
  <2>1. ASSUME NEW c \in Calls, NoContext(c) \/ Begin(c) PROVE LockDiscipline'
    BY <2>1 DEF TypeOK, NoContext, Begin, Goto, Finish
  <2>2. ASSUME NEW c \in Calls, HasBeenProcessed(c) \/ GetPayload(c)
        PROVE LockDiscipline'
    BY <2>2 DEF TypeOK, HasBeenProcessed, GetPayload, Goto, Finish
  <2>3. ASSUME NEW c \in Calls, AcquireLock(c) PROVE LockDiscipline'
    <3>1. /\ pc[c] = "acquire" /\ ~ Live(lock[RequestOf[c]])
          /\ pc' = [pc EXCEPT ![c] = "next"] /\ UNCHANGED processed
          /\ lock' = [lock EXCEPT ![RequestOf[c]] = [by |-> c, ttl |-> LockTTL]]
      BY <2>3 DEF AcquireLock, SetLock, Goto
    \* A result stored since the check would still be behind a live lock.
    <3>2. ~ Live(processed[RequestOf[c]])
      BY <3>1
    <3>3. lock'[RequestOf[c]].by = c /\ Live(lock'[RequestOf[c]])
      <4>1. RequestOf[c] \in Requests /\ lock \in [Requests -> Entry]
        BY DEF TypeOK
      <4>2. lock'[RequestOf[c]] = [by |-> c, ttl |-> LockTTL]
        BY <3>1, <4>1
      <4> QED
        BY <4>2, TtlAssumption DEF Live
    <3>4. ASSUME NEW d \in Calls, RequestOf[d] # RequestOf[c]
          PROVE lock'[RequestOf[d]] = lock[RequestOf[d]] /\ pc'[d] = pc[d]
      BY <3>1, <3>4 DEF TypeOK
    <3>5. ASSUME NEW d \in Calls, d # c, RequestOf[d] = RequestOf[c]
          PROVE ~ InFlight(d) /\ pc'[d] = pc[d]
      BY <3>1, <3>5 DEF TypeOK
    <3>6. pc'[c] = "next"
      BY <3>1 DEF TypeOK
    <3> QED
      BY <3>1, <3>2, <3>3, <3>4, <3>5, <3>6
  <2>4. ASSUME NEW c \in Calls, LockRefused(c) PROVE LockDiscipline'
    BY <2>4 DEF TypeOK, LockRefused, Goto, Finish
  <2>5. ASSUME NEW c \in Calls, NextOk(c) \/ NextFails(c) \/ NextThrows(c)
        PROVE LockDiscipline'
    BY <2>5 DEF TypeOK, NextOk, NextFails, NextThrows, Goto
  <2>6. ASSUME NEW c \in Calls, MarkAsProcessed(c) PROVE LockDiscipline'
    BY <2>6 DEF TypeOK, MarkAsProcessed, SetProcessed, Goto, Finish
  <2>7. ASSUME NEW c \in Calls, ReleaseLock(c) \/ Cleanup(c)
        PROVE LockDiscipline'
    BY <2>7 DEF TypeOK, ReleaseLock, Cleanup, RemoveLock, Goto, Finish
  <2>8. ASSUME NEW c \in Calls PROVE ~ StoreRejects(c)
    BY DEF StoreRejects, CrashesOnly
  <2>9. ASSUME NEW c \in Calls, Crash(c) PROVE LockDiscipline'
    BY <2>9 DEF TypeOK, Crash
  <2>10. CASE Tick
    <3>1. \A c \in Calls : InFlight(c) => lock[RequestOf[c]].ttl > 1
      BY <2>10 DEF Tick, CrashesOnly
    <3>2. \A c \in Calls : pc[c] # "acquire"
      BY <2>10 DEF Tick, CrashesOnly
    <3> QED
      BY <2>10, <3>1, <3>2, EntryFacts DEF TypeOK, Tick
  <2>11. CASE UNCHANGED vars
    BY <2>11 DEF vars
  <2> QED
    BY <2>1, <2>2, <2>3, <2>4, <2>5, <2>6, <2>7, <2>8, <2>9, <2>10, <2>11
    DEF Next, Proceed
<1> QED
  BY <1>1, <1>2, TypeCorrect, PTL DEF Spec

(* No two executions of a request overlap, and a stored result is never    *)
(* executed again, for any number of calls and any TTLs.                   *)
THEOREM ExecutionsAreExclusive ==
  ASSUME CrashesOnly PROVE Spec => [](ExclusiveExecution /\ NoReprocessing)
<1>1. LockDiscipline => ExclusiveExecution /\ NoReprocessing
  BY DEF LockDiscipline, ExclusiveExecution, NoReprocessing, Executing, InFlight
<1> QED
  BY <1>1, LocksAreDisciplined, PTL

-----------------------------------------------------------------------------
(* A slot only moves with the entries of its request and the call behind   *)
(* its lock.                                                               *)
LEMMA SlotUnmoved ==
  ASSUME NEW k \in Requests,
         lock'[k] = lock[k], processed'[k] = processed[k],
         Live(lock[k]) => (InFlight(lock[k].by) <=> InFlight(lock[k].by)')
  PROVE  SlotOf(k)' = SlotOf(k)
BY DEF SlotOf, InFlight, Live

(* The pipeline with its store implements the ledger: its initial state is *)
(* the empty ledger, and each step runs, stores, fails, abandons, replays, *)
(* refuses or forgets a command, or changes nothing the ledger shows.      *)
THEOREM PipelineImplementsLedger ==
  ASSUME CrashesOnly PROVE Spec => ImplementsLedger
<1> DEFINE Slot == [k \in Requests |-> SlotOf(k)]
<1> DEFINE Inv == TypeOK /\ LockDiscipline /\ Provenance
<1>1. Init => Ledger!Init
  BY DEF Init, Ledger!Init, Ledger!Empty, Ledger!NoAnswer, SlotOf, NoReply,
         NoEntry, Live
<1>2. Inv /\ Inv' /\ [Next]_vars => [Ledger!Next]_(Ledger!vars)
  <2> SUFFICES ASSUME Inv, Inv', [Next]_vars
               PROVE Ledger!Next \/ UNCHANGED <<Slot, reply>>
    BY DEF Ledger!vars
  <2> USE CallsAssumption
  <2>1. \A c \in Calls : pc[c] # "done" => reply[c] = Ledger!NoAnswer
    BY DEF Provenance, NoReply, Ledger!NoAnswer
  <2>2. ASSUME NEW c \in Calls, NEW from, NEW r, Finish(c, from, r),
               from # "done"
        PROVE  Ledger!Tell(c, r)
    BY <2>1, <2>2 DEF TypeOK, Finish, Goto, Ledger!Tell
  \* A call that stays in or out of flight and touches no entry moves no slot.
  <2>3. ASSUME UNCHANGED <<lock, processed>>,
               \A d \in Calls : InFlight(d)' <=> InFlight(d)
        PROVE  UNCHANGED Slot
    <3>1. \A k \in Requests :
            Live(lock[k]) => (InFlight(lock[k].by) <=> InFlight(lock[k].by)')
      BY <2>3 DEF Provenance, InFlight
    <3>2. \A k \in Requests : SlotOf(k)' = SlotOf(k)
      BY <2>3, <3>1, SlotUnmoved
    <3> QED
      BY <3>2
  \* Any other step of a call moves at most the slot of its own request.
  <2>4. ASSUME NEW c \in Calls,
               \A k \in Requests \ {RequestOf[c]} :
                 lock'[k] = lock[k] /\ processed'[k] = processed[k],
               \A d \in Calls \ {c} : pc'[d] = pc[d]
        PROVE  Slot' = [Slot EXCEPT ![RequestOf[c]] = SlotOf(RequestOf[c])']
    <3>1. \A k \in Requests \ {RequestOf[c]} :
            Live(lock[k]) => (InFlight(lock[k].by) <=> InFlight(lock[k].by)')
      BY <2>4 DEF Provenance, InFlight
    <3>2. \A k \in Requests \ {RequestOf[c]} : SlotOf(k)' = SlotOf(k)
      BY <2>4, <3>1, SlotUnmoved
    <3> QED
      BY <3>2
  \* The slot of a call in flight.
  <2>5. ASSUME NEW c \in Calls, InFlight(c)
        PROVE  SlotOf(RequestOf[c]) = Ledger!RunningBy(c)
    BY <2>5 DEF LockDiscipline, SlotOf, Ledger!RunningBy
  <2>6. ASSUME NEW c \in Calls, NoContext(c) PROVE Ledger!Refuse(c)
    BY <2>6, <2>2, <2>3 DEF NoContext, Finish, Goto, TypeOK, InFlight,
       Ledger!Refuse, Ledger!Refusal, Answer
  <2>7. ASSUME NEW c \in Calls, Begin(c) PROVE UNCHANGED <<Slot, reply>>
    BY <2>7, <2>3 DEF Begin, Goto, TypeOK, InFlight
  <2>8. ASSUME NEW c \in Calls, HasBeenProcessed(c)
        PROVE UNCHANGED <<Slot, reply>>
    BY <2>8, <2>3 DEF HasBeenProcessed, Goto, TypeOK, InFlight
  <2>9. ASSUME NEW c \in Calls, GetPayload(c)
        PROVE Ledger!Replay(c) \/ Ledger!Refuse(c)
    <3>1. UNCHANGED Slot
      BY <2>9, <2>3 DEF GetPayload, Finish, Goto, TypeOK, InFlight
    <3>2. CASE Live(processed[RequestOf[c]])
      <4> DEFINE d == processed[RequestOf[c]].by
      <4>1. d \in Calls
        BY <3>2 DEF Provenance, TypeOK
      <4>2. Slot[RequestOf[c]] = Ledger!StoredBy(d)
        BY <3>2 DEF SlotOf, Ledger!StoredBy
      <4>3. Ledger!Tell(c, Ledger!Result(d))
        BY <2>9, <2>2, <3>2 DEF GetPayload, Ok, Ledger!Result
      <4> QED
        BY <3>1, <4>1, <4>2, <4>3 DEF Ledger!Replay
    <3>3. CASE ~ Live(processed[RequestOf[c]])
      BY <2>9, <2>2, <3>1, <3>3 DEF GetPayload, Answer, Ledger!Refuse,
         Ledger!Refusal
    <3> QED
      BY <3>2, <3>3
  <2>10. ASSUME NEW c \in Calls, AcquireLock(c) PROVE Ledger!Run(c)
    <3>1. Slot[RequestOf[c]] = Ledger!Empty
      BY <2>10 DEF AcquireLock, Goto, LockDiscipline, SlotOf, Ledger!Empty
    <3>2. InFlight(c)'
      BY <2>10 DEF AcquireLock, Goto, TypeOK, InFlight
    <3>3. SlotOf(RequestOf[c])' = Ledger!RunningBy(c)
      BY <3>2 DEF LockDiscipline, SlotOf, Ledger!RunningBy, InFlight
    <3>4. Slot' = [Slot EXCEPT ![RequestOf[c]] = SlotOf(RequestOf[c])']
      BY <2>10, <2>4 DEF AcquireLock, SetLock, Goto, TypeOK
    <3> QED
      BY <2>10, <3>1, <3>3, <3>4 DEF AcquireLock, Ledger!Run, Ledger!Occupy
  <2>11. ASSUME NEW c \in Calls, LockRefused(c) PROVE Ledger!Refuse(c)
    BY <2>11, <2>2, <2>3 DEF LockRefused, Finish, Goto, TypeOK, InFlight,
       Ledger!Refuse, Ledger!Refusal, Answer
  <2>12. ASSUME NEW c \in Calls, NextOk(c) \/ NextFails(c) \/ NextThrows(c)
         PROVE UNCHANGED <<Slot, reply>>
    BY <2>12, <2>3 DEF NextOk, NextFails, NextThrows, Goto, TypeOK, InFlight
  <2>13. ASSUME NEW c \in Calls, MarkAsProcessed(c) PROVE Ledger!Store(c)
    <3>1. Slot[RequestOf[c]] = Ledger!RunningBy(c)
      BY <2>13, <2>5 DEF MarkAsProcessed, Finish, Goto, InFlight
    <3>2. SlotOf(RequestOf[c])' = Ledger!StoredBy(c)
      <4>1. processed'[RequestOf[c]] = [by |-> c, ttl |-> ProcessedTTL]
        BY <2>13 DEF MarkAsProcessed, SetProcessed, TypeOK
      <4> QED
        BY <4>1, TtlAssumption DEF SlotOf, Live, Ledger!StoredBy
    <3>3. Slot' = [Slot EXCEPT ![RequestOf[c]] = SlotOf(RequestOf[c])']
      BY <2>13, <2>4 DEF MarkAsProcessed, SetProcessed, Finish, Goto, TypeOK
    <3>4. Ledger!Tell(c, Ledger!Result(c))
      BY <2>13, <2>2 DEF MarkAsProcessed, Ok, Ledger!Result
    <3> QED
      BY <3>1, <3>2, <3>3, <3>4 DEF Ledger!Store, Ledger!Occupy
  <2>14. ASSUME NEW c \in Calls, ReleaseLock(c) \/ Cleanup(c)
         PROVE Ledger!Fail(c)
    <3>1. Slot[RequestOf[c]] = Ledger!RunningBy(c)
      BY <2>14, <2>5 DEF ReleaseLock, Cleanup, Finish, Goto, InFlight
    <3>2. ~ Live(processed[RequestOf[c]])
      BY <2>14 DEF ReleaseLock, Cleanup, Finish, Goto, InFlight, LockDiscipline
    <3>3. SlotOf(RequestOf[c])' = Ledger!Empty
      <4>1. lock'[RequestOf[c]] = NoEntry /\ processed' = processed
        BY <2>14 DEF ReleaseLock, Cleanup, RemoveLock, TypeOK
      <4> QED
        BY <3>2, <4>1, EntryFacts DEF SlotOf, Live, Ledger!Empty
    <3>4. Slot' = [Slot EXCEPT ![RequestOf[c]] = SlotOf(RequestOf[c])']
      BY <2>14, <2>4 DEF ReleaseLock, Cleanup, RemoveLock, Finish, Goto, TypeOK
    <3>5. \E a \in Ledger!Failures : Ledger!Tell(c, a)
      BY <2>14, <2>2 DEF ReleaseLock, Cleanup, Answer, Ledger!Failures
    <3> QED
      BY <3>1, <3>3, <3>4, <3>5 DEF Ledger!Fail, Ledger!Occupy
  <2>15. ASSUME NEW c \in Calls PROVE ~ StoreRejects(c)
    BY DEF StoreRejects, CrashesOnly
  <2>16. ASSUME NEW c \in Calls, Crash(c)
         PROVE Ledger!Abandon(c) \/ UNCHANGED <<Slot, reply>>
    <3>1. CASE ~ InFlight(c)
      BY <2>16, <2>3, <3>1 DEF Crash, TypeOK, InFlight
    <3>2. CASE InFlight(c)
      <4>1. Slot[RequestOf[c]] = Ledger!RunningBy(c)
        BY <2>5, <3>2
      <4>2. ~ InFlight(c)'
        BY <2>16 DEF Crash, TypeOK, InFlight
      <4>3. SlotOf(RequestOf[c])' = Ledger!Empty
        BY <2>16, <3>2, <4>2 DEF Crash, LockDiscipline, SlotOf, Live, InFlight,
           Ledger!Empty
      <4>4. Slot' = [Slot EXCEPT ![RequestOf[c]] = SlotOf(RequestOf[c])']
        BY <2>16, <2>4 DEF Crash, TypeOK
      <4> QED
        BY <2>16, <4>1, <4>3, <4>4 DEF Crash, Ledger!Abandon, Ledger!Occupy
    <3> QED
      BY <3>1, <3>2
  <2>17. CASE Tick
    <3> DEFINE Expired == {k \in Requests : /\ Slot[k].state = "stored"
                                            /\ ~ Live(processed'[k])}
    <3>1. ASSUME NEW k \in Requests, k \in Expired
          PROVE SlotOf(k)' = Ledger!Empty
      <4>1. Live(processed[k])
        BY <3>1 DEF SlotOf
      <4>2. Live(lock'[k]) => lock'[k].by = lock[k].by /\ Live(lock[k])
        BY <2>17, EntryFacts DEF Tick, TypeOK
      <4>3. Live(lock[k]) => ~ InFlight(lock[k].by)
        BY <4>1 DEF Provenance, LockDiscipline
      <4> QED
        BY <2>17, <3>1, <4>2, <4>3 DEF Tick, SlotOf, InFlight, Live,
           Ledger!Empty
    <3>2. ASSUME NEW k \in Requests, k \notin Expired
          PROVE SlotOf(k)' = SlotOf(k)
      <4>1. CASE Live(processed[k])
        <5>1. Live(processed'[k]) /\ processed'[k].by = processed[k].by
          BY <2>17, <3>2, <4>1, EntryFacts DEF Tick, TypeOK, SlotOf
        <5> QED
          BY <4>1, <5>1 DEF SlotOf, Live
      <4>2. CASE ~ Live(processed[k])
        <5>1. ~ Live(processed'[k])
          BY <2>17, <4>2, EntryFacts DEF Tick, TypeOK
        <5>2. CASE Live(lock[k]) /\ InFlight(lock[k].by)
          <6>1. lock[k].ttl > 1
            BY <2>17, <5>2 DEF Tick, CrashesOnly, Provenance, LockDiscipline
          <6>2. Live(lock'[k]) /\ lock'[k].by = lock[k].by
            BY <2>17, <6>1, EntryFacts DEF Tick, TypeOK
          <6> QED
            BY <2>17, <4>2, <5>1, <5>2, <6>2 DEF Tick, SlotOf, Live, InFlight
        <5>3. CASE ~ (Live(lock[k]) /\ InFlight(lock[k].by))
          <6>1. Live(lock'[k]) => lock'[k].by = lock[k].by /\ Live(lock[k])
            BY <2>17, EntryFacts DEF Tick, TypeOK
          <6> QED
            BY <2>17, <4>2, <5>1, <5>3, <6>1 DEF Tick, SlotOf, Live, InFlight
        <5> QED
          BY <5>2, <5>3
      <4> QED
        BY <4>1, <4>2
    <3>3. Slot' = [k \in Requests |-> IF k \in Expired THEN Ledger!Empty
                                                      ELSE Slot[k]]
      BY <3>1, <3>2
    <3>4. Expired \in SUBSET {k \in Requests : Slot[k].state = "stored"}
      OBVIOUS
    <3> QED
      BY <2>17, <3>3, <3>4 DEF Tick, Ledger!Next, Ledger!Forget
  <2>18. CASE UNCHANGED vars
    <3>1. \A d \in Calls : InFlight(d)' <=> InFlight(d)
      BY <2>18 DEF vars, InFlight
    <3> QED
      BY <2>18, <2>3, <3>1 DEF vars
  <2> QED
    BY <2>6, <2>7, <2>8, <2>9, <2>10, <2>11, <2>12, <2>13, <2>14, <2>15,
       <2>16, <2>17, <2>18 DEF Next, Proceed, Ledger!Next
<1> QED
  BY <1>1, <1>2, TypeCorrect, LocksAreDisciplined, ProvenanceHolds, PTL
  DEF Spec, ImplementsLedger, Ledger!Spec
=============================================================================
