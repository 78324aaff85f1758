--------------------------- MODULE CommandLedger ---------------------------
(***************************************************************************)
(* What the idempotency mechanism promises (the class comments of          *)
(* IdempotencyPipeline and IdempotencyStore), without locks, time or       *)
(* store calls: each request has one slot; a command is run only when its  *)
(* slot is empty, its result stays in the slot until it is forgotten, and  *)
(* every other call is either answered with that result or refused.        *)
(***************************************************************************)
CONSTANTS Calls, Requests, RequestOf, NoCall

VARIABLES
  slot,    \* per request: nothing, the call being run, or the stored result
  answer   \* per call: what its caller was told

vars == <<slot, answer>>

Empty == [state |-> "empty", by |-> NoCall]
RunningBy(c) == [state |-> "running", by |-> c]
StoredBy(c) == [state |-> "stored", by |-> c]

NoAnswer == [kind |-> "none", from |-> NoCall]
Result(c) == [kind |-> "ok", from |-> c]
Refusal == [kind |-> "conflict", from |-> NoCall]
Failures == {[kind |-> k, from |-> NoCall] : k \in {"failed", "threw"}}

Init ==
  /\ slot = [k \in Requests |-> Empty]
  /\ answer = [c \in Calls |-> NoAnswer]

Occupy(c, from, to) ==
  /\ slot[RequestOf[c]] = from
  /\ slot' = [slot EXCEPT ![RequestOf[c]] = to]

Tell(c, a) ==
  /\ answer[c] = NoAnswer
  /\ answer' = [answer EXCEPT ![c] = a]

Run(c) == Occupy(c, Empty, RunningBy(c)) /\ UNCHANGED answer

Store(c) == Occupy(c, RunningBy(c), StoredBy(c)) /\ Tell(c, Result(c))

Fail(c) ==
  /\ Occupy(c, RunningBy(c), Empty)
  /\ \E a \in Failures : Tell(c, a)

\* The process running the command died.
Abandon(c) == Occupy(c, RunningBy(c), Empty) /\ UNCHANGED answer

Replay(c) ==
  /\ \E d \in Calls : slot[RequestOf[c]] = StoredBy(d) /\ Tell(c, Result(d))
  /\ UNCHANGED slot

Refuse(c) == Tell(c, Refusal) /\ UNCHANGED slot

\* Stored results expire, several of them at a time if need be.
Forget ==
  /\ \E S \in SUBSET {k \in Requests : slot[k].state = "stored"} :
       slot' = [k \in Requests |-> IF k \in S THEN Empty ELSE slot[k]]
  /\ UNCHANGED answer

Next ==
  \/ \E c \in Calls :
       Run(c) \/ Store(c) \/ Fail(c) \/ Abandon(c) \/ Replay(c) \/ Refuse(c)
  \/ Forget

Spec == Init /\ [][Next]_vars
=============================================================================
