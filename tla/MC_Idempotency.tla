-------------------------- MODULE MC_Idempotency ---------------------------
(* Small instances of Idempotency: three calls in one request and one call *)
(* in another, so that the shared entries and independent ones both occur. *)
EXTENDS Idempotency

CONSTANTS c1, c2, c3, c4, r1, r2

MCCalls == {c1, c2, c3, c4}
MCOneRequestCalls == {c1, c2, c3}
MCRequests == {r1, r2}
MCRequestOf == [c \in MCCalls |-> IF c = c4 THEN r2 ELSE r1]
MCOneRequestOf == [c \in MCOneRequestCalls |-> r1]
MCOneRequest == {r1}

NoFaults == {}
Crashes == {"crash"}
StoreFaults == {"store"}
AllFaults == {"slow", "gap", "store", "crash"}
=============================================================================
