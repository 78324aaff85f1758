-------------------------- MODULE MC_Transactions --------------------------
(* A careful request and a careless one, of two runs each.                 *)
EXTENDS Transactions

CONSTANTS q1, q2, t1, t2, t3, t4

MCRequests == {q1, q2}
MCRuns == {t1, t2, t3, t4}
MCRequestOf == [r \in MCRuns |-> IF r \in {t1, t2} THEN q1 ELSE q2]
MCCareless == {q2}
=============================================================================
