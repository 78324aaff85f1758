--------------------------- MODULE MC_Resilience ---------------------------
(* Three callers in four deployments, one for each limit.                  *)
EXTENDS Resilience

CONSTANTS a1, a2, a3

MCCallers == {a1, a2, a3}
MCMethods == {"GET", "POST"}
Status(s, m) == [network |-> FALSE, status |-> s, method |-> m]
MCErrors ==
  {Status(503, m) : m \in MCMethods} \cup {Status(404, m) : m \in MCMethods}
    \cup {[Status(0, "GET") EXCEPT !.network = TRUE], Status(408, None)}
MCConfigs == {[attempts |-> 1, failures |-> 1, concurrent |-> 3, timeout |-> None],
              [attempts |-> 1, failures |-> 2, concurrent |-> None, timeout |-> 1],
              [attempts |-> 0, failures |-> 0, concurrent |-> 1, timeout |-> None],
              [attempts |-> 0, failures |-> 1, concurrent |-> 3, timeout |-> 0]}
MCDefaults == [attempts |-> 3, failures |-> 5, concurrent |-> 2, timeout |-> 1]
=============================================================================
