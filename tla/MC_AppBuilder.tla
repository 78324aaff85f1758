--------------------------- MODULE MC_AppBuilder ---------------------------
(* The context, logger, authentication and middleware modules, with the    *)
(* priorities their add methods give them: the middleware module queues    *)
(* the first two and uses the third.                                       *)
EXTENDS AppBuilder

CONSTANTS context, logger, auth, middleware, k1, k2, k3

MCModules == {context, logger, auth, middleware}
MCPriority == [m \in MCModules |->
                 CASE m = context -> 0
                   [] m = logger  -> 1
                   [] m = auth    -> 3
                   [] OTHER       -> 4]
MCRequires == [m \in MCModules |->
                 IF m = middleware THEN {context, logger} ELSE {}]
MCOptional == [m \in MCModules |-> IF m = middleware THEN {auth} ELSE {}]
MCCallers == {k1, k2, k3}
MCTwoCallers == {k1, k2}
=============================================================================
