------------------------ MODULE MC_ServiceContainer ------------------------
(* A registry with a singleton and a scoped service over a transient, a    *)
(* transient over both, and a singleton over such a transient (a captive   *)
(* dependency); another with a cycle and factories that share instances.   *)
EXTENDS ServiceContainer, TLC

CONSTANTS s1, s2, logger, clock, state, unit, captive, loopA, loopB

MCScopes == {s1, s2}
MCSymmetry == Permutations(MCScopes)
OneScope == {s1}

MCTokens == {logger, clock, state, unit, captive}
MCLifetime == [t \in MCTokens |->
                 CASE t \in {logger, captive} -> "singleton"
                   [] t = state -> "scoped"
                   [] OTHER -> "transient"]
MCDeps == [t \in MCTokens |->
             CASE t \in {logger, state} -> <<clock>>
               [] t = unit    -> <<state>>
               [] t = captive -> <<clock, unit>>
               [] OTHER -> <<>>]
MCDisposable == {logger, clock, state}
MCReuses == [t \in MCTokens |-> IF t = clock THEN {clock} ELSE {}]
MCLate == {}

LoopTokens == {loopA, loopB, logger, clock, state}
LoopLifetime == [t \in LoopTokens |->
                   CASE t = logger -> "singleton"
                     [] t = state -> "scoped"
                     [] OTHER -> "transient"]
LoopDeps == [t \in LoopTokens |->
               CASE t = loopA -> <<loopB>>
                 [] t = loopB -> <<loopA>>
                 [] t = state -> <<clock>>
                 [] OTHER -> <<>>]
LoopDisposable == {logger, clock, state}
LoopReuses == [t \in LoopTokens |->
                 IF t \in {clock, state} THEN {clock} ELSE {}]
LoopLate == {logger}
=============================================================================
