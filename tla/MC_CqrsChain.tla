---------------------------- MODULE MC_CqrsChain ----------------------------
(* Three calls at a time, of nine mixes, in four deployments.             *)
EXTENDS CqrsChain

CONSTANTS c1, c2, c3, alice, bob, tenant

MCCalls == {c1, c2, c3}
MCSetups == {{"concurrency", "caching"},
             {"policies", "validation", "concurrency", "caching"},
             {"policies", "custom", "caching"},
             {"custom", "validation", "concurrency"}}

MCLower == [i \in {"Rename", "rename", "show", "SHOW", "lost"} |->
              IF i = "Rename" THEN "rename" ELSE IF i = "SHOW" THEN "show" ELSE i]
MCRegistered == {"Rename", "show"}

Asks == [intent |-> "show", roles |-> {}, permissions |-> {},
         userId |-> None, tenantId |-> None]
\* The second policy for "show" replaces the first; its flag for the user is
\* false, and yet demands one, since another policy asks for the strategy.
MCPolicies == <<[Asks EXCEPT !.roles = {"nobody"}],
                [Asks EXCEPT !.intent = "rename", !.roles = {"admin", "owner"},
                             !.userId = TRUE],
                [Asks EXCEPT !.intent = "SHOW", !.permissions = {"read"},
                             !.userId = FALSE, !.tenantId = TRUE]>>
MCEmptyFlags == {None, FALSE}

Alice == [user |-> alice, tenant |-> tenant, roles |-> {"owner"},
          permissions |-> {"read"}]
Bob == [Alice EXCEPT !.user = bob, !.roles = {"guest"}]
Stray == [Alice EXCEPT !.tenant = None]

Rename == [type |-> "command", intent |-> "Rename", who |-> Alice,
           valid |-> TRUE, cached |-> "not", read |-> "cached", name |-> "it",
           nested |-> FALSE, aborted |-> FALSE, scope |-> "held"]
Show == [Rename EXCEPT !.type = "query", !.intent = "show", !.cached = "tenant"]

Of(a, b, c) == [x \in MCCalls |-> IF x = c1 THEN a ELSE IF x = c2 THEN b ELSE c]

MCTraffics ==
  {Of(Rename, Rename, [Rename EXCEPT !.nested = TRUE]),
   Of([Rename EXCEPT !.scope = "detached"], Rename, [Rename EXCEPT !.who = Bob]),
   Of(Rename, Show, [Show EXCEPT !.read = "consistent"]),
   Of(Rename, Show, [Show EXCEPT !.who = Bob]),
   Of(Show, [Show EXCEPT !.cached = "user"],
      [Show EXCEPT !.who = Bob, !.cached = "user"]),
   Of(Show, [Show EXCEPT !.who = Stray], [Show EXCEPT !.valid = FALSE]),
   Of(Show, [Show EXCEPT !.who.user = None, !.cached = "user"], Rename),
   Of([Show EXCEPT !.who = None], [Rename EXCEPT !.aborted = TRUE],
      [Rename EXCEPT !.scope = "none"]),
   Of(Show, [Show EXCEPT !.read = "bypass", !.scope = "detached"],
      [Rename EXCEPT !.intent = "lost"])}
=============================================================================
