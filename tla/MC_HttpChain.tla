---------------------------- MODULE MC_HttpChain ----------------------------
(* Two requests, each any of eight, in four deployments.                   *)
EXTENDS HttpChain, TLC

CONSTANTS r1, r2, alice, bob, tenant, address, page, own, partner,
          Param, Garbled, Mismatch

MCRequests == {r1, r2}
MCSetups == {Features, {"cors", "routes", "limit"}, {"options", "auth", "csrf"},
             {"routes"}}

Alice == [user |-> alice, tenant |-> tenant]
Bob == [user |-> bob, tenant |-> partner]   \* his tenant is not an identifier

\* The sites of the application are those below own; tokens are users' names.
Http == INSTANCE HttpRequests WITH
  Routes <- <<[path |-> <<Param>>, methods |-> {"GET", "POST"}]>>,
  AllowedOrigins <- {[wild |-> TRUE, labels |-> <<own>>]},
  TrustedProxies <- {}, Account <- (alice :> Alice) @@ (bob :> Bob),
  Guids <- {alice, bob, tenant}, SessionNames <- {"session"},
  WholeNames <- {"session"}, PieceOf <- <<>>, CsrfName <- "csrf"

Path == [segments |-> <<page>>, slash |-> FALSE]
Signed(user) == [subject |-> user, nonce |-> 1]
Cookie(user) == <<[name |-> "csrf", value |-> Signed(user)]>>

\* What Alice posts from a page of the application.
Post == [origin |-> <<page, own>>, method |-> "POST", path |-> Path,
         socket |-> None, trusted |-> <<address>>, realIp |-> <<>>,
         authorization |-> alice, known |-> None,
         csrf |-> Signed(alice), cookies |-> Cookie(alice)]
Get == [Post EXCEPT !.method = "GET", !.authorization = None, !.known = Alice,
                    !.csrf = None, !.cookies = <<>>]

MCVisits == {Http!Visit("bearer", raw) : raw \in
  {Post, Get,
   [Get EXCEPT !.method = "POST"],            \* no CSRF token yet
   [Post EXCEPT !.authorization = bob],       \* a cookie of who was there before
   [Post EXCEPT !.origin = <<partner>>],
   [Post EXCEPT !.authorization = None],
   [Get EXCEPT !.method = "OPTIONS", !.known = None],
   [Get EXCEPT !.origin = None, !.known = None, !.trusted = <<>>]}}

MCKeys == {<<tenant, alice, Path>>, <<None, bob, Path>>, <<None, address, Path>>}
=============================================================================
