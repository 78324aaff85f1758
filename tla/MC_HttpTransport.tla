-------------------------- MODULE MC_HttpTransport --------------------------
(* A browser that is handed two sessions, each in one piece or in two, and  *)
(* may have one of another project, in as many.                             *)
EXTENDS HttpTransport

CONSTANTS alice, bob, tenant, page, item, other, proxy, client,
          own, partner, s0, s1, s2, foreign

MCSessions == {s1, s2}
MCAccount == (s0 :> [user |-> bob, tenant |-> None]) @@
             (s1 :> [user |-> alice, tenant |-> tenant]) @@
             (s2 :> [user |-> alice, tenant |-> other])
MCGuids == {alice, bob, tenant}

\* A path, what is below it, and one page below it, which is there twice.
MCRoutes == <<[path |-> <<page, Param>>, methods |-> {"GET", "POST"}],
              [path |-> <<page, item>>, methods |-> {"POST"}],
              [path |-> <<page, item>>, methods |-> {"GET"}],
              [path |-> <<page>>, methods |-> {"POST"}]>>
MCPieceNames == <<"session.0", "session.1">>
MCForeigners == <<"foreign", "foreign.0">>
MCPieceOf == [name \in {"session.0", "session.1", "foreign.0"} |->
                IF name = "session.1" THEN 2 ELSE 1]
Token(subject, nonce) == [subject |-> subject, nonce |-> nonce]

Empty == [name \in Names |-> None]
Whole == [token |-> s0, piece |-> 1, of |-> 1]
MCJars == {Empty, [Empty EXCEPT !["csrf"] = Token(alice, 1)],
           [Empty EXCEPT !["csrf"] = Garbled, !["session"] = Whole],
           [Empty EXCEPT !["foreign"] = [Whole EXCEPT !.token = foreign]],
           [Empty EXCEPT !["foreign.0"] = [token |-> foreign, piece |-> 1, of |-> 2]]}

MCAllowed == {[wild |-> TRUE, labels |-> <<own>>], [wild |-> FALSE, labels |-> <<partner>>]}

Post == [method |-> "POST", path |-> [segments |-> <<page, item>>, slash |-> TRUE],
         origin |-> <<partner, own>>, authorization |-> None,
         csrf |-> Token(alice, 1), trusted |-> <<client, proxy>>, realIp |-> <<>>,
         socket |-> proxy, known |-> None, body |-> "binary"]
Get == [Post EXCEPT !.method = "GET", !.path.segments = <<page, other>>,
                    !.origin = None, !.csrf = None, !.trusted = <<>>,
                    !.realIp = <<client>>, !.socket = other, !.body = None,
                    !.known = [user |-> bob, tenant |-> tenant]]
MCHeads == {Post, Get, [Get EXCEPT !.authorization = s0, !.path.segments = <<page>>],
            [Post EXCEPT !.csrf = Token(alice, 2), !.origin = <<own>>, !.socket = other]}
=============================================================================
