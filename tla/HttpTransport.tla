--------------------------- MODULE HttpTransport ----------------------------
(***************************************************************************)
(* The requests of a browser, one after the other, on their way to the     *)
(* middlewares and back, where the session of the user is kept in cookies. *)
(* An adapter hands the request of the host framework on, and repeats what *)
(* happens to the cookies of the response on the reply of the framework.   *)
(* The cookie handler gives the authentication client the cookies of the   *)
(* request and adds those it sets to the response.                         *)
(*                                                                         *)
(* The browser is external, and so is the authentication client: when it   *)
(* renews a session it sets the cookies of the new one and removes those   *)
(* of the old one that the request bore.                                   *)
(***************************************************************************)
EXTENDS HttpRequests, SequencesExt

CONSTANTS
  Heads,       \* what a browser may send, but for its cookies
  Jars,        \* the cookies it may have at first
  WholeName,   \* the cookie of a session kept in one piece
  PieceNames,  \* the cookies of one kept in pieces, by their index
  Foreigners,  \* those of the sessions of other projects, as they are listed
  Strange,     \* the tokens of such sessions
  Sessions,    \* the tokens of the sessions the service may open
  Dark,        \* a value of a cookie of somebody else
  MaxCookies   \* bound on the cookies of a response

Theme == "theme"   \* the cookie of somebody else
SessionCookies == {WholeName} \cup Range(PieceNames)
Foreign == (WholeNames \cup DOMAIN PieceOf) \ SessionCookies
Names == {CsrfName, Theme} \cup SessionCookies \cup Foreign

\* The values of a cookie that keeps a session, or a piece of one.
SessionValues == [token : Sessions \cup Strange \cup DOMAIN Account,
                  piece : 1 .. Len(PieceNames), of : 1 .. Len(PieceNames)]
Addresses == UNION {Range(h.trusted) \cup Range(h.realIp) \cup {h.socket} : h \in Heads}

ASSUME TransportAssumption ==
  /\ MaxCookies \in Nat \ {0} /\ None \notin Sessions \cup SessionValues
  /\ WholeName \in WholeNames
  /\ PieceNames \in Seq(DOMAIN PieceOf) /\ Range(PieceOf) = DOMAIN PieceNames
  /\ \A i \in DOMAIN PieceNames : PieceOf[PieceNames[i]] = i
  /\ Foreigners \in Seq(Foreign) /\ Range(Foreigners) = Foreign
  /\ Theme \notin SessionNames \cup SessionCookies \cup Foreign \cup {CsrfName}
  /\ \A had \in Jars :
       /\ DOMAIN had = Names
       /\ \A name \in SessionCookies \cup Foreign :
            had[name] \in SessionValues \cup {None, Garbled}
       /\ had[CsrfName] \in {None, Garbled} \/ had[CsrfName].subject # Mismatch
  /\ \A head \in Heads :
       /\ DOMAIN head = {"method", "path", "origin", "authorization", "csrf",
                         "trusted", "realIp", "socket", "known", "body"}
       /\ head.path.segments \in Seq(Range(head.path.segments) \ {Param})
       /\ head.trusted \in Seq(Addresses) /\ head.realIp \in Seq(Addresses)

VARIABLES
  deployment,  \* its adapter and its extractor of tokens
  jar,         \* the cookies of the browser
  flight,      \* the request on its way, and the cookies set in answer to it
  current      \* the session last handed to the browser

vars == <<deployment, jar, flight, current>>

-----------------------------------------------------------------------------
(* Adapters.                                                               *)

\* HttpAdapterModule: a custom adapter comes after those that are built in; it
\* is the application's, and may do as the native one.
AdapterOf(options) ==
  IF "vercel" \in options THEN "vercel"
  ELSE IF "fastify" \in options THEN "fastify"
  ELSE "native"

\* parseBody: a request that may not have a body has none, and what is neither
\* a string nor a number is made JSON of, which keeps nothing of binary data.
BodyOf(method, body) ==
  IF method \notin {"POST", "PUT", "PATCH", "DELETE"} THEN None
  ELSE IF body = "binary" THEN "emptyObject" ELSE body

\* The built-in adapters make a request of their own, without a socket.
HasReply == deployment.adapter \in {"vercel", "fastify"}
Adapted(head) ==
  [head EXCEPT !.body = IF HasReply THEN BodyOf(head.method, @) ELSE @,
               !.socket = IF HasReply THEN None ELSE @]

\* handleHeaderChange, for Set-Cookie: the reply follows the response.
SetLikeOthers(reply, cookie) == <<cookie>>
Appended(reply, cookie) == Append(reply, cookie)
Replaced(reply, cookie) == <<cookie>>
Deleted(reply) == <<>>

\* What the framework sends.
Sent(f) == IF HasReply THEN f.reply ELSE f.response

-----------------------------------------------------------------------------
(* CookieHandler.                                                          *)

\* getAll
GetAll(raw) == raw.cookies

\* setAll: what was set before is read, deleted and set again.
SetAll(f, cookies) ==
  LET all == f.response \o cookies
  IN [f EXCEPT !.response = all,
               !.reply = IF HasReply THEN FoldLeft(Appended, Deleted(@), all) ELSE @]

-----------------------------------------------------------------------------
Flight(stage, raw, own) ==
  [stage |-> stage, raw |-> raw, response |-> <<>>, reply |-> own, own |-> own,
   session |-> None]
Idle == Flight("idle", None, <<>>)

\* The header lists the cookies of the browser, in one order or in the other.
Listed(had, names) ==
  LET all == [i \in DOMAIN names |-> [name |-> names[i], value |-> had[names[i]]]]
  IN Picked(all, {i \in DOMAIN all : all[i].value # None})
AllNames == <<WholeName, CsrfName, Theme>> \o PieceNames \o Foreigners

\* The cookies that keep a session in n pieces.
Kept(token, n) ==
  LET Value(i) == [token |-> token, piece |-> i, of |-> n]
  IN IF n = 1 THEN <<[name |-> WholeName, value |-> Value(1)]>>
     ELSE [i \in 1 .. n |-> [name |-> PieceNames[i], value |-> Value(i)]]
Removed(cookies, kept) ==
  LET Stale(c) == /\ c.name \in SessionCookies
                  /\ \A i \in DOMAIN kept : kept[i].name # c.name
      stale == Picked(cookies, {i \in DOMAIN cookies : Stale(cookies[i])})
  IN [i \in DOMAIN stale |-> [name |-> stale[i].name, value |-> None]]

\* What a browser has after it was sent these: of each name the last.
Keeping(had, cookies) ==
  [name \in DOMAIN had |->
     IF \E i \in DOMAIN cookies : cookies[i].name = name
       THEN LastCookie(cookies, {name}) ELSE had[name]]

TransportInit ==
  /\ deployment \in [adapter : {AdapterOf(o) : o \in SUBSET {"vercel", "fastify"}},
                     extraction : {"bearer", "ssr"}]
  /\ jar \in Jars
  /\ flight = Idle
  /\ current = None

Is(stage) == flight.stage = stage
Served == Is("open") /\ Readable(deployment.extraction, flight.raw)
Handles(f) == flight' = f /\ UNCHANGED <<deployment, jar, current>>

\* A request, and the cookie the framework may have set on its own reply.
RequestOf(head, names) ==
  [f \in DOMAIN head \cup {"cookies"} |->
     IF f = "cookies" THEN Listed(jar, names) ELSE Adapted(head)[f]]
Send(head, names, own) ==
  /\ Is("idle")
  /\ Handles(Flight("open", RequestOf(head, names), own))

\* The authentication client renews the session, once in a request.
Renew(token, n) ==
  /\ Served /\ flight.session = None
  /\ LET kept == Kept(token, n)
         cookies == kept \o Removed(GetAll(flight.raw), kept)
     IN /\ Len(flight.response) + Len(cookies) <= MaxCookies
        /\ Handles([SetAll(flight, cookies) EXCEPT !.session = token])

\* The application sets a cookie on the response.
Adds(cookie) ==
  /\ Served /\ Len(flight.response) < MaxCookies
  /\ Handles([flight EXCEPT
       !.response = Append(@, cookie),
       !.reply = IF HasReply THEN Appended(@, cookie) ELSE @])
Replaces(cookie) ==
  /\ Served
  /\ Handles([flight EXCEPT
       !.response = <<cookie>>, !.session = None,
       !.reply = IF HasReply THEN Replaced(@, cookie) ELSE @])

\* The browser gets the answer, or it does not.
Deliver ==
  /\ Is("open")
  /\ jar' = Keeping(jar, Sent(flight))
  /\ current' = IF flight.session # None THEN flight.session ELSE current
  /\ flight' = Idle
  /\ UNCHANGED deployment
Lose == Is("open") /\ Handles(Idle)

ThemeCookies == {[name |-> Theme, value |-> v] : v \in {Dark, Garbled}}

TransportNext ==
  \/ \E head \in Heads, names \in {AllNames, Reverse(AllNames)},
        own \in {<<>>} \cup (IF HasReply THEN {<<c>> : c \in ThemeCookies} ELSE {}) :
       Send(head, names, own)
  \/ \E token \in Sessions, n \in 1 .. Len(PieceNames) : Renew(token, n)
  \/ \E cookie \in ThemeCookies : Adds(cookie) \/ Replaces(cookie)
  \/ Deliver \/ Lose

TransportSpec == TransportInit /\ [][TransportNext]_vars

-----------------------------------------------------------------------------
TheVisit == Visit(deployment.extraction, flight.raw)

Cookies == [name : Names, value : (UNION {Range(j) : j \in Jars}) \cup SessionValues
                                  \cup {None, Dark, Garbled}]

\* Every request that can be read is a visit of the kind HttpChain expects, and
\* every response has a bounded number of cookies.
TypeOK ==
  /\ \A name \in Names : [name |-> name, value |-> jar[name]] \in Cookies
  /\ current \in Sessions \cup {None}
  /\ flight.stage \in {"idle", "open"}
  /\ Range(flight.response) \cup Range(flight.reply) \subseteq Cookies
  /\ Len(flight.response) <= MaxCookies
  /\ Served =>
       /\ TheVisit.ip \in Addresses \cup {None}
       /\ TheVisit.claims \in [user : Guids \cup {None}, tenant : Guids \cup {None}]
       /\ TheVisit.origin \in {"none", "own", "foreign"}

\* The middlewares see the request that was sent: a path that routes are
\* written out for is answered for by the last of them; headers only say where
\* a request comes from if a trusted peer sent them; a user is named by
\* credentials that are in the request, or that the service keeps; and a CSRF
\* token only counts if the request bore it twice.
ReadAsSent ==
  Served =>
    LET raw == flight.raw
        v == TheVisit
        values == {c.value : c \in Range(raw.cookies)}
        tokens == {raw.authorization} \cup {c.token : c \in values \cap SessionValues}
        written == {i \in DOMAIN Routes : Routes[i].path = raw.path.segments}
    IN /\ \A i \in written :
            (\A j \in written : j <= i) => (v.routed <=> v.method \in Routes[i].methods)
       /\ v.routed => \E route \in Range(Routes) :
            v.method \in route.methods /\ Len(route.path) = Len(raw.path.segments)
       /\ raw.socket \notin TrustedProxies \cup {None} => v.ip = raw.socket
       /\ v.claims.user # None =>
            \E claims \in {raw.known} \cup {Account[t] : t \in tokens \cap DOMAIN Account} :
              claims # None /\ claims.user = v.claims.user
       /\ v.header = v.cookie /\ v.cookie # None => raw.csrf \in values

\* The cookies that the application set on the response are on the reply of the
\* framework, once each and in the same order, after those that the framework
\* had set itself if any of these are left.
RepliesFollow ==
  HasReply => flight.reply \in {flight.response, flight.own \o flight.response}

\* A browser is known by the session it was last handed, in however many pieces
\* it is and those before it were kept, and whatever answers were lost, if the
\* cookies that it has of other projects are only pieces of sessions and its own
\* session is whole.  Whatever they are, it is never known by an older session.
SessionIsRead ==
  Served /\ deployment.extraction = "ssr" /\ flight.raw.authorization = None
  /\ current # None
    => LET token == TokenOf("ssr", flight.raw)
           cookies == Range(flight.raw.cookies)
           others == {c \in cookies : c.name \in Foreign}
           whole == \E c \in cookies : c.name = WholeName
       IN /\ token \in {current, None} \cup {c.value.token : c \in others}
          /\ (\A c \in others : whole /\ c.name \notin WholeNames)
               => token = current

-----------------------------------------------------------------------------
(* Why the session is read.                                                *)

\* These are the cookies of the session, in some number of pieces, and no more.
KeepsSession(had, token) ==
  \E n \in 1 .. Len(PieceNames) :
    LET kept == Kept(token, n)
    IN \A name \in SessionCookies :
         \/ \E i \in DOMAIN kept : kept[i] = [name |-> name, value |-> had[name]]
         \/ had[name] = None /\ \A i \in DOMAIN kept : kept[i].name # name

\* The browser keeps the session it was handed last, and nothing else where the
\* cookies of a session are; the application leaves its CSRF token alone.
JarKept ==
  /\ DOMAIN jar = Names
  /\ \A name \in SessionCookies \cup Foreign :
       jar[name] \in SessionValues \cup {None, Garbled}
  /\ \E had \in Jars : jar[CsrfName] = had[CsrfName]
  /\ current # None => KeepsSession(jar, current)

\* The request on its way bears the cookies of the browser, and the answer to
\* it leaves the browser with the session it hands out, if it does.
FlightKept ==
  /\ Is("open") =>
       \E head \in Heads, names \in {AllNames, Reverse(AllNames)} :
         flight.raw = RequestOf(head, names)
  /\ {flight.response, flight.own} \subseteq Seq(Cookies)
  /\ flight.session \in Sessions \cup {None}
  /\ \A c \in Range(flight.own) : c.name = Theme
  /\ \A c \in Range(flight.response) : c.name \notin Foreign \cup {CsrfName}
  /\ IF flight.session = None
       THEN \A c \in Range(flight.response) : c.name = Theme
       ELSE KeepsSession(Keeping(jar, flight.response), flight.session)
=============================================================================
