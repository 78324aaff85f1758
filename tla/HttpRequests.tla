---------------------------- MODULE HttpRequests ----------------------------
(***************************************************************************)
(* How a request is read: the route registry, the allowed origins, the     *)
(* extractors of headers, cookies and bearer tokens, the resolver of the   *)
(* client's address and the mapper of claims.  Visit(extraction, raw) is   *)
(* the request as the middlewares of HttpChain know it.                    *)
(*                                                                         *)
(* A raw request is a record: its method, path (segments, and whether it   *)
(* ends with a slash), origin (the labels of its host), authorization (a   *)
(* bearer token), cookies (in the order of the header), csrf (a token),    *)
(* trusted and realIp (the addresses listed in the two headers), socket    *)
(* (the address of the peer) and known (the claims of the caller's session *)
(* at the authentication service).  None stands for what is not there.     *)
(***************************************************************************)
EXTENDS Integers, Sequences, FiniteSetsExt

CONSTANTS
  Routes,          \* the routes of the configuration, in its order
  Param,           \* a parameter in the path of a route
  AllowedOrigins,  \* the patterns allowed: [wild, labels]
  TrustedProxies,  \* the peers whose headers are believed
  Account,         \* the claims the service authenticates a token as
  Guids,           \* the well-formed identifiers
  SessionNames,    \* the cookie names that end with the configured prefix
  WholeNames,      \* those of sessions kept in one piece, of any project
  PieceOf,         \* those of sessions kept in pieces, of any project, with
                   \* the index (from 1) that each one's name ends with
  CsrfName,        \* the cookie of the CSRF token
  None,            \* undefined
  Garbled,         \* a cookie value that cannot be decoded
  Mismatch         \* a CSRF token that is not the one in the cookie

\* Cookies of different kinds have names of their own, and what cannot be
\* decoded is not a session that the service knows.
ASSUME RequestsAssumption ==
  /\ Routes \in Seq(Range(Routes))
  /\ \A route \in Range(Routes) : route.path \in Seq(Range(route.path))
  /\ Range(PieceOf) \subseteq Nat \ {0} /\ WholeNames \cap DOMAIN PieceOf = {}
  /\ CsrfName \notin SessionNames \cup WholeNames \cup DOMAIN PieceOf
  /\ Garbled \notin DOMAIN Account

\* The members of a sequence at some places, in their order.
Nth(places, n) == CHOOSE i \in places : Cardinality({j \in places : j <= i}) = n
Picked(s, places) == [n \in 1 .. Cardinality(places) |-> s[Nth(places, n)]]

-----------------------------------------------------------------------------
(* AllowMethodRegistry                                                     *)

\* Leading and trailing slashes do not count.
Normal(path) == path.segments

IsDynamic(route) == \E i \in DOMAIN route.path : route.path[i] = Param

Matches(route, path) ==
  /\ Len(route.path) = Len(path)
  /\ \A i \in DOMAIN path : route.path[i] \in {Param, path[i]}

\* Literal routes come first, and the last one added for a path counts; of the
\* others, the first one that matches.
FirstRouteWins(path) ==
  LET those == {i \in DOMAIN Routes : Matches(Routes[i], path)}
  IN IF those # {} THEN Routes[Min(those)].methods ELSE {}
FindMethods(path) ==
  LET those == {i \in DOMAIN Routes : Matches(Routes[i], path)}
      literal == {i \in those : ~ IsDynamic(Routes[i])}
  IN IF literal # {} THEN Routes[Max(literal)].methods
     ELSE IF those # {} THEN Routes[Min(those)].methods
     ELSE {}

Check(path, method) == method \in FindMethods(Normal(path))

-----------------------------------------------------------------------------
\* AllowOrigin: "*" allows every origin, "*.suffix" those with one label more.
IsAllowed(origin) ==
  \/ origin = None
  \/ \E p \in AllowedOrigins :
       \/ p.wild /\ p.labels = <<>>
       \/ ~ p.wild /\ p.labels = origin
       \/ p.wild /\ origin # <<>> /\ Tail(origin) = p.labels

-----------------------------------------------------------------------------
(* Cookies and tokens.                                                     *)

\* The value of the first cookie that has one of these names.
FirstCookie(cookies, names) ==
  LET those == {i \in DOMAIN cookies : cookies[i].name \in names}
  IN IF those = {} THEN None ELSE cookies[Min(those)].value

\* HttpCookieExtractor
CsrfCookie(raw) ==
  LET value == FirstCookie(raw.cookies, {CsrfName})
  IN IF value = Garbled THEN None ELSE value

\* What the pieces of a session say when they are put together: they can only
\* be parsed if they are all those of one session.
Parsed(pieces) ==
  IF /\ pieces # <<>>
     /\ \A i \in DOMAIN pieces :
          pieces[i] = [token |-> pieces[1].token, piece |-> i, of |-> Len(pieces)]
    THEN pieces[1].token ELSE None

\* The last value that the header gives for one of these names.
LastCookie(cookies, names) ==
  LET those == {i \in DOMAIN cookies : cookies[i].name \in names}
  IN IF those = {} THEN None ELSE cookies[Max(those)].value

\* SupabaseSsrTokenExtractor: the last cookie that holds a session whole, or
\* else, by their index, whatever the order of the header, the pieces that come
\* last with one.  Whose sessions they are, the names do not tell it.
AsListed(cookies) ==
  LET InPieces(c) == c.name \in DOMAIN PieceOf
      listed == SelectSeq(cookies, InPieces)
  IN [i \in DOMAIN listed |-> listed[i].value]
Named(i) == {name \in DOMAIN PieceOf : PieceOf[name] = i}
Pieces(cookies) ==
  LET values == [i \in Range(PieceOf) |-> LastCookie(cookies, Named(i))]
  IN Picked(values, {i \in DOMAIN values : values[i] # None})
SsrToken(cookies) ==
  LET whole == LastCookie(cookies, WholeNames)
  IN Parsed(IF whole # None THEN <<whole>> ELSE Pieces(cookies))

\* BearerTokenExtractor: the first cookie whose name ends with the prefix.
PrefixToken(cookies) ==
  LET value == FirstCookie(cookies, SessionNames)
  IN IF value \in {None, Garbled} THEN value ELSE value.token

TokenOf(extraction, raw) ==
  IF raw.authorization # None THEN raw.authorization
  ELSE IF extraction = "ssr" THEN SsrToken(raw.cookies)
  ELSE PrefixToken(raw.cookies)

\* Looking for pieces, the extractor decodes every cookie and throws at one
\* that cannot be decoded: such a request is HttpChain's Malformed.
Readable(extraction, raw) ==
  extraction = "ssr" /\ raw.authorization = None =>
    \A i \in DOMAIN raw.cookies : raw.cookies[i].value # Garbled

-----------------------------------------------------------------------------
(* The client's address and identity.                                      *)

\* The address that the headers claim, the first of a list.
ClaimedAsListed(raw) == IF raw.trusted # <<>> THEN raw.trusted ELSE raw.realIp
Claimed(raw) ==
  LET listed == IF raw.trusted # <<>> THEN raw.trusted ELSE raw.realIp
  IN IF listed = <<>> THEN None ELSE Head(listed)

\* ClientIpResolver: headers count if there is no socket to look at, or if a
\* trusted proxy sent them.
ClientIp(raw) ==
  IF raw.socket \in TrustedProxies \cup {None} /\ Claimed(raw) # None
    THEN Claimed(raw) ELSE raw.socket

\* ClaimsIdentityMapper: what is not an identifier is dropped.
Identity(claims) ==
  LET Guid(id) == IF id \in Guids THEN id ELSE None
  IN [user |-> Guid(claims.user), tenant |-> Guid(claims.tenant)]

\* Whom the authentication service answers.
ClaimsOf(token, raw) ==
  IF token = None THEN raw.known
  ELSE IF token \in DOMAIN Account THEN Account[token] ELSE None

-----------------------------------------------------------------------------
\* The subjects of the CSRF tokens: two tokens of one user are not the same.
HeaderSubject(raw) ==
  IF raw.csrf = None THEN None
  ELSE IF raw.csrf = CsrfCookie(raw) THEN raw.csrf.subject ELSE Mismatch
CookieSubject(raw) ==
  LET token == CsrfCookie(raw) IN IF token = None THEN None ELSE token.subject

\* HttpHeaderExtractor and ContextMapper, with what the later steps make of it.
Visit(extraction, raw) ==
  LET token == TokenOf(extraction, raw)
      claims == ClaimsOf(token, raw)
  IN [origin |-> IF raw.origin = None THEN "none"
                 ELSE IF IsAllowed(raw.origin) THEN "own" ELSE "foreign",
      method |-> raw.method, path |-> raw.path,
      routed |-> Check(raw.path, raw.method),
      ip |-> ClientIp(raw), token |-> token # None,
      claims |-> IF claims = None THEN [user |-> None, tenant |-> None]
                                  ELSE Identity(claims),
      header |-> HeaderSubject(raw), cookie |-> CookieSubject(raw)]
=============================================================================
