SPECIFICATION TransportSpec
CONSTANTS
  alice = alice
  bob = bob
  tenant = tenant
  page = page
  item = item
  other = other
  proxy = proxy
  client = client
  own = own
  partner = partner
  s0 = s0
  s1 = s1
  s2 = s2
  foreign = foreign
  None = None
  Garbled = Garbled
  Mismatch = Mismatch
  Param = Param
  Sessions <- MCSessions
  Account <- MCAccount
  Guids <- MCGuids
  Routes <- MCRoutes
  Jars <- MCJars
  Heads <- MCHeads
  AllowedOrigins <- MCAllowed
  TrustedProxies = {proxy}
  PieceNames <- MCPieceNames
  PieceOf <- MCPieceOf
  Foreigners <- MCForeigners
  WholeNames = {"session", "foreign"}
  Strange = {foreign}
  SessionNames = {"session", "oldsession"}
  WholeName = "session"
  CsrfName = "csrf"
  Dark = Dark
  MaxCookies = 4
INVARIANTS
  TypeOK
  ReadAsSent
  RepliesFollow
  SessionIsRead
