SPECIFICATION FairChainSpec
CONSTANTS
  r1 = r1
  r2 = r2
  alice = alice
  bob = bob
  tenant = tenant
  address = address
  page = page
  own = own
  partner = partner
  Param = Param
  Garbled = Garbled
  Mismatch = Mismatch
  None = None
  NoKey = NoKey
  Requests <- MCRequests
  Keys <- MCKeys
  Setups <- MCSetups
  Visits <- MCVisits
  MaxRequests = 1
  Window = 2
  Caches = {"redis", "flaky", "memory"}
INVARIANTS
  TypeOK
  SlidingWindow
  HandlerIsGuarded
  AnswersAreUsable
PROPERTIES
  RefusalsAreDeserved
  EveryRequestAnswered
