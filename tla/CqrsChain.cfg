SPECIFICATION FairSpec
CONSTANTS
  c1 = c1
  c2 = c2
  c3 = c3
  alice = alice
  bob = bob
  tenant = tenant
  None = None
  Calls <- MCCalls
  Traffics <- MCTraffics
  Setups <- MCSetups
  Policies <- MCPolicies
  EmptyFlags <- MCEmptyFlags
  Lower <- MCLower
  Registered <- MCRegistered
  MaxRetries = 3
INVARIANTS
  TypeOK
  HandlerIsCleared
  EffectsBounded
  AnswersAreSound
  FailuresAreDeserved
PROPERTIES
  EveryCallAnswered
CHECK_DEADLOCK FALSE
