SPECIFICATION FairSpec
CONSTANTS
  context = context
  logger = logger
  auth = auth
  middleware = middleware
  k1 = k1
  k2 = k2
  k3 = k3
  Config = Config
  None = None
  Context = context
  Modules <- MCModules
  Priority <- MCPriority
  Requires <- MCRequires
  Optional <- MCOptional
  Callers <- MCTwoCallers
  MaxAttempts = 3
  Prompt = TRUE
CHECK_DEADLOCK FALSE
INVARIANTS
  TypeOK
  BuiltIsComplete
PROPERTIES
  DependenciesFirst
  BuildsSettle
