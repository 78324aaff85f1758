SPECIFICATION FairSpec
CONSTANTS
  s1 = s1
  s2 = s2
  logger = logger
  clock = clock
  state = state
  unit = unit
  captive = captive
  loopA = loopA
  loopB = loopB
  None = None
  Root = Root
  Scopes <- OneScope
  Tokens <- LoopTokens
  Lifetime <- LoopLifetime
  Deps <- LoopDeps
  Disposable <- LoopDisposable
  Reuses <- LoopReuses
  Late <- LoopLate
  Teardown = TRUE
  MaxObjects = 4
INVARIANTS
  ReleasedOnce
PROPERTIES
  DisposalEnds
