SPECIFICATION Spec
CONSTANTS
  s1 = s1
  s2 = s2
  logger = logger
  clock = clock
  state = state
  unit = unit
  captive = captive
  loopA = loopA
  loopB = loopB
  None = None
  Root = Root
  Scopes <- MCScopes
  Tokens <- MCTokens
  Lifetime <- MCLifetime
  Deps <- MCDeps
  Disposable <- MCDisposable
  Reuses <- MCReuses
  Late <- MCLate
  Teardown = FALSE
  MaxObjects = 4
SYMMETRY MCSymmetry
INVARIANTS
  TypeOK
  CaptiveFree
  DependentsFirst
  OneInstanceEach
PROPERTIES
  NoDisposedAnswer
