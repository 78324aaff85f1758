SPECIFICATION FairSpec
CONSTANTS
  a1 = a1
  a2 = a2
  a3 = a3
  None = None
  Callers <- MCCallers
  Methods <- MCMethods
  Errors <- MCErrors
  Configs <- MCConfigs
  Defaults <- MCDefaults
INVARIANTS
  TypeOK
  SentWithinBudget
  FailuresBeforeOpen
  WaitersHaveProbe
PROPERTIES
  EveryCallSettles
