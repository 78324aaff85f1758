SPECIFICATION Spec
CONSTANTS
  c1 = c1
  c2 = c2
  c3 = c3
  c4 = c4
  r1 = r1
  r2 = r2
  NoCall = NoCall
  Calls <- MCCalls
  Requests <- MCRequests
  RequestOf <- MCRequestOf
  LockTTL = 2
  ProcessedTTL = 2
  Faults <- Crashes
INVARIANTS
  TypeOK
  NoReprocessing
PROPERTIES
  ImplementsLedger
