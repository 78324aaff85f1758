SPECIFICATION Spec
CONSTANTS
  q1 = q1
  q2 = q2
  t1 = t1
  t2 = t2
  t3 = t3
  t4 = t4
  NoRun = NoRun
  Requests <- MCRequests
  Runs <- MCRuns
  RequestOf <- MCRequestOf
  Overlapping <- MCCareless
  Detached <- MCCareless
CHECK_DEADLOCK FALSE
INVARIANTS
  AllOrNothing
  StateNamesRunning
