CONSTANTS
  t1 = t1
  t2 = t2
  t3 = t3
  NULL = NULL
  Threads <- MCThreads1
SPECIFICATION Spec
INVARIANTS EngineRuns
