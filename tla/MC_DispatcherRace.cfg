CONSTANTS
  t1 = t1
  t2 = t2
  t3 = t3
  NULL = NULL
  Threads <- MCThreads2
SPECIFICATION Spec
INVARIANTS ConsistentEngine
