CONSTANTS
  Runnable = {r1, r2, r3, r4}
  NULL = NULL
  MaxTime = 2
SPECIFICATION Spec
PROPERTIES  ImplementsTimeQueue
