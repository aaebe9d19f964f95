CONSTANTS
  Thread = {main, t1, t2}
  Main = main
  NULL = NULL
  Interruptible = {"code", "msync", "mjoin", "ssync"}
  MaxInterrupts = 2
  MaxQueue = 3
SPECIFICATION FairSpec
INVARIANTS SomeoneRuns GroupConsistent LockHeld
PROPERTIES BarrierTogether LockGranted
