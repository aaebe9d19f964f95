CONSTANTS
  Thread = {t1, t2}
  Chanend = {c1, c2, c3}
  NULL = NULL
  BufSize = 2
  WordLen = 2
  Disciplined = TRUE
  Interrupts = FALSE
  MaxQueue = 3
  Ops = {"getr","out", "outt","outct_end","int","inct", "edu", "clre","in","waiteu","eeu"}
  Targets = {c3}
SYMMETRY Symmetry
SPECIFICATION Spec
INVARIANTS PacketsContiguous NoOverflow NoStrandedSender NoStrandedReader NoMissedEvent RouteHeld
CHECK_DEADLOCK FALSE
