CONSTANTS
  Thread = {t1, t2}
  Chanend = {c1, c2, c3}
  NULL = NULL
  BufSize = 2
  WordLen = 2
  Disciplined = TRUE
  Interrupts = TRUE
  MaxQueue = 3
  Ops = {"getr", "outt", "outct_end", "int", "inct"}
  Targets = {c3}
SYMMETRY Symmetry
SPECIFICATION Spec
INVARIANT RouteHeld
CHECK_DEADLOCK FALSE
