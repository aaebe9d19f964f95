CONSTANTS
  Thread = {t1, t2}
  Chanend = {c1, c2}
  NULL = NULL
  BufSize = 1
  WordLen = 1
  Disciplined = FALSE
  Interrupts = TRUE
  MaxQueue = 2
  Ops = {"getr", "freer", "setd", "outct_ack", "outct_end", "outct_pause", "inct"}
  Targets = {c2, NULL}
SYMMETRY Symmetry
SPECIFICATION Spec
INVARIANTS RouteOwned FreedIsIdle
CHECK_DEADLOCK FALSE
