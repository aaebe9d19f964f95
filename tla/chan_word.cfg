CONSTANTS
  Thread = {t1, t2}
  Chanend = {c1, c2, c3}
  NULL = NULL
  BufSize = 2
  WordLen = 2
  Disciplined = TRUE
  Interrupts = FALSE
  MaxQueue = 3
  Ops = {"getr", "outt", "outct_end", "inct", "testwct"}
  Targets = {c3}
SYMMETRY Symmetry
SPECIFICATION Spec
INVARIANT NoStrandedWordReader
CHECK_DEADLOCK FALSE
