CONSTANTS
  s1 = s1
  s2 = s2
  s3 = s3
  rd = rd
  c1 = c1
  c2 = c2
  c3 = c3
  dst = dst
  Thread = {s1, s2, s3, rd}
  Chanend = {c1, c2, c3, dst}
  NULL = NULL
  BufSize = 3
  WordLen = 2
  Disciplined = TRUE
  Interrupts = FALSE
  MaxQueue = 4
  Ops = {"getr", "setd", "eeu", "waiteu", "out", "outt", "outct_end", "in", "int", "chkct_end"}
  Targets = {NULL}
  Program <- Programs
  Loop <- Loops
  Peer <- Peers
SPECIFICATION LiveSpec
PROPERTY EveryThreadProgresses
