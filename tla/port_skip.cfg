CONSTANTS
  Thread = {t1}
  NULL = NULL
  CounterBits = 2
  Wide = {2}
  Divides = {1}
  OutValues = {1}
  Modes = {"NOREADY"}
  NotExecuted = {}
  MaxOps = 3
  MaxEnv = 0
  MaxLag = 9
SPECIFICATION Spec
INVARIANTS SkippedEdgesInvisible
