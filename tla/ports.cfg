CONSTANTS
  Thread = {t1}
  NULL = NULL
  CounterBits = 1
  Wide = {2}
  Divides = {1}
  OutValues = {1}
  Modes = {"NOREADY", "STROBED", "HANDSHAKE"}
  NotExecuted = {"clrpt"}
  MaxOps = 2
  MaxEnv = 2
  MaxLag = 6
SPECIFICATION Spec
INVARIANTS CounterExact OutputSkipIsExact NoForgottenThread
