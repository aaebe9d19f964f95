CONSTANTS
  Timer = {1}
  TickBits = 4
  CYCLES_PER_TICK = 2
  StartTimes = {1}
  EndTime = 15
  Ahead = {5}
SPECIFICATION TimersSpec
INVARIANT TimersOnTime
CHECK_DEADLOCK FALSE
