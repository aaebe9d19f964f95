CONSTANTS
  Bits = 4
  ByteBits = 1
  wide = wide
  branch = branch
  Size = 4
  Values = {wide, branch}
  Wide = {wide}
  Branching = {branch}
  Custom = {}
  Target = 0
  Hot = {0}
  Programs <- MCPrograms
  MaxEdits = 2
  Timer = {1, 2}
  TickBits = 4
  CYCLES_PER_TICK = 2
  StartTimes = {30}
  EndTime = 34
  Ahead = {0}
  RamWords = 32
  StackTop = 1
  KernelTop = 31
  KCallEntry = 4
  StartPc = 40
  Targets = {88, 200}
  FrameSizes = {0, 2}
  MaxMoves = 3
  BufSize = 4
  Kinds = {0, 1}
  UnsignedMod = 16
SPECIFICATION CoreSpec
INVARIANTS
    CallsAndTrapsReturn
   BitOperationsExact
   TimersOnTime RingIsQueue
PROPERTY LongArithmeticExact
CHECK_DEADLOCK FALSE
