CONSTANTS
  BitTime = 16
  TxBitTimes = {15, 16, 17}
  DataBits = 3
  MaxFrames = 3
  ByteLen = 2
  AddrBytes = 1
  Image <- MCImage
  ReadCmd <- MCReadCmd
  MaxEdges = 18
  ColumnBits = 2
  Rows = {0, 1}
  Banks = {0}
  BurstLengths = {0, 2}
  Latencies = {2, 3}
  EdgeMod = 4
  MaxBeats = 5
  ByteWidth = 2
  E0 <- MCE0
  F0 <- MCF0
  Plain <- MCPlain
  Extended <- MCExtended
  Grave <- MCGrave
  PauseCode <- MCPauseCode
  PrintScreenCode <- MCPrintScreenCode
  PrintScreenUp <- MCPrintScreenUp
  MaxEvents = 2
  Width = 2
  Height = 2
  FrameLines = 3
  LineWidth = 3
  MinHorizontal = 2
  MinVertical = 4
  HorizontalBlank = {2, 3}
  VerticalBlank = {4, 5}
  MaxFramesShown = 2
  Frames <- MCFrames
  MinFrameSize = 3
  InterframeGap = 3
  NibbleBits = 2
  SFD1 = 2
  SFD2 = 3
  MaxNetFrames = 3
  MaxErrors = 1
  ShiftBits = 7
  AddrBits = 1
  RegBits = 3
  Nodes = {1, 2, 3}
  Links = {0, 1}
  Cable <- MCCable
  NodeBits = 2
  LeapCount = 2
  RegValues = {0, 1, 2}
  MaxPackets = 2
  StartIDs <- MCStartIDs
  MaxFds = 8
  MaxOpens = 2
  XEs <- MCXEs
  PortWidth <- MCPortWidth
  WireOrders <- MCWireOrders
  HalfPeriods = {1, 2}
SPECIFICATION DevicesSpec
INVARIANTS
  UartReceives FlashFollowsProtocol SdramBursts KeyboardKeepsBytes 
  LoopbackDelivers SmiInStep PinsFollow RoutesSound 
  FilesDistinct 
CHECK_DEADLOCK FALSE
