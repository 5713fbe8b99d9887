SPECIFICATION FrFair
CONSTANTS
  Kinds <- MCKinds
  BodyLen <- MCBodyLen
  HeaderLen = 2
  ChunkMax = 4
  BufSize = 7
  SockBuf = 4
  RespLen = 2
  RespBuf = 3
  Batch = 1
  Payloads <- MCPayloads
  Faults = {"split"}
INVARIANTS FramesIntact NoOverflow DecodedIsSent ResponsesWhole
PROPERTIES SendEnds ImplementsChannel
