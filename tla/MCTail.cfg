SPECIFICATION FairSpec
CONSTANTS
  b1 = b1
  b2 = b2
  Blocks = {b1, b2}
  Values = {v1, v2}
  Blank = Blank
  Torn = Torn
  HashOf <- IdentityHash
  NoHash = NoHash
  RemoteId = "server"
  Conns <- ThreeConns
  NoConn = NoConn
  NConns = 2
  SyncInterval = 2
  BinlogLimit = 3
  MaxFrames = 0
  Plan <- GptPlan
  Covered = {b1}
  TailSend = TRUE
  Depth = 4
  Defer = 0
  ZeroRounds = 1
  MaxRounds = 2
  DrainLimit = 5
  Threshold = 1
  MaxWrites = 1
  MaxMishaps = 2
  MaxVersion = 1
  Faults = {"break", "read_error", "sigint", "slow", "stale", "connect"}
INVARIANTS QueueStaysShort RowIsLastSent
PROPERTIES SessionEnds
CHECK_DEADLOCK FALSE
