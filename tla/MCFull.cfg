SPECIFICATION FairSpec
CONSTANTS
  b1 = b1
  b2 = b2
  Blocks = {b1, b2}
  Values = {v1, v2}
  Blank = Blank
  Torn = Torn
  HashOf <- IdentityHash
  NoHash = NoHash
  RemoteId = "server"
  Conns <- FourConns
  NoConn = NoConn
  NConns = 2
  SyncInterval = 2
  BinlogLimit = 3
  MaxFrames = 0
  Plan <- OverlapPlan
  Covered = {b1, b2}
  TailSend = FALSE
  Depth = 4
  Defer = 1
  ZeroRounds = 2
  MaxRounds = 3
  DrainLimit = 5
  Threshold = 1
  MaxWrites = 1
  MaxMishaps = 1
  MaxVersion = 0
  Faults = {"break", "write_error", "torn", "read_error", "crash", "sigint", "server_exit", "stale", "connect"}
INVARIANTS TypeOK AckedMatchesHash
PROPERTIES AckNeverRetracted SessionEnds AllConfirmed
