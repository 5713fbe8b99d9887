SPECIFICATION FairSpec
CONSTANTS
  b1 = b1
  b2 = b2
  b3 = b3
  Blocks = {b1, b2, b3}
  Values = {v1, v2}
  Blank = Blank
  Torn = Torn
  HashOf <- IdentityHash
  NoHash = NoHash
  RemoteId = "server"
  Conns <- ThreeConns
  NoConn = NoConn
  NConns = 2
  SyncInterval = 2
  BinlogLimit = 3
  MaxFrames = 0
  Source <- Uniform
  Scan <- ThreeBlocks
  Depth = 3
  Period = 3
  MaxWrites = 1
  MaxMishaps = 1
  MaxVersion = 1
  Faults = {"break", "write_error", "read_error", "crash", "connect", "server_exit", "power_loss"}
INVARIANTS BacklogBounded ConfirmedMatches
PROPERTIES PassEnds ConvergesUndisturbed
