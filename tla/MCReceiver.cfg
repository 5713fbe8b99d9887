SPECIFICATION RSpec
CONSTANTS
  Conns = {0, 1}
  Blocks = {b1, b2}
  Values = {v1}
  Blank = Blank
  Torn = Torn
  HashOf <- IdentityHash
  SyncInterval = 2
  BinlogLimit = 3
  MaxFrames = 2
  Faults = {"break", "write_error", "torn", "server_exit", "power_loss"}
INVARIANTS AckMeansWritten DoneCoversAcks
