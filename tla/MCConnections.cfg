SPECIFICATION CFair
CONSTANTS
  Size = 2
  MaxConnections = 2
  MaxSessions = 3
  Fds = {1, 2, 3}
  SockBuf = 2
INVARIANTS CountExact TableExact
PROPERTIES RefusedOnlyForTheDead SentIsRead DeadSessionRemoved EveryConnUsed
CHECK_DEADLOCK FALSE
