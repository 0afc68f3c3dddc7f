CONSTANTS
  Threads = {t1, t2, t3}
  Destroyer = destroyer
  MaxClients = 2
  MaxCommands = 1
  MaxCalls = 5
  MaxThrows = 1
SPECIFICATION FairSpec
INVARIANTS TypeOK PoolBound NotShared OpenAreKnown PermitsKept
PROPERTIES GetClientReturns DrainCloses
CHECK_DEADLOCK FALSE
