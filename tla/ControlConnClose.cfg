SPECIFICATION FairSpec
CONSTANTS
  Conns = {c1, c2}
  Starter = Starter
  HeartBeat = HeartBeat
  None = None
CHECK_DEADLOCK FALSE
PROPERTY CloseReturns
