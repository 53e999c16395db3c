SPECIFICATION FairSpec
CONSTANTS
  Fillers = {f1, f2}
  Conns = {c1, c2, c3}
  Size = 2
  MaxSpawned = 1
  None = None
CHECK_DEADLOCK FALSE
INVARIANTS ConnsSound
PROPERTIES ClosedPoolDrains PoolHeals
