SPECIFICATION FairSpec
CONSTANTS
  p1 = p1
  p2 = p2
  s1 = s1
  s2 = s2
  Procs <- MCProcs
  Stmts <- MCStmts
  Works <- MCWorks
  NumFlights = 3
  MaxEntries = 1
  MaxID = 2
  MaxMeta = 2
  MaxFaults = 2
CHECK_DEADLOCK FALSE
INVARIANTS CachedIsPrepared RowsDecoded
PROPERTY ExecutionsEnd
