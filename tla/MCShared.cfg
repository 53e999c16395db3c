SPECIFICATION SharedSpec
CONSTANTS
  Procs = {p1, p2}
  NumBuckets = 2
  BucketBits = 2
  w1 = w1
  w2 = w2
  w3 = w3
  NoWriter = NoWriter
  Writers = {w1, w2, w3}
  Length <- FrameLengths
  Callers = {c1, c2, c3}
  Results <- MCResults
  Tables <- MCTables
  Quarters = {0, 1, 3, 4}
  Usages <- MCUsages
CHECK_DEADLOCK FALSE
INVARIANTS ExclusiveStreams AvailableExact FullOnlyIfAllSeen FreshResult RowsExact
PROPERTIES LockFree ImplementsAllocator ImplementsContextWriter AllReturn RequestsServed PagingEnds
