INIT PagingStart
NEXT SharedNext
CONSTANTS
  Procs = {p1, p2}
  NumBuckets = 2
  BucketBits = 2
  w1 = w1
  w2 = w2
  w3 = w3
  NoWriter = NoWriter
  Writers = {w1, w2, w3}
  Length <- FrameLengths
  Callers = {c1}
  Results <- MCResults
  Tables <- TupleFirst
  Quarters = {0}
  Usages <- MCUsages
CHECK_DEADLOCK FALSE
INVARIANT ScannerCopiesRow
