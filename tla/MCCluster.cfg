SPECIFICATION Spec
CONSTANTS
  a = a
  b = b
  n1 = n1
  n2 = n2
  r2 = r2
  None = None
  IDs <- MCIDs
  Addrs <- MCAddrs
  ConnectAddress <- MCConnectAddress
  First <- MCFirst
  Second <- MCSecond
  Flaky = {n1, n2}
  NumPools = 3
  NumWorkers = 2
  EventBufferSize = 1
  MaxTroubles = 2
CHECK_DEADLOCK FALSE
INVARIANTS AddressesExact PoolsMatchRing UpServed RingCurrent
